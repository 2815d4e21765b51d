------------------------- MODULE VerificationProofs -------------------------
(***************************************************************************)
(* What holds of the reports of module Verification for any requests, any   *)
(* bounds, faults and thresholds, and any list of public suffixes.          *)
(***************************************************************************)
EXTENDS Verification, TLAPS, FiniteSetTheorems, SequenceTheorems, WellFoundedInduction

\* What a report says goes back to the request it answers.
VerifiedFrom(ins, v) ==
    \E issues : /\ DiversityIssues(ins, request.target) \subseteq issues
                /\ "no_sources" \in Codes(issues) => ins.sources = << >>
                /\ v.suggested = Suggested(ins, issues)

ReportFrom ==
    /\ request \in Requests
    /\ report # None =>
          /\ report.contradictions = Contradictions(request.insights)
          /\ \A i \in DOMAIN request.insights :
                VerifiedFrom(request.insights[i], report.verifications[i])

LEMMA IssuesAreOfTheRequest ==
    ASSUME NEW ins, NEW gone
    PROVE  /\ DiversityIssues(ins, request.target) \subseteq IssuesOf(ins, gone)
           /\ "no_sources" \in Codes(IssuesOf(ins, gone)) => ins.sources = << >>
<1>1. DiversityIssues(ins, request.target) \subseteq IssuesOf(ins, gone)
  BY DEF IssuesOf
<1>2. \A i \in SanityIssues(ins) : i.code # "no_sources"
  BY VerificationAssumption DEF SanityIssues, Issue
<1>3. \A i \in UrlIssues(ins, gone) : i.code # "no_sources"
  BY DEF UrlIssues, Issue
<1>4. \A i \in DiversityIssues(ins, request.target) : i.code = "no_sources" => ins.sources = << >>
  <2> SUFFICES ASSUME ins.sources # << >>, NEW i \in DiversityIssues(ins, request.target)
               PROVE  i.code # "no_sources"
    OBVIOUS
  <2>1. PICK rule \in {"single_source_domain", "self_citation_only"} : i = Issue("warning", rule, 0)
    BY DEF DiversityIssues
  <2> QED
    BY <2>1 DEF Issue
<1> QED
  BY <1>1, <1>2, <1>3, <1>4 DEF IssuesOf, Codes

LEMMA AnswerStep ==
    ASSUME ReportFrom, NEW gone, Answer(gone)
    PROVE  ReportFrom'
<1>1. request' = request /\ (report' = None \/ report' = Report(gone))
  BY DEF Answer
<1>2. ASSUME report' = Report(gone)
      PROVE  /\ report'.contradictions = Contradictions(request.insights)
             /\ \A i \in DOMAIN request.insights :
                   VerifiedFrom(request.insights[i], report'.verifications[i])
  <2>1. report'.contradictions = Contradictions(request.insights)
    BY <1>2 DEF Report
  <2>2. \A i \in DOMAIN request.insights :
           report'.verifications[i] = Verified(request.insights[i], gone)
    BY <1>2 DEF Report
  <2>3. ASSUME NEW i \in DOMAIN request.insights
        PROVE  VerifiedFrom(request.insights[i], report'.verifications[i])
    <3> DEFINE ins == request.insights[i]
    <3>1. report'.verifications[i] = Verified(ins, gone)
      BY <2>2
    <3>2. Verified(ins, gone).suggested = Suggested(ins, IssuesOf(ins, gone))
      BY DEF Verified
    <3> QED
      BY <3>1, <3>2, IssuesAreOfTheRequest DEF VerifiedFrom
  <2> QED
    BY <2>1, <2>3
<1>3. \A ins, v : VerifiedFrom(ins, v)' <=> VerifiedFrom(ins, v)
  BY <1>1 DEF VerifiedFrom
<1> QED
  BY <1>1, <1>2, <1>3 DEF ReportFrom, VerifiedFrom

LEMMA ReportStep == ReportFrom /\ [Next]_vars => ReportFrom'
<1> SUFFICES ASSUME ReportFrom, [Next]_vars PROVE ReportFrom'
  OBVIOUS
<1>1. ASSUME NEW gone, Answer(gone) PROVE ReportFrom'
  BY <1>1, AnswerStep
<1>2. CASE UNCHANGED <<request, report>>
  BY <1>2 DEF ReportFrom, VerifiedFrom
<1> QED
  BY <1>1, <1>2 DEF Next, Start, UrlsChecked, UrlsRaise, Fail, vars

LEMMA ReportInit == Init => ReportFrom
  BY DEF Init, ReportFrom
----------------------------------------------------------------------------
(* Types. *)

LEMMA InsightOfRequest ==
    ASSUME request \in Requests, NEW i \in DOMAIN request.insights
    PROVE  LET ins == request.insights[i]
           IN  /\ ins \in ToSet(request.insights)
               /\ ins.confidence \in Confidence
               /\ ins.sources \in Seq(ToSet(ins.sources))
               /\ ins.facts \in Seq(ToSet(ins.facts))
               /\ \A k \in DOMAIN ins.facts : ins.facts[k].value \in Nat
<1>1. request.insights[i] \in ToSet(request.insights)
  BY DEF ToSet
<1> QED
  BY <1>1, VerificationAssumption

LEMMA VerifiedType ==
    ASSUME request \in Requests, NEW i \in DOMAIN request.insights, NEW gone
    PROVE  Verified(request.insights[i], gone) \in [issues : SUBSET Issues, suggested : Confidence]
<1> DEFINE ins == request.insights[i]
<1>1. /\ ins.confidence \in Confidence
      /\ DOMAIN ins.sources \subseteq Nat /\ DOMAIN ins.facts \subseteq Nat
      /\ \A k \in DOMAIN ins.facts : ins.facts[k].value \in Nat
  BY InsightOfRequest
<1> HIDE DEF ins
<1>2. DiversityIssues(ins, request.target) \subseteq Issues
  <2> SUFFICES ASSUME NEW x \in DiversityIssues(ins, request.target) PROVE x \in Issues
    OBVIOUS
  <2>1. \/ x = Issue("error", "no_sources", 0)
        \/ \E rule \in {"single_source_domain", "self_citation_only"} :
              x = Issue("warning", rule, 0)
    BY DEF DiversityIssues
  <2> QED
    BY <2>1 DEF Issue, Issues
<1>3. SanityIssues(ins) \subseteq Issues
  <2> SUFFICES ASSUME NEW x \in SanityIssues(ins) PROVE x \in Issues
    OBVIOUS
  <2>1. PICK f \in ToSet(ins.facts) : /\ f.metric \in DOMAIN Bounds
                                      /\ x = Issue("warning", f.metric, f.value)
    BY DEF SanityIssues
  <2>2. f.value \in Nat
    BY <1>1, <2>1 DEF ToSet
  <2> QED
    BY <2>1, <2>2 DEF Issue, Issues
<1>4. UrlIssues(ins, gone) \subseteq Issues
  BY <1>1 DEF UrlIssues, Issue, Issues
<1>5. IssuesOf(ins, gone) \in SUBSET Issues
  BY <1>2, <1>3, <1>4 DEF IssuesOf
<1>6. Suggested(ins, IssuesOf(ins, gone)) \in Confidence
  BY <1>1 DEF Suggested, Confidence
<1> QED
  BY <1>5, <1>6 DEF Verified, ins

LEMMA ReportType ==
    ASSUME request \in Requests, NEW gone
    PROVE  /\ Report(gone) \in Reports
           /\ DOMAIN Report(gone).verifications = DOMAIN request.insights
<1> DEFINE n == Len(request.insights)
           S == [issues : SUBSET Issues, suggested : Confidence]
           all == [i \in DOMAIN request.insights |-> Verified(request.insights[i], gone)]
<1>1. n \in Nat /\ DOMAIN request.insights = 1..n
  BY VerificationAssumption
<1>2. all \in Seq(S)
  <2>1. \A i \in 1..n : Verified(request.insights[i], gone) \in S
    BY <1>1, VerifiedType
  <2>2. all \in [1..n -> S]
    BY <1>1, <2>1
  <2> QED
    BY <1>1, <2>2
<1>3. Contradictions(request.insights) \subseteq (Nat \X Nat) \X (Nat \X Nat)
  <2> DEFINE observed == UNION {{<<i, k>> : k \in DOMAIN request.insights[i].facts} :
                                   i \in DOMAIN request.insights}
  <2>1. ASSUME NEW i \in DOMAIN request.insights PROVE DOMAIN request.insights[i].facts \subseteq Nat
    BY <2>1, InsightOfRequest
  <2>2. observed \subseteq Nat \X Nat
    BY <1>1, <2>1
  <2>3. Contradictions(request.insights) \subseteq observed \X observed
    BY DEF Contradictions, Compared, Observed
  <2> QED
    BY <2>2, <2>3
<1>4. Report(gone) = [verifications |-> all, contradictions |-> Contradictions(request.insights)]
  BY DEF Report
<1> HIDE DEF all
<1>5. Report(gone) \in Reports
  BY <1>2, <1>3, <1>4 DEF Reports
<1>6. DOMAIN all = DOMAIN request.insights
  BY DEF all
<1> QED
  BY <1>4, <1>5, <1>6

\* A report that is made is no None.
LEMMA ReportMade ==
    ASSUME request \in Requests, NEW gone
    PROVE  Report(gone) # None
  BY ReportType, NoneAssumption

\* Reports cover their request, with suggestions out of the three levels.
THEOREM TypeCorrect == Spec => []TypeOK
<1>1. Init => TypeOK
  BY DEF Init, TypeOK, Stages
<1>2. TypeOK /\ [Next]_vars => TypeOK'
  <2> SUFFICES ASSUME TypeOK, [Next]_vars PROVE TypeOK'
    OBVIOUS
  <2>1. ASSUME NEW gone \in SUBSET Cited, Answer(gone) PROVE TypeOK'
    <3>1. /\ UNCHANGED <<request, file>> /\ at' = "answered" /\ dead' = gone
          /\ report' = None \/ report' = Report(gone)
      BY <2>1 DEF Answer
    <3>2. /\ Report(gone) \in Reports
          /\ DOMAIN Report(gone).verifications = DOMAIN request.insights
      BY ReportType DEF TypeOK
    <3>3. Cited' = Cited
      BY <3>1 DEF Cited
    <3> QED
      BY <2>1, <3>1, <3>2, <3>3 DEF TypeOK, Stages
  <2>2. CASE UNCHANGED <<request, file, dead, report>> /\ at' \in Stages
    BY <2>2 DEF TypeOK, Cited
  <2> QED
    BY <2>1, <2>2 DEF Next, Start, UrlsChecked, UrlsRaise, Fail, vars, TypeOK, Stages
<1> QED
  BY <1>1, <1>2, PTL DEF Spec
----------------------------------------------------------------------------
(* Confidence. *)

\* The rules together take at most the step from high to medium.
THEOREM DowngradesAreMeasured == Spec => []DowngradeMeasured
<1>1. ReportFrom => DowngradeMeasured
  <2> SUFFICES ASSUME ReportFrom, report # None, NEW i \in DOMAIN request.insights
               PROVE  LET ins == request.insights[i]
                          suggested == report.verifications[i].suggested
                      IN  /\ Rank(suggested) =< Rank(ins.confidence)
                          /\ ins.sources # << >> /\ suggested # ins.confidence
                               => ins.confidence = "high" /\ suggested = "medium"
    BY DEF DowngradeMeasured
  <2> DEFINE ins == request.insights[i]
             suggested == report.verifications[i].suggested
  <2>1. PICK issues : /\ "no_sources" \in Codes(issues) => ins.sources = << >>
                      /\ suggested = Suggested(ins, issues)
    BY DEF ReportFrom, VerifiedFrom
  <2>2. ins.confidence \in Confidence
    BY InsightOfRequest DEF ReportFrom
  <2> QED
    BY <2>1, <2>2 DEF Suggested, Rank, Confidence
<1> QED
  BY <1>1, ReportInit, ReportStep, PTL DEF Spec
----------------------------------------------------------------------------
(* Contradictions. *)

LEMMA DisagreeSymmetric ==
    ASSUME NEW metric, NEW a \in Nat, NEW b \in Nat
    PROVE  Disagree(metric, a, b) <=> Disagree(metric, b, a)
<1>1. ASSUME NEW pct \in Nat PROVE Differs(a, b, pct) <=> Differs(b, a, pct)
  <2>1. CASE a = b
    BY <2>1
  <2>2. CASE a # b
    BY <2>2 DEF Differs
  <2> QED
    BY <2>1, <2>2
<1>2. ASSUME NEW num, NEW den PROVE Exceeds(a, b, num, den) <=> Exceeds(b, a, num, den)
  BY Zenon DEF Exceeds
<1> QED
  BY <1>1, <1>2, VerificationAssumption DEF Disagree

\* Two observations contradict each other.
Contradict(insights, o, p) ==
    /\ o[1] < p[1]
    /\ insights[o[1]].domain # insights[p[1]].domain
    /\ FactAt(insights, o).metric = FactAt(insights, p).metric
    /\ Disagree(FactAt(insights, o).metric, FactAt(insights, o).value, FactAt(insights, p).value)

LEMMA ContradictionsAre ==
    ASSUME NEW insights
    PROVE  Contradictions(insights) =
             {p \in Observed(insights) \X Observed(insights) : Contradict(insights, p[1], p[2])}
  BY DEF Contradictions, Compared, Contradict

\* Where an observation is when the list is read backwards.
Mirror(insights, o) == <<Len(insights) + 1 - o[1], o[2]>>

LEMMA MirrorImage ==
    ASSUME NEW S, NEW insights \in Seq(S), NEW o \in Observed(insights)
    PROVE  /\ o[1] \in 1..Len(insights) /\ o = <<o[1], o[2]>>
           /\ Mirror(insights, o) \in Observed(Reverse(insights))
           /\ Mirror(insights, o)[1] = Len(insights) + 1 - o[1]
           /\ Reverse(insights)[Mirror(insights, o)[1]] = insights[o[1]]
           /\ FactAt(Reverse(insights), Mirror(insights, o)) = FactAt(insights, o)
           /\ Mirror(insights, Mirror(insights, o)) = o
<1>1. PICK i \in 1..Len(insights) : \E k \in DOMAIN insights[i].facts : o = <<i, k>>
  BY DEF Observed
<1>0. PICK k \in DOMAIN insights[i].facts : o = <<i, k>>
  BY <1>1
<1>2. /\ Len(insights) + 1 - i \in 1..Len(insights)
      /\ Len(insights) - (Len(insights) + 1 - i) + 1 = i
  OBVIOUS
<1>3. /\ DOMAIN Reverse(insights) = 1..Len(insights)
      /\ Reverse(insights)[Len(insights) + 1 - i] = insights[i]
  BY <1>2 DEF Reverse
<1>4. Mirror(insights, o) = <<Len(insights) + 1 - i, k>>
  BY <1>0 DEF Mirror
<1>5. Mirror(insights, o) \in Observed(Reverse(insights))
  BY <1>2, <1>3, <1>4 DEF Observed
<1>6. Mirror(insights, Mirror(insights, o)) = o
  BY <1>0, <1>4 DEF Mirror
<1> QED
  BY <1>0, <1>2, <1>3, <1>4, <1>5, <1>6 DEF FactAt

LEMMA ReverseType ==
    ASSUME NEW S, NEW s \in Seq(S)
    PROVE  Reverse(s) \in Seq(S) /\ Len(Reverse(s)) = Len(s)
  BY DEF Reverse

LEMMA ReverseTwice ==
    ASSUME NEW S, NEW s \in Seq(S)
    PROVE  Reverse(Reverse(s)) = s
<1>1. /\ Reverse(s) \in Seq(S) /\ Len(Reverse(s)) = Len(s)
      /\ Reverse(Reverse(s)) \in Seq(S) /\ Len(Reverse(Reverse(s))) = Len(s)
  BY ReverseType
<1>2. ASSUME NEW i \in 1..Len(s) PROVE Reverse(Reverse(s))[i] = s[i]
  BY <1>1 DEF Reverse
<1> QED
  BY <1>1, <1>2

\* Facts hold natural numbers.
Counts(insights) ==
    \A i \in DOMAIN insights : \A k \in DOMAIN insights[i].facts :
        insights[i].facts[k].value \in Nat

\* What contradicts each other does so in the mirror, the other way round.
LEMMA ContradictMirrored ==
    ASSUME NEW S, NEW insights \in Seq(S), Counts(insights),
           NEW o \in Observed(insights), NEW p \in Observed(insights)
    PROVE  Contradict(insights, o, p)
             <=> Contradict(Reverse(insights), Mirror(insights, p), Mirror(insights, o))
<1>1. FactAt(insights, o).value \in Nat /\ FactAt(insights, p).value \in Nat
  BY DEF Counts, FactAt, Observed
<1>2. o[1] < p[1] <=> Mirror(insights, p)[1] < Mirror(insights, o)[1]
  BY MirrorImage
<1> DEFINE f == FactAt(insights, o)
           g == FactAt(insights, p)
<1>3. ASSUME f.metric = g.metric
      PROVE  Disagree(f.metric, f.value, g.value) <=> Disagree(g.metric, g.value, f.value)
  BY <1>1, <1>3, DisagreeSymmetric
<1>4. /\ FactAt(Reverse(insights), Mirror(insights, o)) = f
      /\ FactAt(Reverse(insights), Mirror(insights, p)) = g
      /\ Reverse(insights)[Mirror(insights, o)[1]] = insights[o[1]]
      /\ Reverse(insights)[Mirror(insights, p)[1]] = insights[p[1]]
  BY MirrorImage
<1> HIDE DEF f, g
<1>5. Contradict(insights, o, p) <=>
        /\ o[1] < p[1]
        /\ insights[o[1]].domain # insights[p[1]].domain
        /\ f.metric = g.metric
        /\ Disagree(f.metric, f.value, g.value)
  BY DEF Contradict, f, g
<1>6. Contradict(Reverse(insights), Mirror(insights, p), Mirror(insights, o)) <=>
        /\ Mirror(insights, p)[1] < Mirror(insights, o)[1]
        /\ insights[p[1]].domain # insights[o[1]].domain
        /\ g.metric = f.metric
        /\ Disagree(g.metric, g.value, f.value)
  BY <1>4, Zenon DEF Contradict
<1> QED
  BY <1>2, <1>3, <1>5, <1>6

LEMMA MirrorAgain ==
    ASSUME NEW S, NEW insights \in Seq(S), NEW o \in Observed(Reverse(insights))
    PROVE  /\ Mirror(insights, o) \in Observed(insights)
           /\ Mirror(insights, Mirror(insights, o)) = o
<1> DEFINE R == Reverse(insights)
<1>1. R \in Seq(S) /\ Len(R) = Len(insights) /\ Reverse(R) = insights
  BY ReverseType, ReverseTwice
<1> HIDE DEF R
<1>2. \A q : Mirror(R, q) = Mirror(insights, q)
  BY <1>1 DEF Mirror
<1>3. o \in Observed(R)
  BY DEF R
<1>4. Mirror(R, o) \in Observed(Reverse(R)) /\ Mirror(R, Mirror(R, o)) = o
  BY <1>1, <1>3, MirrorImage
<1> QED
  BY <1>1, <1>2, <1>4

\* Read backwards, a list has the same contradictions.
LEMMA MirroredContradictions ==
    ASSUME NEW S, NEW insights \in Seq(S), Counts(insights)
    PROVE  Contradictions(insights) =
             {<<Mirror(insights, p[2]), Mirror(insights, p[1])>> :
                p \in Contradictions(Reverse(insights))}
<1> DEFINE R == Reverse(insights)
           M(o) == Mirror(insights, o)
<1>1. ASSUME NEW p \in Contradictions(insights)
      PROVE  \E q \in Contradictions(R) : p = <<M(q[2]), M(q[1])>>
  <2>1. /\ p[1] \in Observed(insights) /\ p[2] \in Observed(insights)
        /\ p = <<p[1], p[2]>> /\ Contradict(insights, p[1], p[2])
    BY ContradictionsAre
  <2> DEFINE q == <<M(p[2]), M(p[1])>>
  <2>2. /\ M(p[1]) \in Observed(R) /\ M(p[2]) \in Observed(R)
        /\ M(M(p[1])) = p[1] /\ M(M(p[2])) = p[2]
    BY <2>1, MirrorImage
  <2>3. Contradict(R, M(p[2]), M(p[1]))
    BY <2>1, ContradictMirrored
  <2> HIDE DEF R, M
  <2>4. q \in Contradictions(R)
    BY <2>2, <2>3, ContradictionsAre
  <2> QED
    BY <2>1, <2>2, <2>4
<1>2. ASSUME NEW q \in Contradictions(R)
      PROVE  <<M(q[2]), M(q[1])>> \in Contradictions(insights)
  <2>1. /\ q[1] \in Observed(R) /\ q[2] \in Observed(R) /\ Contradict(R, q[1], q[2])
    BY ContradictionsAre
  <2>2. /\ M(q[1]) \in Observed(insights) /\ M(q[2]) \in Observed(insights)
        /\ M(M(q[1])) = q[1] /\ M(M(q[2])) = q[2]
    BY <2>1, MirrorAgain
  <2>3. Contradict(insights, M(q[2]), M(q[1])) <=> Contradict(R, M(M(q[1])), M(M(q[2])))
    BY <2>2, ContradictMirrored
  <2> HIDE DEF R, M
  <2> QED
    BY <2>1, <2>2, <2>3, ContradictionsAre
<1> QED
  BY <1>1, <1>2

\* Which facts contradict each other does not depend on the order of the
\* insights, whatever the metrics, the numbers and the thresholds.
THEOREM OrderIsIrrelevant == Spec => []OrderIrrelevant
<1>1. ReportFrom => OrderIrrelevant
  <2> SUFFICES ASSUME ReportFrom, report # None PROVE OrderIrrelevant
    BY DEF OrderIrrelevant
  <2> DEFINE insights == request.insights
  <2>1. insights \in Seq(ToSet(insights)) /\ Counts(insights)
    BY VerificationAssumption DEF ReportFrom, Counts, ToSet
  <2>2. report.contradictions =
          {<<Mirror(insights, p[2]), Mirror(insights, p[1])>> :
             p \in Contradictions(Reverse(insights))}
    BY <2>1, MirroredContradictions DEF ReportFrom
  <2> QED
    BY <2>2 DEF OrderIrrelevant, Mirror
<1> QED
  BY <1>1, ReportInit, ReportStep, PTL DEF Spec
----------------------------------------------------------------------------
(* Domains. *)

LEMMA MaxBelongs ==
    ASSUME NEW n \in Nat, NEW E \in SUBSET (1..n), E # {}
    PROVE  Max(E) \in E
<1> DEFINE Up(e) == e..n
           F == {Up(e) : e \in E}
<1>1. F \subseteq SUBSET (1..n) /\ F # {}
  <2>1. \A e \in E : Up(e) \subseteq 1..n
    OBVIOUS
  <2> HIDE DEF Up
  <2> QED
    BY <2>1
<1>2. F \subseteq FiniteSubsetsOf(1..n) /\ IsFiniteSet(1..n)
  BY <1>1, FS_Interval, FS_FiniteSubsetsOfFinite
<1>3. PICK T \in F : \A U \in F : <<U, T>> \notin StrictSubsetOrdering(1..n)
  BY <1>1, <1>2, FS_StrictSubsetOrderingWellFounded, WFMin
<1>4. PICK m \in E : T = Up(m)
  OBVIOUS
<1>5. ASSUME NEW e \in E PROVE m >= e
  <2> SUFFICES ASSUME m < e PROVE FALSE
    OBVIOUS
  <2>1. Up(e) \subseteq Up(m) /\ m \in Up(m) /\ m \notin Up(e)
    OBVIOUS
  <2>2. <<Up(e), Up(m)>> \in StrictSubsetOrdering(1..n)
    BY <1>1, <2>1 DEF StrictSubsetOrdering
  <2> QED
    BY <1>3, <1>4, <2>2
<1> QED
  BY <1>5 DEF Max

\* A netloc of a request.
Sound(s) ==
    /\ s.host \in Seq(STRING) /\ s.host # << >>
    /\ s.login \in {"none", "name", "password"} /\ s.user \in STRING

LEMMA LastTwoAre ==
    ASSUME NEW h \in Seq(STRING), Len(h) >= 2
    PROVE  LastTwo(h) = <<h[Len(h) - 1], h[Len(h)]>>
<1> DEFINE n == Len(h)
           two == SubSeq(h, n - 1, n)
<1>1. n \in Nat /\ n - 1 \in 1..(n + 1) /\ n \in (n - 2)..n
  OBVIOUS
<1>2. /\ two \in Seq(STRING) /\ Len(two) = 2
      /\ two[1] = h[n - 1] /\ two[2] = h[n]
  BY <1>1, SubSeqProperties
<1> HIDE DEF two
<1>3. two = <<h[n - 1], h[n]>>
  BY <1>2
<1> QED
  BY <1>3 DEF LastTwo, two

\* The end of a host ends like the host.
LEMMA EndEnds ==
    ASSUME NEW h \in Seq(STRING), NEW k \in 1..(Len(h) - 1)
    PROVE  LET end == SubSeq(h, Len(h) - k, Len(h))
           IN  Len(end) >= 2 /\ LastTwo(end) = LastTwo(h)
<1> DEFINE n == Len(h)
           end == SubSeq(h, n - k, n)
<1>1. n \in Nat /\ n >= 2
  OBVIOUS
<1>2. /\ end \in Seq(STRING) /\ Len(end) = k + 1
      /\ end[k] = h[n - 1] /\ end[k + 1] = h[n]
  BY <1>1, SubSeqProperties
<1> HIDE DEF end, n
<1>3. LastTwo(end) = <<end[k], end[k + 1]>>
  BY <1>1, <1>2, LastTwoAre DEF n
<1>4. LastTwo(h) = <<h[n - 1], h[n]>>
  BY <1>1, LastTwoAre DEF n
<1> QED
  BY <1>1, <1>2, <1>3, <1>4 DEF end, n

LEMMA TailEnds ==
    ASSUME NEW h \in Seq(STRING), Len(h) >= 3
    PROVE  Len(Tail(h)) >= 2 /\ LastTwo(Tail(h)) = LastTwo(h)
<1>1. /\ Tail(h) \in Seq(STRING) /\ Len(Tail(h)) = Len(h) - 1
      /\ Tail(h)[Len(h) - 2] = h[Len(h) - 1] /\ Tail(h)[Len(h) - 1] = h[Len(h)]
  OBVIOUS
<1>2. Len(h) - 1 >= 2 /\ Len(h) - 1 - 1 = Len(h) - 2
  OBVIOUS
<1>3. LastTwo(Tail(h)) = <<Tail(h)[Len(h) - 2], Tail(h)[Len(h) - 1]>>
  BY <1>1, <1>2, LastTwoAre
<1> QED
  BY <1>1, <1>2, <1>3, LastTwoAre

\* Of a plain netloc the last two labels of the host are left.
LEMMA RegistrableIs ==
    ASSUME NEW s, Sound(s), Plain(s)
    PROVE  Registrable(s) = [user |-> "", labels |-> LastTwo(s.host)]
<1> DEFINE cut == s.login = "none" /\ Len(s.host) >= 2 /\ Head(s.host) = "www"
           bare == IF cut THEN Tail(s.host) ELSE s.host
<1>1. PICK h \in Seq(STRING) : h = s.host
  BY DEF Sound
<1>2. s.login # "password" /\ ~(s.login = "name" /\ Len(s.host) =< 2)
  <2>1. \A m \in Nat : m > 2 => ~(m =< 2)
    OBVIOUS
  <2>2. Len(s.host) \in Nat
    BY <1>1
  <2> QED
    BY <2>1, <2>2 DEF Plain
<1>3. Registrable(s) = [user |-> "", labels |-> LastTwo(bare)]
  BY <1>2, Zenon DEF Registrable
<1>4. CASE cut
  <2>1. Len(h) >= 2 /\ Len(h) # 2
    BY <1>1, <1>4, Zenon DEF Plain
  <2>2. Len(h) >= 3
    <3>1. \A m \in Nat : m >= 2 /\ m # 2 => m >= 3
      OBVIOUS
    <3>2. Len(h) \in Nat
      OBVIOUS
    <3> QED
      BY <2>1, <3>1, <3>2, Zenon
  <2>3. bare = Tail(h)
    BY <1>1, <1>4
  <2> HIDE DEF bare
  <2> QED
    BY <1>1, <1>3, <2>2, <2>3, TailEnds
<1>5. CASE ~cut
  <2>1. bare = h
    BY <1>1, <1>5
  <2> HIDE DEF bare
  <2> QED
    BY <1>1, <1>3, <2>1
<1> QED
  BY <1>4, <1>5

LEMMA RegisteredIs ==
    ASSUME NEW s, Sound(s), Plain(s)
    PROVE  IF Len(s.host) >= 2
           THEN Len(Registered(s)) >= 2 /\ LastTwo(Registered(s)) = LastTwo(s.host)
           ELSE Registered(s) = s.host
<1>1. PICK h \in Seq(STRING) : h = s.host /\ Last(h) # ""
  BY DEF Sound, Plain
<1> DEFINE n == Len(h)
           ends == {k \in 1..n : SubSeq(h, n - k + 1, n) \in PublicSuffix}
<1>2. Registered(s) = IF ends = {} \/ Max(ends) = n THEN h ELSE SubSeq(h, n - Max(ends), n)
  BY <1>1 DEF Registered
<1>3. n \in Nat /\ ends \in SUBSET (1..n)
  OBVIOUS
<1> HIDE DEF ends
<1>4. CASE ends = {} \/ Max(ends) = n
  BY <1>1, <1>2, <1>4
<1>5. CASE ~(ends = {} \/ Max(ends) = n)
  <2>0. Max(ends) # n /\ Max(ends) \in ends
    <3>1. ends # {} /\ Max(ends) # n
      BY <1>5
    <3>2. Max(ends) \in ends
      BY <1>3, <3>1, MaxBelongs
    <3> QED
      BY <3>1, <3>2
  <2>1. Max(ends) \in 1..(n - 1) /\ n >= 2
    <3> DEFINE m == Max(ends)
    <3>1. m # n /\ m \in 1..n
      BY <1>3, <2>0
    <3> HIDE DEF m, n
    <3> QED
      BY <1>3, <3>1 DEF m
  <2>2. Registered(s) = SubSeq(h, n - Max(ends), n)
    BY <1>2, <1>5
  <2>3. Len(Registered(s)) >= 2 /\ LastTwo(Registered(s)) = LastTwo(h)
    BY <2>1, <2>2, EndEnds
  <2> QED
    BY <1>1, <2>1, <2>3, Zenon
<1> QED
  BY <1>4, <1>5

\* One registered domain, one domain in the eyes of the code.
LEMMA RegisteredDecides ==
    ASSUME NEW s, NEW t, Sound(s), Sound(t), Plain(s), Plain(t),
           Registered(s) = Registered(t)
    PROVE  Registrable(s) = Registrable(t)
<1>1. Len(s.host) \in Nat /\ Len(t.host) \in Nat
  BY DEF Sound
<1>2. Len(s.host) >= 2 <=> Len(t.host) >= 2
  BY <1>1, RegisteredIs
<1>3. LastTwo(s.host) = LastTwo(t.host)
  BY <1>1, <1>2, RegisteredIs DEF LastTwo
<1> QED
  BY <1>3, RegistrableIs

\* A set is of two or more only if two of its members differ.
LEMMA TwoDiffer ==
    ASSUME NEW D, IsFiniteSet(D)
    PROVE  Cardinality(D) < 2 <=> \A x, y \in D : x = y
<1>1. CASE \E x, y \in D : x # y
  <2>1. PICK x \in D, y \in D : x # y
    BY <1>1
  <2>2. IsFiniteSet({x}) /\ Cardinality({x}) = 1
    BY FS_Singleton
  <2>3. IsFiniteSet({x} \cup {y}) /\ Cardinality({x} \cup {y}) = 2
    <3>1. y \notin {x}
      BY <2>1
    <3> QED
      BY <2>2, <3>1, FS_AddElement
  <2>4. Cardinality({x} \cup {y}) =< Cardinality(D) /\ Cardinality(D) \in Nat
    BY FS_Subset, FS_CardinalityType
  <2> QED
    BY <1>1, <2>3, <2>4
<1>2. CASE \A x, y \in D : x = y
  <2>1. D = {} \/ \E x : D = {x}
    BY <1>2
  <2>2. Cardinality({}) = 0 /\ \A x : Cardinality({x}) = 1
    BY FS_EmptySet, FS_Singleton
  <2>3. CASE D = {}
    BY <1>2, <2>2, <2>3
  <2>4. ASSUME NEW x, D = {x} PROVE Cardinality(D) < 2
    <3>1. Cardinality(D) = 1
      BY <2>4, FS_Singleton, Zenon
    <3> QED
      BY <3>1
  <2> QED
    BY <1>2, <2>1, <2>3, <2>4
<1> QED
  BY <1>1, <1>2

LEMMA DomainsFinite ==
    ASSUME NEW ins, ins.sources \in Seq(ToSet(ins.sources))
    PROVE  /\ IsFiniteSet(Domains(ins))
           /\ IsFiniteSet({Registered(s) : s \in ToSet(ins.sources)})
<1> DEFINE n == Len(ins.sources)
           cited == ToSet(ins.sources)
           all == {Registrable(s) : s \in cited}
           f == [s \in cited |-> Registrable(s)]
           g == [s \in cited |-> Registered(s)]
<1>1. IsFiniteSet(1..n) /\ ins.sources \in Surjection(1..n, cited)
  BY FS_Interval DEF Surjection, ToSet
<1>2. IsFiniteSet(cited)
  BY <1>1, FS_Surjection
<1>3. f \in Surjection(cited, all)
  BY DEF Surjection
<1>4. g \in Surjection(cited, {Registered(s) : s \in cited})
  BY DEF Surjection
<1>5. IsFiniteSet(all) /\ Domains(ins) \subseteq all
  BY <1>2, <1>3, FS_Surjection DEF Domains
<1> QED
  BY <1>2, <1>4, <1>5, FS_Surjection, FS_Subset

\* Without the issue about a single domain, an insight with plain sources has
\* two that are registered apart.
LEMMA NoIssueNoFlaw ==
    ASSUME NEW ins, NEW target, NEW issues,
           ins.sources \in Seq(ToSet(ins.sources)), ins.sources # << >>,
           \A s \in ToSet(ins.sources) : Sound(s) /\ Plain(s),
           ins.confidence = "high",
           DiversityIssues(ins, target) \subseteq issues,
           "single_source_domain" \notin Codes(issues)
    PROVE  Cardinality({Registered(s) : s \in ToSet(ins.sources)}) >= 2
<1> DEFINE cited == ToSet(ins.sources)
           domains == {Registered(s) : s \in cited}
           D == Domains(ins)
<1>1. ~(Cardinality(D) < 2)
  <2> SUFFICES ASSUME Cardinality(D) < 2 PROVE FALSE
    OBVIOUS
  <2>1. Issue("warning", "single_source_domain", 0) \in DiversityIssues(ins, target)
    BY DEF DiversityIssues
  <2> QED
    BY <2>1 DEF Codes, Issue
<1>2. IsFiniteSet(D) /\ IsFiniteSet(domains)
  BY DomainsFinite
<1>3. PICK c \in D, d \in D : c # d
  <2> HIDE DEF D
  <2> QED
    BY <1>1, <1>2, TwoDiffer
<1>4. PICK x \in cited, y \in cited : Registrable(x) # Registrable(y)
  BY <1>3 DEF Domains
<1>5. Registered(x) # Registered(y) /\ Registered(x) \in domains /\ Registered(y) \in domains
  BY <1>4, RegisteredDecides
<1> HIDE DEF domains
<1>6. ~(Cardinality(domains) < 2)
  BY <1>2, <1>5, TwoDiffer
<1>7. Cardinality(domains) \in Nat
  BY <1>2, FS_CardinalityType
<1> QED
  BY <1>6, <1>7 DEF domains

\* High confidence is suggested only for an insight whose sources are really
\* registered under two domains, or are not all plain, whatever the list of
\* public suffixes.
THEOREM HighIsDeserved == Spec => []HighIsEarned
<1>1. ReportFrom => HighIsEarned
  <2> SUFFICES ASSUME ReportFrom, report # None, NEW i \in DOMAIN request.insights,
                      report.verifications[i].suggested = "high",
                      \A s \in ToSet(request.insights[i].sources) : Plain(s)
               PROVE  Cardinality({Registered(s) : s \in ToSet(request.insights[i].sources)}) >= 2
    BY DEF HighIsEarned
  <2> DEFINE ins == request.insights[i]
  <2>1. /\ ins \in ToSet(request.insights) /\ request \in Requests
        /\ ins.confidence \in Confidence /\ ins.sources \in Seq(ToSet(ins.sources))
    BY InsightOfRequest DEF ReportFrom
  <2>2. PICK issues : /\ DiversityIssues(ins, request.target) \subseteq issues
                      /\ "high" = Suggested(ins, issues)
    BY DEF ReportFrom, VerifiedFrom
  <2>3. /\ ins.confidence = "high" /\ "no_sources" \notin Codes(issues)
        /\ "single_source_domain" \notin Codes(issues)
    BY <2>1, <2>2 DEF Suggested
  <2>4. ins.sources # << >>
    <3> SUFFICES ASSUME ins.sources = << >> PROVE FALSE
      OBVIOUS
    <3>1. Issue("error", "no_sources", 0) \in DiversityIssues(ins, request.target)
      BY DEF DiversityIssues
    <3> QED
      BY <2>2, <2>3, <3>1 DEF Codes, Issue
  <2>5. \A s \in ToSet(ins.sources) : Sound(s) /\ Plain(s)
    BY <2>1, HostsAssumption DEF Sound
  <2> HIDE DEF ins
  <2>6. Cardinality({Registered(s) : s \in ToSet(ins.sources)}) >= 2
    BY <2>1, <2>2, <2>3, <2>4, <2>5, NoIssueNoFlaw
  <2> QED
    BY <2>6 DEF ins
<1> QED
  BY <1>1, ReportInit, ReportStep, PTL DEF Spec
----------------------------------------------------------------------------
(* Dead URLs. *)

\* No other check speaks of a dead URL.
LEMMA DeadIssues ==
    ASSUME NEW ins, NEW gone, NEW n
    PROVE  Issue("warning", "url_dead", n) \in IssuesOf(ins, gone)
             <=> n \in DOMAIN ins.sources /\ ins.sources[n] \in gone
<1>1. \A i \in DiversityIssues(ins, request.target) : i.code # "url_dead"
  <2> SUFFICES ASSUME NEW i \in DiversityIssues(ins, request.target)
               PROVE  i.code # "url_dead"
    OBVIOUS
  <2>1. \/ i = Issue("error", "no_sources", 0)
        \/ \E rule \in {"single_source_domain", "self_citation_only"} :
              i = Issue("warning", rule, 0)
    BY DEF DiversityIssues
  <2> QED
    BY <2>1 DEF Issue
<1>2. \A i \in SanityIssues(ins) : i.code # "url_dead"
  BY VerificationAssumption DEF SanityIssues, Issue
<1>3. Issue("warning", "url_dead", n) \in UrlIssues(ins, gone)
        <=> n \in DOMAIN ins.sources /\ ins.sources[n] \in gone
  BY DEF UrlIssues, Issue
<1> QED
  BY <1>1, <1>2, <1>3 DEF IssuesOf, Issue
=============================================================================
