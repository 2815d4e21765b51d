--------------------------- MODULE UrlCheckProofs ---------------------------
(***************************************************************************)
(* Theorems about UrlCheck, for any finite set of URLs and any number of    *)
(* permits; and, at the end, about the handler of /verify together with     *)
(* these tasks (Verify).  What is known of its reports is what              *)
(* VerificationProofs shows, of which VP is the instance Verify makes of    *)
(* Verification.                                                            *)
(***************************************************************************)
EXTENDS Verify, FiniteSetTheorems, TLAPS

VP == INSTANCE VerificationProofs

\* The types of a report under way are kept.
LEMMA TypeStep == TypeOK /\ [Next]_vars => TypeOK'
<1> SUFFICES ASSUME TypeOK, [Next]_vars PROVE TypeOK'
  OBVIOUS
<1> USE DEF TypeOK
<1>1. ASSUME NEW u \in Url, NEW stage \in Stages, GoTo(u, stage) PROVE TypeOK'
  BY <1>1 DEF GoTo
<1>2. ASSUME NEW u \in Url, NEW verdict \in BOOLEAN, Return(u, verdict) PROVE TypeOK'
  <2>1. check' \in [Url -> Stages]
    BY <1>2 DEF Return, Stages
  <2>2. alive' \in [Url -> BOOLEAN]
    BY <1>2, Zenon DEF Return
  <2> QED
    BY <1>2, <2>1, <2>2 DEF Return
<1>3. ASSUME NEW u \in Url, Probe(u) PROVE TypeOK'
  <2>1. CASE Begin(u)
    BY <2>1, <1>1 DEF Begin, Stages
  <2>2. CASE HeadAnswered(u)
    BY <2>2, <1>2 DEF HeadAnswered
  <2>3. CASE HeadLost(u)
    BY <2>3, <1>1 DEF HeadLost, Stages
  <2>4. CASE GetAnswered(u)
    BY <2>4, <1>2 DEF GetAnswered
  <2>5. CASE GetLost(u)
    BY <2>5, <1>2 DEF GetLost
  <2> QED
    BY <1>3, <2>1, <2>2, <2>3, <2>4, <2>5 DEF Probe
<1>4. CASE Gather
  BY <1>4 DEF Gather, GatherReturns, GatherRaises
<1>5. CASE UNCHANGED vars
  BY <1>5 DEF vars
<1> QED
  BY <1>3, <1>4, <1>5 DEF Next

\* Every reachable state is well typed.
THEOREM TypeCorrect == Spec => []TypeOK
<1>1. Init => TypeOK
  BY DEF Init, TypeOK, Stages
<1> QED
  BY <1>1, TypeStep, PTL DEF Spec
----------------------------------------------------------------------------
(* What the report rests on. *)

\* What is known of a single task: a request under way is one its URL allows,
\* and until the report has failed, a verdict is deserved and an exception is
\* the URL's own fault.
TaskOK(u) ==
    /\ check[u] = "head" => site[u].head # "unusable"
    /\ check[u] = "get" => site[u].head = "lost"
    /\ check[u] = "done" /\ outcome # "raised" => (alive[u] <=> Deserves(u))
    /\ check[u] = "failed" /\ outcome # "raised" => site[u].head = "unusable"

\* A report that is there is complete, and one that failed had a reason.
OutcomeOK ==
    /\ outcome = "returned" => \A u \in Url : check[u] = "done"
    /\ outcome = "raised" => \E u \in Url : site[u].head = "unusable"

ReportInv == TypeOK /\ OutcomeOK /\ \A u \in Url : TaskOK(u)

LEMMA ReportInit == Init => ReportInv
BY DEF Init, ReportInv, TypeOK, OutcomeOK, TaskOK, Stages

LEMMA ReportStep == ReportInv /\ [Next]_vars => ReportInv'
<1> SUFFICES ASSUME ReportInv, [Next]_vars PROVE ReportInv'
  OBVIOUS
<1>0. TypeOK /\ TypeOK'
  BY TypeStep DEF ReportInv
<1>1. ASSUME NEW u \in Url, Probe(u) PROVE ReportInv'
  <2>1. /\ check[u] \in {"waiting", "head", "get"}
        /\ outcome # "returned"
        /\ site' = site /\ outcome' = outcome
    BY <1>1 DEF ReportInv, OutcomeOK, Probe, Begin, HeadAnswered, HeadLost,
                GetAnswered, GetLost, GoTo, Return
  <2>2. \A w \in Url \ {u} : check'[w] = check[w] /\ alive'[w] = alive[w]
    BY <1>0, <1>1 DEF TypeOK, Probe, Begin, HeadAnswered, HeadLost,
                GetAnswered, GetLost, GoTo, Return
  <2>3. OutcomeOK'
    BY <2>1 DEF ReportInv, OutcomeOK
  <2>4. /\ TaskOK(u) /\ site[u] \in Site
        /\ outcome \in {"pending", "returned", "raised"}
    BY <1>0 DEF ReportInv, TypeOK
  <2>5. TaskOK(u)'
    <3>1. CASE Begin(u)
      BY <1>0, <2>1, <3>1 DEF Begin, GoTo, TaskOK, TypeOK, Closed
    <3>2. CASE HeadAnswered(u)
      <4>1. check'[u] = "done" /\ (alive'[u] <=> site[u].head = "fine")
        BY <1>0, <3>2 DEF HeadAnswered, Return, TypeOK
      <4> QED
        BY <2>1, <3>2, <4>1 DEF HeadAnswered, TaskOK, Deserves
    <3>3. CASE HeadLost(u)
      BY <1>0, <2>1, <3>3 DEF HeadLost, GoTo, TaskOK, TypeOK, Closed
    <3>4. CASE GetAnswered(u)
      <4>1. check'[u] = "done" /\ (alive'[u] <=> site[u].get = "fine")
        BY <1>0, <3>4 DEF GetAnswered, Return, TypeOK
      <4> QED
        BY <2>1, <2>4, <3>4, <4>1 DEF GetAnswered, TaskOK, Deserves
    <3>5. CASE GetLost(u)
      <4>1. check'[u] = "done" /\ ~alive'[u]
        BY <1>0, <3>5 DEF GetLost, Return, TypeOK
      <4> QED
        BY <2>1, <2>4, <3>5, <4>1 DEF GetLost, TaskOK, Deserves, Closed
    <3> QED
      BY <1>1, <3>1, <3>2, <3>3, <3>4, <3>5 DEF Probe
  <2>6. \A w \in Url \ {u} : TaskOK(w)'
    BY <2>1, <2>2 DEF ReportInv, TaskOK, Deserves
  <2> QED
    BY <1>0, <2>3, <2>5, <2>6 DEF ReportInv
<1>2. CASE GatherReturns
  BY <1>0, <1>2 DEF GatherReturns, ReportInv, OutcomeOK, TaskOK, Deserves
<1>3. CASE GatherRaises
  BY <1>0, <1>3 DEF GatherRaises, ReportInv, OutcomeOK, TaskOK, Deserves
<1>4. CASE UNCHANGED vars
  BY <1>0, <1>4 DEF vars, ReportInv, OutcomeOK, TaskOK, Deserves
<1> QED
  BY <1>1, <1>2, <1>3, <1>4 DEF Next, Gather

\* A report that is returned has the right verdict for every URL.
THEOREM ReportIsSound == Spec => []ReportSound
<1>1. ReportInv => ReportSound
  BY DEF ReportInv, OutcomeOK, TaskOK, ReportSound
<1> QED
  BY <1>1, ReportInit, ReportStep, PTL DEF Spec

\* A report fails only over an unusable URL, never over the network.
THEOREM FailureHasReason == Spec => []NetworkNeverFatal
<1>1. ReportInv => NetworkNeverFatal
  BY DEF ReportInv, OutcomeOK, NetworkNeverFatal
<1> QED
  BY <1>1, ReportInit, ReportStep, PTL DEF Spec
----------------------------------------------------------------------------
(* The semaphore, and the tasks after the end. *)

LEMMA PermitsStep == TypeOK /\ PermitsRespected /\ [Next]_vars => PermitsRespected'
<1> SUFFICES ASSUME TypeOK, PermitsRespected, [Next]_vars PROVE PermitsRespected'
  OBVIOUS
<1>1. IsFiniteSet(Active) /\ Cardinality(Active) =< Concurrency
  <2>1. IsFiniteSet(Active)
    BY UrlCheckAssumption, FS_Subset DEF Active
  <2> QED
    BY <2>1 DEF PermitsRespected, Active
<1>2. ASSUME Active' \subseteq Active PROVE PermitsRespected'
  <2>1. Cardinality(Active') =< Cardinality(Active)
    BY <1>1, <1>2, FS_Subset
  <2>2. Cardinality(Active) \in Nat /\ Cardinality(Active') \in Nat
    BY <1>1, <1>2, FS_Subset, FS_CardinalityType
  <2> QED
    BY <1>1, <2>1, <2>2, UrlCheckAssumption DEF PermitsRespected, Active
<1>3. ASSUME NEW u \in Url, Begin(u) PROVE PermitsRespected'
  <2>1. Active' \subseteq Active \cup {u} /\ u \notin Active
    BY <1>3 DEF Begin, GoTo, Active, TypeOK
  <2>2. /\ IsFiniteSet(Active \cup {u})
        /\ Cardinality(Active \cup {u}) = Cardinality(Active) + 1
    BY <1>1, <2>1, FS_AddElement
  <2>3. Cardinality(Active') =< Cardinality(Active \cup {u})
    BY <2>1, <2>2, FS_Subset
  <2>4. /\ Cardinality(Active) \in Nat /\ Cardinality(Active') \in Nat
        /\ Cardinality(Active) < Concurrency
    BY <1>1, <1>3, <2>1, <2>2, FS_Subset, FS_CardinalityType DEF Begin
  <2> QED
    BY <2>2, <2>3, <2>4, UrlCheckAssumption DEF PermitsRespected, Active
<1>4. ASSUME NEW u \in Url, Probe(u), ~Begin(u) PROVE Active' \subseteq Active
  BY <1>4 DEF Probe, HeadAnswered, HeadLost, GetAnswered, GetLost, GoTo, Return,
              Active, TypeOK
<1>5. ASSUME Gather \/ UNCHANGED vars PROVE Active' \subseteq Active
  BY <1>5 DEF Gather, GatherReturns, GatherRaises, vars, Active
<1> QED
  BY <1>2, <1>3, <1>4, <1>5 DEF Next

\* Never more requests under way than permits.
THEOREM PermitsAreRespected == Spec => []PermitsRespected
<1>1. Init => PermitsRespected
  <2> SUFFICES ASSUME Init PROVE PermitsRespected
    OBVIOUS
  <2>1. {u \in Url : check[u] \in {"head", "get"}} = {}
    BY DEF Init
  <2> QED
    BY <2>1, FS_EmptySet, UrlCheckAssumption DEF PermitsRespected
<1>2. Init => TypeOK
  BY DEF Init, TypeOK, Stages
<1> QED
  BY <1>1, <1>2, TypeStep, PermitsStep, PTL DEF Spec

\* A task whose client is closed sends nothing.
LEMMA SilentStep == TypeOK /\ [Next]_vars /\ Closed => SendsNothing
<1> SUFFICES ASSUME TypeOK, [Next]_vars, Closed, NEW w \in Url, check'[w] \in {"head", "get"}
             PROVE  check'[w] = check[w]
  BY DEF SendsNothing
<1>1. ASSUME NEW u \in Url, Probe(u) PROVE check'[w] = check[w]
  BY <1>1 DEF Probe, Begin, HeadAnswered, HeadLost, GetAnswered, GetLost,
              GoTo, Return, TypeOK
<1>2. CASE Gather
  BY <1>2 DEF Gather, GatherReturns, GatherRaises
<1>3. CASE UNCHANGED vars
  BY <1>3 DEF vars
<1> QED
  BY <1>1, <1>2, <1>3 DEF Next

\* Once the report is there or has failed, no task sends anything more.
THEOREM OrphansAreSilent == Spec => NothingSentAfter
<1>1. TypeOK /\ [Next]_vars => [Closed => SendsNothing]_vars
  BY SilentStep
<1> QED
  BY <1>1, TypeCorrect, PTL DEF Spec, NothingSentAfter
----------------------------------------------------------------------------
(* The handler and the tasks it starts. *)

LEMMA SameNames ==
    /\ \A s : Handler!ToSet(s) = VP!ToSet(s)
    /\ \A S : Handler!Cardinality(S) = VP!Cardinality(S)
    /\ Handler!Confidence = VP!Confidence
    /\ \A a, b, c : Handler!Issue(a, b, c) = VP!Issue(a, b, c)
    /\ Handler!Issues = VP!Issues
    /\ Handler!Reports = VP!Reports
<1>1. Handler!Confidence = VP!Confidence
  BY DEF Handler!Confidence, VP!Confidence
<1>2. Handler!Issues = VP!Issues
  BY DEF Handler!Issues, VP!Issues
<1> QED
  BY <1>1, <1>2
     DEF Handler!ToSet, VP!ToSet, Handler!Cardinality, VP!Cardinality,
         Handler!Issue, VP!Issue, Handler!Reports, VP!Reports

LEMMA HandlerAssumed == VP!VerificationAssumption /\ VP!NoneAssumption /\ VP!HostsAssumption
<1>1. VP!VerificationAssumption
  BY VerifyAssumption, SameNames
     DEF VP!VerificationAssumption, Handler!VerificationAssumption
<1>2. VP!NoneAssumption
  BY VerifyAssumption, SameNames DEF VP!NoneAssumption, Handler!NoneAssumption
<1>3. VP!HostsAssumption
  BY VerifyAssumption, SameNames DEF VP!HostsAssumption, Handler!HostsAssumption
<1> QED
  BY <1>1, <1>2, <1>3

LEMMA SameIssues ==
    ASSUME NEW ins, NEW gone
    PROVE  Handler!IssuesOf(ins, gone) = VP!IssuesOf(ins, gone)
<1>1. Handler!DiversityIssues(ins, request.target) = VP!DiversityIssues(ins, request.target)
  BY DEF Handler!DiversityIssues, VP!DiversityIssues, Handler!Registrable, VP!Registrable,
         Handler!LastTwo, VP!LastTwo, Handler!Domains, VP!Domains, Handler!Nothing, VP!Nothing,
         Handler!ToSet, VP!ToSet, Handler!Cardinality, VP!Cardinality,
         Handler!Issue, VP!Issue
<1>2. Handler!SanityIssues(ins) = VP!SanityIssues(ins)
  BY DEF Handler!SanityIssues, VP!SanityIssues, Handler!Ceiling, VP!Ceiling,
         Handler!ToSet, VP!ToSet, Handler!Issue, VP!Issue
<1>3. Handler!UrlIssues(ins, gone) = VP!UrlIssues(ins, gone)
  BY DEF Handler!UrlIssues, VP!UrlIssues, Handler!Issue, VP!Issue
<1> QED
  BY <1>1, <1>2, <1>3 DEF Handler!IssuesOf, VP!IssuesOf

LEMMA SameReport == ASSUME NEW gone PROVE Handler!Report(gone) = VP!Report(gone)
<1>1. \A ins, issues : Handler!Suggested(ins, issues) = VP!Suggested(ins, issues)
  BY DEF Handler!Suggested, VP!Suggested, Handler!Codes, VP!Codes
<1>2. \A ins : Handler!Verified(ins, gone) = VP!Verified(ins, gone)
  BY <1>1, SameIssues DEF Handler!Verified, VP!Verified
<1>3. \A metric, a, b : Handler!Disagree(metric, a, b) <=> VP!Disagree(metric, a, b)
  BY DEF Handler!Disagree, VP!Disagree, Handler!Differs, VP!Differs,
         Handler!Exceeds, VP!Exceeds
<1>4. Handler!Contradictions(request.insights) = VP!Contradictions(request.insights)
  BY <1>3
     DEF Handler!Contradictions, VP!Contradictions, Handler!Compared, VP!Compared,
         Handler!Observed, VP!Observed, Handler!FactAt, VP!FactAt
<1> QED
  BY <1>2, <1>4 DEF Handler!Report, VP!Report

\* What VerificationProofs shows of reports, with what it assumes discharged.
LEMMA ReportMade ==
    ASSUME request \in Requests, NEW gone
    PROVE  Handler!Report(gone) # None
  BY HandlerAssumed, SameReport, VP!ReportMade
     DEF VP!VerificationAssumption, VP!NoneAssumption, VP!HostsAssumption

LEMMA DeadIssues ==
    ASSUME NEW ins, NEW gone, NEW n
    PROVE  Handler!Issue("warning", "url_dead", n) \in Handler!IssuesOf(ins, gone)
             <=> n \in DOMAIN ins.sources /\ ins.sources[n] \in gone
  BY HandlerAssumed, SameIssues, SameNames, VP!DeadIssues
     DEF VP!VerificationAssumption, VP!NoneAssumption, VP!HostsAssumption

\* What a request cites is what head_check_many is called with.
LEMMA CitesUrls ==
    ASSUME request \in Requests, ~request.skip
    PROVE  /\ Handler!Cited = Url
           /\ \A i \in DOMAIN request.insights :
                \A n \in DOMAIN request.insights[i].sources :
                    request.insights[i].sources[n] \in Url
<1>1. Handler!Cited = Url
  BY VerifyAssumption DEF Handler!Cited
<1>2. ASSUME NEW i \in DOMAIN request.insights, NEW n \in DOMAIN request.insights[i].sources
      PROVE  request.insights[i].sources[n] \in Handler!Cited
  BY DEF Handler!Cited, Handler!ToSet
<1> QED
  BY <1>1, <1>2

\* Each step of the handler and its tasks is one of UrlCheck, or leaves it alone.
LEMMA UrlsStep == [VerifyNext]_verifyVars => [Next]_vars
  BY DEF VerifyNext, Received, Works, Gathered, GatherFailed, Next, Gather, verifyVars
----------------------------------------------------------------------------
(* What the handler knows of its tasks. *)

\* How far the handler has come, and what has become of the tasks by then.
HandlerOK ==
    /\ request \in Requests
    /\ at \in {"received", "checking", "answered"}
    /\ at # "answered" => outcome = "pending" /\ report = None
    /\ at = "checking" => Called
    /\ at = "answered" /\ Called => outcome # "pending"
    /\ at = "answered" /\ report = None =>
          \/ file.shape = "unreadable" \/ Handler!Derailed
          \/ ~request.skip /\ outcome = "raised"

\* The places in the report are those of the URLs found dead, for good.
DeadReported ==
    report # None /\ ~request.skip =>
        /\ outcome = "returned"
        /\ \A i \in DOMAIN request.insights :
              \A n \in DOMAIN request.insights[i].sources :
                  Handler!Issue("warning", "url_dead", n) \in report.verifications[i].issues
                    <=> ~alive[request.insights[i].sources[n]]

VerifyInv == ReportInv /\ HandlerOK /\ DeadReported

LEMMA VerifyInvInit == VerifyInit => VerifyInv
<1> SUFFICES ASSUME VerifyInit PROVE VerifyInv
  OBVIOUS
<1>1. ReportInv
  BY ReportInit DEF VerifyInit
<1> QED
  BY <1>1 DEF VerifyInit, Init, Handler!Init, VerifyInv, HandlerOK, DeadReported

\* An answer made of the verdicts of tasks that are all done.
LEMMA AnswerWithVerdicts ==
    ASSUME HandlerOK, Gathered
    PROVE  HandlerOK' /\ DeadReported'
<1> DEFINE gone == {u \in Url : ~alive[u]}
<1>1. /\ at = "checking" /\ Called /\ request \in Requests
      /\ at' = "answered" /\ outcome' = "returned"
      /\ request' = request /\ file' = file /\ alive' = alive
      /\ report' = IF Handler!Derailed THEN None ELSE Handler!Report(gone)
  BY DEF HandlerOK, Gathered, Handler!Answer, GatherReturns
<1>2. Handler!Derailed' = Handler!Derailed
  BY <1>1 DEF Handler!Derailed
<1>3. HandlerOK'
  <2>1. report' = None => Handler!Derailed
    BY <1>1, ReportMade
  <2> QED
    BY <1>1, <1>2, <2>1 DEF HandlerOK, Called
<1>4. ASSUME report' # None, NEW i \in DOMAIN request.insights,
             NEW n \in DOMAIN request.insights[i].sources
      PROVE  Handler!Issue("warning", "url_dead", n) \in report'.verifications[i].issues
               <=> ~alive[request.insights[i].sources[n]]
  <2> DEFINE ins == request.insights[i]
  <2>1. report'.verifications[i].issues = Handler!IssuesOf(ins, gone)
    BY <1>1, <1>4 DEF Handler!Report, Handler!Verified
  <2>2. ins.sources[n] \in Url
    BY <1>1, CitesUrls DEF Called
  <2>3. Handler!Issue("warning", "url_dead", n) \in Handler!IssuesOf(ins, gone)
          <=> ins.sources[n] \in gone
    BY DeadIssues
  <2> QED
    BY <2>1, <2>2, <2>3
<1>5. DeadReported'
  BY <1>1, <1>4 DEF DeadReported, Handler!Issue
<1> QED
  BY <1>3, <1>5

LEMMA VerifyInvStep == VerifyInv /\ [VerifyNext]_verifyVars => VerifyInv'
<1> SUFFICES ASSUME VerifyInv, [VerifyNext]_verifyVars PROVE VerifyInv'
  OBVIOUS
<1>0. ReportInv'
  BY UrlsStep, ReportStep DEF VerifyInv
<1> SUFFICES HandlerOK' /\ DeadReported'
  BY <1>0 DEF VerifyInv
<1>1. CASE Received
  <2>1. at = "received" /\ report = None /\ UNCHANGED <<request, file, outcome, alive>>
    BY <1>1 DEF VerifyInv, HandlerOK, Received, Handler!Start, Handler!Fail,
                Handler!Answer, vars
  <2>2. CASE request.skip /\ Handler!Answer({}) /\ file.shape # "unreadable"
    <3>1. report' = None => Handler!Derailed
      BY <2>2, ReportMade DEF Handler!Answer, VerifyInv, HandlerOK
    <3>2. Handler!Derailed' = Handler!Derailed
      BY <2>1 DEF Handler!Derailed
    <3> QED
      BY <2>1, <2>2, <3>1, <3>2
         DEF Handler!Answer, VerifyInv, HandlerOK, DeadReported, Called
  <2>3. CASE file.shape = "unreadable" /\ Handler!Fail
    BY <2>1, <2>3 DEF Handler!Fail, VerifyInv, HandlerOK, DeadReported, Called
  <2>4. CASE file.shape # "unreadable" /\ ~request.skip /\ at' = "checking" /\ report' = report
    BY <2>1, <2>4 DEF VerifyInv, HandlerOK, DeadReported, Called
  <2> QED
    BY <1>1, <2>2, <2>3, <2>4 DEF Received, Handler!Start
<1>2. ASSUME NEW u \in Url, Works(u) PROVE HandlerOK' /\ DeadReported'
  <2>1. UNCHANGED outcome /\ check[u] # "done"
    BY <1>2 DEF Works, Probe, Begin, HeadAnswered, HeadLost, GetAnswered, GetLost, GoTo, Return
  <2>2. UNCHANGED <<request, file, at, dead, report, outcome>> /\ outcome # "returned"
    BY <1>2, <2>1 DEF Works, handlerVars, VerifyInv, ReportInv, OutcomeOK
  <2>3. Handler!Derailed' = Handler!Derailed
    BY <2>2 DEF Handler!Derailed
  <2> QED
    BY <2>2, <2>3 DEF VerifyInv, HandlerOK, DeadReported, Called
<1>3. CASE Gathered
  BY <1>3, AnswerWithVerdicts DEF VerifyInv
<1>4. CASE GatherFailed
  <2>1. /\ at = "checking" /\ Called /\ report = None
        /\ at' = "answered" /\ outcome' = "raised" /\ UNCHANGED <<request, file, report>>
    BY <1>4 DEF VerifyInv, HandlerOK, GatherFailed, Handler!Fail, GatherRaises
  <2> QED
    BY <2>1 DEF VerifyInv, HandlerOK, DeadReported, Called
<1>5. CASE UNCHANGED verifyVars
  <2>1. UNCHANGED <<request, file, at, dead, report, check, alive, outcome>>
    BY <1>5 DEF verifyVars, vars, handlerVars
  <2>2. HandlerOK'
    BY <2>1 DEF VerifyInv, HandlerOK, Called, Handler!Derailed
  <2>3. DeadReported'
    BY <2>1 DEF VerifyInv, DeadReported, Handler!Issue
  <2> QED
    BY <2>2, <2>3
<1> QED
  BY <1>1, <1>2, <1>3, <1>4, <1>5 DEF VerifyNext

\* A citation is reported dead just if the server of its URL leaves no other
\* verdict, whatever the order in which the URLs were checked.
THEOREM CitationsAreJudged == VerifySpec => []CitationsJudged
<1>1. VerifyInv => CitationsJudged
  <2> SUFFICES ASSUME VerifyInv, report # None, ~request.skip,
                      NEW i \in DOMAIN request.insights,
                      NEW n \in DOMAIN request.insights[i].sources
               PROVE  Handler!Issue("warning", "url_dead", n) \in report.verifications[i].issues
                        <=> ~Deserves(request.insights[i].sources[n])
    BY DEF CitationsJudged
  <2> DEFINE u == request.insights[i].sources[n]
  <2>1. outcome = "returned" /\ u \in Url
    BY CitesUrls DEF VerifyInv, DeadReported, HandlerOK
  <2>2. alive[u] <=> Deserves(u)
    BY <2>1 DEF VerifyInv, ReportInv, OutcomeOK, TaskOK
  <2> QED
    BY <2>2 DEF VerifyInv, DeadReported
<1> QED
  BY <1>1, VerifyInvInit, VerifyInvStep, PTL DEF VerifySpec

\* A 500 has a cause in the file or in a URL that cannot be used.
THEOREM FailuresAreExplained == VerifySpec => []FailuresExplained
<1>1. VerifyInv => FailuresExplained
  BY DEF VerifyInv, HandlerOK, ReportInv, OutcomeOK, FailuresExplained
<1> QED
  BY <1>1, VerifyInvInit, VerifyInvStep, PTL DEF VerifySpec

\* No request goes out on behalf of a client that has its answer, or that asked
\* for none.
THEOREM NobodyActsUnasked == VerifySpec => SilentWithoutClient
<1>1. VerifyInv /\ [VerifyNext]_verifyVars
        => [at = "answered" \/ request.skip => SendsNothing]_verifyVars
  <2> SUFFICES ASSUME VerifyInv, VerifyNext, at = "answered" \/ request.skip
               PROVE  SendsNothing
    OBVIOUS
  <2>1. CASE check' = check
    BY <2>1 DEF SendsNothing
  <2>2. ASSUME NEW u \in Url, Works(u) PROVE SendsNothing
    <3>1. Closed
      BY <2>2 DEF Works, Called, VerifyInv, HandlerOK, Closed
    <3>2. TypeOK /\ [Next]_vars
      BY <2>2 DEF Works, Next, VerifyInv, ReportInv
    <3> QED
      BY <3>1, <3>2, SilentStep
  <2> QED
    BY <2>1, <2>2
       DEF VerifyNext, Received, Gathered, GatherFailed, GatherReturns, GatherRaises, vars
<1> QED
  BY <1>1, VerifyInvInit, VerifyInvStep, PTL DEF VerifySpec, SilentWithoutClient

\* The verdicts of the tasks are some that module Verification allows for, so
\* that what holds of its reports holds of these.
THEOREM ImplementsVerification == VerifySpec => Handler!Spec
<1>1. VerifyInit => Handler!Init
  BY DEF VerifyInit
<1>2. VerifyInv /\ [VerifyNext]_verifyVars => [Handler!Next]_(Handler!vars)
  <2> SUFFICES ASSUME VerifyInv, [VerifyNext]_verifyVars PROVE [Handler!Next]_(Handler!vars)
    OBVIOUS
  <2>1. CASE Received
    BY <2>1 DEF Received, Handler!Next
  <2>2. CASE Gathered
    <3>1. {u \in Url : ~alive[u]} \in SUBSET Handler!Cited
      BY <2>2, CitesUrls DEF VerifyInv, HandlerOK, Gathered, Called
    <3> QED
      BY <2>2, <3>1 DEF Gathered, Handler!Next, Handler!UrlsChecked
  <2>3. CASE GatherFailed
    BY <2>3 DEF GatherFailed, Handler!Next, Handler!UrlsRaise
  <2>4. CASE UNCHANGED handlerVars
    BY <2>4 DEF handlerVars, Handler!vars
  <2> QED
    BY <2>1, <2>2, <2>3, <2>4 DEF VerifyNext, Works, verifyVars
<1> QED
  BY <1>1, <1>2, VerifyInvInit, VerifyInvStep, PTL DEF VerifySpec, Handler!Spec

\* And the tasks are those of module UrlCheck, also when the handler is gone.
THEOREM RunsUrlCheck == VerifySpec => Spec
BY UrlsStep, PTL DEF VerifySpec, VerifyInit, Spec
=============================================================================
