---------------------------- MODULE Verification ----------------------------
(***************************************************************************)
(* POST /verify: the handler of src/routes/verify.py and the checks of      *)
(* src/verification/ it runs over a list of insights.  The checks are       *)
(* operators; the handler awaits once, for the verdicts on the cited URLs,  *)
(* which are any here and those of module UrlCheck in module Verify.        *)
(*                                                                          *)
(* What the regular expressions find in the texts of an insight is given as *)
(* a sequence of facts, each a metric and a number in its unit.  A netloc is *)
(* a record: who logs in ("none", a "name", or a name with a "password"),   *)
(* under which name, the host as a sequence of labels, the last of them ""  *)
(* when it ends in a dot, and the port.                                     *)
(***************************************************************************)
EXTENDS Integers, Sequences, FiniteSets, SequencesExt

CONSTANTS
    Requests,       \* the validated bodies: insights, target_domain, skip_url_check
    Bounds,         \* sanity-bounds.yaml: metric -> its min and max
    Faults,         \* the sets of its entries that may be wrong together
    HeadcountPct, ArrMultiplier, FundingTenths, \* its disagreement_thresholds
    Year,           \* the present one
    PublicSuffix,   \* the label sequences under which domains are sold
    None

Confidence == {"low", "medium", "high"}

\* Of a sanity issue the number is known, of a dead URL its place.
Issues == [severity : {"error", "warning"},
           code : DOMAIN Bounds \cup {"no_sources", "single_source_domain",
                                      "self_citation_only", "url_dead"},
           about : Nat]

\* A contradiction is a pair of facts, each given by its insight and its place.
Reports == [verifications : Seq([issues : SUBSET Issues, suggested : Confidence]),
            contradictions : SUBSET ((Nat \X Nat) \X (Nat \X Nat))]

\* Insights, their sources and facts come in lists, numbers count the unit of
\* their metric.  The code of a sanity issue is called by its metric here; none
\* is called like a code of another check.
ASSUME VerificationAssumption ==
    /\ {Year, HeadcountPct, ArrMultiplier, FundingTenths} \subseteq Nat
    /\ {"no_sources", "url_dead"} \cap DOMAIN Bounds = {}
    /\ Faults \subseteq SUBSET (DOMAIN Bounds \cup
          {"disagreement_thresholds", "headcount_pct", "arr_multiplier", "funding_multiplier"})
    /\ \A q \in Requests :
          /\ q.insights \in Seq(ToSet(q.insights))
          /\ \A ins \in ToSet(q.insights) :
                /\ ins.confidence \in Confidence
                /\ ins.sources \in Seq(ToSet(ins.sources))
                /\ ins.facts \in Seq(ToSet(ins.facts))
                /\ \A k \in DOMAIN ins.facts : ins.facts[k].value \in Nat

ASSUME NoneAssumption == None \notin Reports

\* HttpUrl drops an empty name that has no password.  A name with a dot in
\* it, and an address in brackets, are left out.
ASSUME HostsAssumption ==
    \A q \in Requests :
        \A s \in UNION {ToSet(ins.sources) : ins \in ToSet(q.insights)} :
            /\ s.host \in Seq(STRING) /\ s.host # << >>
            /\ s.login \in {"none", "name", "password"} /\ s.user \in STRING

VARIABLES
    request,
    file,       \* sanity-bounds.yaml: its shape, which is "table", "missing" (or
                \* empty or not YAML), "shapeless" (YAML, but no mapping) or
                \* "unreadable", and the entries of the table that are wrong
    at,         \* where the handler stands
    dead,       \* the cited URLs whose verdict is negative
    report      \* what it answers; None with status 500

vars == <<request, file, at, dead, report>>
----------------------------------------------------------------------------
(* Source diversity. *)

\* A domain that keeps its subdomains.
RegistrableWhole(netloc) == [user |-> "", labels |-> netloc.host]

LastTwo(labels) ==
    IF Len(labels) >= 2 THEN SubSeq(labels, Len(labels) - 1, Len(labels)) ELSE labels

\* Everything from the first colon on goes, and so does a "www." at the very
\* beginning; the last two labels stay, and a name stays before the first.
Registrable(netloc) ==
    LET host == netloc.host
        bare == IF netloc.login = "none" /\ Len(host) >= 2 /\ Head(host) = "www"
                THEN Tail(host) ELSE host
    IN  IF netloc.login = "password" THEN [user |-> "", labels |-> <<netloc.user>>]
        ELSE [user |-> IF netloc.login = "name" /\ Len(host) =< 2 THEN netloc.user ELSE "",
              labels |-> LastTwo(bare)]

\* What is left of a netloc that begins with a colon, or is "www.": no domain.
Nothing == [user |-> "", labels |-> <<"">>]

Domains(ins) == {Registrable(s) : s \in ToSet(ins.sources)} \ {Nothing}

Issue(severity, code, about) == [severity |-> severity, code |-> code, about |-> about]

DiversityIssues(ins, target) ==
    LET domains == Domains(ins)
        broken == {rule \in {"single_source_domain", "self_citation_only"} :
                     IF rule = "single_source_domain" THEN Cardinality(domains) < 2
                     ELSE target # None /\ domains = {Registrable(target)}}
    IN  IF ins.sources = << >> THEN {Issue("error", "no_sources", 0)}
        ELSE IF ins.confidence # "high" THEN {}
        ELSE {Issue("warning", rule, 0) : rule \in broken}

Codes(issues) == {i.code : i \in issues}

\* A suggestion that is missing where no rule applies.
SuggestedOrNone(ins, issues) ==
    IF "no_sources" \in Codes(issues) THEN "low"
    ELSE IF {"single_source_domain", "self_citation_only"} \cap Codes(issues) # {}
    THEN "medium" ELSE None

\* A suggestion that goes down one step for each of the two rules.
SuggestedTwicePunished(ins, issues) ==
    IF "no_sources" \in Codes(issues) THEN "low"
    ELSE CASE {"single_source_domain", "self_citation_only"} \subseteq Codes(issues) -> "low"
           [] "single_source_domain" \in Codes(issues) -> "medium"
           [] OTHER -> ins.confidence

\* downgrade_for_diversity.
Suggested(ins, issues) ==
    IF "no_sources" \in Codes(issues) THEN "low"
    ELSE IF /\ ins.confidence = "high"
            /\ {"single_source_domain", "self_citation_only"} \cap Codes(issues) # {}
    THEN "medium" ELSE ins.confidence
----------------------------------------------------------------------------
(* Numbers. *)

\* The ceiling of a founding year is never below the present year.
Ceiling(metric) ==
    IF metric = "founding_year" /\ Bounds[metric].max < Year THEN Year ELSE Bounds[metric].max

\* check_sanity: a number is looked at once however often it occurs.
SanityIssues(ins) ==
    {Issue("warning", f.metric, f.value) :
        f \in {g \in ToSet(ins.facts) :
                 /\ file.shape = "table" /\ g.metric \in DOMAIN Bounds
                 /\ g.value < Bounds[g.metric].min \/ g.value > Ceiling(g.metric)}}

\* The ratio taken in the order of the insights.
ExceedsInOrder(a, b, num, den) == a = 0 \/ b = 0 \/ a * den > b * num

\* The greater of the two is more than num/den times the smaller.
Exceeds(a, b, num, den) ==
    a = 0 \/ b = 0 \/ a * den > b * num \/ b * den > a * num

\* The difference is more than pct per cent of the greater one.  A zero
\* counts as a difference of 100.
Differs(a, b, pct) ==
    LET hi == IF a > b THEN a ELSE b
        lo == IF a > b THEN b ELSE a
    IN  IF lo = 0 THEN 100 > pct ELSE (hi - lo) * 100 > pct * hi

Disagree(metric, a, b) ==
    /\ a # 0 \/ b # 0
    /\ IF metric = "headcount" THEN Differs(a, b, HeadcountPct)
       ELSE IF metric = "arr_usd" THEN Exceeds(a, b, ArrMultiplier, 1)
       ELSE IF metric \in {"funding_round_usd", "valuation_usd"}
       THEN Exceeds(a, b, FundingTenths, 10)
       ELSE a # b

\* The facts of a list of insights, each by the insight and its place there.
Observed(insights) ==
    UNION {{<<i, k>> : k \in DOMAIN insights[i].facts} : i \in DOMAIN insights}

FactAt(insights, o) == insights[o[1]].facts[o[2]]

\* Every pair of observations of a metric, in the order they were made, from
\* two insights of different domains.
Compared(insights) ==
    {p \in Observed(insights) \X Observed(insights) :
       /\ p[1][1] < p[2][1]
       /\ insights[p[1][1]].domain # insights[p[2][1]].domain
       /\ FactAt(insights, p[1]).metric = FactAt(insights, p[2]).metric}

\* find_cross_domain_contradictions.
Contradictions(insights) ==
    LET fact(o) == FactAt(insights, o)
    IN  {p \in Compared(insights) :
           Disagree(fact(p[1]).metric, fact(p[1]).value, fact(p[2]).value)}
----------------------------------------------------------------------------
(* The report. *)

Cited == UNION {ToSet(ins.sources) : ins \in ToSet(request.insights)}

\* A dead URL that is reported where it is cited first.
UrlIssuesFirst(ins, gone) ==
    {Issue("warning", "url_dead", n) :
        n \in {m \in DOMAIN ins.sources :
                 ins.sources[m] \in gone /\ \A k \in 1..(m - 1) : ins.sources[k] # ins.sources[m]}}

\* A dead URL is reported once for each time it is cited.
UrlIssues(ins, gone) ==
    {Issue("warning", "url_dead", n) : n \in {m \in DOMAIN ins.sources : ins.sources[m] \in gone}}

IssuesOf(ins, gone) ==
    DiversityIssues(ins, request.target) \cup SanityIssues(ins) \cup UrlIssues(ins, gone)

Verified(ins, gone) ==
    [issues |-> IssuesOf(ins, gone), suggested |-> Suggested(ins, IssuesOf(ins, gone))]

Report(gone) ==
    [verifications |-> [i \in DOMAIN request.insights |-> Verified(request.insights[i], gone)],
     contradictions |-> Contradictions(request.insights)]

\* The entries of disagreement_thresholds, itself one, that a pair of numbers
\* of a metric is judged by.
ThresholdsOf(metric) ==
    IF metric = "headcount" THEN {"disagreement_thresholds", "headcount_pct"}
    ELSE IF metric = "arr_usd" THEN {"disagreement_thresholds", "arr_multiplier"}
    ELSE IF metric \in {"funding_round_usd", "valuation_usd"}
    THEN {"disagreement_thresholds", "funding_multiplier"}
    ELSE {}

\* An exception ends the checks: at the first number with a file that holds no
\* mapping, at a number of a metric whose floor is no number, and at a pair
\* whose threshold is no number or is looked for in what is no mapping.
Derailed ==
    LET fact(o) == FactAt(request.insights, o)
    IN  \/ file.shape = "shapeless" /\ Observed(request.insights) # {}
        \/ \E o \in Observed(request.insights) : fact(o).metric \in file.faulty
        \/ \E p \in Compared(request.insights) :
              /\ fact(p[1]).value # 0 \/ fact(p[2]).value # 0
              /\ ThresholdsOf(fact(p[1]).metric) \cap file.faulty # {}

Answer(gone) ==
    /\ at' = "answered"
    /\ dead' = gone
    /\ report' = IF Derailed THEN None ELSE Report(gone)
    /\ UNCHANGED <<request, file>>

Fail ==
    /\ at' = "answered"
    /\ UNCHANGED <<request, file, dead, report>>
----------------------------------------------------------------------------
Stages == {"received", "checking", "answered"}

\* Only a table has entries that can be wrong.
Files ==
    [shape : {"table"}, faulty : Faults]
        \cup [shape : {"missing", "shapeless", "unreadable"}, faulty : {{}}]

TypeOK ==
    /\ request \in Requests
    /\ file \in Files
    /\ at \in Stages
    /\ dead \subseteq Cited
    /\ report # None =>
         report \in Reports /\ DOMAIN report.verifications = DOMAIN request.insights

Init ==
    /\ request \in Requests
    /\ file \in Files
    /\ at = "received"
    /\ dead = {}
    /\ report = None

\* The bounds are loaded, once and for all checks; then the URLs, unless the
\* request asks not to.
Start ==
    /\ at = "received"
    /\ \/ file.shape = "unreadable" /\ Fail
       \/ file.shape # "unreadable" /\ request.skip /\ Answer({})
       \/ /\ file.shape # "unreadable" /\ ~request.skip
          /\ at' = "checking"
          /\ UNCHANGED <<request, file, dead, report>>

UrlsChecked == at = "checking" /\ \E gone \in SUBSET Cited : Answer(gone)

\* head_check_many raises.
UrlsRaise == at = "checking" /\ Fail

Next == Start \/ UrlsChecked \/ UrlsRaise

Spec == Init /\ [][Next]_vars
----------------------------------------------------------------------------
(* Properties. *)

\* The domain under which a host is registered: one label more than the
\* longest public suffix it ends in, whoever logs in, and with or without the
\* dot of the root behind it.
Registered(netloc) ==
    LET host == IF Last(netloc.host) = "" THEN Front(netloc.host) ELSE netloc.host
        ends == {n \in 1..Len(host) : SubSeq(host, Len(host) - n + 1, Len(host)) \in PublicSuffix}
    IN  IF ends = {} \/ Max(ends) = Len(host) THEN host
        ELSE SubSeq(host, Len(host) - Max(ends), Len(host))

\* A netloc that is cut to labels of its host and nothing else, without
\* losing one of the last two.  The others are told apart where their hosts
\* are registered together: a name before a host of up to two labels, a name
\* with a password, a dot at the end, "www." and one label.
Plain(netloc) ==
    /\ netloc.login = "none" \/ (netloc.login = "name" /\ Len(netloc.host) > 2)
    /\ Last(netloc.host) # ""
    /\ ~(Len(netloc.host) = 2 /\ Head(netloc.host) = "www")

\* High confidence is suggested only for an insight whose sources are really
\* registered under two domains, as rule 1 has it, unless a source is not
\* plain.  That the last two labels stand in for the registered domain may
\* cost an insight a high it deserves, and never earns it one; what the cut
\* leaves of a source that is not plain can (_diversity.py:3-10, 71-89).
HighIsEarned ==
    report # None =>
        \A i \in DOMAIN request.insights :
            LET cited == ToSet(request.insights[i].sources)
            IN  report.verifications[i].suggested = "high" =>
                    \/ Cardinality({Registered(s) : s \in cited}) >= 2
                    \/ \E s \in cited : ~Plain(s)

\* The rules together cost an insight with sources at most the step from high
\* to medium, and no check raises a confidence (_diversity.py:57-65).
Rank(confidence) == IF confidence = "low" THEN 0 ELSE IF confidence = "medium" THEN 1 ELSE 2

DowngradeMeasured ==
    report # None =>
        \A i \in DOMAIN request.insights :
            LET ins == request.insights[i]
                suggested == report.verifications[i].suggested
            IN  /\ Rank(suggested) =< Rank(ins.confidence)
                /\ ins.sources # << >> /\ suggested # ins.confidence
                     => ins.confidence = "high" /\ suggested = "medium"

\* Which facts contradict each other does not depend on the order in which
\* the insights are listed (_contradictions.py:45-63).
OrderIrrelevant ==
    LET n == Len(request.insights)
        Mirrored(o) == <<n + 1 - o[1], o[2]>>
    IN  report # None =>
            report.contradictions =
                {<<Mirrored(p[2]), Mirrored(p[1])>> :
                    p \in Contradictions(Reverse(request.insights))}
=============================================================================
