------------------------------- MODULE Verify -------------------------------
(***************************************************************************)
(* POST /verify as a whole: the handler of module Verification, whose one   *)
(* await is here a run of module UrlCheck over the URLs the request cites.  *)
(* The tasks of that run may outlive the answer.                            *)
(***************************************************************************)
EXTENDS UrlCheck

CONSTANTS
    Requests, Bounds, Faults, HeadcountPct, ArrMultiplier, FundingTenths, Year, PublicSuffix, None

VARIABLES request, file, at, dead, report

Handler == INSTANCE Verification

\* A request cites some set of URLs; those considered together here cite the
\* same, unless they ask not to have them checked.
ASSUME VerifyAssumption ==
    /\ Handler!VerificationAssumption
    /\ Handler!HostsAssumption
    /\ Handler!NoneAssumption
    /\ \A q \in Requests :
          \/ q.skip
          \/ UNION {Handler!ToSet(ins.sources) : ins \in Handler!ToSet(q.insights)} = Url

handlerVars == <<request, file, at, dead, report>>

verifyVars == <<vars, handlerVars>>
----------------------------------------------------------------------------
\* A skip_url_check that is not looked at.
CalledRegardless == at # "received" /\ file.shape # "unreadable"

\* head_check_many has been called.
Called == at # "received" /\ ~request.skip /\ file.shape # "unreadable"

Received == Handler!Start /\ UNCHANGED vars

\* A task of head_check_many, which its caller may have left behind.
Works(u) == Called /\ Probe(u) /\ UNCHANGED handlerVars

Gathered ==
    /\ at = "checking"
    /\ GatherReturns
    /\ Handler!Answer({u \in Url : ~alive[u]})

GatherFailed == at = "checking" /\ GatherRaises /\ Handler!Fail

VerifyInit == Init /\ Handler!Init

VerifyNext == Received \/ Gathered \/ GatherFailed \/ \E u \in Url : Works(u)

VerifySpec == VerifyInit /\ [][VerifyNext]_verifyVars

\* Every request but an endless one is answered or times out, the event loop
\* resumes what can go on, and the semaphore, which serves its waiters in
\* turn, passes nobody over for ever.
FairVerifySpec ==
    /\ VerifySpec
    /\ WF_verifyVars(Received) /\ WF_verifyVars(Gathered \/ GatherFailed)
    /\ \A u \in Url : WF_verifyVars(Works(u))
----------------------------------------------------------------------------
(* Properties. *)

\* A citation is reported dead, in each insight and as often as it is made,
\* just if the server of its URL leaves no other verdict, whatever the order in
\* which the URLs were checked and how they are shared among the insights
\* (_api.py:33-54, _url.py:16-39).
CitationsJudged ==
    report # None /\ ~request.skip =>
        \A i \in DOMAIN request.insights :
            LET sources == request.insights[i].sources
            IN  \A n \in DOMAIN sources :
                  Handler!Issue("warning", "url_dead", n) \in report.verifications[i].issues
                    <=> ~Deserves(sources[n])

\* A 500 has a cause in the file or in a URL that cannot be used; no failure of
\* the network is one (verify.py:46-57, _url.py:17, _sanity.py:30-40).
FailuresExplained ==
    at = "answered" /\ report = None =>
        \/ file.shape = "unreadable" \/ Handler!Derailed
        \/ ~request.skip /\ \E u \in Url : site[u].head = "unusable"

\* No request goes out on behalf of a client that has its answer, or that asked
\* for none (_api.py:34, _url.py:37-38).
SilentWithoutClient ==
    [][at = "answered" \/ request.skip => SendsNothing]_verifyVars

\* Every request is answered, unless the GET of some URL it cites never ends;
\* with skip_url_check even then (_url.py:17).
VerifyAnswered ==
    at = "received" /\ (request.skip \/ ~Hostage) ~> at = "answered"
=============================================================================
