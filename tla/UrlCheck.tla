------------------------------ MODULE UrlCheck ------------------------------
(***************************************************************************)
(* head_check_many of src/verification/_url.py: one task per distinct URL,  *)
(* a semaphore around them, and gather, which returns when all of them have *)
(* returned and raises when the first of them raises.                       *)
(*                                                                          *)
(* A task loses control while it waits for the semaphore and while a        *)
(* request is under way.  When gather raises, its caller leaves the block   *)
(* of the HTTP client, which closes it, and the tasks that are left run on  *)
(* with a closed client.  The servers are external.                         *)
(***************************************************************************)
EXTENDS Integers, FiniteSets

CONSTANTS
    Url,            \* the distinct URLs
    Concurrency     \* HEAD_CONCURRENCY, the permits of the semaphore

ASSUME UrlCheckAssumption == IsFiniteSet(Url) /\ Concurrency \in Nat \ {0}

VARIABLES
    site,       \* url -> how it takes a HEAD and a GET; never changes
    check,      \* url -> where its _check_one stands
    alive,      \* url -> the verdict its _check_one returned
    outcome     \* what has become of head_check_many

vars == <<site, check, alive, outcome>>
----------------------------------------------------------------------------
\* How a request can end: a status in 200..399, any other status, or an
\* httpx.HTTPError or OSError, timeouts included.  A URL that httpx cannot use
\* at all (InvalidURL, which is neither) never gets as far as its GET.  The
\* timeout of five seconds is one for each read, so the body of a GET that
\* keeps coming ends in none of these ways.
Site == [head : {"fine", "refused", "lost", "unusable"},
         get : {"fine", "refused", "lost", "endless"}]

Stages == {"waiting", "head", "get", "done", "failed"}

TypeOK ==
    /\ site \in [Url -> Site]
    /\ check \in [Url -> Stages]
    /\ alive \in [Url -> BOOLEAN]
    /\ outcome \in {"pending", "returned", "raised"}

Init ==
    /\ site \in [Url -> Site]
    /\ check = [u \in Url |-> "waiting"]
    /\ alive = [u \in Url |-> FALSE]
    /\ outcome = "pending"

\* The client is closed as soon as the wait on gather is over.
Closed == outcome # "pending"

\* A semaphore whose permits do not come back.
ActiveForEver == {u \in Url : check[u] # "waiting"}

\* Permits that are given back before the fallback.
ActiveHeads == {u \in Url : check[u] = "head"}

\* The tasks inside the semaphore.
Active == {u \in Url : check[u] \in {"head", "get"}}

Return(u, verdict) ==
    /\ check' = [check EXCEPT ![u] = "done"]
    /\ alive' = [alive EXCEPT ![u] = verdict]
    /\ UNCHANGED <<site, outcome>>

GoTo(u, stage) ==
    /\ check' = [check EXCEPT ![u] = stage]
    /\ UNCHANGED <<site, alive, outcome>>
----------------------------------------------------------------------------
\* A permit is free: the HEAD goes out, unless the URL is unusable or the
\* client closed; then the task ends in an exception that is not caught.
Begin(u) ==
    /\ check[u] = "waiting"
    /\ Cardinality(Active) < Concurrency
    /\ GoTo(u, IF Closed \/ site[u].head = "unusable" THEN "failed" ELSE "head")

\* A verdict without a look at the status.
HeadAnsweredAtAll(u) ==
    /\ check[u] = "head"
    /\ site[u].head \in {"fine", "refused"}
    /\ Return(u, TRUE)

HeadAnswered(u) ==
    /\ check[u] = "head"
    /\ site[u].head \in {"fine", "refused"}
    /\ Return(u, site[u].head = "fine")

\* The fallback sent over a client that is closed.
HeadLostUnaware(u) ==
    /\ check[u] = "head"
    /\ site[u].head = "lost" \/ Closed
    /\ GoTo(u, "get")

\* The HEAD fails, on its own or because the client was closed under it.  The
\* GET goes out, or finds the client closed, a RuntimeError no one catches.
HeadLost(u) ==
    /\ check[u] = "head"
    /\ site[u].head = "lost" \/ Closed
    /\ GoTo(u, IF Closed THEN "failed" ELSE "get")

GetAnswered(u) ==
    /\ check[u] = "get"
    /\ site[u].get \in {"fine", "refused"}
    /\ Return(u, site[u].get = "fine")

\* A fallback whose own failure is not caught.
GetLostUncaught(u) ==
    /\ check[u] = "get"
    /\ site[u].get = "lost" \/ Closed
    /\ GoTo(u, "failed")

\* A fallback put aside for another try that nothing makes.
GetLostPutAside(u) ==
    /\ check[u] = "get"
    /\ site[u].get = "lost" \/ Closed
    /\ GoTo(u, "aside")

GetLost(u) ==
    /\ check[u] = "get"
    /\ site[u].get = "lost" \/ Closed
    /\ Return(u, FALSE)

\* gather, and with it head_check_many, is done.
GatherReturns ==
    /\ outcome = "pending"
    /\ \A u \in Url : check[u] = "done"
    /\ outcome' = "returned"
    /\ UNCHANGED <<site, check, alive>>

GatherRaises ==
    /\ outcome = "pending"
    /\ \E u \in Url : check[u] = "failed"
    /\ outcome' = "raised"
    /\ UNCHANGED <<site, check, alive>>

Probe(u) ==
    \/ Begin(u) \/ HeadAnswered(u) \/ HeadLost(u)
    \/ GetAnswered(u) \/ GetLost(u)

Gather == GatherReturns \/ GatherRaises

Next == (\E u \in Url : Probe(u)) \/ Gather

Spec == Init /\ [][Next]_vars
----------------------------------------------------------------------------
(* Properties. *)

\* The verdict a URL deserves: its HEAD is answered well, or is lost and the
\* GET is answered well.
Deserves(u) ==
    \/ site[u].head = "fine"
    \/ site[u].head = "lost" /\ site[u].get = "fine"

\* A report that is returned has the right verdict for every URL, whatever
\* the order in which the tasks got their permits and their answers
\* (_url.py:17).
ReportSound == outcome = "returned" => \A u \in Url : alive[u] <=> Deserves(u)

\* No failure of the network, of any number of URLs, fails the report; one
\* unusable URL does (_url.py:17, "Network failures = not alive").
NetworkNeverFatal ==
    outcome = "raised" => \E u \in Url : site[u].head = "unusable"

\* Never more requests under way than there are permits, fallbacks included
\* (_url.py:13, _url.py:24).
PermitsRespected == Cardinality({u \in Url : check[u] \in {"head", "get"}}) =< Concurrency

\* A step in which no request goes out.
SendsNothing == \A u \in Url : check'[u] \in {"head", "get"} => check'[u] = check[u]

\* Tasks that outlive the report send nothing more (_url.py:37-38).
NothingSentAfter == [][Closed => SendsNothing]_vars

\* The GET of some URL never ends.
Hostage == \E u \in Url : site[u].head = "lost" /\ site[u].get = "endless"

\* _url.py:29: servers that reject HEAD get a GET instead.  So a page that can
\* be fetched is not reported dead only because its server rejects HEAD.
RejectedHeadRetried ==
    outcome = "returned" =>
        \A u \in Url : site[u].head = "refused" /\ site[u].get = "fine" => alive[u]
=============================================================================
