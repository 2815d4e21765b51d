----------------------------- MODULE Providers -----------------------------
(***************************************************************************)
(* Lookups at the providers of src/upstreams/, as tasks of the event loop.  *)
(* Four providers speak HTTP through httpx; two call a library in a worker  *)
(* thread, under asyncio.wait_for.  The threads are those of the loop's     *)
(* default executor, which also resolves the host names of httpx: a job     *)
(* given up on while it runs keeps its thread until it ends, if it ends.    *)
(***************************************************************************)
EXTENDS Replies

CONSTANTS
    Lookup,
    Menu,       \* lookup -> the providers and arguments it may be made with
    World,      \* service -> what it may reply, or a library may find
    Workers     \* max_workers of the default executor

\* What a provider turns to, first and, in one case, afterwards.
FirstService ==
    [exa |-> "exa", apollo |-> "apollo", firecrawl |-> "firecrawl", sec_edgar |-> "tickers",
     google_trends |-> "google_trends", wappalyzer_oss |-> "wappalyzer_oss"]

Threaded == {"google_trends", "wappalyzer_oss"}

Service == {FirstService[p] : p \in DOMAIN FirstService} \cup {"submissions"}

ASSUME ProvidersAssumption ==
    /\ Workers \in Nat \ {0}
    /\ DOMAIN World = Service
    /\ \A l \in Lookup : \A m \in Menu[l] : m.provider \in DOMAIN FirstService

IsList(s) == Len(s) \in Nat /\ s = [i \in 1..Len(s) |-> s[i]]

\* The arrays of a company's recent filings.
Columns == {"form", "filingDate", "accessionNumber", "primaryDocument"}

\* A reply of HTTP has a status.  An object of EDGAR has the lists the code
\* takes from it, of entries with a name, or an array for each column.  Google
\* measures interest from 0 to 100.
ASSUME WorldAssumption ==
    /\ \A s \in Service \ Threaded : \A r \in World[s] : r.status \in Nat
    /\ \A r \in World["tickers"] : r.body \notin {NotJson, NotObject} =>
          /\ IsList(r.body.dump)
          /\ \A e \in Range(r.body.dump) \ {Junk} : IsFiniteSet(e.title)
    /\ \A r \in World["submissions"] :
          r.body \notin {NotJson, NotObject} /\ r.body.recent # NotObject =>
              DOMAIN r.body.recent = Columns /\ \A f \in Columns : IsList(r.body.recent[f])
    /\ \A told \in World["google_trends"] :
          told.interest \notin {Fails, Absent} => told.interest \in Seq(Nat)

VARIABLES
    look,       \* lookup -> where it stands and what it has heard
    queue,      \* lookups whose job waits for a thread, first come first
    cancelled,  \* lookups whose job no thread is to take any more
    running     \* lookups whose job occupies a thread

vars == <<look, queue, cancelled, running>>

Stages == {"new", "waiting", "asking", "endless", "ended"}

Pending == Raises("pending")

Unasked ==
    [at |-> "new", provider |-> None, arg |-> {}, service |-> None, heard |-> << >>,
     outcome |-> Pending]

Succeeded(l) == look[l].at = "ended" /\ look[l].outcome.raised = "nothing"

Result(l) == look[l].outcome.result

TypeOK ==
    /\ \A l \in Lookup :
          /\ look[l].at \in Stages
          /\ look[l].at # "new" => look[l].provider \in DOMAIN FirstService
          /\ look[l].at = "ended" <=> look[l].outcome # Pending
          /\ look[l].at = "waiting" <=> 
                /\ l \in running \cup Range(queue) /\ l \notin cancelled
                /\ look[l].at # "ended"
          /\ Succeeded(l) /\ look[l].provider = "apollo" =>
                Result(l).headcount = None \/ Result(l).headcount > 0
    /\ cancelled \subseteq Lookup
    /\ running \subseteq Lookup /\ Cardinality(running) =< Workers
    /\ queue \in Seq(Lookup) /\ Cardinality(Range(queue)) = Len(queue)

Init ==
    /\ look = [l \in Lookup |-> Unasked]
    /\ queue = << >>
    /\ cancelled = {}
    /\ running = {}

Becomes(l, q) == look' = [look EXCEPT ![l] = q]

Ended(q, outcome) == [q EXCEPT !.at = "ended", !.outcome = outcome]

\* A job that needs a thread is handed to the executor: a library call, or the
\* look-up of a service's host name.
Submitted(q, service) == [q EXCEPT !.at = "waiting", !.service = service]

\* The guard of every provider against a blank argument, then its first job.
Start(l) ==
    /\ look[l].at = "new"
    /\ \E m \in Menu[l] :
          LET q == [look[l] EXCEPT !.provider = m.provider, !.arg = m.arg]
          IN  \/ /\ m.arg = {}
                 /\ Becomes(l, Ended(q, Raises("ValueError")))
                 /\ UNCHANGED queue
              \/ /\ m.arg # {}
                 /\ Becomes(l, Submitted(q, FirstService[m.provider]))
                 /\ queue' = Append(queue, l)
    /\ UNCHANGED <<cancelled, running>>
----------------------------------------------------------------------------
(* The executor. *)

\* An idle thread takes the job that has waited longest, and lets go of it if
\* it was cancelled.
Taken ==
    /\ queue # << >> /\ Cardinality(running) < Workers
    /\ running' = running \cup ({Head(queue)} \ cancelled)
    /\ queue' = Tail(queue)
    /\ UNCHANGED <<look, cancelled>>

\* The company that was found in the dump of tickers, None, or a failure.
Cik(q) == FindCik(q.arg, q.heard[1])

\* What a lookup comes to with the last thing it has heard.
Outcome(q) ==
    LET last == q.heard[Len(q.heard)]
    IN  CASE q.service = "exa" -> Exa(last)
          [] q.service = "apollo" -> Apollo(last)
          [] q.service = "firecrawl" -> Firecrawl(last)
          [] q.service = "google_trends" -> Trends(last)
          [] q.service = "wappalyzer_oss" -> Wappalyzer(last)
          [] q.service = "tickers" ->
                IF Cik(q).raised = "nothing" THEN Yields(Funding(None, << >>)) ELSE Cik(q)
          [] q.service = "submissions" ->
                LET filings == FetchFilings(last)
                IN  IF filings.raised = "nothing"
                    THEN Yields(Funding(Cik(q).result, filings.result))
                    ELSE filings

GoesOn(q) == q.service = "tickers" /\ Cik(q).raised = "nothing" /\ Cik(q).result # None

Heard(l, reply) == [look[l] EXCEPT !.heard = Append(@, reply)]

\* A lookup ends with the last thing it hears.
Concludes(l, reply) == Becomes(l, Ended(Heard(l, reply), Outcome(Heard(l, reply))))

\* A thread is done with a host name: known or not, if anybody still asks.
Resolved(l) ==
    /\ l \in running /\ look[l].service \notin Threaded
    /\ running' = running \ {l}
    /\ \/ look[l].at = "waiting" /\ Becomes(l, [look[l] EXCEPT !.at = "asking"])
       \/ look[l].at = "waiting" /\ Concludes(l, Lost)
       \/ look[l].at # "waiting" /\ UNCHANGED look
    /\ UNCHANGED <<queue, cancelled>>

\* A library call has returned or raised; one that was given up on is not
\* listened to any more.
Worked(l) ==
    /\ l \in running /\ look[l].service \in Threaded
    /\ running' = running \ {l}
    /\ \/ /\ look[l].at = "waiting"
          /\ \E found \in World[look[l].service] : Concludes(l, found)
       \/ look[l].at # "waiting" /\ UNCHANGED look
    /\ UNCHANGED <<queue, cancelled>>

\* How a timeout ends a lookup: wait_for's as a RuntimeError, the connect
\* timeout of httpx as a reply that will not come.
GivesUp(l) ==
    \/ look[l].service \in Threaded /\ Becomes(l, Ended(look[l], Raises("RuntimeError")))
    \/ look[l].service \notin Threaded /\ Concludes(l, Lost)

\* The timeout counted from the start of the thread.
TimesOutRunning(l) ==
    /\ look[l].at = "waiting" /\ l \in running
    /\ GivesUp(l)
    /\ UNCHANGED <<queue, cancelled, running>>

\* The job shielded from the timeout.
TimesOutShielded(l) ==
    /\ look[l].at = "waiting"
    /\ GivesUp(l)
    /\ UNCHANGED <<queue, cancelled, running>>

\* A job is waited for no longer.  One still in the queue is cancelled, one in
\* a thread goes on there.
TimesOut(l) ==
    /\ look[l].at = "waiting"
    /\ GivesUp(l)
    /\ cancelled' = cancelled \cup ({l} \ running)
    /\ UNCHANGED <<queue, running>>
----------------------------------------------------------------------------
(* HTTP. *)

\* A reply is complete, or httpx raises.  With the company's number the lookup
\* goes on to its filings.
Replied(l) ==
    /\ look[l].at = "asking"
    /\ \E reply \in World[look[l].service] \cup {Lost, Odd} :
          \/ /\ GoesOn(Heard(l, reply))
             /\ Becomes(l, Submitted(Heard(l, reply), "submissions"))
             /\ queue' = Append(queue, l)
          \/ /\ ~GoesOn(Heard(l, reply))
             /\ Concludes(l, reply)
             /\ UNCHANGED queue
    /\ UNCHANGED <<cancelled, running>>

\* The timeouts of httpx are one for each read: a body that keeps coming runs
\* into none of them.
NeverComplete(l) ==
    /\ look[l].at = "asking"
    /\ Becomes(l, [look[l] EXCEPT !.at = "endless"])
    /\ UNCHANGED <<queue, cancelled, running>>

Next ==
    \/ Taken
    \/ \E l \in Lookup :
          Start(l) \/ Resolved(l) \/ Worked(l) \/ TimesOut(l) \/ Replied(l) \/ NeverComplete(l)

Spec == Init /\ [][Next]_vars

\* The loop runs its timers, and httpx ends each read that stalls.  Nothing
\* ends a thread.
FairSpec == Spec /\ \A l \in Lookup : WF_vars(TimesOut(l)) /\ WF_vars(Replied(l))
----------------------------------------------------------------------------
(* Seen from the routes. *)

Says(service) == World[service] \cup IF service \in Threaded THEN {} ELSE {Lost, Odd}

\* The dump of tickers yields a company.
Knows(needle, reply) ==
    FindCik(needle, reply).raised = "nothing" /\ FindCik(needle, reply).result # None

AskOf(q) == [provider |-> q.provider, arg |-> q.arg]

Asks == {AskOf(m) : m \in UNION {Menu[l] : l \in Lookup}}

OneReply(a) ==
    [arg : {a.arg}, service : {FirstService[a.provider]},
     heard : {<<r>> : r \in Says(FirstService[a.provider])}]

TwoReplies(a) ==
    [arg : {a.arg}, service : {"submissions"},
     heard : {<<t, r>> : t \in Says("tickers"), r \in Says("submissions")}]

\* All that can be heard about an ask until it has an answer.
Conversations(a) ==
    {c \in OneReply(a) : ~GoesOn(c)}
      \cup {c \in TwoReplies(a) : a.provider = "sec_edgar" /\ Knows(c.arg, c.heard[1])}

\* The results a provider can come to.
Tellable ==
    [a \in Asks |->
       {Outcome(c).result : c \in {d \in Conversations(a) : Outcome(d).raised = "nothing"}}]

StageOf(q) == IF q.at \in {"new", "ended"} THEN q.at ELSE "asked"

AskedBy(q) == IF q.at = "new" THEN None ELSE AskOf(q)

ToldTo(q) ==
    IF q.at = "ended"
    THEN [status |-> RouteStatus(q.outcome), result |-> q.outcome.result]
    ELSE None

Promise == INSTANCE Upstream WITH
    Answers <- Tellable,
    Blank <- {},
    stage <- [l \in Lookup |-> StageOf(look[l])],
    asked <- [l \in Lookup |-> AskedBy(look[l])],
    told <- [l \in Lookup |-> ToldTo(look[l])]

\* The providers keep the promise of module Upstream: whatever comes late, is
\* given up on or stands in the queue, a lookup has one answer, for what it was
\* made with and of what was said to it, and its route goes on with a result, a
\* 422 or a 502 (sec_edgar.py:49-78 and its like, routes/funding.py:56-66).
AnswersAsPromised == Promise!Spec
----------------------------------------------------------------------------
(* Properties. *)

\* An HTTP provider that is unreachable, refuses the key, has no quota left or
\* fails never turns into an answer, which would be cached for days.  The one
\* exception is a company without a page of submissions (exa.py:71-85 and its
\* like, sec_edgar.py:91, 123-125).
RefusalsNeverAnswer ==
    \A l \in Lookup : Succeeded(l) /\ look[l].service \notin Threaded =>
        \A i \in DOMAIN look[l].heard :
            LET reply == look[l].heard[i]
            IN  /\ reply \notin {Lost, Odd}
                /\ reply.status < 400 \/ (i = 2 /\ reply.status = 404)
                /\ reply.status < 400 => reply.body # NotJson

\* Of a dump that can be read, a company is taken that the needle names; if
\* only in part, none is named in full and none has a shorter name; and if
\* none is taken, the needle is part of no name (sec_edgar.py:83-119).
MatchJustified ==
    \A l \in Lookup :
        Succeeded(l) /\ look[l].provider = "sec_edgar" /\ look[l].heard[1].body # NotObject =>
            LET listed == Range(look[l].heard[1].body.dump) \ {Junk}
                c == Result(l).company
                needle == look[l].arg
            IN  \/ c = None /\ \A e \in listed :
                      e.ticker # needle /\ ~(needle \subseteq e.title)
                \/ c \in listed /\ needle \in {c.ticker, c.title}
                \/ c \in listed /\ needle \subseteq c.title
                     /\ \A e \in listed :
                           /\ needle \notin {e.ticker, e.title}
                           /\ needle \subseteq e.title
                                => Cardinality(c.title) =< Cardinality(e.title)

\* Every filing of a result is one row of the company's parallel arrays, which
\* may differ in length, with its own form, day and number; rows keep their
\* order, and one of interest is left out only beyond the maximum
\* (sec_edgar.py:136-157).
FilingsTrue ==
    \A l \in Lookup :
        Succeeded(l) /\ look[l].service = "submissions" /\ look[l].heard[2].status = 200
          /\ look[l].heard[2].body.recent # NotObject =>
            LET recent == look[l].heard[2].body.recent
                filings == Result(l).filings
                complete == {i \in DOMAIN recent.form : \A f \in DOMAIN recent : i \in DOMAIN recent[f]}
                good == {i \in complete : recent.form[i] = "10-K" /\ recent.filingDate[i] # Junk}
            IN  \E row \in [DOMAIN filings -> good] :
                  /\ \A n \in DOMAIN filings : \A f \in DOMAIN recent :
                        filings[n][f] = recent[f][row[n]]
                  /\ \A m, n \in DOMAIN filings : m < n => row[m] < row[n]
                  /\ \A i \in good \ Range(row) :
                        Len(filings) = MaxFilings /\ \A n \in DOMAIN filings : row[n] < i

\* A query of Google that failed, which does not fail the lookup, is at least
\* owned up to in the notes of the result (google_trends.py:117-137).
FailuresNoted ==
    \A l \in Lookup : Succeeded(l) /\ look[l].provider = "google_trends" =>
        LET told == look[l].heard[1]
        IN  /\ told.interest = Fails => "interest" \in Result(l).notes
            /\ told.related = Fails => "related" \in Result(l).notes

\* A series that grows does not grow when it is read backwards, and one that
\* declines does not decline; what is too short to tell is so either way
\* (google_trends.py:146-162).
TrendsHaveADirection ==
    \A l \in Lookup :
        Succeeded(l) /\ look[l].provider = "google_trends"
          /\ look[l].heard[1].interest \notin {Fails, Absent} =>
            LET forth == Result(l).growth
                back == ClassifyTrend(Reverse(look[l].heard[1].interest))
            IN  /\ forth = back => forth \in {"flat", "unknown"}
                /\ forth = "unknown" <=> back = "unknown"

EndedStays ==
    \A l \in Lookup : look[l].at = "ended" =>
        look'[l] = look[l] /\ (l \in running' => l \in running)

\* A lookup that has ended is over: the thread it was given up on may come
\* back with an answer and changes nothing, and the job it was given up on
\* before a thread took it costs no thread later (google_trends.py:61-66,
\* wappalyzer_oss.py:52-59).
AbandonedIsOver == [][EndedStays]_vars

\* Every lookup ends, though the threads be stuck for ever under others, or
\* under itself; only an HTTP body without end keeps its lookup.
EveryLookupEnds ==
    \A l \in Lookup : look[l].at # "new" ~> look[l].at \in {"ended", "endless"}

\* routes/funding.py:59: "Provider rejected the input - treat as 422."  So a
\* 422 means that the argument was blank.
OnlyInputIsRejected ==
    \A l \in Lookup :
        look[l].at = "ended" /\ RouteStatus(look[l].outcome) = 422 => look[l].arg = {}
=============================================================================
