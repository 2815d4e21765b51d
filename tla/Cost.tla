-------------------------------- MODULE Cost --------------------------------
(***************************************************************************)
(* The cost log of src/cost.py: record inserts a row, daily_total sums a    *)
(* skill's rows of the last day, both over a connection pool opened by the  *)
(* first call of the process.                                               *)
(*                                                                          *)
(* A coroutine loses control while the pool is created, while the           *)
(* migrations run, while it waits for a connection, while its statement     *)
(* runs and while the connection is given back.  Postgres is external: it   *)
(* outlives the process, and may carry out an INSERT long after whoever     *)
(* sent it has given it up, or never.                                       *)
(***************************************************************************)
EXTENDS Integers, Sequences, FiniteSets, Sums

CONSTANTS
    Caller,         \* coroutines that use the log
    Skill,
    Usd,            \* the costs a row may carry
    Note,           \* the rest of a row: endpoint, status, cache_hit, request_id
    NoNote,
    Dsn,            \* "unset", "malformed" (asyncpg refuses it) or "set"
    PoolSize,       \* max_size of the pool
    Window,         \* the 24 hours of daily_total, in ticks
    MaxRows,        \* bound on the rows written
    Horizon         \* bound on the clock

ASSUME CostAssumption ==
    /\ Skill # {}
    /\ Usd \subseteq Nat /\ Usd # {}
    /\ NoNote \notin Note
    /\ Dsn \in {"unset", "malformed", "set"}
    /\ PoolSize \in Nat \ {0}
    /\ Window \in Nat \ {0}
    /\ MaxRows \in Nat /\ Horizon \in Nat

VARIABLES
    life,       \* parity of the number of restarts
    now,        \* the clock of the service and of Postgres
    pool,       \* _pool: "none" or "open"
    attempted,  \* _pool_attempted
    costLog,    \* the table cost_log, in the order its rows became visible
    lateRows,   \* rows of given up INSERTs that Postgres may still carry out
    query       \* caller -> the call it is in, or its last one

vars == <<life, now, pool, attempted, costLog, lateRows, query>>
----------------------------------------------------------------------------
Row == [skill : Skill, usd : Usd, note : Note, ts : 0..Horizon]

Stages == {"idle", "connect", "migrate", "acquire", "statement", "release", "done", "raised"}

Query == [at : Stages, op : {"record", "total"}, skill : Skill, usd : Usd,
          note : Note \cup {NoNote}, cutoff : Int, spent : Nat]

Quiet(c) == query[c].at \in {"idle", "done", "raised"}

Rest == [at |-> "idle", op |-> "total", skill |-> CHOOSE s \in Skill : TRUE,
         usd |-> CHOOSE u \in Usd : TRUE, note |-> NoNote, cutoff |-> 0, spent |-> 0]

\* The connections of the pool that are lent out.
Holders == {c \in Caller : query[c].at \in {"statement", "release"}}

TypeOK ==
    /\ life \in {0, 1}
    /\ now \in 0..Horizon
    /\ pool \in {"none", "open"}
    /\ attempted \in BOOLEAN
    /\ costLog \in Seq(Row)
    /\ lateRows \subseteq Row
    /\ query \in [Caller -> Query]

Init ==
    /\ life = 0
    /\ now = 0
    /\ pool = "none"
    /\ attempted = FALSE
    /\ costLog \in {<< >>} \cup {<<r>> : r \in [skill : Skill, usd : Usd, note : Note, ts : {0}]}
    /\ lateRows = {}
    /\ query = [c \in Caller |-> Rest]
----------------------------------------------------------------------------
(* Coroutine steps. *)

\* The share of each row of a log in the costs of s since t.
Shares(log, s, t) ==
    [i \in DOMAIN log |-> IF log[i].skill = s /\ log[i].ts > t THEN log[i].usd ELSE 0]

\* SELECT COALESCE(SUM(upstream_cost_usd), 0) ... WHERE skill_id = s AND ts > t
SpentSince(s, t) == Sum(Shares(costLog, s, t))

\* A call that has the pool waits for a connection.  daily_total fixes the
\* start of its window before it waits.
Ready(r) ==
    [r EXCEPT !.at = "acquire",
              !.cutoff = IF r.op = "total" THEN now - Window ELSE @]

\* The end of a call: what daily_total returns, and nothing for record.
Finish(r, usd) == [r EXCEPT !.at = "done", !.spent = usd]

\* A call whose statement is over leaves "async with pool.acquire()", which
\* awaits that the connection is given back.
Leave(r, usd) == [r EXCEPT !.at = "release", !.spent = usd]

\* The first call of a process: telemetry off, a DSN that asyncpg refuses
\* with an exception _get_pool does not catch, or the pool being created.
Opening(r) ==
    IF Dsn = "unset" THEN Finish(r, 0)
    ELSE [r EXCEPT !.at = IF Dsn = "malformed" THEN "raised" ELSE "connect"]

\* GetPool with the flag never set before the pool is there.
GetPoolFlagLast(c, r) ==
    \/ /\ pool = "open"
       /\ query' = [query EXCEPT ![c] = Ready(r)]
       /\ UNCHANGED attempted
    \/ /\ pool = "none"
       /\ query' = [query EXCEPT ![c] = Opening(r)]
       /\ UNCHANGED attempted

\* The opening of both operations: _get_pool up to its first await, and what
\* follows it when it does not await at all.
GetPool(c, r) ==
    \/ /\ pool = "open"
       /\ query' = [query EXCEPT ![c] = Ready(r)]
       /\ UNCHANGED attempted
    \/ /\ pool = "none" /\ attempted
       /\ query' = [query EXCEPT ![c] = Finish(r, 0)]
       /\ UNCHANGED attempted
    \/ /\ pool = "none" /\ ~attempted
       /\ attempted' = TRUE
       /\ query' = [query EXCEPT ![c] = Opening(r)]

Begin(c, op, s, usd, note) ==
    /\ Quiet(c)
    /\ GetPool(c, [at |-> "idle", op |-> op, skill |-> s, usd |-> usd,
                   note |-> note, cutoff |-> 0, spent |-> 0])
    /\ UNCHANGED <<life, now, pool, costLog, lateRows>>

BeginRecord(c, s, usd, note) == Begin(c, "record", s, usd, note)

BeginTotal(c, s) == Begin(c, "total", s, CHOOSE u \in Usd : TRUE, NoNote)

PoolCreated(c) ==
    /\ query[c].at = "connect"
    /\ query' = [query EXCEPT ![c].at = "migrate"]
    /\ UNCHANGED <<life, now, pool, attempted, costLog, lateRows>>

\* The pool becomes visible to other coroutines only once the migrations ran.
Migrated(c) ==
    /\ query[c].at = "migrate"
    /\ pool' = "open"
    /\ query' = [query EXCEPT ![c] = Ready(query[c])]
    /\ UNCHANGED <<life, now, attempted, costLog, lateRows>>

\* An opening that fails without the caller noticing.
OpeningFailsUnnoticed(c) ==
    /\ query[c].at \in {"connect", "migrate"}
    /\ query' = [query EXCEPT ![c] = Ready(query[c])]
    /\ UNCHANGED <<life, now, pool, attempted, costLog, lateRows>>

\* No answer in time, or an error: telemetry is off for this process.  A
\* pool whose migration failed is dropped without being closed.
OpeningFails(c) ==
    /\ query[c].at \in {"connect", "migrate"}
    /\ query' = [query EXCEPT ![c] = Finish(query[c], 0)]
    /\ UNCHANGED <<life, now, pool, attempted, costLog, lateRows>>

\* pool.acquire has no timeout: the coroutine waits until one is returned.
Acquired(c) ==
    /\ query[c].at = "acquire"
    /\ Cardinality(Holders) < PoolSize
    /\ query' = [query EXCEPT ![c].at = "statement"]
    /\ UNCHANGED <<life, now, pool, attempted, costLog, lateRows>>

\* A connection that has to be opened anew cannot be.
AcquireFails(c) ==
    /\ query[c].at = "acquire"
    /\ Cardinality(Holders) < PoolSize
    /\ query' = [query EXCEPT ![c] = Finish(query[c], 0)]
    /\ UNCHANGED <<life, now, pool, attempted, costLog, lateRows>>

\* The row an INSERT adds; ts is the DEFAULT NOW() of the migration.
RowAt(r, t) == [skill |-> r.skill, usd |-> r.usd, note |-> r.note, ts |-> t]

NewRow(r) == RowAt(r, now)

\* record, once its INSERT is answered.
InsertAnswered(c) ==
    /\ query[c].at = "statement" /\ query[c].op = "record"
    /\ costLog' = Append(costLog, NewRow(query[c]))
    /\ query' = [query EXCEPT ![c] = Leave(query[c], 0)]
    /\ UNCHANGED <<life, now, pool, attempted, lateRows>>

\* A total without its WHERE skill_id.
TotalAnsweredForAll(c) ==
    /\ query[c].at = "statement" /\ query[c].op = "total"
    /\ query' = [query EXCEPT ![c] =
                    Leave(query[c], Sum([i \in DOMAIN costLog |->
                       IF costLog[i].ts > query[c].cutoff THEN costLog[i].usd ELSE 0]))]
    /\ UNCHANGED <<life, now, pool, attempted, costLog, lateRows>>

\* A total without its COALESCE, and without the None check after it.
TotalAnsweredNull(c) ==
    /\ query[c].at = "statement" /\ query[c].op = "total"
    /\ query' = [query EXCEPT ![c] = Leave(query[c],
                    IF \E i \in DOMAIN costLog : costLog[i].skill = query[c].skill
                    THEN SpentSince(query[c].skill, query[c].cutoff) ELSE NoNote)]
    /\ UNCHANGED <<life, now, pool, attempted, costLog, lateRows>>

\* daily_total, once its SELECT is answered.
TotalAnswered(c) ==
    /\ query[c].at = "statement" /\ query[c].op = "total"
    /\ query' = [query EXCEPT ![c] =
                    Leave(query[c], SpentSince(query[c].skill, query[c].cutoff))]
    /\ UNCHANGED <<life, now, pool, attempted, costLog, lateRows>>

\* A statement that never times out.
StatementNeverFails(c) == FALSE

\* The rows of the INSERTs of the callers in C.
RowsUnderWay(C) ==
    {NewRow(query[c]) : c \in {d \in C : query[d].at = "statement" /\ query[d].op = "record"}}

\* The statement fails, its connection is lost or its second is over:
\* daily_total fails open, and record does not know what comes of its row.
StatementFails(c) ==
    /\ query[c].at = "statement"
    /\ query' = [query EXCEPT ![c] = Leave(query[c], 0)]
    /\ lateRows' = lateRows \cup RowsUnderWay({c})
    /\ UNCHANGED <<life, now, pool, attempted, costLog>>

\* The connection is back in the pool, or could not be given back: an error
\* here is handled as one of the statement, so a total is lost to it.  There
\* is no timeout: a connection whose statement timed out waits for Postgres to
\* confirm the cancellation.
Released(c) ==
    /\ query[c].at = "release"
    /\ \E usd \in {query[c].spent, 0} : query' = [query EXCEPT ![c] = Finish(query[c], usd)]
    /\ UNCHANGED <<life, now, pool, attempted, costLog, lateRows>>

CallerStep(c) ==
    \/ PoolCreated(c) \/ Migrated(c) \/ OpeningFails(c)
    \/ Acquired(c) \/ AcquireFails(c)
    \/ InsertAnswered(c) \/ TotalAnswered(c) \/ StatementFails(c) \/ Released(c)

\* What asyncpg's timeouts bring about: of the connect (timeout) and of a
\* statement (command_timeout).  The migrations give connections back, too.
TimesOut(c) == (query[c].at = "connect" /\ OpeningFails(c)) \/ StatementFails(c)
----------------------------------------------------------------------------
(* The process and the clock around it. *)

Tick ==
    /\ now < Horizon
    /\ now' = now + 1
    /\ UNCHANGED <<life, pool, attempted, costLog, lateRows, query>>

\* Postgres carries out an INSERT nobody waits for any more.  Nothing obliges
\* it to.  The transaction may have begun at any time since.
LateInsert(row) ==
    /\ lateRows' = lateRows \ {row}
    /\ \E t \in row.ts..now : costLog' = Append(costLog, RowAt(row, t))
    /\ UNCHANGED <<life, now, pool, attempted, query>>

\* Each of the INSERTs that were under way may or may not reach Postgres.
Restart ==
    /\ life' = 1 - life
    /\ pool' = "none"
    /\ attempted' = FALSE
    /\ query' = [c \in Caller |-> Rest]
    /\ lateRows' = lateRows \cup RowsUnderWay(Caller)
    /\ UNCHANGED <<now, costLog>>

\* Callers whose row is yet to be written.
Recording == {c \in Caller : ~Quiet(c) /\ query[c].op = "record" /\ query[c].at # "release"}

Calls(c) ==
    \E s \in Skill :
        \/ BeginTotal(c, s)
        \/ /\ Len(costLog) + Cardinality(lateRows) + Cardinality(Recording) < MaxRows
           /\ \E usd \in Usd, note \in Note : BeginRecord(c, s, usd, note)

Next ==
    \/ \E c \in Caller : Calls(c) \/ CallerStep(c)
    \/ \E row \in lateRows : LateInsert(row)
    \/ Tick \/ Restart

Spec == Init /\ [][Next]_vars
----------------------------------------------------------------------------
(* Properties. *)

\* A total never holds a skill responsible for more than its own rows since the
\* cutoff of its call, whatever is recorded meanwhile and for whom; a total of
\* a call that failed is 0.  How old the cutoff is by then, after a wait for a
\* connection, is not limited (cost.py:132-152).
ChargesOwnRows ==
    \A c \in Caller :
        query[c].at \in {"release", "done"} /\ query[c].op = "total"
            => query[c].spent =< SpentSince(query[c].skill, query[c].cutoff)

\* While the process has no pool, nobody waits for a connection or has one,
\* and every total is 0: telemetry is a no-op (cost.py:12-19).
DisabledIsNoOp ==
    pool = "none" =>
        \A c \in Caller :
            query[c].at \notin {"acquire", "statement", "release"} /\ query[c].spent = 0

\* At most one attempt to open the pool in a process life, the migrations
\* included, and no way back once it is decided (cost.py:46-71).
Phase ==
    IF pool = "open" THEN "up"
    ELSE IF ~attempted THEN "untried"
    ELSE IF \E c \in Caller : query[c].at \in {"connect", "migrate"} THEN "trying"
    ELSE "down"

Connection == INSTANCE OneShot WITH life <- life, phase <- Phase

ConnectsOnce == Connection!Spec

\* cost.py:12-14: record drops its row if the DSN is unset or Postgres was
\* unreachable on the first attempt.  So it drops none while that attempt is
\* still under way.
DropsOnlyWhenDown ==
    [][\A c \in Caller, s \in Skill, usd \in Usd, note \in Note :
          BeginRecord(c, s, usd, note) /\ query'[c].at = "done" => Phase' # "trying"]_vars
=============================================================================
