----------------------------- MODULE CostProofs -----------------------------
(***************************************************************************)
(* Theorems of Cost, for every set of callers, every pool size, window and  *)
(* cost.                                                                    *)
(*                                                                          *)
(* The invariant is proved of AnyStep, which is Next without the bound on   *)
(* the number of rows: a step of Cost, and a step of any module that makes  *)
(* its calls under a condition of its own.                                  *)
(***************************************************************************)
EXTENDS Cost, SumsProofs

\* What is to be written of a record call is there from its start.
Noted(q) == q.op = "record" => q.note \in Note

AllNoted == \A c \in Caller : Noted(query[c])

Opener(c) == query[c].at \in {"connect", "migrate"}

\* The opening belongs to one caller, which has set the flag and no pool yet.
OneOpener ==
    \A c \in Caller : Opener(c) =>
        /\ pool = "none" /\ attempted
        /\ query[c].spent = 0
        /\ \A d \in Caller : Opener(d) => d = c

Connected == OneOpener /\ DisabledIsNoOp

IInv == TypeOK /\ AllNoted /\ Connected /\ ChargesOwnRows

Begins(c) ==
    \E s \in Skill :
        \/ BeginTotal(c, s)
        \/ \E usd \in Usd, note \in Note : BeginRecord(c, s, usd, note)

AnyStep ==
    \/ \E c \in Caller : Begins(c) \/ CallerStep(c)
    \/ \E row \in lateRows : LateInsert(row)
    \/ Tick \/ Restart

LEMMA NextIsAny == Next => AnyStep
<1>1. ASSUME NEW c \in Caller, Calls(c) PROVE Begins(c)
  BY <1>1 DEF Calls, Begins
<1> QED
  BY <1>1 DEF Next, AnyStep
----------------------------------------------------------------------------
(* The records of the calls. *)

\* One coroutine's record is replaced by another.
LEMMA QueryKept ==
    ASSUME TypeOK, NEW c \in Caller, NEW s \in Query,
           query' = [query EXCEPT ![c] = s]
    PROVE  /\ query' \in [Caller -> Query]
           /\ query'[c] = s
           /\ \A d \in Caller \ {c} : query'[d] = query[d]
BY DEF TypeOK

\* The two records of a call are of the same operation, skill and note.
SameCall(r, s) ==
    /\ s.op = r.op /\ s.skill = r.skill /\ s.note = r.note

LEMMA ReadyIsQuery ==
    ASSUME TypeOK, NEW r \in Query
    PROVE  /\ Ready(r) \in Query /\ SameCall(r, Ready(r))
           /\ Ready(r).at = "acquire" /\ Ready(r).spent = r.spent
<1> DEFINE u == IF r.op = "total" THEN now - Window ELSE r.cutoff
           q == [[r EXCEPT !.at = "acquire"] EXCEPT !.cutoff = u]
<1>1. u \in Int
  BY CostAssumption DEF TypeOK, Query
<1>2. Ready(r) = q
  BY DEF Ready, Query
<1> HIDE DEF u
<1>3. q \in Query /\ q.at = "acquire" /\ q.spent = r.spent /\ SameCall(r, q)
  BY <1>1 DEF Query, Stages, SameCall
<1> QED
  BY <1>2, <1>3

LEMMA FinishIsQuery ==
    ASSUME NEW r \in Query, NEW u \in Nat
    PROVE  /\ Finish(r, u) \in Query /\ SameCall(r, Finish(r, u))
           /\ Finish(r, u).at = "done" /\ Finish(r, u).spent = u
           /\ Finish(r, u).cutoff = r.cutoff
BY DEF Finish, Query, Stages, SameCall

LEMMA LeaveIsQuery ==
    ASSUME NEW r \in Query, NEW u \in Nat
    PROVE  /\ Leave(r, u) \in Query /\ SameCall(r, Leave(r, u))
           /\ Leave(r, u).at = "release" /\ Leave(r, u).spent = u
           /\ Leave(r, u).cutoff = r.cutoff
BY DEF Leave, Query, Stages, SameCall

LEMMA MovedIsQuery ==
    ASSUME NEW r \in Query, NEW stage \in Stages
    PROVE  LET q == [r EXCEPT !.at = stage]
           IN  /\ q \in Query /\ SameCall(r, q)
               /\ q.at = stage /\ q.spent = r.spent
BY DEF Query, SameCall

LEMMA OpeningIsQuery ==
    ASSUME NEW r \in Query, r.spent = 0
    PROVE  /\ Opening(r) \in Query /\ SameCall(r, Opening(r))
           /\ Opening(r).at \in {"done", "raised", "connect"}
           /\ Opening(r).spent = 0
<1>1. CASE Dsn = "unset"
  BY <1>1, FinishIsQuery DEF Opening
<1>2. CASE Dsn # "unset"
  <2>1. "raised" \in Stages /\ "connect" \in Stages
    BY DEF Stages
  <2> QED
    BY <1>2, <2>1, MovedIsQuery DEF Opening
<1> QED
  BY <1>1, <1>2

LEMMA RestIsQuery ==
    /\ Rest \in Query /\ Rest.at = "idle" /\ Rest.op = "total"
    /\ Rest.spent = 0
<1>1. (CHOOSE s \in Skill : TRUE) \in Skill /\ (CHOOSE u \in Usd : TRUE) \in Usd
  BY CostAssumption
<1> QED
  BY <1>1 DEF Rest, Query, Stages
----------------------------------------------------------------------------
(* The total of a skill and the rows that are added meanwhile. *)

LEMMA SharesType ==
    ASSUME NEW log \in Seq(Row), NEW s, NEW t
    PROVE  /\ Shares(log, s, t) \in Seq(Nat)
           /\ Len(Shares(log, s, t)) = Len(log)
<1>1. DOMAIN log = 1..Len(log) /\ Len(log) \in Nat
  OBVIOUS
<1>2. \A i \in 1..Len(log) : log[i].usd \in Nat
  <2>1. \A row \in Row : row.usd \in Nat
    BY CostAssumption DEF Row
  <2>2. \A i \in 1..Len(log) : log[i] \in Row
    BY <1>1
  <2> QED
    BY <2>1, <2>2
<1> DEFINE w == Shares(log, s, t)
<1>3. w \in [1..Len(log) -> Nat]
  BY <1>1, <1>2 DEF Shares
<1> HIDE DEF w
<1>4. w \in Seq(Nat) /\ Len(w) = Len(log)
  BY <1>1, <1>3
<1> QED
  BY <1>4 DEF w

\* A row adds its own cost to a total, or nothing.
LEMMA SharesAppend ==
    ASSUME NEW log \in Seq(Row), NEW row \in Row, NEW s, NEW t
    PROVE  \E u \in Nat : Shares(Append(log, row), s, t) = Append(Shares(log, s, t), u)
<1> DEFINE u == IF row.skill = s /\ row.ts > t THEN row.usd ELSE 0
           l == Append(log, row)
           a == Shares(l, s, t)
           w == Shares(log, s, t)
           N == Len(log)
<1>1. u \in Nat
  BY CostAssumption DEF Row
<1>2. /\ N \in Nat /\ DOMAIN log = 1..N /\ DOMAIN l = 1..(N + 1)
      /\ l \in Seq(Row) /\ Len(l) = N + 1
      /\ l[N + 1] = row /\ \A i \in 1..N : l[i] = log[i]
  OBVIOUS
<1> HIDE DEF l
<1>3. /\ w \in Seq(Nat) /\ Len(w) = N
      /\ a \in Seq(Nat) /\ Len(a) = N + 1
  BY <1>2, SharesType
<1>4. a[N + 1] = u
  BY <1>2 DEF Shares
<1>5. \A i \in 1..N : a[i] = w[i]
  BY <1>2 DEF Shares
<1> HIDE DEF a, w, u, N
<1>6. Append(w, u) \in Seq(Nat) /\ Len(Append(w, u)) = N + 1
  BY <1>1, <1>3
<1>7. \A i \in 1..(N + 1) : a[i] = Append(w, u)[i]
  BY <1>1, <1>2, <1>3, <1>4, <1>5
<1> DEFINE b == Append(w, u)
<1>8. b \in Seq(Nat) /\ Len(b) = N + 1 /\ \A i \in 1..(N + 1) : a[i] = b[i]
  BY <1>6, <1>7
<1> HIDE DEF b
<1>9. a = b
  BY <1>2, <1>3, <1>8
<1> QED
  BY <1>1, <1>9 DEF a, b, w, l

\* The log only grows, by rows.
Grows == costLog' = costLog \/ \E row \in Row : costLog' = Append(costLog, row)

LEMMA TotalsGrow ==
    ASSUME costLog \in Seq(Row), Grows, NEW s, NEW t
    PROVE  /\ Sum(Shares(costLog, s, t)) \in Nat
           /\ Sum(Shares(costLog', s, t)) >= Sum(Shares(costLog, s, t))
           /\ costLog' \in Seq(Row)
<1> DEFINE w == Shares(costLog, s, t)
<1>1. w \in Seq(Nat)
  BY SharesType
<1>2. Sum(w) \in Nat
  BY <1>1, SumType
<1>3. CASE costLog' = costLog
  BY <1>2, <1>3
<1>4. ASSUME NEW row \in Row, costLog' = Append(costLog, row)
      PROVE  Sum(Shares(costLog', s, t)) >= Sum(w) /\ costLog' \in Seq(Row)
  <2>1. PICK u \in Nat : Shares(Append(costLog, row), s, t) = Append(w, u)
    BY SharesAppend
  <2>2. Shares(costLog', s, t) = Append(w, u)
    BY <1>4, <2>1, Zenon
  <2>3. Sum(Append(w, u)) = Sum(w) + u
    BY <1>1, SumAppend
  <2>4. Sum(Shares(costLog', s, t)) = Sum(w) + u
    BY <2>2, <2>3, Zenon
  <2>5. costLog' \in Seq(Row)
    BY <1>4
  <2> QED
    BY <1>2, <2>4, <2>5
<1> QED
  BY <1>2, <1>3, <1>4 DEF Grows
----------------------------------------------------------------------------
(* What the opening of a call can leave behind. *)

Opens(c, s) ==
    /\ query' = [query EXCEPT ![c] = s]
    /\ s.spent = 0 /\ Noted(s)
    /\ Quiet(c)
    /\ UNCHANGED <<life, now, pool, costLog, lateRows>>
    /\ \/ /\ s.at = "acquire"
          /\ pool = "open" /\ attempted' = attempted
       \/ /\ s.at \in {"done", "raised"}
          /\ pool = "none" /\ attempted' = TRUE
       \/ /\ s.at = "connect"
          /\ pool = "none" /\ ~attempted /\ attempted' = TRUE

\* The record a call starts from.
Fresh(op, s, usd, note) ==
    [at |-> "idle", op |-> op, skill |-> s, usd |-> usd,
     note |-> note, cutoff |-> 0, spent |-> 0]

LEMMA FreshOpens ==
    ASSUME TypeOK, NEW c \in Caller, NEW r \in Query,
           r.spent = 0, Noted(r),
           Quiet(c), GetPool(c, r), UNCHANGED <<life, now, pool, costLog, lateRows>>
    PROVE  \E s \in Query : Opens(c, s) /\ SameCall(r, s)
<1>1. ASSUME NEW s, SameCall(r, s) PROVE Noted(s)
  BY <1>1 DEF SameCall, Noted
<1>2. CASE pool = "open"
  <2>1. query' = [query EXCEPT ![c] = Ready(r)] /\ attempted' = attempted
    BY <1>2 DEF GetPool
  <2>2. /\ Ready(r) \in Query /\ SameCall(r, Ready(r))
        /\ Ready(r).at = "acquire" /\ Ready(r).spent = 0
    BY ReadyIsQuery
  <2>3. Opens(c, Ready(r))
    BY <1>1, <1>2, <2>1, <2>2 DEF Opens
  <2> QED
    BY <2>2, <2>3
<1>3. CASE pool = "none" /\ attempted
  <2>1. query' = [query EXCEPT ![c] = Finish(r, 0)] /\ attempted' = attempted
    BY <1>3 DEF GetPool
  <2>2. attempted' = TRUE
    BY <1>3, <2>1 DEF TypeOK
  <2>3. /\ Finish(r, 0) \in Query /\ SameCall(r, Finish(r, 0))
        /\ Finish(r, 0).at = "done" /\ Finish(r, 0).spent = 0
    BY FinishIsQuery
  <2>4. Opens(c, Finish(r, 0))
    BY <1>1, <1>3, <2>1, <2>2, <2>3 DEF Opens
  <2> QED
    BY <2>3, <2>4
<1>4. CASE pool = "none" /\ ~attempted
  <2>1. query' = [query EXCEPT ![c] = Opening(r)] /\ attempted' = TRUE
    BY <1>4 DEF GetPool
  <2>2. /\ Opening(r) \in Query /\ SameCall(r, Opening(r))
        /\ Opening(r).at \in {"done", "raised", "connect"} /\ Opening(r).spent = 0
    BY OpeningIsQuery
  <2>3. Opens(c, Opening(r))
    BY <1>1, <1>4, <2>1, <2>2 DEF Opens
  <2> QED
    BY <2>2, <2>3
<1> QED
  BY <1>2, <1>3, <1>4 DEF TypeOK

LEMMA TotalOpens ==
    ASSUME TypeOK, NEW c \in Caller, NEW k \in Skill, BeginTotal(c, k)
    PROVE  \E s \in Query : Opens(c, s) /\ s.op = "total" /\ s.skill = k
<1> DEFINE u == CHOOSE u \in Usd : TRUE
           r == Fresh("total", k, u, NoNote)
<1>1. u \in Usd
  BY CostAssumption
<1>2. /\ Quiet(c) /\ GetPool(c, r)
      /\ UNCHANGED <<life, now, pool, costLog, lateRows>>
  BY DEF BeginTotal, Begin, Fresh
<1> HIDE DEF u
<1>3. r \in Query /\ r.spent = 0 /\ Noted(r) /\ r.op = "total" /\ r.skill = k
  BY <1>1 DEF Query, Stages, Noted, Fresh
<1> HIDE DEF r
<1>4. PICK s \in Query : Opens(c, s) /\ SameCall(r, s)
  BY <1>2, <1>3, FreshOpens
<1> QED
  BY <1>3, <1>4 DEF SameCall

LEMMA RecordOpens ==
    ASSUME TypeOK, NEW c \in Caller, NEW k \in Skill, NEW usd \in Usd, NEW note \in Note,
           BeginRecord(c, k, usd, note)
    PROVE  \E s \in Query : Opens(c, s) /\ s.op = "record" /\ s.skill = k
<1> DEFINE r == Fresh("record", k, usd, note)
<1>1. /\ Quiet(c) /\ GetPool(c, r)
      /\ UNCHANGED <<life, now, pool, costLog, lateRows>>
  BY DEF BeginRecord, Begin, Fresh
<1>2. r \in Query /\ r.spent = 0 /\ Noted(r) /\ r.op = "record" /\ r.skill = k
  BY DEF Query, Stages, Noted, Fresh
<1> HIDE DEF r
<1>3. PICK s \in Query : Opens(c, s) /\ SameCall(r, s)
  BY <1>1, <1>2, FreshOpens
<1> QED
  BY <1>2, <1>3 DEF SameCall

LEMMA CallsOutcome ==
    ASSUME TypeOK, NEW c \in Caller, Begins(c)
    PROVE  \E s \in Query : Opens(c, s)
BY TotalOpens, RecordOpens DEF Begins
----------------------------------------------------------------------------
(* What a coroutine's own step does to its record, the pool and the log. *)

Advances(c, s) ==
    /\ query' = [query EXCEPT ![c] = s]
    /\ SameCall(query[c], s)
    /\ UNCHANGED <<life, attempted, now>>
    /\ Grows /\ lateRows' \subseteq Row
    /\ \/ /\ Opener(c) /\ s.at = "migrate" /\ s.spent = 0
          /\ pool' = pool
       \/ /\ Opener(c) /\ s.at = "acquire"
          /\ pool' = "open"
       \/ /\ Opener(c) /\ s.at = "done" /\ s.spent = 0
          /\ pool' = pool
       \/ /\ ~Opener(c) /\ s.at \in {"statement", "release", "done"}
          /\ pool = "open" /\ pool' = pool

\* What a total has to show for it.
Charged(log, q) ==
    q.at \in {"release", "done"} /\ q.op = "total" => q.spent =< Sum(Shares(log, q.skill, q.cutoff))

LEMMA NewRowIsRow ==
    ASSUME TypeOK, NEW r \in Query, r.op = "record", Noted(r)
    PROVE  NewRow(r) \in Row
BY DEF TypeOK, Query, Noted, NewRow, RowAt, Row

LEMMA UnderWayAreRows ==
    ASSUME TypeOK, AllNoted, NEW C \in SUBSET Caller
    PROVE  RowsUnderWay(C) \subseteq Row
<1>1. \A c \in C : query[c].op = "record" => NewRow(query[c]) \in Row
  BY NewRowIsRow DEF TypeOK, AllNoted
<1> QED
  BY <1>1 DEF RowsUnderWay

LEMMA StepOutcome ==
    ASSUME TypeOK, AllNoted, Connected, ChargesOwnRows, NEW c \in Caller, CallerStep(c)
    PROVE  \E s \in Query : Advances(c, s) /\ Charged(costLog', s)
<1> DEFINE r == query[c]
<1>1. r \in Query /\ Noted(r)
  BY DEF TypeOK, AllNoted
<1>2. \A k, t : Sum(Shares(costLog, k, t)) \in Nat
  BY SharesType, SumType DEF TypeOK
<1>3. ASSUME Grows, NEW k, NEW t PROVE Sum(Shares(costLog', k, t)) \in Nat
  <2>1. costLog' \in Seq(Row)
    BY <1>3, TotalsGrow DEF TypeOK
  <2>2. Shares(costLog', k, t) \in Seq(Nat)
    BY <2>1, SharesType
  <2> QED
    BY <2>2, SumType
\* The ends of a statement and of a call, whatever they come to.
<1>4. ASSUME NEW u \in Nat, NEW s \in {Finish(r, u), Leave(r, u)},
             query' = [query EXCEPT ![c] = s],
             UNCHANGED <<life, now, pool, attempted>>, Grows, lateRows' \subseteq Row,
             (Opener(c) /\ u = 0 /\ s = Finish(r, u)) \/ (~Opener(c) /\ pool = "open"),
             r.op = "total" => u =< Sum(Shares(costLog', r.skill, r.cutoff))
      PROVE  \E q \in Query : Advances(c, q) /\ Charged(costLog', q)
  <2>1. /\ s \in Query /\ SameCall(r, s) /\ s.at \in {"release", "done"}
        /\ s.spent = u /\ s.cutoff = r.cutoff
    BY <1>1, <1>4, FinishIsQuery, LeaveIsQuery
  <2>2. Opener(c) => s.at = "done"
    BY <1>1, <1>4, FinishIsQuery
  <2>3. Advances(c, s)
    BY <1>4, <2>1, <2>2 DEF Advances
  <2>4. Charged(costLog', s)
    BY <1>4, <2>1 DEF Charged, SameCall
  <2> QED
    BY <2>1, <2>3, <2>4
<1>5. ASSUME Grows PROVE 0 =< Sum(Shares(costLog', r.skill, r.cutoff))
  BY <1>3, <1>5
<1>6. costLog' = costLog => Grows
  BY DEF Grows
<1>7. r.at \in {"acquire", "statement", "release"} => pool = "open" /\ ~Opener(c)
  BY DEF Connected, DisabledIsNoOp, TypeOK, Opener
<1>8. lateRows' = lateRows => lateRows' \subseteq Row
  BY DEF TypeOK
<1>9. CASE PoolCreated(c)
  <2> DEFINE s == [r EXCEPT !.at = "migrate"]
  <2>1. Opener(c) /\ r.spent = 0
    BY <1>9 DEF PoolCreated, Connected, OneOpener, Opener
  <2>2. s \in Query /\ SameCall(r, s) /\ s.at = "migrate" /\ s.spent = r.spent
    BY <1>1, MovedIsQuery DEF Stages
  <2>3. query' = [query EXCEPT ![c] = s]
        /\ UNCHANGED <<life, now, pool, attempted, costLog, lateRows>>
    BY <1>9 DEF PoolCreated
  <2> HIDE DEF s
  <2> QED
    BY <1>6, <1>8, <2>1, <2>2, <2>3 DEF Advances, Charged
<1>10. CASE Migrated(c)
  <2> DEFINE s == Ready(r)
  <2>1. s \in Query /\ SameCall(r, s) /\ s.at = "acquire"
    BY <1>1, ReadyIsQuery
  <2>2. /\ query' = [query EXCEPT ![c] = s] /\ pool' = "open" /\ Opener(c)
        /\ UNCHANGED <<life, now, attempted, costLog, lateRows>>
    BY <1>10 DEF Migrated, Opener
  <2> HIDE DEF s
  <2> QED
    BY <1>6, <1>8, <2>1, <2>2 DEF Advances, Charged
<1>11. CASE OpeningFails(c)
  <2>1. /\ query' = [query EXCEPT ![c] = Finish(r, 0)] /\ Opener(c)
        /\ UNCHANGED <<life, now, pool, attempted, lateRows>> /\ Grows
    BY <1>6, <1>11 DEF OpeningFails, Opener
  <2> QED
    BY <1>4, <1>5, <1>8, <2>1
<1>12. CASE Acquired(c)
  <2> DEFINE s == [r EXCEPT !.at = "statement"]
  <2>1. s \in Query /\ SameCall(r, s) /\ s.at = "statement"
    BY <1>1, MovedIsQuery DEF Stages
  <2>2. /\ query' = [query EXCEPT ![c] = s]
        /\ UNCHANGED <<life, now, pool, attempted, costLog, lateRows>>
    BY <1>12 DEF Acquired
  <2>3. pool = "open" /\ ~Opener(c)
    BY <1>7, <1>12 DEF Acquired
  <2> HIDE DEF s
  <2> QED
    BY <1>6, <1>8, <2>1, <2>2, <2>3 DEF Advances, Charged
<1>13. CASE AcquireFails(c)
  <2>1. /\ query' = [query EXCEPT ![c] = Finish(r, 0)] /\ pool = "open" /\ ~Opener(c)
        /\ UNCHANGED <<life, now, pool, attempted, lateRows>> /\ Grows
    BY <1>6, <1>7, <1>13 DEF AcquireFails
  <2> QED
    BY <1>4, <1>5, <1>8, <2>1
<1>14. CASE InsertAnswered(c)
  <2>1. /\ query' = [query EXCEPT ![c] = Leave(r, 0)] /\ pool = "open" /\ ~Opener(c)
        /\ UNCHANGED <<life, now, pool, attempted, lateRows>>
        /\ costLog' = Append(costLog, NewRow(r)) /\ r.op = "record"
    BY <1>7, <1>14 DEF InsertAnswered
  <2>2. Grows
    BY <1>1, <2>1, NewRowIsRow DEF Grows
  <2> QED
    BY <1>4, <1>5, <1>8, <2>1, <2>2
<1>15. CASE TotalAnswered(c)
  <2> DEFINE u == Sum(Shares(costLog, r.skill, r.cutoff))
  <2>1. /\ query' = [query EXCEPT ![c] = Leave(r, u)] /\ pool = "open" /\ ~Opener(c)
        /\ UNCHANGED <<life, now, pool, attempted, costLog, lateRows>>
    BY <1>7, <1>15 DEF TotalAnswered, SpentSince
  <2>2. u \in Nat
    BY <1>2
  <2>3. Sum(Shares(costLog', r.skill, r.cutoff)) = u
    BY <2>1
  <2> HIDE DEF u
  <2>4. u =< Sum(Shares(costLog', r.skill, r.cutoff))
    BY <2>2, <2>3
  <2> QED
    BY <1>4, <1>6, <1>8, <2>1, <2>2, <2>4
<1>16. CASE StatementFails(c)
  <2>1. /\ query' = [query EXCEPT ![c] = Leave(r, 0)] /\ pool = "open" /\ ~Opener(c)
        /\ UNCHANGED <<life, now, pool, attempted>> /\ Grows
        /\ lateRows' = lateRows \cup RowsUnderWay({c})
    BY <1>6, <1>7, <1>16 DEF StatementFails
  <2>2. lateRows' \subseteq Row
    BY <2>1, UnderWayAreRows DEF TypeOK
  <2> QED
    BY <1>4, <1>5, <2>1, <2>2
<1>17. CASE Released(c)
  <2>1. /\ pool = "open" /\ ~Opener(c) /\ r.at = "release" /\ Grows
        /\ UNCHANGED <<life, now, pool, attempted, costLog, lateRows>>
    BY <1>6, <1>7, <1>17 DEF Released
  <2>2. PICK u \in {r.spent, 0} : query' = [query EXCEPT ![c] = Finish(r, u)]
    BY <1>17 DEF Released
  <2>3. u \in Nat
    BY <1>1, <2>2 DEF Query
  <2>4. r.op = "total" => r.spent =< Sum(Shares(costLog', r.skill, r.cutoff))
    BY <2>1 DEF ChargesOwnRows, SpentSince
  <2> QED
    BY <1>4, <1>5, <1>8, <2>1, <2>2, <2>3, <2>4
<1> QED
  BY <1>9, <1>10, <1>11, <1>12, <1>13, <1>14, <1>15, <1>16, <1>17 DEF CallerStep
----------------------------------------------------------------------------
(* The invariant. *)

LEMMA InvInit == Init => IInv
<1> SUFFICES ASSUME Init PROVE IInv
  OBVIOUS
<1>1. query = [c \in Caller |-> Rest]
  BY DEF Init
<1>2. \A c \in Caller : query[c] = Rest
  BY <1>1
<1>3. costLog \in Seq(Row)
  <2>1. CASE costLog = << >>
    BY <2>1
  <2>2. ASSUME NEW r \in [skill : Skill, usd : Usd, note : Note, ts : {0}], costLog = <<r>>
        PROVE  costLog \in Seq(Row)
    <3>1. r \in Row
      BY CostAssumption DEF Row
    <3> QED
      BY <2>2, <3>1
  <2> QED
    BY <2>1, <2>2 DEF Init
<1>4. TypeOK
  <2>1. query \in [Caller -> Query]
    BY <1>1, RestIsQuery
  <2> QED
    <3>1. 0 \in 0..Horizon
      BY CostAssumption
    <3>2. /\ life \in {0, 1} /\ now \in 0..Horizon /\ lateRows = {}
          /\ pool \in {"none", "open"} /\ attempted \in BOOLEAN
      BY <3>1 DEF Init
    <3> QED
      BY <1>3, <2>1, <3>2 DEF TypeOK
<1>5. AllNoted
  BY <1>2, RestIsQuery DEF AllNoted, Noted
<1>6. Connected
  BY <1>2, RestIsQuery DEF Init, Connected, OneOpener, DisabledIsNoOp, Opener
<1>7. ChargesOwnRows
  BY <1>2, RestIsQuery DEF ChargesOwnRows
<1> QED
  BY <1>4, <1>5, <1>6, <1>7 DEF IInv

\* What a total has shown stays shown.
LEMMA ChargedKept ==
    ASSUME TypeOK, Grows, NEW q \in Query, Charged(costLog, q)
    PROVE  Charged(costLog', q)
<1>1. /\ Sum(Shares(costLog, q.skill, q.cutoff)) \in Nat
      /\ Sum(Shares(costLog', q.skill, q.cutoff)) >= Sum(Shares(costLog, q.skill, q.cutoff))
  BY TotalsGrow DEF TypeOK
<1>2. Sum(Shares(costLog', q.skill, q.cutoff)) \in Nat
  <2>1. costLog' \in Seq(Row)
    BY TotalsGrow DEF TypeOK
  <2>2. Shares(costLog', q.skill, q.cutoff) \in Seq(Nat)
    BY <2>1, SharesType
  <2> QED
    BY <2>2, SumType
<1>3. q.spent \in Nat
  BY DEF Query
<1> QED
  BY <1>1, <1>2, <1>3 DEF Charged

LEMMA ChargesStated == ChargesOwnRows <=> \A c \in Caller : Charged(costLog, query[c])
BY DEF ChargesOwnRows, Charged, SpentSince

LEMMA ChargesStatedNext ==
    ChargesOwnRows' <=> \A c \in Caller : Charged(costLog', query'[c])
BY DEF ChargesOwnRows, Charged, SpentSince

\* A step of one coroutine.
LEMMA CallerKeepsInv ==
    ASSUME IInv, NEW c \in Caller, NEW s \in Query,
           query' = [query EXCEPT ![c] = s],
           life' = life, now' = now, pool' \in {"none", "open"}, attempted' \in BOOLEAN,
           Noted(s), Grows, lateRows' \subseteq Row, Charged(costLog', s), Connected'
    PROVE  IInv'
<1>1. /\ query' \in [Caller -> Query]
      /\ query'[c] = s
      /\ \A d \in Caller \ {c} : query'[d] = query[d]
  BY QueryKept DEF IInv
<1>2. costLog' \in Seq(Row)
  BY TotalsGrow DEF IInv, TypeOK
<1>3. TypeOK'
  BY <1>1, <1>2 DEF IInv, TypeOK
<1>4. AllNoted'
  BY <1>1 DEF IInv, AllNoted
<1>5. ASSUME NEW d \in Caller PROVE Charged(costLog', query'[d])
  <2>1. CASE d = c
    BY <1>1, <2>1
  <2>2. CASE d # c
    <3>1. query[d] \in Query /\ Charged(costLog, query[d]) /\ query'[d] = query[d]
      BY <1>1, <2>2, ChargesStated DEF IInv, TypeOK
    <3>2. Charged(costLog', query[d])
      BY <3>1, ChargedKept DEF IInv
    <3> QED
      BY <3>1, <3>2
  <2> QED
    BY <2>1, <2>2
<1> QED
  BY <1>3, <1>4, <1>5, ChargesStatedNext DEF IInv

LEMMA AnyStepKeepsInv == IInv /\ (AnyStep \/ UNCHANGED vars) => IInv'
<1> SUFFICES ASSUME IInv, AnyStep \/ UNCHANGED vars PROVE IInv'
  OBVIOUS
<1>1. ASSUME NEW c \in Caller, Begins(c) PROVE IInv'
  <2>1. PICK s \in Query : Opens(c, s)
    BY <1>1, CallsOutcome DEF IInv
  <2>2. query'[c] = s /\ \A d \in Caller \ {c} : query'[d] = query[d]
    BY <2>1, QueryKept DEF IInv, Opens
  <2>3. Connected'
    <3>1. OneOpener'
      BY <2>1, <2>2 DEF IInv, Connected, OneOpener, Opener, Opens
    <3>2. DisabledIsNoOp'
      BY <2>1, <2>2 DEF IInv, Connected, DisabledIsNoOp, Opens
    <3> QED
      BY <3>1, <3>2 DEF Connected
  <2>4. Grows /\ costLog' = costLog
    BY <2>1 DEF Opens, Grows
  <2>5. Charged(costLog', s)
    <3>1. Sum(Shares(costLog, s.skill, s.cutoff)) \in Nat
      BY SharesType, SumType DEF IInv, TypeOK
    <3>2. Sum(Shares(costLog', s.skill, s.cutoff)) \in Nat
      BY <2>4, <3>1, Zenon
    <3>3. s.spent = 0
      BY <2>1 DEF Opens
    <3> QED
      BY <3>2, <3>3 DEF Charged
  <2>6. /\ query' = [query EXCEPT ![c] = s] /\ life' = life /\ now' = now /\ Noted(s)
        /\ pool' \in {"none", "open"} /\ attempted' \in BOOLEAN /\ lateRows' \subseteq Row
    BY <2>1 DEF Opens, IInv, TypeOK
  <2> QED
    BY <2>3, <2>4, <2>5, <2>6, CallerKeepsInv
<1>2. ASSUME NEW c \in Caller, CallerStep(c) PROVE IInv'
  <2>1. PICK s \in Query : Advances(c, s) /\ Charged(costLog', s)
    BY <1>2, StepOutcome DEF IInv
  <2>2. query'[c] = s /\ \A d \in Caller \ {c} : query'[d] = query[d]
    BY <2>1, QueryKept DEF IInv, Advances
  <2>3. Connected'
    <3>1. OneOpener'
      BY <2>1, <2>2 DEF IInv, Connected, OneOpener, Opener, Advances
    <3>2. DisabledIsNoOp'
      BY <2>1, <2>2 DEF IInv, Connected, DisabledIsNoOp, Advances
    <3> QED
      BY <3>1, <3>2 DEF Connected
  <2>4. Noted(s)
    BY <2>1 DEF Advances, SameCall, IInv, AllNoted, Noted
  <2>5. /\ query' = [query EXCEPT ![c] = s] /\ life' = life /\ now' = now /\ Grows
        /\ pool' \in {"none", "open"} /\ attempted' \in BOOLEAN /\ lateRows' \subseteq Row
    BY <2>1 DEF Advances, IInv, TypeOK
  <2> QED
    BY <2>1, <2>3, <2>4, <2>5, CallerKeepsInv
<1>3. CASE Restart
  <2>1. query' = [c \in Caller |-> Rest] /\ pool' = "none" /\ attempted' = FALSE
    BY <1>3 DEF Restart
  <2>2. \A c \in Caller : query'[c] = Rest
    BY <2>1
  <2>3. lateRows' \subseteq Row
    BY <1>3, UnderWayAreRows DEF Restart, IInv, TypeOK
  <2>4. costLog' \in Seq(Row)
    BY <1>3 DEF Restart, IInv, TypeOK
  <2>5. TypeOK'
    <3>1. query' \in [Caller -> Query]
      BY <2>1, RestIsQuery
    <3>2. life' \in {0, 1} /\ now' = now
      BY <1>3 DEF Restart, IInv, TypeOK
    <3> QED
      BY <2>1, <2>3, <2>4, <3>1, <3>2 DEF IInv, TypeOK
  <2>6. AllNoted' /\ Connected' /\ ChargesOwnRows'
    BY <2>1, <2>2, RestIsQuery
       DEF AllNoted, Noted, Connected, OneOpener, DisabledIsNoOp, Opener, ChargesOwnRows
  <2> QED
    BY <2>5, <2>6 DEF IInv
<1>4. CASE Tick
  <2>1. now' \in 0..Horizon /\ UNCHANGED <<life, pool, attempted, costLog, lateRows, query>>
    BY <1>4, CostAssumption DEF Tick, IInv, TypeOK
  <2>2. TypeOK'
    BY <2>1 DEF IInv, TypeOK
  <2>3. AllNoted' /\ Connected'
    BY <2>1 DEF IInv, AllNoted, Connected, OneOpener, DisabledIsNoOp, Opener
  <2>4. ChargesOwnRows'
    BY <2>1 DEF IInv, ChargesOwnRows, SpentSince
  <2> QED
    BY <2>2, <2>3, <2>4 DEF IInv
<1>5. ASSUME NEW row \in lateRows, LateInsert(row) PROVE IInv'
  <2>1. UNCHANGED <<life, now, pool, attempted, query>> /\ lateRows' \subseteq lateRows
    BY <1>5 DEF LateInsert
  <2>2. Grows
    <3>1. PICK t \in row.ts..now : costLog' = Append(costLog, RowAt(row, t))
      BY <1>5 DEF LateInsert
    <3>2. row \in Row /\ now \in 0..Horizon /\ Horizon \in Nat
      BY CostAssumption DEF IInv, TypeOK
    <3>3. RowAt(row, t) \in Row
      BY <3>2 DEF RowAt, Row
    <3> QED
      BY <3>1, <3>3 DEF Grows
  <2>3. TypeOK'
    <3>1. costLog' \in Seq(Row)
      BY <2>2, TotalsGrow DEF IInv, TypeOK
    <3> QED
      BY <2>1, <3>1 DEF IInv, TypeOK
  <2>4. AllNoted' /\ Connected'
    BY <2>1 DEF IInv, AllNoted, Connected, OneOpener, DisabledIsNoOp, Opener
  <2>5. \A c \in Caller : Charged(costLog', query'[c])
    <3>1. \A c \in Caller : query[c] \in Query /\ Charged(costLog, query[c])
      BY ChargesStated DEF IInv, TypeOK
    <3>2. \A c \in Caller : Charged(costLog', query[c])
      BY <2>2, <3>1, ChargedKept DEF IInv
    <3> QED
      BY <2>1, <3>2
  <2> QED
    BY <2>3, <2>4, <2>5, ChargesStatedNext DEF IInv
<1>6. CASE UNCHANGED vars
  <2>1. TypeOK'
    BY <1>6 DEF vars, IInv, TypeOK
  <2>2. AllNoted' /\ Connected'
    BY <1>6 DEF vars, IInv, AllNoted, Connected, OneOpener, DisabledIsNoOp, Opener
  <2>3. ChargesOwnRows'
    BY <1>6 DEF vars, IInv, ChargesOwnRows, SpentSince
  <2> QED
    BY <2>1, <2>2, <2>3 DEF IInv
<1> QED
  BY <1>1, <1>2, <1>3, <1>4, <1>5, <1>6 DEF AnyStep

LEMMA InvStep == IInv /\ [Next]_vars => IInv'
BY AnyStepKeepsInv, NextIsAny

LEMMA Invariant == Spec => []IInv
BY InvInit, InvStep, PTL DEF Spec

\* Every row has a skill, a cost, a note and a time, every total is a number,
\* whatever the order of calls, failures and restarts (cost.py:84-152).
THEOREM TypeCorrect == Spec => []TypeOK
<1>1. IInv => TypeOK
  BY DEF IInv
<1> QED
  BY <1>1, Invariant, PTL

\* A total never holds a skill responsible for more than its own rows of its
\* own window, whatever is recorded while it is computed (cost.py:132-152).
THEOREM TotalsCharge == Spec => []ChargesOwnRows
<1>1. IInv => ChargesOwnRows
  BY DEF IInv
<1> QED
  BY <1>1, Invariant, PTL

\* With no pool telemetry is a no-op: nobody waits for a connection or has
\* one, every total is 0 (cost.py:12-19).
THEOREM DisabledMeansNoOp == Spec => []DisabledIsNoOp
<1>1. IInv => DisabledIsNoOp
  BY DEF IInv, Connected
<1> QED
  BY <1>1, Invariant, PTL
----------------------------------------------------------------------------
(* The connection. *)

LEMMA ConnectionInit == Init => Connection!Init
BY DEF Init, Connection!Init, Phase

LEMMA ConnectionStep ==
    IInv /\ (AnyStep \/ UNCHANGED vars) => [Connection!Next]_(Connection!vars)
<1> SUFFICES ASSUME IInv, AnyStep \/ UNCHANGED vars PROVE [Connection!Next]_(Connection!vars)
  OBVIOUS
<1> USE DEF Connection!vars
<1>0. IInv'
  BY AnyStepKeepsInv
<1>1. (\E c \in Caller : Opener(c)) => Phase = "trying"
  BY DEF IInv, Connected, OneOpener, Opener, Phase
<1>2. (\E c \in Caller : Opener(c)') => Phase' = "trying"
  BY <1>0 DEF IInv, Connected, OneOpener, Opener, Phase
<1>3. ASSUME NEW c \in Caller, Begins(c) PROVE [Connection!Next]_(Connection!vars)
  <2>1. PICK s \in Query : Opens(c, s)
    BY <1>3, CallsOutcome DEF IInv
  <2>2. /\ query' = [query EXCEPT ![c] = s]
        /\ Quiet(c)
        /\ UNCHANGED <<life, now, pool, costLog, lateRows>>
        /\ \/ /\ s.at = "acquire"
              /\ pool = "open" /\ attempted' = attempted
           \/ /\ s.at \in {"done", "raised"}
              /\ pool = "none" /\ attempted' = TRUE
           \/ /\ s.at = "connect"
              /\ pool = "none" /\ ~attempted /\ attempted' = TRUE
    BY <2>1 DEF Opens
  <2>3. query'[c] = s /\ \A d \in Caller \ {c} : query'[d] = query[d]
    BY <2>2, QueryKept DEF IInv
  <2>4. CASE pool = "open"
    BY <2>2, <2>4 DEF Phase
  <2>5. CASE pool = "none" /\ attempted
    <3>1. attempted' /\ pool' = "none" /\ life' = life
      BY <2>2, <2>5
    <3>2. ~Opener(c) /\ s.at \notin {"connect", "migrate"}
      BY <2>2, <2>5 DEF Quiet, Opener
    <3>3. (\E d \in Caller : Opener(d)') <=> (\E d \in Caller : Opener(d))
      BY <2>3, <3>2 DEF Opener
    <3>4. Phase' = Phase
      BY <2>5, <3>1, <3>3 DEF Phase, Opener
    <3> QED
      BY <3>1, <3>4
  <2>6. CASE pool = "none" /\ ~attempted
    <3>1. Phase = "untried" /\ attempted' /\ pool' = "none" /\ life' = life
      BY <2>2, <2>6 DEF Phase
    <3>2. CASE s.at = "connect"
      <4>1. Phase' = "trying"
        BY <1>2, <2>3, <3>2 DEF Opener
      <4> QED
        BY <3>1, <4>1 DEF Connection!Next, Connection!Attempt
    <3>3. CASE s.at # "connect"
      <4>1. \A d \in Caller : ~Opener(d)'
        BY <2>2, <2>3, <2>6, <3>3 DEF IInv, Connected, OneOpener, Opener
      <4>2. Phase' = "down"
        BY <3>1, <4>1 DEF Phase, Opener
      <4> QED
        BY <3>1, <4>2 DEF Connection!Next, Connection!Skip
    <3> QED
      BY <3>2, <3>3
  <2> QED
    BY <2>4, <2>5, <2>6 DEF IInv, TypeOK
<1>4. ASSUME NEW c \in Caller, CallerStep(c) PROVE [Connection!Next]_(Connection!vars)
  <2>1. PICK s \in Query : Advances(c, s)
    BY <1>4, StepOutcome DEF IInv
  <2>2. query' = [query EXCEPT ![c] = s]
    BY <2>1 DEF Advances
  <2>3. query'[c] = s /\ \A d \in Caller \ {c} : query'[d] = query[d]
    BY <2>2, QueryKept DEF IInv
  <2>4. life' = life /\ attempted' = attempted
    BY <2>1 DEF Advances
  <2>5. CASE Opener(c) /\ s.at = "migrate"
    <3>1. Phase = "trying" /\ Phase' = "trying"
      BY <1>1, <1>2, <2>3, <2>5 DEF Opener
    <3> QED
      BY <2>4, <3>1
  <2>6. CASE Opener(c) /\ s.at = "acquire"
    <3>1. Phase = "trying" /\ Phase' = "up"
      BY <1>1, <2>1, <2>6 DEF Advances, Phase
    <3> QED
      BY <2>4, <3>1 DEF Connection!Next, Connection!Succeed
  <2>7. CASE Opener(c) /\ s.at = "done"
    <3>1. pool' = "none" /\ attempted'
      BY <2>1, <2>4, <2>7 DEF Advances, IInv, Connected, OneOpener
    <3>2. \A d \in Caller : ~Opener(d)'
      BY <2>3, <2>7 DEF IInv, Connected, OneOpener, Opener
    <3>3. Phase = "trying" /\ Phase' = "down"
      BY <1>1, <2>7, <3>1, <3>2 DEF Phase, Opener
    <3> QED
      BY <2>4, <3>3 DEF Connection!Next, Connection!Fail
  <2>8. CASE ~Opener(c)
    <3>1. pool = "open" /\ pool' = "open"
      BY <2>1, <2>8 DEF Advances
    <3> QED
      BY <2>4, <3>1 DEF Phase
  <2> QED
    BY <2>1, <2>5, <2>6, <2>7, <2>8 DEF Advances
<1>5. CASE Restart
  <2>1. Phase' = "untried"
    BY <1>5 DEF Restart, Phase
  <2> QED
    BY <1>5, <2>1 DEF Restart, Connection!Next, Connection!Restart
<1>6. CASE Tick \/ UNCHANGED vars \/ \E row \in lateRows : LateInsert(row)
  BY <1>6 DEF Tick, LateInsert, vars, Phase
<1> QED
  BY <1>3, <1>4, <1>5, <1>6 DEF AnyStep

\* The pool is opened, migrations included, at most once in a process life,
\* and the outcome is final: Cost implements OneShot (cost.py:46-71).
THEOREM ImplementsOneShot == Spec => ConnectsOnce
<1>1. IInv /\ [Next]_vars => [Connection!Next]_(Connection!vars)
  BY ConnectionStep, NextIsAny
<1> QED
  BY <1>1, Invariant, ConnectionInit, PTL DEF Spec, ConnectsOnce, Connection!Spec
=============================================================================
