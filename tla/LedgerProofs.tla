---------------------------- MODULE LedgerProofs ----------------------------
(***************************************************************************)
(* What the cost log says of requests, what a connection address that a     *)
(* library refuses costs them, the promise of module Service, and the cap,  *)
(* for any requests and any behaviour of Redis and Postgres.                *)
(*                                                                          *)
(* The theorems about the log itself are those of CostProofs, of which LP   *)
(* is the instance Kitchen makes of Cost.                                   *)
(***************************************************************************)
EXTENDS KitchenProofs, SequenceTheorems, FiniteSetTheorems

LP == INSTANCE CostProofs WITH
    Caller <- Request, Usd <- {RecordedUsd} \cup OldUsd, NoNote <- None,
    MaxRows <- 0, attempted <- poolAttempted

Whole(q) ==
    q \in [at : {q.at}, op : {q.op}, skill : {q.skill}, usd : {q.usd}, note : {q.note},
           cutoff : {q.cutoff}, spent : {q.spent}]

\* Calls of the log are records with the fields of Cost!Query, whatever is in
\* them; the log is a sequence.
Shape ==
    /\ query = [r \in Request |-> query[r]]
    /\ \A r \in Request : Whole(query[r])
    /\ \E S : costLog \in Seq(S)

\* The log has no row of r, and none can be on its way to it any more.
Unwritten(r) == RowsOf(r) = {} /\ LateOf(r) = {}

\* What a row, written or late, says of r.
Says(row, r) == row.skill = req[r].skill /\ row.note.status = req[r].status

\* A row gets into the log by the one call that is made for it, at the one
\* place where a request has its final status; either the call writes it, or
\* it is late.
EntryOf(r) ==
    /\ ~Cost!Quiet(r) =>
          \/ query[r].op = "total" /\ req[r].at = "cap"
          \/ /\ query[r].op = "record" /\ req[r].at = "recording"
             /\ query[r].skill = req[r].skill /\ query[r].note = RowOf(r)
             /\ query[r].at # "release" => Unwritten(r)
    /\ req[r].at \in {"new", "cap", "cached", "lookup", "saving", "answered"} => Unwritten(r)
    /\ \A i, j \in RowsOf(r) : i = j
    /\ \A i \in RowsOf(r) : Says(costLog[i], r)
    /\ LateOf(r) # {} => RowsOf(r) = {}
    /\ \A row, other \in LateOf(r) : row = other
    /\ \A row \in LateOf(r) : Says(row, r)

\* A refused address is met by the first call, and by no other: for the log;
\* for the cache this is RaisesOnce of CacheProofs.
QueryRaised ==
    \A r \in Request : query[r].at = "raised" =>
        poolAttempted /\ \A s \in Request : query[s].at = "raised" => s = r

LInv == Shape /\ (\A r \in Request : EntryOf(r)) /\ QueryRaised
----------------------------------------------------------------------------
(* What happens to a call of the log. *)

LEMMA QueryBecomes ==
    ASSUME Shape, NEW c \in Request, NEW s, Whole(s), query' = [query EXCEPT ![c] = s],
           \E S : costLog' \in Seq(S)
    PROVE  Shape' /\ query'[c] = s /\ \A d \in Request : d # c => query'[d] = query[d]
BY DEF Shape, Whole

LEMMA ReadyWhole ==
    ASSUME NEW q, Whole(q)
    PROVE  LET s == Cost!Ready(q)
           IN  /\ Whole(s) /\ s.at = "acquire"
               /\ s.op = q.op /\ s.skill = q.skill /\ s.note = q.note
<1> DEFINE u == IF q.op = "total" THEN now - Window ELSE q.cutoff
           s == [[q EXCEPT !.at = "acquire"] EXCEPT !.cutoff = u]
<1>1. Cost!Ready(q) = s
  BY DEF Cost!Ready, Whole
<1> HIDE DEF u
<1>2. /\ Whole(s) /\ s.at = "acquire"
      /\ s.op = q.op /\ s.skill = q.skill /\ s.note = q.note
  BY DEF Whole
<1> QED
  BY <1>1, <1>2

LEMMA FinishWhole ==
    ASSUME NEW q, Whole(q), NEW u
    PROVE  LET s == Cost!Finish(q, u)
           IN  /\ Whole(s) /\ s.at = "done"
               /\ s.op = q.op /\ s.skill = q.skill /\ s.note = q.note
BY DEF Cost!Finish, Whole

LEMMA LeaveWhole ==
    ASSUME NEW q, Whole(q), NEW u
    PROVE  LET s == Cost!Leave(q, u)
           IN  /\ Whole(s) /\ s.at = "release"
               /\ s.op = q.op /\ s.skill = q.skill /\ s.note = q.note
BY DEF Cost!Leave, Whole

LEMMA MovedWhole ==
    ASSUME NEW q, Whole(q), NEW stage
    PROVE  LET s == [q EXCEPT !.at = stage]
           IN  /\ Whole(s) /\ s.at = stage
               /\ s.op = q.op /\ s.skill = q.skill /\ s.note = q.note
BY DEF Whole

LEMMA OpeningWhole ==
    ASSUME NEW q, Whole(q)
    PROVE  LET s == Cost!Opening(q)
           IN  /\ Whole(s) /\ s.at \in {"done", "raised", "connect"}
               /\ s.op = q.op /\ s.skill = q.skill /\ s.note = q.note
<1>1. CASE Dsn = "unset"
  BY <1>1, FinishWhole DEF Cost!Opening
<1>2. CASE Dsn = "malformed"
  BY <1>2, MovedWhole DEF Cost!Opening
<1>3. CASE Dsn # "unset" /\ Dsn # "malformed"
  BY <1>3, MovedWhole DEF Cost!Opening
<1> QED
  BY <1>1, <1>2, <1>3

\* A call that begins carries what it is given, and is refused only if it is
\* the first.
LEMMA QueryBegins ==
    ASSUME LInv, NEW c \in Request, NEW op, NEW k, NEW usd, NEW n,
           Cost!Begin(c, op, k, usd, n)
    PROVE  /\ Shape' /\ QueryRaised' /\ UNCHANGED <<life, costLog, lateRows>>
           /\ query'[c].op = op /\ query'[c].skill = k /\ query'[c].note = n
           /\ Cost!Quiet(c) /\ query'[c].at # "statement"
           /\ \A d \in Request : d # c => query'[d] = query[d]
<1> DEFINE q == [at |-> "idle", op |-> op, skill |-> k, usd |-> usd, note |-> n,
                 cutoff |-> 0, spent |-> 0]
<1>1. Whole(q) /\ q.op = op /\ q.skill = k /\ q.note = n
  BY DEF Whole
<1>2. Cost!Quiet(c) /\ Cost!GetPool(c, q) /\ UNCHANGED <<life, costLog, lateRows>>
  BY DEF Cost!Begin
<1>3. (\E S : costLog' \in Seq(S)) /\ Shape /\ QueryRaised
  BY <1>2 DEF LInv, Shape
<1> HIDE DEF q
<1>4. CASE query' = [query EXCEPT ![c] = Cost!Ready(q)] /\ UNCHANGED poolAttempted
  <2>1. /\ Shape' /\ query'[c] = Cost!Ready(q)
        /\ \A d \in Request : d # c => query'[d] = query[d]
    BY <1>1, <1>3, <1>4, ReadyWhole, QueryBecomes
  <2>2. QueryRaised'
    BY <1>1, <1>3, <1>4, <2>1, ReadyWhole DEF QueryRaised
  <2> QED
    BY <1>1, <1>2, <2>1, <2>2, ReadyWhole
<1>5. CASE query' = [query EXCEPT ![c] = Cost!Finish(q, 0)] /\ UNCHANGED poolAttempted
  <2>1. /\ Shape' /\ query'[c] = Cost!Finish(q, 0)
        /\ \A d \in Request : d # c => query'[d] = query[d]
    BY <1>1, <1>3, <1>5, FinishWhole, QueryBecomes
  <2>2. QueryRaised'
    BY <1>1, <1>3, <1>5, <2>1, FinishWhole DEF QueryRaised
  <2> QED
    BY <1>1, <1>2, <2>1, <2>2, FinishWhole
<1>6. CASE ~poolAttempted /\ poolAttempted' = TRUE /\ query' = [query EXCEPT ![c] = Cost!Opening(q)]
  <2>1. /\ Shape' /\ query'[c] = Cost!Opening(q)
        /\ \A d \in Request : d # c => query'[d] = query[d]
    BY <1>1, <1>3, <1>6, OpeningWhole, QueryBecomes
  <2>2. QueryRaised'
    BY <1>3, <1>6, <2>1 DEF QueryRaised
  <2> QED
    BY <1>1, <1>2, <2>1, <2>2, OpeningWhole
<1> QED
  BY <1>2, <1>4, <1>5, <1>6 DEF Cost!GetPool

LEMMA LogGrows ==
    ASSUME NEW row, \E S : costLog \in Seq(S), costLog' = Append(costLog, row)
    PROVE  \E S : costLog' \in Seq(S)
<1>1. PICK S : costLog \in Seq(S)
  OBVIOUS
<1> DEFINE T == S \cup {row}
<1>2. costLog \in Seq(T) /\ row \in T
  BY <1>1
<1> HIDE DEF T
<1>3. Append(costLog, row) \in Seq(T)
  BY <1>2
<1> QED
  BY <1>3

\* What a call that goes on does to the rows: nothing, unless it is the end of
\* its INSERT, which writes the row or leaves it late.
Writes(c) ==
    /\ Inserting(c) /\ query'[c].at = "release"
    /\ costLog' = Append(costLog, Cost!NewRow(query[c])) /\ UNCHANGED lateRows

GivesUp(c) ==
    /\ Inserting(c) /\ query'[c].at = "release"
    /\ lateRows' = lateRows \cup {Cost!NewRow(query[c])} /\ UNCHANGED costLog

Passes(c) == ~Inserting(c) /\ UNCHANGED <<costLog, lateRows>>

\* A call that goes on keeps what it carries, and gives back its connection
\* last.
LEMMA QueryGoesOn ==
    ASSUME Shape, NEW c \in Request, Cost!CallerStep(c)
    PROVE  /\ Shape' /\ ~Cost!Quiet(c) /\ UNCHANGED poolAttempted
           /\ query'[c].op = query[c].op /\ query'[c].skill = query[c].skill
           /\ query'[c].note = query[c].note /\ query'[c].at # "raised"
           /\ query[c].at = "release" => query'[c].at = "done"
           /\ \A d \in Request : d # c => query'[d] = query[d]
           /\ Writes(c) \/ GivesUp(c) \/ Passes(c)
<1> DEFINE q == query[c]
           Rows == Writes(c) \/ GivesUp(c) \/ Passes(c)
<1>0. Whole(q)
  BY DEF Shape
<1>1. ~Cost!Quiet(c) /\ UNCHANGED poolAttempted
  BY DEF Cost!CallerStep, Cost!PoolCreated, Cost!Migrated, Cost!OpeningFails, Cost!Acquired,
     Cost!AcquireFails, Cost!InsertAnswered, Cost!TotalAnswered, Cost!StatementFails,
     Cost!Released, Cost!Quiet
<1>2. ASSUME costLog' = costLog \/ costLog' = Append(costLog, Cost!NewRow(q))
      PROVE  \E S : costLog' \in Seq(S)
  BY <1>2, LogGrows DEF Shape
<1>3. ASSUME NEW s, Whole(s), query' = [query EXCEPT ![c] = s],
             s.op = q.op, s.skill = q.skill, s.note = q.note, s.at # "raised",
             q.at = "release" => s.at = "done",
             costLog' = costLog \/ costLog' = Append(costLog, Cost!NewRow(q)),
             query'[c] = s => Rows
      PROVE  /\ Shape'
             /\ query'[c].op = q.op /\ query'[c].skill = q.skill
             /\ query'[c].note = q.note /\ query'[c].at # "raised"
             /\ q.at = "release" => query'[c].at = "done"
             /\ \A d \in Request : d # c => query'[d] = query[d]
             /\ Rows
  <2>1. /\ Shape' /\ query'[c] = s
        /\ \A d \in Request : d # c => query'[d] = query[d]
    BY <1>2, <1>3, QueryBecomes
  <2> QED
    BY <1>3, <2>1
<1> HIDE DEF Rows
<1>4. CASE Cost!PoolCreated(c) \/ Cost!Acquired(c)
  <2>1. PICK stage \in {"migrate", "statement"} : query' = [query EXCEPT ![c].at = stage]
    BY <1>4 DEF Cost!PoolCreated, Cost!Acquired
  <2> DEFINE s == [q EXCEPT !.at = stage]
  <2>2. /\ query' = [query EXCEPT ![c] = s] /\ UNCHANGED <<costLog, lateRows>>
        /\ q.at \in {"connect", "acquire"}
    BY <1>4, <2>1 DEF Cost!PoolCreated, Cost!Acquired
  <2>3. /\ Whole(s) /\ s.at # "raised"
        /\ s.op = q.op /\ s.skill = q.skill /\ s.note = q.note
    BY <1>0, <2>1, MovedWhole
  <2>4. Rows
    BY <2>2 DEF Rows, Passes, Inserting
  <2> HIDE DEF s
  <2> QED
    BY <1>1, <1>3, <2>2, <2>3, <2>4 DEF Rows
<1>5. CASE Cost!Migrated(c)
  <2>1. /\ query' = [query EXCEPT ![c] = Cost!Ready(q)] /\ UNCHANGED <<costLog, lateRows>>
        /\ q.at = "migrate"
    BY <1>5 DEF Cost!Migrated
  <2>2. Rows
    BY <2>1 DEF Rows, Passes, Inserting
  <2> QED
    BY <1>0, <1>1, <1>3, <2>1, <2>2, ReadyWhole DEF Rows
<1>6. CASE Cost!OpeningFails(c) \/ Cost!AcquireFails(c) \/ Cost!Released(c)
  <2>1. \E u : query' = [query EXCEPT ![c] = Cost!Finish(q, u)]
    BY <1>6 DEF Cost!OpeningFails, Cost!AcquireFails, Cost!Released
  <2>2. q.at # "statement" /\ UNCHANGED <<costLog, lateRows>>
    BY <1>6 DEF Cost!OpeningFails, Cost!AcquireFails, Cost!Released
  <2>3. PICK u : query' = [query EXCEPT ![c] = Cost!Finish(q, u)]
    BY <2>1
  <2> DEFINE s == Cost!Finish(q, u)
  <2>4. /\ Whole(s) /\ s.at = "done"
        /\ s.op = q.op /\ s.skill = q.skill /\ s.note = q.note
    BY <1>0, FinishWhole
  <2>5. Rows
    BY <2>2 DEF Rows, Passes, Inserting
  <2> HIDE DEF s
  <2> QED
    BY <1>1, <1>3, <2>2, <2>3, <2>4, <2>5 DEF s, Rows
<1>7. CASE Cost!InsertAnswered(c) \/ Cost!TotalAnswered(c) \/ Cost!StatementFails(c)
  <2>1. \E u : query' = [query EXCEPT ![c] = Cost!Leave(q, u)]
    BY <1>7 DEF Cost!InsertAnswered, Cost!TotalAnswered, Cost!StatementFails
  <2>2. PICK u : query' = [query EXCEPT ![c] = Cost!Leave(q, u)]
    BY <2>1
  <2> DEFINE s == Cost!Leave(q, u)
  <2>3. /\ Whole(s) /\ s.at = "release"
        /\ s.op = q.op /\ s.skill = q.skill /\ s.note = q.note
    BY <1>0, LeaveWhole
  <2> HIDE DEF s
  <2>4. q.at = "statement"
    BY <1>7 DEF Cost!InsertAnswered, Cost!TotalAnswered, Cost!StatementFails
  <2>5. Cost!RowsUnderWay({c}) = IF Inserting(c) THEN {Cost!NewRow(q)} ELSE {}
    BY DEF Cost!RowsUnderWay, Inserting
  <2>6. query'[c] = s => Rows
    <3>1. CASE Cost!InsertAnswered(c)
      BY <2>3, <3>1 DEF Cost!InsertAnswered, Rows, Writes, Inserting
    <3>2. CASE Cost!TotalAnswered(c)
      BY <3>2 DEF Cost!TotalAnswered, Rows, Passes, Inserting
    <3>3. CASE Cost!StatementFails(c)
      BY <2>3, <2>5, <3>3 DEF Cost!StatementFails, Rows, GivesUp, Passes
    <3> QED
      BY <1>7, <3>1, <3>2, <3>3
  <2>7. costLog' = costLog \/ costLog' = Append(costLog, Cost!NewRow(q))
    BY <1>7 DEF Cost!InsertAnswered, Cost!TotalAnswered, Cost!StatementFails
  <2> QED
    BY <1>1, <1>3, <2>2, <2>3, <2>4, <2>6, <2>7 DEF s, Rows
<1> QED
  BY <1>4, <1>5, <1>6, <1>7 DEF Cost!CallerStep
----------------------------------------------------------------------------
(* What happens to the log. *)

LEMMA RowsGrow ==
    ASSUME Shape, NEW c, NEW row, row.note.request = c, costLog' = Append(costLog, row)
    PROVE  /\ \A d : d # c => RowsOf(d)' = RowsOf(d)
           /\ RowsOf(c)' = RowsOf(c) \cup {Len(costLog) + 1}
           /\ \A i \in DOMAIN costLog : costLog'[i] = costLog[i]
           /\ costLog'[Len(costLog) + 1] = row
<1>1. PICK S : costLog \in Seq(S)
  BY DEF Shape
<1>2. /\ DOMAIN costLog = 1..Len(costLog) /\ Len(costLog) \in Nat
      /\ DOMAIN costLog' = 1..(Len(costLog) + 1)
      /\ \A i \in DOMAIN costLog : costLog'[i] = costLog[i]
      /\ costLog'[Len(costLog) + 1] = row
  BY <1>1
<1>3. DOMAIN costLog' = DOMAIN costLog \cup {Len(costLog) + 1}
  BY <1>2
<1> QED
  BY <1>2, <1>3 DEF RowsOf

\* Rows that stay where they are.
LEMMA SameRows ==
    ASSUME UNCHANGED <<costLog, lateRows>>
    PROVE  \A r : /\ RowsOf(r)' = RowsOf(r) /\ LateOf(r)' = LateOf(r)
                  /\ Unwritten(r)' = Unwritten(r)
BY DEF RowsOf, LateOf, Unwritten

\* Who takes no part in a step keeps its entry.
LEMMA EntryKept ==
    ASSUME NEW d \in Request, EntryOf(d), query'[d] = query[d], req'[d] = req[d],
           RowsOf(d)' = RowsOf(d), LateOf(d)' = LateOf(d),
           \A i \in DOMAIN costLog : costLog'[i] = costLog[i]
    PROVE  EntryOf(d)'
<1>1. Cost!Quiet(d)' <=> Cost!Quiet(d)
  BY DEF Cost!Quiet
<1>2. \A i \in RowsOf(d) : costLog'[i] = costLog[i]
  BY DEF RowsOf
<1>3. /\ Unwritten(d)' <=> Unwritten(d)
      /\ \A i \in RowsOf(d) : Says(costLog[i], d)' <=> Says(costLog[i], d)
      /\ \A row \in LateOf(d) : Says(row, d)' <=> Says(row, d)
  BY <1>2 DEF Unwritten, Says
<1> QED
  BY <1>1, <1>3 DEF EntryOf, RowOf

\* So does who has no row and makes no call.
LEMMA EntryEmpty ==
    ASSUME NEW r \in Request, Cost!Quiet(r), Unwritten(r), UNCHANGED <<query, costLog, lateRows>>
    PROVE  EntryOf(r)'
<1>1. Cost!Quiet(r)' /\ Unwritten(r)'
  BY SameRows DEF Cost!Quiet
<1> QED
  BY <1>1 DEF EntryOf, Unwritten

\* A request moves alone.
Moves(r) == \E q : Becomes(r, q)

LEMMA MovesAlone ==
    ASSUME IInv, NEW r \in Request, Proceed(r)
    PROVE  \E q : Becomes(r, q) /\ req'[r] = q /\ \A d \in Request : d # r => req'[d] = req[d]
<1>0. ASSUME NEW x, Handle(r, x) PROVE Moves(r)
  <2> DEFINE p == Active(Registered, Equipped, x.signal, config[x.signal])
             s == IF p = "unconfigured" THEN 503 ELSE 500
             n == [x EXCEPT !.at = "cached", !.provider = p]
  <2>1. \/ Becomes(r, Refuse(x, 422)) \/ Becomes(r, Crash(x))
        \/ Becomes(r, Refuse(x, s)) \/ Becomes(r, n)
    BY <1>0, Zenon DEF Handle
  <2> HIDE DEF s, n
  <2> QED
    BY <2>1, Zenon DEF Moves
<1>1. Moves(r)
  <2>1. CASE Arrive(r)
    <3>1. ASSUME NEW q, AsksTotal(r, q) PROVE Moves(r)
      BY <3>1, Zenon DEF AsksTotal, Moves
    <3>2. ASSUME NEW s, Becomes(r, Refuse(Unborn, s)) PROVE Moves(r)
      BY <3>2, Zenon DEF Moves
    <3> QED
      BY <1>0, <2>1, <3>1, <3>2, ArriveCases
  <2>2. CASE CapChecked(r)
    BY <1>0, <2>2, Zenon DEF CapChecked, Moves
  <2>3. CASE CacheAnswered(r)
    BY <2>3, Zenon DEF CacheAnswered, Moves
  <2>4. CASE LookupEnds(r)
    <3>1. CASE Holds(r)
      BY <3>1, Zenon DEF Holds, Moves
    <3>2. CASE Fails(r)
      BY <3>2, Zenon DEF Fails, Moves
    <3> QED
      BY <2>4, <3>1, <3>2, LookupMoves
  <2>5. CASE Saved(r)
    BY <2>5, Zenon DEF Saved, Moves
  <2>6. CASE Telemetry(r)
    BY <2>6, Zenon DEF Telemetry, Moves
  <2>7. CASE Recorded(r)
    BY <2>7, Zenon DEF Recorded, Moves
  <2> QED
    BY <2>1, <2>2, <2>3, <2>4, <2>5, <2>6, <2>7 DEF Proceed
<1>2. PICK q : Becomes(r, q)
  BY <1>1 DEF Moves
<1> QED
  BY <1>2 DEF Becomes, IInv, Flow

LEMMA LogUntouched ==
    ASSUME LInv, NEW r \in Request, EntryOf(r)',
           UNCHANGED <<poolAttempted, costLog, lateRows, query>>,
           \A d \in Request : d # r => req'[d] = req[d]
    PROVE  LInv'
<1>1. Shape' /\ QueryRaised'
  BY DEF LInv, Shape, Whole, QueryRaised
<1>2. \A d \in Request : RowsOf(d)' = RowsOf(d) /\ LateOf(d)' = LateOf(d)
  BY SameRows
<1>3. \A d \in Request : d # r => EntryOf(d)'
  BY <1>2, EntryKept DEF LInv
<1> QED
  BY <1>1, <1>3 DEF LInv

LEMMA LogBegins ==
    ASSUME IInv, LInv, NEW r \in Request, Proceed(r), EntryOf(r)',
           NEW op, NEW k, NEW usd, NEW n, Cost!Begin(r, op, k, usd, n)
    PROVE  LInv'
<1>1. /\ Shape' /\ QueryRaised' /\ UNCHANGED <<costLog, lateRows>>
      /\ \A d \in Request : d # r => query'[d] = query[d]
  BY QueryBegins
<1>2. \A d \in Request : RowsOf(d)' = RowsOf(d) /\ LateOf(d)' = LateOf(d)
  BY <1>1, SameRows
<1>3. \A d \in Request : d # r => EntryOf(d)'
  BY <1>1, <1>2, EntryKept, MovesAlone DEF LInv
<1> QED
  BY <1>1, <1>3 DEF LInv

LEMMA ProceedKeepsLog ==
    ASSUME IInv, LInv, NEW r \in Request, Proceed(r)
    PROVE  LInv'
<1>0. EntryOf(r) /\ Shape /\ \A d \in Request : d # r => req'[d] = req[d]
  BY MovesAlone DEF LInv
<1>1. ASSUME Unwritten(r), Cost!Quiet(r), UNCHANGED costVars PROVE LInv'
  BY <1>0, <1>1, EntryEmpty, LogUntouched DEF costVars
<1>2. CASE \/ CapChecked(r) \/ CacheAnswered(r) \/ LookupEnds(r) \/ Saved(r)
  <2>1. Unwritten(r) /\ Cost!Quiet(r)
    BY <1>0, <1>2 DEF EntryOf, CapChecked, CacheAnswered, LookupEnds, Saved
  <2> QED
    BY <1>1, <1>2, <2>1 DEF CapChecked, CacheAnswered, LookupEnds, Saved
<1>3. CASE Arrive(r)
  <2>1. Unwritten(r) /\ Cost!Quiet(r)
    BY <1>0, <1>3 DEF EntryOf, Arrive
  <2>2. ASSUME NEW q \in Authentic, Becomes(r, [q EXCEPT !.at = "cap"]), Cost!BeginTotal(r, q.skill)
        PROVE  LInv'
    <3> DEFINE n == [q EXCEPT !.at = "cap"]
    <3>1. n.at = "cap" /\ n \in Req
      BY AuthenticTyped DEF Req, Stages
    <3>2. req'[r] = n
      BY <2>2 DEF Becomes, IInv, Flow
    <3> HIDE DEF n
    <3>3. PICK k, u, note : Cost!Begin(r, "total", k, u, note)
      BY <2>2 DEF Cost!BeginTotal
    <3>4. query'[r].op = "total" /\ UNCHANGED <<costLog, lateRows>>
      BY <3>3, QueryBegins
    <3>5. Unwritten(r)'
      BY <2>1, <3>4, SameRows
    <3>6. EntryOf(r)'
      BY <3>1, <3>2, <3>4, <3>5 DEF EntryOf, Unwritten
    <3> QED
      BY <3>3, <3>6, LogBegins
  <2> QED
    BY <1>1, <1>3, <2>1, <2>2 DEF Arrive
<1>4. CASE Telemetry(r)
  <2>1. Unwritten(r) /\ Cost!Quiet(r) /\ req[r] \in Req
    BY <1>0, <1>4 DEF EntryOf, Telemetry, IInv, Flow
  <2>2. CASE UNCHANGED costVars
    BY <1>1, <2>1, <2>2
  <2>3. CASE /\ Becomes(r, [req[r] EXCEPT !.at = "recording"])
             /\ Cost!BeginRecord(r, req[r].skill, RecordedUsd, RowOf(r))
    <3> DEFINE n == [req[r] EXCEPT !.at = "recording"]
    <3>1. n.at = "recording" /\ n.skill = req[r].skill /\ n.status = req[r].status
      BY <2>1 DEF Req, Stages
    <3>2. req'[r] = n
      BY <2>3 DEF Becomes, IInv, Flow
    <3> HIDE DEF n
    <3>3. Cost!Begin(r, "record", req[r].skill, RecordedUsd, RowOf(r))
      BY <2>3 DEF Cost!BeginRecord
    <3>4. /\ query'[r].op = "record" /\ query'[r].skill = req[r].skill
          /\ query'[r].note = RowOf(r) /\ UNCHANGED <<costLog, lateRows>>
      BY <3>3, QueryBegins
    <3>5. Unwritten(r)' /\ RowOf(r)' = RowOf(r)
      BY <2>1, <3>1, <3>2, <3>4, SameRows DEF RowOf
    <3>6. EntryOf(r)'
      BY <3>1, <3>2, <3>4, <3>5 DEF EntryOf, Unwritten
    <3> QED
      BY <3>3, <3>6, LogBegins
  <2> QED
    BY <1>4, <2>2, <2>3 DEF Telemetry
<1>5. CASE Recorded(r)
  <2> DEFINE n == [req[r] EXCEPT !.at = "sent"]
  <2>1. req[r] \in Req /\ Cost!Quiet(r) /\ UNCHANGED <<poolAttempted, costLog, lateRows, query>>
    BY <1>5 DEF Recorded, IInv, Flow, costVars
  <2>2. n.at = "sent" /\ n.skill = req[r].skill /\ n.status = req[r].status
    BY <2>1 DEF Req, Stages
  <2>3. req'[r] = n
    BY <1>5 DEF Recorded, Becomes, IInv, Flow
  <2> HIDE DEF n
  <2>4. Cost!Quiet(r)' /\ RowsOf(r)' = RowsOf(r) /\ LateOf(r)' = LateOf(r)
    BY <2>1, SameRows DEF Cost!Quiet
  <2>5. EntryOf(r)'
    BY <1>0, <2>1, <2>2, <2>3, <2>4 DEF EntryOf, Says
  <2> QED
    BY <1>0, <2>1, <2>5, LogUntouched
<1> QED
  BY <1>2, <1>3, <1>4, <1>5 DEF Proceed

\* The row of a call is about its own request.
LEMMA OwnRow ==
    ASSUME LInv, NEW c \in Request, Inserting(c)
    PROVE  /\ req[c].at = "recording" /\ Unwritten(c)
           /\ Cost!NewRow(query[c]).note.request = c
           /\ Says(Cost!NewRow(query[c]), c)
<1>1. ~Cost!Quiet(c) /\ query[c].op = "record" /\ query[c].at # "release"
  BY DEF Inserting, Cost!Quiet
<1>2. /\ req[c].at = "recording" /\ query[c].skill = req[c].skill
      /\ query[c].note = RowOf(c) /\ Unwritten(c)
  BY <1>1 DEF EntryOf, LInv
<1> QED
  BY <1>2 DEF Cost!NewRow, Cost!RowAt, RowOf, Says

\* A row about c, when it gets into the log.
LEMMA RowEntered ==
    ASSUME Shape, NEW c, RowsOf(c) = {}, NEW row, row.note.request = c,
           costLog' = Append(costLog, row)
    PROVE  LET n == Len(costLog) + 1
           IN  /\ RowsOf(c)' = {n} /\ costLog'[n] = row
               /\ \A d : d # c => RowsOf(d)' = RowsOf(d)
               /\ \A i \in DOMAIN costLog : costLog'[i] = costLog[i]
<1>1. /\ \A d : d # c => RowsOf(d)' = RowsOf(d)
      /\ RowsOf(c)' = RowsOf(c) \cup {Len(costLog) + 1}
      /\ \A i \in DOMAIN costLog : costLog'[i] = costLog[i]
      /\ costLog'[Len(costLog) + 1] = row
  BY RowsGrow
<1> QED
  BY <1>1

\* A call that goes on changes the entry of its own request at most.
LEMMA CostStepKeepsLog ==
    ASSUME IInv, LInv, NEW c \in Request, CostStep(c)
    PROVE  LInv'
<1>1. /\ Cost!CallerStep(c) /\ Shape /\ EntryOf(c) /\ QueryRaised
      /\ \A d \in Request : req'[d] = req[d]
  BY DEF CostStep, LInv
<1>2. /\ Shape' /\ ~Cost!Quiet(c) /\ UNCHANGED poolAttempted
      /\ query'[c].op = query[c].op /\ query'[c].skill = query[c].skill
      /\ query'[c].note = query[c].note /\ query'[c].at # "raised"
      /\ query[c].at = "release" => query'[c].at = "done"
      /\ \A d \in Request : d # c => query'[d] = query[d]
      /\ Writes(c) \/ GivesUp(c) \/ Passes(c)
  BY <1>1, QueryGoesOn
<1>3. QueryRaised'
  BY <1>1, <1>2 DEF QueryRaised
<1>4. /\ RowOf(c)' = RowOf(c)
      /\ \A row : Says(row, c)' <=> Says(row, c)
  BY <1>1 DEF RowOf, Says
<1>5. CASE Passes(c)
  <2>1. /\ \A d \in Request : RowsOf(d)' = RowsOf(d) /\ LateOf(d)' = LateOf(d)
        /\ Unwritten(c)' <=> Unwritten(c)
        /\ \A i \in RowsOf(c) : costLog'[i] = costLog[i]
    BY <1>5, SameRows DEF Passes
  <2>2. \A d \in Request : d # c => EntryOf(d)'
    BY <1>1, <1>2, <1>5, <2>1, EntryKept DEF LInv, Passes
  <2>3. Cost!Quiet(c)' <=> query'[c].at \in {"idle", "done", "raised"}
    BY DEF Cost!Quiet
  <2>4. \A i \in RowsOf(c) : Says(costLog[i], c)' <=> Says(costLog[i], c)
    BY <2>1, <1>1 DEF Says
  <2>5. EntryOf(c)'
    BY <1>1, <1>2, <1>4, <2>1, <2>3, <2>4 DEF EntryOf
  <2> QED
    BY <1>2, <1>3, <2>2, <2>5 DEF LInv
<1>6. CASE Writes(c)
  <2> DEFINE row == Cost!NewRow(query[c])
             n == Len(costLog) + 1
  <2>1. /\ req[c].at = "recording" /\ Unwritten(c)
        /\ row.note.request = c /\ Says(row, c)
    BY <1>6, OwnRow DEF Writes
  <2>2. costLog' = Append(costLog, row)
    BY <1>6 DEF Writes
  <2> HIDE DEF row
  <2>3. /\ RowsOf(c)' = {n} /\ costLog'[n] = row
        /\ \A d : d # c => RowsOf(d)' = RowsOf(d)
        /\ \A i \in DOMAIN costLog : costLog'[i] = costLog[i]
    BY <1>1, <2>1, <2>2, RowEntered DEF Unwritten
  <2>4. \A d \in Request : LateOf(d)' = LateOf(d)
    BY <1>6 DEF Writes, LateOf
  <2>5. \A d \in Request : d # c => EntryOf(d)'
    BY <1>1, <1>2, <2>3, <2>4, EntryKept DEF LInv
  <2>6. query'[c].at = "release" /\ query'[c].op = "record" /\ req'[c] = req[c]
        /\ query[c].at # "release"
    BY <1>1, <1>2, <1>6 DEF Writes, Inserting
  <2>7. /\ query[c].skill = req[c].skill /\ query[c].note = RowOf(c)
    BY <1>1, <1>2, <1>6 DEF EntryOf, Writes, Inserting
  <2>8. LateOf(c)' = {}
    BY <2>1, <2>4 DEF Unwritten
  <2>9. /\ costLog'[n].skill = req'[c].skill
        /\ costLog'[n].note.status = req'[c].status
    BY <2>1, <2>3, <2>6 DEF Says
  <2>10. EntryOf(c)'
    BY <1>2, <1>4, <2>1, <2>3, <2>6, <2>7, <2>8, <2>9 DEF EntryOf, Says
  <2> QED
    BY <1>2, <1>3, <2>5, <2>10 DEF LInv
<1>7. CASE GivesUp(c)
  <2> DEFINE row == Cost!NewRow(query[c])
  <2>1. /\ req[c].at = "recording" /\ Unwritten(c)
        /\ row.note.request = c /\ Says(row, c)
    BY <1>7, OwnRow DEF GivesUp
  <2>2. lateRows' = lateRows \cup {row} /\ costLog' = costLog
    BY <1>7 DEF GivesUp
  <2> HIDE DEF row
  <2>3. /\ \A d \in Request : d # c => LateOf(d)' = LateOf(d)
        /\ LateOf(c)' = {row}
    BY <2>1, <2>2 DEF LateOf, Unwritten
  <2>4. \A d \in Request : RowsOf(d)' = RowsOf(d)
    BY <2>2 DEF RowsOf
  <2>5. \A d \in Request : d # c => EntryOf(d)'
    BY <1>1, <1>2, <2>2, <2>3, <2>4, EntryKept DEF LInv
  <2>6. query'[c].at = "release" /\ query'[c].op = "record" /\ req'[c] = req[c]
        /\ query[c].at # "release"
    BY <1>1, <1>2, <1>7 DEF GivesUp, Inserting
  <2>7. /\ query[c].skill = req[c].skill /\ query[c].note = RowOf(c)
    BY <1>1, <1>2, <1>7 DEF EntryOf, GivesUp, Inserting
  <2>8. RowsOf(c)' = {}
    BY <2>1, <2>4 DEF Unwritten
  <2>9. EntryOf(c)'
    BY <1>2, <1>4, <2>1, <2>3, <2>6, <2>7, <2>8 DEF EntryOf, Says
  <2> QED
    BY <1>2, <1>3, <2>5, <2>9 DEF LInv
<1> QED
  BY <1>2, <1>5, <1>6, <1>7

\* What a late INSERT that is carried out does to the rows.
LEMMA LateEnters ==
    ASSUME LInv, NEW row \in lateRows, Cost!LateInsert(row)
    PROVE  LET c == row.note.request
               n == Len(costLog) + 1
           IN  /\ Shape'
               /\ UNCHANGED <<poolAttempted, query>>
               /\ \A d \in Request : d # c => RowsOf(d)' = RowsOf(d) /\ LateOf(d)' = LateOf(d)
               /\ \A i \in DOMAIN costLog : costLog'[i] = costLog[i]
               /\ c \in Request =>
                     /\ LateOf(c) = {row} /\ LateOf(c)' = {}
                     /\ RowsOf(c) = {} /\ RowsOf(c)' = {n} /\ Says(costLog'[n], c)
<1> DEFINE c == row.note.request
           n == Len(costLog) + 1
<1>1. /\ lateRows' = lateRows \ {row} /\ UNCHANGED <<poolAttempted, query>>
      /\ Shape
  BY DEF Cost!LateInsert, LInv
<1>2. PICK t : costLog' = Append(costLog, Cost!RowAt(row, t))
  BY DEF Cost!LateInsert
<1> DEFINE new == Cost!RowAt(row, t)
<1>3. new.note = row.note /\ new.skill = row.skill
  BY DEF Cost!RowAt
<1>4. costLog' = Append(costLog, new) /\ new.note.request = c
  BY <1>2, <1>3
<1> HIDE DEF new
<1>5. /\ \A d : d # c => RowsOf(d)' = RowsOf(d)
      /\ \A i \in DOMAIN costLog : costLog'[i] = costLog[i]
      /\ costLog'[n] = new
      /\ RowsOf(c)' = RowsOf(c) \cup {n}
  BY <1>1, <1>4, RowsGrow
<1>6. \A d \in Request : d # c => LateOf(d)' = LateOf(d)
  BY <1>1 DEF LateOf
<1>7. Shape'
  <2>1. \E S : costLog' \in Seq(S)
    BY <1>1, <1>4, LogGrows DEF Shape
  <2> QED
    BY <1>1, <2>1 DEF Shape, Whole
<1>8. ASSUME c \in Request
      PROVE  /\ LateOf(c) = {row} /\ LateOf(c)' = {}
             /\ RowsOf(c) = {} /\ Says(row, c)
  <2>1. row \in LateOf(c) /\ EntryOf(c)
    BY <1>8 DEF LateOf, LInv
  <2>2. LateOf(c) = {row} /\ RowsOf(c) = {} /\ Says(row, c)
    BY <2>1 DEF EntryOf
  <2>3. LateOf(c)' = LateOf(c) \ {row}
    BY <1>1 DEF LateOf
  <2> QED
    BY <2>2, <2>3
<1> QED
  BY <1>1, <1>3, <1>5, <1>6, <1>7, <1>8 DEF Says

\* Only a request whose call is over can have a late row, or one that is about
\* to be.
LEMMA PostgresKeepsLog ==
    ASSUME LInv, PostgresMoves
    PROVE  LInv'
<1>1. PICK row \in lateRows : Cost!LateInsert(row)
  BY DEF PostgresMoves
<1> DEFINE c == row.note.request
           n == Len(costLog) + 1
<1>2. UNCHANGED req
  BY DEF PostgresMoves
<1>3. /\ Shape'
      /\ UNCHANGED <<poolAttempted, query>>
      /\ \A d \in Request : d # c => RowsOf(d)' = RowsOf(d) /\ LateOf(d)' = LateOf(d)
      /\ \A i \in DOMAIN costLog : costLog'[i] = costLog[i]
      /\ c \in Request =>
            /\ LateOf(c) = {row} /\ LateOf(c)' = {}
            /\ RowsOf(c) = {} /\ RowsOf(c)' = {n} /\ Says(costLog'[n], c)
  BY <1>1, LateEnters
<1>4. \A d \in Request : d # c => EntryOf(d)'
  BY <1>2, <1>3, EntryKept DEF LInv
<1>5. ASSUME c \in Request PROVE EntryOf(c)'
  <2>1. EntryOf(c) /\ ~Unwritten(c)
    BY <1>3, <1>5 DEF LInv, Unwritten
  <2>2. Cost!Quiet(c)' <=> Cost!Quiet(c)
    BY <1>3 DEF Cost!Quiet
  <2>3. /\ costLog'[n].skill = req'[c].skill /\ costLog'[n].note.status = req'[c].status
        /\ RowOf(c)' = RowOf(c)
    BY <1>2, <1>3, <1>5 DEF Says, RowOf
  <2>4. /\ req[c].at \notin {"new", "cap", "cached", "lookup", "saving", "answered"}
        /\ ~Cost!Quiet(c) =>
              /\ query[c].op = "record" /\ req[c].at = "recording"
              /\ query[c].skill = req[c].skill /\ query[c].note = RowOf(c)
              /\ query[c].at = "release"
    BY <2>1 DEF EntryOf
  <2> HIDE DEF c, n
  <2> QED
    BY <1>2, <1>3, <1>5, <2>2, <2>3, <2>4 DEF EntryOf, Says
<1>6. QueryRaised'
  BY <1>3 DEF LInv, QueryRaised
<1> QED
  BY <1>3, <1>4, <1>5, <1>6 DEF LInv

LEMMA RestWhole == Whole(Cost!Rest) /\ Cost!Rest.at = "idle"
BY DEF Whole, Cost!Rest

\* A request that dies keeps what its client would have been told.
LEMMA Dies ==
    ASSUME IInv, Restart, NEW r \in Request
    PROVE  /\ req'[r].skill = req[r].skill /\ req'[r].status = req[r].status
           /\ req'[r].result = req[r].result
           /\ req'[r].at = IF req[r].at \in {"new", "sent", "lost"} THEN req[r].at ELSE "lost"
<1>1. req[r] \in Req
  BY DEF IInv, Flow
<1>2. req'[r] = IF req[r].at \in {"new", "sent", "lost"} THEN req[r]
                ELSE [req[r] EXCEPT !.at = "lost"]
  BY DEF Restart
<1> QED
  BY <1>1, <1>2 DEF Req

\* The rows of the INSERTs under way are late from now on.
LEMMA RestartLeavesRows ==
    ASSUME LInv, Restart
    PROVE  /\ UNCHANGED costLog
           /\ query' = [c \in Request |-> Cost!Rest]
           /\ \A r \in Request :
                 LateOf(r)' = LateOf(r) \cup
                                 IF Inserting(r) THEN {Cost!NewRow(query[r])} ELSE {}
<1>1. /\ UNCHANGED costLog /\ query' = [c \in Request |-> Cost!Rest]
      /\ lateRows' = lateRows \cup Cost!RowsUnderWay(Request)
  BY DEF Restart, Cost!Restart
<1>2. Cost!RowsUnderWay(Request) = {Cost!NewRow(query[c]) : c \in {d \in Request : Inserting(d)}}
  BY DEF Cost!RowsUnderWay, Inserting
<1>3. \A c \in Request : Inserting(c) => Cost!NewRow(query[c]).note.request = c
  BY OwnRow
<1>4. ASSUME NEW r \in Request
      PROVE  {row \in Cost!RowsUnderWay(Request) : row.note.request = r}
                = IF Inserting(r) THEN {Cost!NewRow(query[r])} ELSE {}
  BY <1>2, <1>3
<1>5. \A r \in Request :
        LateOf(r)' = LateOf(r) \cup {row \in Cost!RowsUnderWay(Request) : row.note.request = r}
  BY <1>1 DEF LateOf
<1> QED
  BY <1>1, <1>4, <1>5

LEMMA RestartKeepsLog ==
    ASSUME IInv, LInv, Restart
    PROVE  LInv'
<1>1. /\ UNCHANGED costLog /\ query' = [c \in Request |-> Cost!Rest]
      /\ \A r \in Request :
            LateOf(r)' = LateOf(r) \cup
                            IF Inserting(r) THEN {Cost!NewRow(query[r])} ELSE {}
  BY RestartLeavesRows
<1>2. \A r \in Request : query'[r] = Cost!Rest /\ Cost!Quiet(r)' /\ query'[r].at # "raised"
  BY <1>1, RestWhole DEF Cost!Quiet
<1>3. QueryRaised'
  BY <1>2 DEF QueryRaised
<1>4. Shape'
  <2>1. \E S : costLog \in Seq(S)
    BY DEF LInv, Shape
  <2> QED
    BY <1>1, <1>2, <2>1, RestWhole DEF Shape
<1>5. ASSUME NEW r \in Request PROVE EntryOf(r)'
  <2>1. EntryOf(r) /\ RowsOf(r)' = RowsOf(r)
    BY <1>1 DEF LInv, RowsOf
  <2>2. /\ req'[r].at \in {"new", "cap", "cached", "lookup", "saving", "answered"} =>
              req[r].at = "new"
        /\ \A row : Says(row, r)' <=> Says(row, r)
    BY Dies DEF Says
  <2>3. \A i \in RowsOf(r) : Says(costLog[i], r)' <=> Says(costLog[i], r)
    BY <1>1, Dies DEF Says
  <2>4. CASE ~Inserting(r)
    <3>1. LateOf(r)' = LateOf(r)
      BY <1>1, <2>4
    <3> QED
      BY <1>2, <2>1, <2>2, <2>3, <3>1 DEF EntryOf, Unwritten
  <2>5. CASE Inserting(r)
    <3> DEFINE new == Cost!NewRow(query[r])
    <3>1. req[r].at = "recording" /\ Unwritten(r) /\ Says(new, r)
      BY <2>5, OwnRow
    <3>2. LateOf(r)' = {new}
      BY <1>1, <2>5, <3>1 DEF Unwritten
    <3>3. req'[r].at = "lost"
      BY <3>1, Dies
    <3> HIDE DEF new
    <3>4. new.skill = req'[r].skill /\ new.note.status = req'[r].status
      BY <3>1, Dies DEF Says
    <3> QED
      BY <1>2, <2>1, <3>1, <3>2, <3>3, <3>4, Dies DEF EntryOf, Unwritten, Says
  <2> QED
    BY <2>4, <2>5
<1> QED
  BY <1>3, <1>4, <1>5 DEF LInv

LEMMA LInvInit == Init => LInv
<1> SUFFICES ASSUME Init PROVE LInv
  OBVIOUS
<1>1. /\ query = [r \in Request |-> Cost!Rest]
      /\ req = [r \in Request |-> Unborn]
      /\ costLog \in {<< >>} \cup
           {<<[skill |-> k, usd |-> u, note |-> OldNote, ts |-> 0]>> : k \in Skill, u \in OldUsd}
  BY DEF Init
<1>2. \E x : costLog = << >> \/ (costLog = <<x>> /\ x.note = OldNote)
  BY <1>1
<1>3. PICK x : costLog = << >> \/ (costLog = <<x>> /\ x.note = OldNote)
  BY <1>2
<1>4. \E S : costLog \in Seq(S)
  <2>1. << >> \in Seq({x}) /\ <<x>> \in Seq({x})
    OBVIOUS
  <2> QED
    BY <1>3, <2>1
<1>5. Shape
  BY <1>1, <1>4, RestWhole DEF Shape
<1>6. \A r \in Request : Cost!Quiet(r) /\ query[r].at # "raised"
  BY <1>1, RestWhole DEF Cost!Quiet
<1>7. \A r \in Request : Unwritten(r)
  <2>1. \A r \in Request : OldNote.request # r
    BY KitchenAssumption DEF OldNote
  <2>2. \A i \in DOMAIN costLog : costLog[i].note = OldNote
    BY <1>3
  <2>3. lateRows = {}
    BY DEF Init
  <2> QED
    BY <2>1, <2>2, <2>3 DEF Unwritten, RowsOf, LateOf
<1> QED
  BY <1>5, <1>6, <1>7 DEF LInv, EntryOf, Unwritten, QueryRaised

LEMMA LInvStep == IInv /\ LInv /\ [Next]_vars => LInv'
<1> SUFFICES ASSUME IInv, LInv, [Next]_vars PROVE LInv'
  OBVIOUS
<1>1. ASSUME UNCHANGED <<req, poolAttempted, costLog, lateRows, query>> PROVE LInv'
  <2>1. Shape' /\ QueryRaised'
    BY <1>1 DEF LInv, Shape, Whole, QueryRaised
  <2>2. \A r \in Request : RowsOf(r)' = RowsOf(r) /\ LateOf(r)' = LateOf(r)
    BY <1>1, SameRows
  <2>3. \A r \in Request : EntryOf(r)'
    BY <1>1, <2>2, EntryKept DEF LInv
  <2> QED
    BY <2>1, <2>3 DEF LInv
<1>2. CASE \E r \in Request : Proceed(r)
  BY <1>2, ProceedKeepsLog
<1>3. CASE \E r \in Request : CostStep(r)
  BY <1>3, CostStepKeepsLog
<1>4. CASE Restart
  BY <1>4, RestartKeepsLog
<1>5. CASE \E r \in Request : CacheStep(r)
  BY <1>1, <1>5 DEF CacheStep, costVars
<1>6. CASE RedisMoves
  BY <1>1, <1>6 DEF RedisMoves, costVars
<1>7. CASE Tick
  BY <1>1, <1>7 DEF Tick, Cost!Tick
<1>8. CASE \E s \in Signal : Reconfigure(s)
  BY <1>1, <1>8 DEF Reconfigure, costVars
<1>9. CASE UNCHANGED vars
  BY <1>1, <1>9 DEF vars, costVars
<1>10. CASE PostgresMoves
  BY <1>10, PostgresKeepsLog
<1> QED
  BY <1>2, <1>3, <1>4, <1>5, <1>6, <1>7, <1>8, <1>9, <1>10 DEF Next
----------------------------------------------------------------------------
(* The log tells the truth. *)

\* The log says of a request at most one thing, and that is what its client
\* was told, however calls of the log fail, however late Postgres carries out
\* their INSERTs and however the process restarts (main.py:83-87, middleware/cost_telemetry.py:32-61).
THEOREM LedgerTellsTruth == Spec => []LedgerTruthful
<1>1. LInv => LedgerTruthful
  BY DEF LInv, EntryOf, Says, LedgerTruthful
<1> QED
  BY <1>1, LInvInit, LInvStep, Invariant, PTL DEF Spec
----------------------------------------------------------------------------
(* Refused addresses. *)

LEMMA AtMostOne ==
    ASSUME NEW S, \A x, y \in S : x = y
    PROVE  Cardinality(S) =< 1
<1>1. CASE S = {}
  BY <1>1, FS_EmptySet
<1>2. CASE S # {}
  <2>1. PICK x \in S : TRUE
    BY <1>2
  <2>2. S = {x}
    BY <2>1
  <2> QED
    BY <2>2, FS_Singleton
<1> QED
  BY <1>1, <1>2

\* Whatever the number of requests, an address that redis-py or asyncpg
\* refuses is met by one call of the cache and by one of the log in a process
\* life; all others find that the attempt was made (cache.py:58-62, cost.py:51-55).
THEOREM RefusalIsMetOnce == Spec => []RefusedUrlCostsOne
<1>1. Init => CP!RaisesOnce
  BY SameInit, CacheAssumed, CP!RaisesInit DEF Init, CP!CacheAssumption
<1>2. IInv /\ CP!RaisesOnce /\ [Next]_vars => CP!RaisesOnce'
  BY FlowStep, CacheAssumed, CP!RaisesStep DEF IInv, CP!CacheAssumption
<1>3. LInv /\ CP!RaisesOnce => RefusedUrlCostsOne
  <2> SUFFICES ASSUME LInv, CP!RaisesOnce PROVE RefusedUrlCostsOne
    OBVIOUS
  <2>1. Cardinality({r \in Request : query[r].at = "raised"}) =< 1
    BY AtMostOne DEF LInv, QueryRaised
  <2>2. Cardinality({r \in Request : call[r].at = "raised"}) =< 1
    BY AtMostOne DEF CP!RaisesOnce
  <2> QED
    BY <2>1, <2>2 DEF RefusedUrlCostsOne
<1> QED
  BY <1>1, <1>2, <1>3, LInvInit, LInvStep, Invariant, PTL DEF Spec
----------------------------------------------------------------------------
(* The promise: each step of Kitchen is, seen through StageOf, AnswerOf and *)
(* LedgerOf, a step of Service or none.                                     *)

Early == {"new", "cap", "cached", "lookup", "saving"}

Open == {"cap", "cached", "lookup", "saving"}

Told(q) == [skill |-> q.skill, status |-> q.status, result |-> q.result]

\* Nobody is told anything before the answer is decided; who is under way has
\* a skill, and who has an answer but no skill gets no row.  A row that is late
\* is about an answer, even if that is lost.
Known(q) ==
    /\ q.at = "new" => q.status = None
    /\ q.at \in Open => q.skill \in Skill
    /\ q.at \in {"answered", "recording"} => q.status # None
    /\ q.at = "recording" => q.skill # NoSkill

PInv ==
    \A r \in Request : Known(req[r]) /\ (LateOf(r) # {} => req[r].status # None)

\* The ways a request that holds q may go on holding n.
Decides(q, n) ==
    /\ q.at \in Early /\ n.at \in {"answered", "sent"} /\ n.status # None
    /\ Told(n) \in Answers
    /\ n.at = "sent" <=> Told(n) \in Bare

Advances(q, n) ==
    q.at \in Early /\ n.at \in Open /\ q.status = None /\ n.status = None /\ n.skill \in Skill

Leaves(q, n) ==
    /\ q.at \in {"answered", "recording"} /\ n.at \in {"recording", "sent"}
    /\ n.at = "recording" => q.at = "answered" /\ q.skill # NoSkill
    /\ Told(n) = Told(q)

GoesOn(q, n) == Decides(q, n) \/ Advances(q, n) \/ Leaves(q, n)
----------------------------------------------------------------------------
(* What a step of a request is to Service. *)

\* Who is posted depends on its own call and its own late rows.
LEMMA PostedOthers ==
    ASSUME NEW c, \A d \in Request : d # c => query'[d] = query[d] /\ LateOf(d)' = LateOf(d)
    PROVE  /\ Posted' \ {c} = Posted \ {c}
           /\ c \in Request => (c \in Posted' <=> Inserting(c)' \/ LateOf(c)' # {})
           /\ c \in Request => (c \in Posted <=> Inserting(c) \/ LateOf(c) # {})
<1>1. \A d \in Request : d # c => (Inserting(d)' <=> Inserting(d))
  BY DEF Inserting
<1> QED
  BY <1>1 DEF Posted

\* A call that begins posts nothing.
LEMMA BeginKeepsLog ==
    ASSUME LInv, NEW c \in Request, NEW op, NEW k, NEW usd, NEW n,
           Cost!Begin(c, op, k, usd, n)
    PROVE  UNCHANGED <<costLog, lateRows, Posted>>
<1>1. /\ UNCHANGED <<costLog, lateRows>>
      /\ Cost!Quiet(c) /\ query'[c].at # "statement"
      /\ \A d \in Request : d # c => query'[d] = query[d]
  BY QueryBegins
<1>2. ~Inserting(c) /\ ~Inserting(c)' /\ \A d : LateOf(d)' = LateOf(d)
  BY <1>1, SameRows DEF Inserting, Cost!Quiet
<1>3. Posted' = Posted
  BY <1>1, <1>2, PostedOthers
<1> QED
  BY <1>1, <1>3

\* What is seen of the others stays as it is.
LEMMA OnlyOne ==
    ASSUME NEW r \in Request, \A d \in Request : d # r => req'[d] = req[d]
    PROVE  LET stage == [d \in Request |-> StageOf(d)]
               answer == [d \in Request |-> AnswerOf(d)]
           IN  /\ stage' = [stage EXCEPT ![r] = StageOf(r)']
               /\ answer' = [answer EXCEPT ![r] = AnswerOf(r)']
<1>1. \A d \in Request : d # r => StageOf(d)' = StageOf(d) /\ AnswerOf(d)' = AnswerOf(d)
  BY DEF StageOf, AnswerOf
<1> QED
  BY <1>1

LEMMA SameLedger ==
    ASSUME UNCHANGED costLog
    PROVE  [r \in Request |-> LedgerOf(r)]' = [r \in Request |-> LedgerOf(r)]
<1>1. \A r \in Request : LedgerOf(r)' = LedgerOf(r)
  BY DEF LedgerOf, RowsOf
<1> QED
  BY <1>1

LEMMA StepOfOne ==
    ASSUME PInv, NEW r \in Request, NEW n, GoesOn(req[r], n), req'[r] = n,
           \A d \in Request : d # r => req'[d] = req[d],
           UNCHANGED <<costLog, lateRows, Posted>>
    PROVE  [Promise!Next]_(Promise!vars) /\ PInv'
<1> DEFINE stage == [d \in Request |-> StageOf(d)]
           answer == [d \in Request |-> AnswerOf(d)]
<1>1. /\ stage' = [stage EXCEPT ![r] = StageOf(r)']
      /\ answer' = [answer EXCEPT ![r] = AnswerOf(r)']
      /\ stage'[r] = StageOf(r)' /\ answer'[r] = AnswerOf(r)'
      /\ stage[r] = StageOf(r) /\ answer[r] = AnswerOf(r)
  BY OnlyOne
<1>2. [d \in Request |-> LedgerOf(d)]' = [d \in Request |-> LedgerOf(d)]
  BY SameLedger
<1>3. Known(n) /\ (LateOf(r) # {} => n.status # None) => PInv'
  BY SameRows DEF PInv, Known
<1>4. n.status # None => AnswerOf(r)' = Told(n)
  BY DEF AnswerOf, Told
<1>5. CASE Decides(req[r], n)
  <2>1. StageOf(r) \in {"new", "open"} /\ StageOf(r)' = IF n.at = "sent" THEN "sent" ELSE "decided"
    BY <1>5 DEF Decides, StageOf, Early
  <2>2. AnswerOf(r)' = Told(n) /\ Told(n) \in Answers /\ (n.at = "sent" <=> Told(n) \in Bare)
    BY <1>4, <1>5 DEF Decides
  <2> HIDE DEF stage, answer
  <2>3. /\ stage[r] \in {"new", "open"} /\ stage'[r] \in {"decided", "sent"}
        /\ stage' = [stage EXCEPT ![r] = stage'[r]]
        /\ answer' = [answer EXCEPT ![r] = answer'[r]] /\ answer'[r] \in Answers
        /\ stage'[r] = "sent" <=> answer'[r] \in Bare
    BY <1>1, <2>1, <2>2
  <2>4. Promise!Decide(r)
    BY <1>2, <2>3 DEF Promise!Decide, stage, answer
  <2>5. Known(n) /\ n.status # None
    BY <1>5 DEF Decides, Known, Open
  <2> QED
    BY <1>3, <2>4, <2>5 DEF Promise!Next
<1>6. CASE Advances(req[r], n)
  <2>1. /\ StageOf(r) = IF req[r].at = "new" THEN "new" ELSE "open"
        /\ StageOf(r)' = "open" /\ AnswerOf(r)' = AnswerOf(r)
    BY <1>6 DEF Advances, StageOf, AnswerOf, Early, Open
  <2> HIDE DEF stage, answer
  <2>2. answer' = answer
    BY <1>1, <2>1 DEF answer
  <2>3. ASSUME stage[r] = "new" PROVE [Promise!Next]_(Promise!vars)
    <3>1. stage' = [stage EXCEPT ![r] = "open"]
      BY <1>1, <2>1
    <3>2. Promise!Enter(r)
      BY <1>2, <2>2, <2>3, <3>1 DEF Promise!Enter, stage, answer
    <3> QED
      BY <3>2 DEF Promise!Next
  <2>4. ASSUME stage[r] = "open" PROVE [Promise!Next]_(Promise!vars)
    <3>1. stage' = stage
      BY <1>1, <2>1, <2>4 DEF stage
    <3> QED
      BY <1>2, <2>2, <3>1 DEF Promise!vars, stage, answer
  <2>5. Known(n) /\ LateOf(r) = {}
    BY <1>6 DEF Advances, Known, Open, PInv
  <2> QED
    BY <1>1, <1>3, <2>1, <2>3, <2>4, <2>5
<1>7. CASE Leaves(req[r], n)
  <2>1. n.skill = req[r].skill /\ n.status = req[r].status /\ n.result = req[r].result
    BY <1>7 DEF Leaves, Told
  <2>2. /\ StageOf(r) = "decided" /\ StageOf(r)' = IF n.at = "sent" THEN "sent" ELSE "decided"
        /\ AnswerOf(r)' = AnswerOf(r)
    BY <1>7, <2>1 DEF Leaves, StageOf, AnswerOf
  <2> HIDE DEF stage, answer
  <2>3. answer' = answer
    BY <1>1, <2>2 DEF answer
  <2>4. ASSUME n.at = "sent" PROVE [Promise!Next]_(Promise!vars)
    <3>1. stage[r] = "decided" /\ stage' = [stage EXCEPT ![r] = "sent"]
      BY <1>1, <2>2, <2>4
    <3>2. Promise!Send(r)
      BY <1>2, <2>3, <3>1 DEF Promise!Send, stage, answer
    <3> QED
      BY <3>2 DEF Promise!Next
  <2>5. ASSUME n.at # "sent" PROVE [Promise!Next]_(Promise!vars)
    <3>1. stage' = stage
      BY <1>1, <2>2, <2>5 DEF stage
    <3> QED
      BY <1>2, <2>3, <3>1 DEF Promise!vars, stage, answer
  <2>6. Known(n) /\ (LateOf(r) # {} => n.status # None)
    BY <1>7, <2>1 DEF Leaves, Known, PInv, Open
  <2> QED
    BY <1>3, <2>4, <2>5, <2>6
<1> QED
  BY <1>5, <1>6, <1>7 DEF GoesOn
----------------------------------------------------------------------------
(* What each action makes of its request. *)

LEMMA NoStatusIsNone == \A s \in Status : s # None
BY StatusAssumption

LEMMA Refused ==
    ASSUME NEW q \in Req, NEW o, o.at \in Early,
           NEW s, \/ q.skill \in Skill /\ s \in {422, 429, 500, 502, 503}
                  \/ q.skill = NoSkill /\ s \in {401, 422}
    PROVE  GoesOn(o, Refuse(q, s))
<1> DEFINE n == Refuse(q, s)
<1>1. n.at = "answered" /\ Told(n) = [skill |-> q.skill, status |-> s, result |-> None]
  BY DEF Refuse, Answer, Req, Told
<1>2. s \in Status /\ s # Unhandled
  BY DEF Status, Unhandled
<1>3. n.status = s
  BY DEF Refuse, Answer, Req
<1> HIDE DEF n
<1>4. Told(n) \in Answers /\ Told(n) \notin Bare
  BY <1>1, <1>2 DEF Answers, Bare
<1> QED
  BY <1>1, <1>2, <1>3, <1>4, NoStatusIsNone DEF GoesOn, Decides, n

LEMMA Crashed ==
    ASSUME NEW q \in Req, NEW o, o.at \in Early, q.skill \in Skill
    PROVE  GoesOn(o, Crash(q))
<1> DEFINE n == Crash(q)
<1>1. n.at = "sent" /\ Told(n) = [skill |-> q.skill, status |-> Unhandled, result |-> None]
  BY DEF Crash, Req, Told
<1>2. n.status = Unhandled /\ Unhandled \in Status
  BY DEF Crash, Req, Status
<1> HIDE DEF n
<1>3. Told(n) \in Answers /\ Told(n) \in Bare
  BY <1>1 DEF Answers, Bare
<1> QED
  BY <1>1, <1>2, <1>3, NoStatusIsNone DEF GoesOn, Decides, n

LEMMA AnsweredWell ==
    ASSUME NEW q \in Req, NEW o, o.at \in Early, q.skill \in Skill, NEW v \in Result
    PROVE  GoesOn(o, Answer(q, 200, v))
<1> DEFINE n == Answer(q, 200, v)
<1>1. n.at = "answered" /\ Told(n) = [skill |-> q.skill, status |-> 200, result |-> v]
  BY DEF Answer, Req, Told
<1>2. n.status = 200 /\ 200 \in Status /\ 200 # Unhandled
  BY DEF Answer, Req, Status, Unhandled
<1> HIDE DEF n
<1>3. Told(n) \in Answers /\ Told(n) \notin Bare
  BY <1>1, <1>2 DEF Answers, Bare
<1> QED
  BY <1>1, <1>2, <1>3, NoStatusIsNone DEF GoesOn, Decides, n

\* A request that holds q, one that came in or one under way, goes on in the
\* handler.
LEMMA HandlerGoesOn ==
    ASSUME NEW r, NEW q \in Req, q.status = None, q.skill \in Skill,
           NEW o, o.at \in Early, o.status = None, Handle(r, q)
    PROVE  \E n : Becomes(r, n) /\ GoesOn(o, n)
<1> DEFINE p == Active(Registered, Equipped, q.signal, config[q.signal])
           m == [q EXCEPT !.at = "cached", !.provider = p]
<1>1. ASSUME NEW s \in {422, 500, 503}, Becomes(r, Refuse(q, s))
      PROVE  \E n : Becomes(r, n) /\ GoesOn(o, n)
  BY <1>1, Refused
<1>2. CASE Becomes(r, Crash(q))
  BY <1>2, Crashed
<1>3. CASE Becomes(r, m)
  <2>1. m.at = "cached" /\ m.status = None /\ m.skill \in Skill
    BY DEF Req
  <2> HIDE DEF m
  <2>2. GoesOn(o, m)
    BY <2>1 DEF GoesOn, Advances, Open
  <2> QED
    BY <1>3, <2>2
<1>4. \/ \E s \in {422, 500, 503} : Becomes(r, Refuse(q, s))
      \/ Becomes(r, Crash(q)) \/ Becomes(r, m)
  BY DEF Handle
<1> HIDE DEF m
<1> QED
  BY <1>1, <1>2, <1>3, <1>4

LEMMA AuthenticSkilled ==
    ASSUME NEW q \in Authentic
    PROVE  q.skill \in Skill
<1>1. CASE q \in Misshapen
  BY <1>1, UnbornTyped DEF Misshapen, Req
<1>2. ASSUME NEW s \in Signal, q \in Asking(s)
      PROVE  q.skill \in Skill
  <2> DEFINE Of(k, b) == [Unborn EXCEPT !.skill = k, !.signal = s, !.body = b]
  <2>0. Asking(s) = {Of(k, b) : k \in Skill, b \in Body[s]}
    BY DEF Asking
  <2> HIDE DEF Of
  <2>1. PICK k \in Skill, b \in Body[s] : q = Of(k, b)
    BY <1>2, <2>0
  <2> QED
    BY <2>1, UnbornTyped DEF Of, Req
<1> QED
  BY <1>1, <1>2 DEF Authentic

LEMMA RequestGoesOn ==
    ASSUME IInv, PInv, NEW r \in Request, Proceed(r)
    PROVE  \E n : Becomes(r, n) /\ GoesOn(req[r], n)
<1> DEFINE q == req[r]
           Going == \E n : Becomes(r, n) /\ GoesOn(q, n)
<1>0. /\ q \in Req /\ Known(q) /\ FlowOf(q, call[r])
      /\ q.at \in Open => q.status = None /\ q.skill \in Skill /\ q.at \in Early
  BY DEF IInv, Flow, PInv, FlowOf, Known, Open, Early
<1>1. ASSUME Arrive(r) PROVE Going
  <2>1. q.at \in Early /\ q.status = None
    BY <1>0, <1>1 DEF Arrive, Early, Known
  <2>2. Unborn \in Req /\ Unborn.skill = NoSkill
    BY UnbornTyped DEF Unborn
  <2>3. ASSUME NEW s \in {401, 422}, Becomes(r, Refuse(Unborn, s)) PROVE Going
    BY <2>1, <2>2, <2>3, Refused
  <2>4. ASSUME NEW a \in Authentic, Becomes(r, [a EXCEPT !.at = "cap"]) PROVE Going
    <3> DEFINE n == [a EXCEPT !.at = "cap"]
    <3>1. n.at = "cap" /\ n.status = None /\ n.skill \in Skill
      BY AuthenticTyped, AuthenticSkilled DEF Req
    <3> HIDE DEF n
    <3>2. GoesOn(q, n)
      BY <2>1, <3>1 DEF GoesOn, Advances, Open
    <3> QED
      BY <2>4, <3>2 DEF n
  <2>5. ASSUME NEW a \in Authentic, Handle(r, a) PROVE Going
    BY <2>1, <2>5, AuthenticTyped, AuthenticSkilled, HandlerGoesOn
  <2>6. ASSUME NEW a \in Authentic, AsksTotal(r, a) PROVE Going
    BY <2>4, <2>6 DEF AsksTotal
  <2> HIDE DEF Going
  <2> QED
    BY <1>1, <2>3, <2>5, <2>6, ArriveCases
<1>2. ASSUME CapChecked(r) PROVE Going
  <2>1. q.status = None /\ q.skill \in Skill /\ q.at \in Early
    BY <1>0, <1>2 DEF CapChecked, Open
  <2>2. CASE Becomes(r, Crash(q))
    BY <1>0, <2>1, <2>2, Crashed
  <2>3. CASE Becomes(r, Refuse(q, 429))
    BY <1>0, <2>1, <2>3, Refused
  <2>4. CASE Handle(r, q)
    BY <1>0, <2>1, <2>4, HandlerGoesOn
  <2> QED
    BY <1>2, <2>2, <2>3, <2>4 DEF CapChecked
<1>3. ASSUME CacheAnswered(r) PROVE Going
  <2>1. q.status = None /\ q.skill \in Skill /\ q.at \in Early
    BY <1>0, <1>3 DEF CacheAnswered, Open
  <2>2. CASE Becomes(r, Crash(q))
    BY <1>0, <2>1, <2>2, Crashed
  <2>3. CASE call[r].got \in Result /\ Becomes(r, Answer(q, 200, call[r].got))
    BY <1>0, <2>1, <2>3, AnsweredWell
  <2>4. CASE Becomes(r, [q EXCEPT !.at = "lookup"])
    <3> DEFINE n == [q EXCEPT !.at = "lookup"]
    <3>1. n.at = "lookup" /\ n.status = None /\ n.skill \in Skill
      BY <1>0, <2>1 DEF Req
    <3> HIDE DEF n
    <3>2. GoesOn(q, n)
      BY <2>1, <3>1 DEF GoesOn, Advances, Open
    <3> QED
      BY <2>4, <3>2 DEF n
  <2> QED
    BY <1>3, <2>2, <2>3, <2>4 DEF CacheAnswered
<1>4. ASSUME LookupEnds(r) PROVE Going
  <2>1. q.status = None /\ q.skill \in Skill /\ q.at \in Early
    BY <1>0, <1>4 DEF LookupEnds, Open
  <2>2. ASSUME NEW v, Becomes(r, [q EXCEPT !.at = "saving", !.result = v]) PROVE Going
    <3> DEFINE n == [q EXCEPT !.at = "saving", !.result = v]
    <3>1. n.at = "saving" /\ n.status = None /\ n.skill \in Skill
      BY <1>0, <2>1 DEF Req
    <3> HIDE DEF n
    <3>2. GoesOn(q, n)
      BY <2>1, <3>1 DEF GoesOn, Advances, Open
    <3> QED
      BY <2>2, <3>2 DEF n
  <2>3. ASSUME NEW s \in {422, 502}, Becomes(r, Refuse(q, s)) PROVE Going
    BY <1>0, <2>1, <2>3, Refused
  <2>4. CASE Holds(r)
    <3>1. PICK v : Becomes(r, [q EXCEPT !.at = "saving", !.result = v])
      BY <2>4 DEF Holds
    <3> HIDE DEF Going
    <3> QED
      BY <2>2, <3>1
  <2>5. CASE Fails(r)
    <3>1. PICK s \in {422, 502} : Becomes(r, Refuse(q, s))
      BY <2>5 DEF Fails
    <3> HIDE DEF Going
    <3> QED
      BY <2>3, <3>1
  <2> HIDE DEF Going
  <2> QED
    BY <1>4, <2>4, <2>5, LookupMoves
<1>5. ASSUME Saved(r) PROVE Going
  <2>1. q.status = None /\ q.skill \in Skill /\ q.at \in Early /\ q.result \in Result
    BY <1>0, <1>5 DEF Saved, Open, FlowOf
  <2>2. CASE Becomes(r, Crash(q))
    BY <1>0, <2>1, <2>2, Crashed
  <2>3. CASE Becomes(r, Answer(q, 200, q.result))
    BY <1>0, <2>1, <2>3, AnsweredWell
  <2> QED
    BY <1>5, <2>2, <2>3 DEF Saved
<1>6. ASSUME Telemetry(r) \/ Recorded(r) PROVE Going
  <2>1. \E s \in {"recording", "sent"} :
          /\ Becomes(r, [q EXCEPT !.at = s])
          /\ q.at \in {"answered", "recording"}
          /\ s = "recording" => q.at = "answered" /\ q.skill # NoSkill
    <3>1. CASE Becomes(r, [q EXCEPT !.at = "sent"]) /\ q.at \in {"answered", "recording"}
      BY <3>1
    <3>2. CASE /\ Becomes(r, [q EXCEPT !.at = "recording"])
               /\ q.at = "answered" /\ q.skill # NoSkill
      BY <3>2
    <3> QED
      BY <1>6, <3>1, <3>2 DEF Telemetry, Recorded
  <2>2. PICK s \in {"recording", "sent"} :
          /\ Becomes(r, [q EXCEPT !.at = s])
          /\ q.at \in {"answered", "recording"}
          /\ s = "recording" => q.at = "answered" /\ q.skill # NoSkill
    BY <2>1
  <2> DEFINE n == [q EXCEPT !.at = s]
  <2>3. n.at = s /\ Told(n) = Told(q)
    BY <1>0 DEF Req, Told
  <2> HIDE DEF n
  <2>4. GoesOn(q, n)
    BY <2>2, <2>3 DEF GoesOn, Leaves
  <2> QED
    BY <2>2, <2>4 DEF n
<1> HIDE DEF Going
<1>7. Going
  BY <1>1, <1>2, <1>3, <1>4, <1>5, <1>6 DEF Proceed
<1> QED
  BY <1>7 DEF Going

LEMMA ProceedLogsNothing ==
    ASSUME LInv, NEW r \in Request, Proceed(r)
    PROVE  UNCHANGED <<costLog, lateRows, Posted>>
<1>0. ASSUME UNCHANGED costVars PROVE UNCHANGED <<costLog, lateRows, Posted>>
  BY <1>0 DEF costVars, Posted, Inserting, LateOf
<1>1. CASE Arrive(r)
  BY <1>0, <1>1, BeginKeepsLog DEF Arrive, Cost!BeginTotal
<1>2. CASE Telemetry(r)
  BY <1>0, <1>2, BeginKeepsLog DEF Telemetry, Cost!BeginRecord
<1>3. CASE \/ CapChecked(r) \/ CacheAnswered(r) \/ LookupEnds(r) \/ Saved(r) \/ Recorded(r)
  BY <1>0, <1>3 DEF CapChecked, CacheAnswered, LookupEnds, Saved, Recorded
<1> QED
  BY <1>1, <1>2, <1>3 DEF Proceed

LEMMA ProceedIsPromised ==
    ASSUME IInv, LInv, PInv, NEW r \in Request, Proceed(r)
    PROVE  [Promise!Next]_(Promise!vars) /\ PInv'
<1>1. PICK n : Becomes(r, n) /\ GoesOn(req[r], n)
  BY RequestGoesOn
<1>2. req'[r] = n /\ \A d \in Request : d # r => req'[d] = req[d]
  BY <1>1 DEF Becomes, IInv, Flow
<1> QED
  BY <1>1, <1>2, ProceedLogsNothing, StepOfOne
----------------------------------------------------------------------------
(* The ledger. *)

LEMMA SameRequests ==
    ASSUME UNCHANGED req
    PROVE  /\ [r \in Request |-> StageOf(r)]' = [r \in Request |-> StageOf(r)]
           /\ [r \in Request |-> AnswerOf(r)]' = [r \in Request |-> AnswerOf(r)]
BY DEF StageOf, AnswerOf

\* What Service sees of a row that gets into the log.
LEMMA LineMade ==
    ASSUME UNCHANGED req, NEW c \in Request, req[c].status # None,
           NEW n, RowsOf(c)' = {n},
           costLog'[n].skill = req[c].skill, costLog'[n].note.status = req[c].status,
           \A d \in Request : d # c => RowsOf(d)' = RowsOf(d),
           \A i \in DOMAIN costLog : costLog'[i] = costLog[i],
           c \in Posted, Posted' = Posted \ {c}
    PROVE  Promise!Log(c)
<1> DEFINE ledger == [d \in Request |-> LedgerOf(d)]
           entry == [skill |-> req[c].skill, status |-> req[c].status]
<1>1. \A d \in Request : d # c => LedgerOf(d)' = LedgerOf(d)
  <2> SUFFICES ASSUME NEW d \in Request, d # c PROVE LedgerOf(d)' = LedgerOf(d)
    OBVIOUS
  <2>1. RowsOf(d)' = RowsOf(d) /\ \A i \in RowsOf(d) : costLog'[i] = costLog[i]
    BY DEF RowsOf
  <2> QED
    BY <2>1 DEF LedgerOf
<1>2. ledger' = [ledger EXCEPT ![c] = ledger'[c]]
  BY <1>1
<1>3. LedgerOf(c)' = [l \in {n} |-> entry]
  BY DEF LedgerOf
<1>4. Promise!Entered(AnswerOf(c)) = entry
  BY DEF Promise!Entered, AnswerOf
<1> HIDE DEF entry
<1>5. \E line \in DOMAIN LedgerOf(c)' :
        LedgerOf(c)' = [l \in {line} |-> Promise!Entered(AnswerOf(c))]
  BY <1>3, <1>4
<1> QED
  BY <1>2, <1>5, SameRequests DEF Promise!Log, Promise!Entered

LEMMA CostStepIsPromised ==
    ASSUME LInv, PInv, NEW c \in Request, CostStep(c)
    PROVE  [Promise!Next]_(Promise!vars) /\ PInv'
<1>1. UNCHANGED req /\ Cost!CallerStep(c) /\ Shape /\ EntryOf(c)
  BY DEF CostStep, LInv
<1>2. /\ ~Cost!Quiet(c)
      /\ query'[c].op = query[c].op
      /\ query[c].at = "release" => query'[c].at = "done"
      /\ \A d \in Request : d # c => query'[d] = query[d]
      /\ Writes(c) \/ GivesUp(c) \/ Passes(c)
  BY <1>1, QueryGoesOn
<1>3. ASSUME \A d \in Request : LateOf(d)' = LateOf(d) PROVE PInv'
  BY <1>1, <1>3 DEF PInv, Known
<1>4. ASSUME UNCHANGED costLog, Posted' = Posted PROVE UNCHANGED Promise!vars
  BY <1>1, <1>4, SameRequests, SameLedger DEF Promise!vars
<1>5. CASE Writes(c)
  <2> DEFINE row == Cost!NewRow(query[c])
             n == Len(costLog) + 1
  <2>1. /\ req[c].at = "recording" /\ Unwritten(c)
        /\ row.note.request = c /\ Says(row, c) /\ req[c].status # None
    BY <1>5, OwnRow DEF Writes, PInv, Known
  <2>2. costLog' = Append(costLog, row) /\ \A d \in Request : LateOf(d)' = LateOf(d)
    BY <1>5 DEF Writes, LateOf
  <2> HIDE DEF row
  <2>3. /\ RowsOf(c)' = {n} /\ costLog'[n] = row
        /\ \A d : d # c => RowsOf(d)' = RowsOf(d)
        /\ \A i \in DOMAIN costLog : costLog'[i] = costLog[i]
    BY <1>1, <2>1, <2>2, RowEntered DEF Unwritten
  <2>4. Inserting(c) /\ ~Inserting(c)' /\ LateOf(c)' = {}
    BY <1>5, <2>1, <2>2 DEF Writes, Inserting, Unwritten
  <2>5. c \in Posted /\ Posted' = Posted \ {c}
    BY <1>2, <2>2, <2>4, PostedOthers
  <2>6. costLog'[n].skill = req[c].skill /\ costLog'[n].note.status = req[c].status
    BY <2>1, <2>3 DEF Says
  <2> HIDE DEF n
  <2>7. Promise!Log(c)
    BY <1>1, <2>1, <2>3, <2>5, <2>6, LineMade
  <2> QED
    BY <1>3, <2>2, <2>7 DEF Promise!Next
<1>6. CASE GivesUp(c)
  <2> DEFINE row == Cost!NewRow(query[c])
  <2>1. /\ req[c].at = "recording" /\ row.note.request = c /\ req[c].status # None
    BY <1>6, OwnRow DEF GivesUp, PInv, Known
  <2>2. lateRows' = lateRows \cup {row} /\ UNCHANGED costLog
    BY <1>6 DEF GivesUp
  <2> HIDE DEF row
  <2>3. /\ \A d \in Request : d # c => LateOf(d)' = LateOf(d)
        /\ LateOf(c)' # {}
    BY <2>1, <2>2 DEF LateOf
  <2>4. Posted' = Posted
    BY <1>2, <1>6, <2>3, PostedOthers DEF GivesUp
  <2>5. PInv'
    BY <1>1, <2>1, <2>3 DEF PInv, Known
  <2> QED
    BY <1>4, <2>2, <2>4, <2>5
<1>7. CASE Passes(c)
  <2>1. ~Inserting(c) /\ UNCHANGED costLog /\ \A d : LateOf(d)' = LateOf(d)
    BY <1>7, SameRows DEF Passes
  <2>2. CASE ~Inserting(c)'
    <3>1. Posted' = Posted
      BY <1>2, <2>1, <2>2, PostedOthers
    <3> QED
      BY <1>3, <1>4, <2>1, <3>1
  <2>3. CASE Inserting(c)'
    <3>1. query[c].op = "record" /\ query[c].at # "release"
      BY <1>2, <2>3 DEF Inserting
    <3>2. req[c].at = "recording" /\ Unwritten(c)
      BY <1>1, <1>2, <3>1 DEF EntryOf
    <3>3. c \notin Posted /\ Posted' = Posted \cup {c}
      BY <1>2, <2>1, <2>3, <3>2, PostedOthers DEF Unwritten
    <3>4. /\ StageOf(c) = "decided" /\ DOMAIN LedgerOf(c) = {}
          /\ AnswerOf(c).skill # NoSkill
      BY <3>2 DEF StageOf, LedgerOf, Unwritten, AnswerOf, PInv, Known
    <3>5. Promise!Post(c)
      BY <1>1, <2>1, <3>3, <3>4, SameRequests, SameLedger DEF Promise!Post
    <3> QED
      BY <1>3, <2>1, <3>5 DEF Promise!Next
  <2> QED
    BY <2>2, <2>3
<1> QED
  BY <1>2, <1>5, <1>6, <1>7

\* Postgres carries out a late INSERT.
LEMMA PostgresIsPromised ==
    ASSUME LInv, PInv, PostgresMoves
    PROVE  [Promise!Next]_(Promise!vars) /\ PInv'
<1>1. PICK row \in lateRows : Cost!LateInsert(row)
  BY DEF PostgresMoves
<1> DEFINE c == row.note.request
           n == Len(costLog) + 1
<1>2. UNCHANGED req
  BY DEF PostgresMoves
<1>3. /\ UNCHANGED query
      /\ \A d \in Request : d # c => RowsOf(d)' = RowsOf(d) /\ LateOf(d)' = LateOf(d)
      /\ \A i \in DOMAIN costLog : costLog'[i] = costLog[i]
      /\ c \in Request =>
            /\ LateOf(c) = {row} /\ LateOf(c)' = {}
            /\ RowsOf(c) = {} /\ RowsOf(c)' = {n} /\ Says(costLog'[n], c)
  BY <1>1, LateEnters
<1> HIDE DEF c, n
<1>4. PInv'
  BY <1>2, <1>3 DEF PInv, Known
<1>5. CASE c \in Request
  <2>1. req[c].status # None /\ EntryOf(c) /\ ~Unwritten(c)
    BY <1>3, <1>5 DEF PInv, LInv, Unwritten
  <2>2. ~Inserting(c) /\ ~Inserting(c)'
    <3>1. ~Inserting(c)
      BY <1>5, <2>1, OwnRow
    <3> QED
      BY <1>3, <3>1 DEF Inserting
  <2>3. c \in Posted /\ Posted' = Posted \ {c}
    BY <1>3, <1>5, <2>2, PostedOthers
  <2>4. costLog'[n].skill = req[c].skill /\ costLog'[n].note.status = req[c].status
    BY <1>3, <1>5 DEF Says
  <2>5. Promise!Log(c)
    BY <1>2, <1>3, <1>5, <2>1, <2>3, <2>4, LineMade
  <2> QED
    BY <1>4, <1>5, <2>5 DEF Promise!Next
<1>6. CASE c \notin Request
  <2>1. Posted' = Posted
    BY <1>3, <1>6 DEF Posted, Inserting
  <2>2. \A d \in Request : LedgerOf(d)' = LedgerOf(d)
    <3> SUFFICES ASSUME NEW d \in Request PROVE LedgerOf(d)' = LedgerOf(d)
      OBVIOUS
    <3>1. RowsOf(d)' = RowsOf(d) /\ \A i \in RowsOf(d) : costLog'[i] = costLog[i]
      BY <1>3, <1>6 DEF RowsOf
    <3> QED
      BY <3>1 DEF LedgerOf
  <2> QED
    BY <1>2, <1>4, <2>1, <2>2, SameRequests DEF Promise!vars
<1> QED
  BY <1>5, <1>6

\* The process dies.
LEMMA RestartIsPromised ==
    ASSUME IInv, LInv, PInv, Restart
    PROVE  Promise!Next /\ PInv'
<1> DEFINE stage == [r \in Request |-> StageOf(r)]
<1>1. \A r \in Request :
        /\ req'[r].skill = req[r].skill /\ req'[r].status = req[r].status
        /\ req'[r].result = req[r].result
        /\ req'[r].at = IF req[r].at \in {"new", "sent", "lost"} THEN req[r].at ELSE "lost"
  BY Dies
<1>2. /\ UNCHANGED costLog /\ query' = [r \in Request |-> Cost!Rest]
      /\ \A r \in Request :
            LateOf(r)' = LateOf(r) \cup
                            IF Inserting(r) THEN {Cost!NewRow(query[r])} ELSE {}
  BY RestartLeavesRows
<1>3. PInv'
  <2>1. \A r \in Request : Inserting(r) => req[r].status # None
    BY OwnRow DEF PInv, Known
  <2>2. \A r \in Request : LateOf(r)' # {} => req[r].status # None
    BY <1>2, <2>1 DEF PInv
  <2> QED
    BY <1>1, <2>2 DEF PInv, Known, Open
<1>4. [r \in Request |-> AnswerOf(r)]' = [r \in Request |-> AnswerOf(r)]
  BY <1>1 DEF AnswerOf
<1>5. stage' = [r \in Request |->
                  IF stage[r] \in {"open", "decided"} THEN "lost" ELSE stage[r]]
  <2>1. ASSUME NEW r \in Request
        PROVE  StageOf(r)' = IF StageOf(r) \in {"open", "decided"} THEN "lost" ELSE StageOf(r)
    <3>1. req[r].at \in Stages
      BY DEF IInv, Flow, Req
    <3> QED
      BY <1>1, <3>1 DEF StageOf, Stages
  <2> QED
    BY <2>1
<1>6. Posted' = Posted
  <2>1. \A r \in Request : ~Inserting(r)'
    BY <1>2, RestWhole DEF Inserting
  <2>2. \A r \in Request : LateOf(r)' # {} <=> Inserting(r) \/ LateOf(r) # {}
    BY <1>2
  <2> QED
    BY <2>1, <2>2 DEF Posted
<1>7. Promise!Die
  BY <1>2, <1>4, <1>5, <1>6, SameLedger DEF Promise!Die
<1> QED
  BY <1>3, <1>7 DEF Promise!Next

LEMMA PromiseStep ==
    IInv /\ LInv /\ PInv /\ [Next]_vars => [Promise!Next]_(Promise!vars) /\ PInv'
<1> SUFFICES ASSUME IInv, LInv, PInv, [Next]_vars
             PROVE  [Promise!Next]_(Promise!vars) /\ PInv'
  OBVIOUS
<1>1. ASSUME UNCHANGED <<req, costLog, lateRows, query>>
      PROVE  [Promise!Next]_(Promise!vars) /\ PInv'
  <2>1. Posted' = Posted /\ PInv'
    BY <1>1 DEF Posted, Inserting, LateOf, PInv, Known
  <2> QED
    BY <1>1, <2>1, SameRequests, SameLedger DEF Promise!vars
<1>2. CASE \E r \in Request : Proceed(r)
  BY <1>2, ProceedIsPromised
<1>3. CASE \E r \in Request : CostStep(r)
  BY <1>3, CostStepIsPromised
<1>4. CASE Restart
  BY <1>4, RestartIsPromised
<1>5. CASE \E r \in Request : CacheStep(r)
  BY <1>1, <1>5 DEF CacheStep, costVars
<1>6. CASE RedisMoves
  BY <1>1, <1>6 DEF RedisMoves, costVars
<1>7. CASE Tick
  BY <1>1, <1>7 DEF Tick, Cost!Tick
<1>8. CASE \E s \in Signal : Reconfigure(s)
  BY <1>1, <1>8 DEF Reconfigure, costVars
<1>9. CASE UNCHANGED vars
  BY <1>1, <1>9 DEF vars, costVars
<1>10. CASE PostgresMoves
  BY <1>10, PostgresIsPromised
<1> QED
  BY <1>2, <1>3, <1>4, <1>5, <1>6, <1>7, <1>8, <1>9, <1>10 DEF Next

LEMMA PromiseInit == Init => Promise!Init /\ PInv
<1> SUFFICES ASSUME Init PROVE Promise!Init /\ PInv
  OBVIOUS
<1>1. \A r \in Request : req[r] = Unborn
  BY DEF Init
<1>2. \A r \in Request : StageOf(r) = "new" /\ AnswerOf(r) = None
  BY <1>1, UnbornTyped DEF StageOf, AnswerOf
<1>3. \A r \in Request : LedgerOf(r) = [line \in {} |-> None]
  <2>1. \A r \in Request : RowsOf(r) = {}
    BY LInvInit, <1>1, UnbornTyped DEF LInv, EntryOf, Unwritten
  <2> QED
    BY <2>1 DEF LedgerOf
<1>4. Posted = {} /\ \A r : LateOf(r) = {}
  <2>1. \A r \in Request : ~Inserting(r)
    BY RestWhole DEF Init, Inserting
  <2> QED
    BY <2>1 DEF Init, Posted, LateOf
<1>5. PInv
  BY <1>1, <1>4, UnbornTyped DEF PInv, Known, Open
<1> QED
  BY <1>2, <1>3, <1>4, <1>5 DEF Promise!Init

\* The pipeline keeps the promise: an answer decided once, sent as decided,
\* and entered in the log at most once, with what its client is told.  Its
\* INSERT is sent while it is decided and not yet sent; it may be carried out
\* at any time from then on, or never, for any failures of both back ends and
\* any restarts (routes/*.py, cost.py:128, middleware/cost_telemetry.py:32-61).
THEOREM ImplementsService == Spec => KeepsPromise
<1> QED
  BY PromiseInit, PromiseStep, LInvInit, LInvStep, Invariant, PTL
     DEF Spec, KeepsPromise, Promise!Spec
----------------------------------------------------------------------------
(* Cost and LP are instances of one module, too. *)

LEMMA LogSameRest == Cost!Rest = LP!Rest
BY DEF Cost!Rest, LP!Rest

LEMMA LogSameReady == \A q : Cost!Ready(q) = LP!Ready(q)
BY DEF Cost!Ready, LP!Ready

LEMMA LogSameFinish == \A q, v : Cost!Finish(q, v) = LP!Finish(q, v)
BY DEF Cost!Finish, LP!Finish

LEMMA LogSameLeave == \A q, v : Cost!Leave(q, v) = LP!Leave(q, v)
BY DEF Cost!Leave, LP!Leave

LEMMA LogSameOpening == \A q : Cost!Opening(q) = LP!Opening(q)
BY LogSameFinish DEF Cost!Opening, LP!Opening

LEMMA LogSameRow ==
    /\ \A q : Cost!NewRow(q) = LP!NewRow(q)
    /\ \A q, t : Cost!RowAt(q, t) = LP!RowAt(q, t)
BY DEF Cost!NewRow, LP!NewRow, Cost!RowAt, LP!RowAt

LEMMA LogSameUnderWay == \A C : Cost!RowsUnderWay(C) = LP!RowsUnderWay(C)
BY LogSameRow DEF Cost!RowsUnderWay, LP!RowsUnderWay

LEMMA LogSameHolders == Cost!Cardinality(Cost!Holders) = LP!Cardinality(LP!Holders)
BY DEF Cost!Cardinality, LP!Cardinality, Cost!Holders, LP!Holders

LEMMA LogSameSum == \A s : Cost!Sum(s) = LP!Sum(s)
BY DEF Cost!Sum, LP!Sum

LEMMA LogSameShares == \A log, s, t : Cost!Shares(log, s, t) = LP!Shares(log, s, t)
BY DEF Cost!Shares, LP!Shares

LEMMA LogSameSpent == \A s, t : Cost!SpentSince(s, t) = LP!SpentSince(s, t)
BY LogSameSum, LogSameShares, Zenon DEF Cost!SpentSince, LP!SpentSince

LEMMA LogSameCaller == ASSUME NEW c, Cost!CallerStep(c) PROVE LP!CallerStep(c)
<1>1. Cost!PoolCreated(c) => LP!PoolCreated(c)
  BY DEF Cost!PoolCreated, LP!PoolCreated
<1>2. Cost!Migrated(c) => LP!Migrated(c)
  BY LogSameReady, Zenon DEF Cost!Migrated, LP!Migrated
<1>3. Cost!OpeningFails(c) => LP!OpeningFails(c)
  BY LogSameFinish, Zenon DEF Cost!OpeningFails, LP!OpeningFails
<1>4. Cost!Acquired(c) => LP!Acquired(c)
  BY LogSameHolders DEF Cost!Acquired, LP!Acquired
<1>5. Cost!AcquireFails(c) => LP!AcquireFails(c)
  BY LogSameHolders, LogSameFinish DEF Cost!AcquireFails, LP!AcquireFails
<1>6. Cost!InsertAnswered(c) => LP!InsertAnswered(c)
  BY LogSameLeave, LogSameRow, Zenon DEF Cost!InsertAnswered, LP!InsertAnswered
<1>7. Cost!TotalAnswered(c) => LP!TotalAnswered(c)
  BY LogSameLeave, LogSameSpent, Zenon DEF Cost!TotalAnswered, LP!TotalAnswered
<1>8. Cost!StatementFails(c) => LP!StatementFails(c)
  BY LogSameLeave, LogSameUnderWay, Zenon DEF Cost!StatementFails, LP!StatementFails
<1>9. Cost!Released(c) => LP!Released(c)
  BY LogSameFinish, Zenon DEF Cost!Released, LP!Released
<1> QED
  BY <1>1, <1>2, <1>3, <1>4, <1>5, <1>6, <1>7, <1>8, <1>9 DEF Cost!CallerStep, LP!CallerStep

LEMMA LogSameBegin ==
    ASSUME NEW c, NEW op, NEW k, NEW usd, NEW n, Cost!Begin(c, op, k, usd, n)
    PROVE  LP!Begin(c, op, k, usd, n)
BY LogSameReady, LogSameFinish, LogSameOpening, Zenon
   DEF Cost!Begin, LP!Begin, Cost!Quiet, LP!Quiet, Cost!GetPool, LP!GetPool

LEMMA LogSameRestart == ASSUME Cost!Restart PROVE LP!Restart
BY LogSameRest, LogSameUnderWay, Zenon DEF Cost!Restart, LP!Restart

LEMMA LogAssumed == LP!CostAssumption
BY KitchenAssumption, LogAssumption DEF LP!CostAssumption

\* What CostProofs shows, with what it assumes discharged.
LEMMA LogStays ==
    ASSUME LP!IInv, LP!AnyStep \/ UNCHANGED LP!vars
    PROVE  LP!IInv'
BY LogAssumed, LP!AnyStepKeepsInv DEF LP!CostAssumption
----------------------------------------------------------------------------
(* What the steps of Kitchen do to the log. *)

\* The row about a request that is answered can be written.
LEMMA RowIsNote ==
    ASSUME IInv, PInv, NEW r \in Request, req[r].at = "answered", req[r].skill # NoSkill
    PROVE  RowOf(r) \in Note /\ req[r].skill \in Skill
<1>1. req[r] \in Req /\ req[r].status # None
  BY DEF IInv, Flow, PInv, Known
<1>2. req[r].status \in Nat /\ req[r].skill \in Skill
  BY <1>1 DEF Req, Status, Unhandled
<1> QED
  BY <1>2 DEF RowOf, Note

LEMMA ProceedLogs ==
    ASSUME IInv, PInv, NEW r \in Request, Proceed(r)
    PROVE  LP!Begins(r) \/ UNCHANGED LP!vars
<1>1. ASSUME UNCHANGED <<life, cacheVars>>, UNCHANGED costVars PROVE UNCHANGED LP!vars
  BY <1>1 DEF LP!vars, costVars
<1>2. ASSUME NEW q, Handle(r, q) PROVE UNCHANGED life
  BY <1>2 DEF Handle, Cache!BeginGet, Cache!Begin
<1>3. CASE Arrive(r)
  <2>1. ASSUME NEW q \in Authentic, Cost!BeginTotal(r, q.skill) PROVE LP!Begins(r)
    <3>1. q.skill \in Skill
      BY AuthenticSkilled
    <3>2. LP!BeginTotal(r, q.skill)
      BY <2>1, LogSameBegin DEF Cost!BeginTotal, LP!BeginTotal
    <3> QED
      BY <3>1, <3>2 DEF LP!Begins
  <2>2. ASSUME NEW q \in Authentic, AsksTotal(r, q) PROVE LP!Begins(r)
    BY <2>1, <2>2 DEF AsksTotal
  <2>3. ASSUME NEW q, Handle(r, q), UNCHANGED costVars PROVE UNCHANGED LP!vars
    BY <1>2, <2>3 DEF LP!vars, costVars
  <2>4. ASSUME UNCHANGED <<life, cacheVars, costVars>> PROVE UNCHANGED LP!vars
    BY <2>4 DEF LP!vars, costVars
  <2> QED
    BY <1>3, <2>2, <2>3, <2>4, ArriveCases
<1>4. CASE CapChecked(r)
  BY <1>2, <1>4 DEF CapChecked, LP!vars, costVars
<1>5. CASE CacheAnswered(r) \/ Saved(r) \/ Recorded(r)
  BY <1>5 DEF CacheAnswered, Saved, Recorded, LP!vars, costVars
<1>6. CASE LookupEnds(r)
  BY <1>6 DEF LookupEnds, Cache!BeginSet, Cache!Begin, LP!vars, costVars
<1>7. CASE Telemetry(r)
  <2>1. CASE req[r].skill = NoSkill
    BY <1>7, <2>1 DEF Telemetry, LP!vars, costVars
  <2>2. CASE req[r].skill # NoSkill
    <3>1. Cost!BeginRecord(r, req[r].skill, RecordedUsd, RowOf(r)) /\ req[r].at = "answered"
      BY <1>7, <2>2 DEF Telemetry
    <3>2. LP!BeginRecord(r, req[r].skill, RecordedUsd, RowOf(r))
      BY <3>1, LogSameBegin DEF Cost!BeginRecord, LP!BeginRecord
    <3>3. RowOf(r) \in Note /\ req[r].skill \in Skill /\ RecordedUsd \in {RecordedUsd} \cup OldUsd
      BY <2>2, <3>1, RowIsNote
    <3> QED
      BY <3>2, <3>3 DEF LP!Begins
  <2> QED
    BY <2>1, <2>2
<1> QED
  BY <1>3, <1>4, <1>5, <1>6, <1>7 DEF Proceed

LEMMA LogSteps ==
    ASSUME IInv, PInv, [Next]_vars
    PROVE  LP!AnyStep \/ UNCHANGED LP!vars
<1>1. CASE \E r \in Request : Proceed(r)
  BY <1>1, ProceedLogs DEF LP!AnyStep
<1>2. CASE \E r \in Request : CostStep(r)
  BY <1>2, LogSameCaller DEF CostStep, LP!AnyStep
<1>3. CASE \E r \in Request : CacheStep(r)
  BY <1>3 DEF CacheStep, Cache!CallerStep, Cache!PingAnswered, Cache!PingFails,
              Cache!GetAnswered, Cache!WriteAnswered, Cache!CommandFails, LP!vars, costVars
<1>4. CASE RedisMoves
  BY <1>4 DEF RedisMoves, Cache!LateApplied, Cache!Evict, Cache!Damage, LP!vars, costVars
<1>5. CASE Tick
  BY <1>5 DEF Tick, Cost!Tick, LP!Tick, LP!AnyStep
<1>6. CASE Restart
  BY <1>6, LogSameRestart DEF Restart, LP!AnyStep
<1>7. CASE UNCHANGED vars \/ \E s \in Signal : Reconfigure(s)
  BY <1>7 DEF Reconfigure, vars, LP!vars, costVars
<1>8. CASE PostgresMoves
  <2>1. PICK row \in lateRows : Cost!LateInsert(row)
    BY <1>8 DEF PostgresMoves
  <2>2. LP!LateInsert(row)
    BY <2>1, LogSameRow DEF Cost!LateInsert, LP!LateInsert
  <2> QED
    BY <2>2 DEF LP!AnyStep
<1> QED
  BY <1>1, <1>2, <1>3, <1>4, <1>5, <1>6, <1>7, <1>8 DEF Next

LEMMA LogInit == Init => LP!Init /\ LP!IInv
<1> SUFFICES ASSUME Init PROVE LP!Init /\ LP!IInv
  OBVIOUS
<1>1. costLog \in {<< >>} \cup {<<row>> : row \in [skill : Skill, usd : {RecordedUsd} \cup OldUsd,
                                                  note : Note, ts : {0}]}
  <2>1. OldNote \in Note
    BY DEF OldNote, Note
  <2>2. \A k \in Skill, u \in OldUsd :
          [skill |-> k, usd |-> u, note |-> OldNote, ts |-> 0]
             \in [skill : Skill, usd : {RecordedUsd} \cup OldUsd, note : Note, ts : {0}]
    BY <2>1
  <2> QED
    BY <2>2 DEF Init
<1>2. query = [r \in Request |-> LP!Rest]
  BY LogSameRest DEF Init
<1>3. LP!Init
  BY <1>1, <1>2 DEF Init, Cache!Init, LP!Init
<1> QED
  BY <1>3, LogAssumed, LP!InvInit DEF LP!CostAssumption
----------------------------------------------------------------------------
(* Types. *)

Configured == config \in [Signal -> Selection]

\* All that is known of a state.
KInv == IInv /\ LInv /\ PInv /\ LP!IInv /\ Configured

LEMMA ConfigKept == Configured /\ [Next]_vars => Configured'
<1> SUFFICES ASSUME Configured, [Next]_vars PROVE Configured'
  OBVIOUS
<1>1. ASSUME UNCHANGED config PROVE Configured'
  BY <1>1 DEF Configured
<1>2. ASSUME NEW s \in Signal, Reconfigure(s) PROVE Configured'
  BY <1>2 DEF Configured, Reconfigure
<1>3. CASE \E r \in Request : Proceed(r)
  BY <1>1, <1>3 DEF Proceed, Arrive, CapChecked, CacheAnswered, LookupEnds, Saved,
                    Telemetry, Recorded
<1>4. CASE \E r \in Request : CacheStep(r) \/ CostStep(r)
  BY <1>1, <1>4 DEF CacheStep, CostStep
<1>5. CASE RedisMoves \/ PostgresMoves \/ Tick \/ Restart \/ UNCHANGED vars
  BY <1>1, <1>5 DEF RedisMoves, PostgresMoves, Tick, Restart, vars
<1> QED
  BY <1>2, <1>3, <1>4, <1>5 DEF Next

LEMMA KInvInit == Init => KInv
<1>1. Init => Configured
  BY DEF Init, Configured
<1> QED
  BY <1>1, InvInit, LInvInit, PromiseInit, LogInit DEF KInv

LEMMA KInvStep == KInv /\ [Next]_vars => KInv'
<1> SUFFICES ASSUME KInv, [Next]_vars PROVE KInv'
  OBVIOUS
<1>1. IInv' /\ LInv' /\ PInv' /\ Configured'
  BY InvStep, LInvStep, PromiseStep, ConfigKept DEF KInv
<1>2. LP!IInv'
  BY LogSteps, LogStays DEF KInv
<1> QED
  BY <1>1, <1>2 DEF KInv

LEMMA AllInvariant == Spec => []KInv
BY KInvInit, KInvStep, PTL DEF Spec

\* The pipeline uses the log as Cost says it is used, its rows have a skill and
\* a status, and so its pool is opened at most once in a process life, with
\* any number of requests in flight (cost.py:46-71, main.py:83-87).
THEOREM UsesLog == Spec => LP!Init /\ [][LP!AnyStep]_(LP!vars) /\ LP!ConnectsOnce
<1>1. Init => LP!Init /\ LP!Connection!Init
  BY LogInit, LogAssumed, LP!ConnectionInit DEF LP!CostAssumption
<1>2. KInv /\ [Next]_vars => [LP!AnyStep]_(LP!vars)
  BY LogSteps DEF KInv
<1>3. KInv /\ [Next]_vars => [LP!Connection!Next]_(LP!Connection!vars)
  BY LogSteps, LogAssumed, LP!ConnectionStep DEF KInv, LP!CostAssumption
<1> QED
  BY <1>1, <1>2, <1>3, AllInvariant, PTL DEF Spec, LP!ConnectsOnce, LP!Connection!Spec

LEMMA CacheTyped == CP!TypeOK => Cache!TypeOK
BY SameKeys DEF CP!TypeOK, Cache!TypeOK, CP!Entry, Cache!Entry, CP!Text, Cache!Text,
                CP!Call, Cache!Call, CP!Stages, Cache!Stages, CP!Command, Cache!Command,
                CP!TtlKind, Cache!TtlKind, CP!Ttl, Cache!Ttl, CP!NoExpiry, Cache!NoExpiry

LEMMA LogTyped == LP!TypeOK => Cost!TypeOK
BY DEF LP!TypeOK, Cost!TypeOK, LP!Row, Cost!Row, LP!Query, Cost!Query, LP!Stages, Cost!Stages

\* Every request, the configuration, Redis, the calls of the cache, the log
\* and its calls are of their types, whatever fails and whenever the process
\* restarts (main.py, cache.py, cost.py).
THEOREM TypesAreKept == Spec => []TypeOK
<1>1. KInv => TypeOK
  BY CacheTyped, LogTyped DEF KInv, IInv, CP!Typed, Flow, Configured, LP!IInv, TypeOK
<1> QED
  BY <1>1, AllInvariant, PTL
----------------------------------------------------------------------------
(* The cap. *)

\* Who stands at the cap has asked for the total of its own skill.
AskedTotal ==
    \A r \in Request : req[r].at = "cap" =>
        Cap > 0 /\ query[r].op = "total" /\ query[r].skill = req[r].skill

\* The only way to a 429.
OverCap(r) ==
    /\ req[r].at = "cap"
    /\ query[r].at = "done" /\ query[r].spent >= Cap
    /\ req'[r].skill = req[r].skill
    /\ UNCHANGED <<pool, query, costLog>>

LEMMA EndsOf ==
    ASSUME NEW q \in Req
    PROVE  /\ \A s, v : /\ Answer(q, s, v).at = "answered" /\ Answer(q, s, v).status = s
                        /\ Answer(q, s, v).skill = q.skill
           /\ \A s : /\ Refuse(q, s).at = "answered" /\ Refuse(q, s).status = s
                     /\ Refuse(q, s).skill = q.skill
           /\ Crash(q).at = "sent" /\ Crash(q).status = 0
           /\ \A at : LET n == [q EXCEPT !.at = at] IN n.at = at /\ n.status = q.status
BY DEF Refuse, Answer, Crash, Req, Unhandled

\* A step that neither brings a request to the cap nor refuses it there.
LEMMA StepElsewhere ==
    ASSUME IInv, NEW r \in Request, NEW n, Becomes(r, n)
    PROVE  req'[r].at = n.at /\ req'[r].status = n.status
BY DEF Becomes, IInv, Flow

LEMMA HandlerRefusesElse ==
    ASSUME IInv, NEW r \in Request, NEW q \in Req, q.status = None, Handle(r, q)
    PROVE  req'[r].status # 429 /\ req'[r].at # "cap"
<1>1. None # 429
  BY StatusAssumption DEF Status
<1> DEFINE p == Active(Registered, Equipped, q.signal, config[q.signal])
           n == [q EXCEPT !.at = "cached", !.provider = p]
<1>2. n.status = None /\ n.at = "cached"
  BY DEF Req
<1>3. \/ \E s \in {422, 500, 503} : Becomes(r, Refuse(q, s))
      \/ Becomes(r, Crash(q)) \/ Becomes(r, n)
  BY DEF Handle
<1> HIDE DEF n
<1>4. CASE Becomes(r, n)
  BY <1>1, <1>2, <1>4, StepElsewhere
<1>5. CASE Becomes(r, Crash(q))
  BY <1>5, StepElsewhere, EndsOf
<1>6. ASSUME NEW s \in {422, 500, 503}, Becomes(r, Refuse(q, s))
      PROVE  req'[r].status # 429 /\ req'[r].at # "cap"
  BY <1>6, StepElsewhere, EndsOf
<1> QED
  BY <1>3, <1>4, <1>5, <1>6

\* What a request that goes on has to do with the cap.
AtCap(r) ==
    /\ req'[r].at = "cap" =>
          Cap > 0 /\ query'[r].op = "total" /\ query'[r].skill = req'[r].skill
    /\ req'[r].status = 429 => req[r].status = 429 \/ OverCap(r)

LEMMA ProceedAtCap ==
    ASSUME KInv, AskedTotal, NEW r \in Request, Proceed(r)
    PROVE  AtCap(r)
<1>1. req[r] \in Req /\ None # 429 /\ IInv
  BY StatusAssumption DEF KInv, IInv, Flow, Status
<1>2. ASSUME NEW n, Becomes(r, n), n.at # "cap", n.status # 429 \/ n.status = req[r].status
      PROVE  AtCap(r)
  <2>1. req'[r].at = n.at /\ req'[r].status = n.status
    BY <1>1, <1>2, StepElsewhere
  <2> QED
    BY <1>2, <2>1 DEF AtCap
<1>3. ASSUME Becomes(r, Crash(req[r])) PROVE AtCap(r)
  BY <1>1, <1>2, <1>3, EndsOf
<1>4. ASSUME NEW s, s # 429, NEW v, Becomes(r, Answer(req[r], s, v)) PROVE AtCap(r)
  BY <1>1, <1>2, <1>4, EndsOf
<1>5. ASSUME NEW at, at # "cap", Becomes(r, [req[r] EXCEPT !.at = at]) PROVE AtCap(r)
  <2> DEFINE n == [req[r] EXCEPT !.at = at]
  <2>1. n.at = at /\ n.status = req[r].status
    BY <1>1 DEF Req
  <2> HIDE DEF n
  <2> QED
    BY <1>2, <1>5, <2>1 DEF n
<1>6. CASE Arrive(r)
  <2>1. ASSUME NEW s \in {401, 422}, Becomes(r, Refuse(Unborn, s)) PROVE AtCap(r)
    BY <1>2, <2>1, UnbornTyped, EndsOf
  <2>2. ASSUME NEW q \in Authentic, Cap > 0, Becomes(r, [q EXCEPT !.at = "cap"]),
               Cost!BeginTotal(r, q.skill)
        PROVE  AtCap(r)
    <3> DEFINE n == [q EXCEPT !.at = "cap"]
    <3>1. n.skill = q.skill /\ n.status = None
      BY AuthenticTyped DEF Req
    <3>2. req'[r] = n
      BY <2>2 DEF Becomes, KInv, IInv, Flow
    <3> HIDE DEF n
    <3>3. query'[r].op = "total" /\ query'[r].skill = q.skill
      <4>1. \E u, note : Cost!Begin(r, "total", q.skill, u, note)
        BY <2>2 DEF Cost!BeginTotal
      <4>2. PICK u, note : Cost!Begin(r, "total", q.skill, u, note)
        BY <4>1
      <4> QED
        BY <4>2, QueryBegins DEF KInv
    <3> QED
      BY <1>1, <2>2, <3>1, <3>2, <3>3 DEF AtCap
  <2>3. ASSUME NEW q \in Authentic, Handle(r, q) PROVE AtCap(r)
    BY <1>1, <2>3, AuthenticTyped, HandlerRefusesElse DEF AtCap
  <2>4. ASSUME NEW q \in Authentic, AsksTotal(r, q) PROVE AtCap(r)
    BY <2>2, <2>4 DEF AsksTotal
  <2> QED
    BY <1>6, <2>1, <2>3, <2>4, ArriveCases
<1>7. CASE CapChecked(r)
  <2>1. req[r].at = "cap" /\ req[r].status = None /\ UNCHANGED <<pool, query, costLog>>
    BY <1>7 DEF CapChecked, costVars, KInv, IInv, Flow, FlowOf
  <2>2. CASE /\ query[r].at = "done" /\ query[r].spent >= Cap
             /\ Becomes(r, Refuse(req[r], 429))
    <3>1. req'[r] = Refuse(req[r], 429)
      BY <2>2 DEF Becomes, KInv, IInv, Flow
    <3>2. req'[r].at = "answered" /\ req'[r].skill = req[r].skill
      BY <1>1, <3>1, EndsOf
    <3> QED
      BY <2>1, <2>2, <3>2 DEF OverCap, AtCap
  <2>3. CASE Handle(r, req[r])
    BY <1>1, <2>1, <2>3, HandlerRefusesElse DEF AtCap
  <2> QED
    BY <1>3, <1>7, <2>2, <2>3 DEF CapChecked
<1>8. CASE CacheAnswered(r)
  BY <1>3, <1>4, <1>5, <1>8 DEF CacheAnswered
<1>9. CASE LookupEnds(r)
  <2>1. ASSUME NEW s \in {422, 502}, Becomes(r, Refuse(req[r], s)) PROVE AtCap(r)
    BY <1>4, <2>1 DEF Refuse
  <2> DEFINE Holding(v) == [req[r] EXCEPT !.at = "saving", !.result = v]
  <2>2. \A v : Holding(v).at = "saving" /\ Holding(v).status = req[r].status
    BY <1>1 DEF Req
  <2>3. CASE Holds(r)
    <3>1. PICK v : Becomes(r, Holding(v))
      BY <2>3 DEF Holds
    <3> HIDE DEF Holding
    <3> QED
      BY <1>2, <2>2, <3>1
  <2>4. CASE Fails(r)
    <3>1. PICK s \in {422, 502} : Becomes(r, Refuse(req[r], s))
      BY <2>4 DEF Fails
    <3> QED
      BY <2>1, <3>1
  <2> QED
    BY <1>9, <2>3, <2>4, LookupMoves
<1>10. CASE Saved(r)
  BY <1>3, <1>4, <1>10 DEF Saved
<1>11. CASE Telemetry(r) \/ Recorded(r)
  BY <1>5, <1>11 DEF Telemetry, Recorded
<1> QED
  BY <1>6, <1>7, <1>8, <1>9, <1>10, <1>11 DEF Proceed

\* Every way to a 429 of a step.
LEMMA CapStep ==
    ASSUME KInv, AskedTotal, [Next]_vars
    PROVE  /\ AskedTotal'
           /\ \A r \in Request : req'[r].status = 429 => req[r].status = 429 \/ OverCap(r)
<1> DEFINE Goal == /\ AskedTotal'
                   /\ \A r \in Request : req'[r].status = 429 => req[r].status = 429 \/ OverCap(r)
<1>1. ASSUME UNCHANGED <<req, query>> PROVE Goal
  BY <1>1 DEF AskedTotal
<1>2. ASSUME NEW r \in Request, Proceed(r) PROVE Goal
  <2>1. \A d \in Request : d # r => req'[d] = req[d]
    BY <1>2, MovesAlone DEF KInv
  <2>2. \A d \in Request : d # r => query'[d] = query[d]
    <3>1. CASE UNCHANGED query
      BY <3>1
    <3>2. ASSUME LP!Begins(r) PROVE \A d \in Request : d # r => query'[d] = query[d]
      <4>1. PICK s \in LP!Query : LP!Opens(r, s)
        BY <3>2, LogAssumed, LP!CallsOutcome DEF LP!CostAssumption, KInv, LP!IInv
      <4> QED
        BY <4>1 DEF LP!Opens, KInv, LP!IInv, LP!TypeOK
    <3> QED
      BY <1>2, <3>1, <3>2, ProceedLogs DEF KInv, LP!vars
  <2>3. AskedTotal'
    BY <1>2, <2>1, <2>2, ProceedAtCap DEF AskedTotal, AtCap
  <2> QED
    BY <1>2, <2>1, <2>3, ProceedAtCap DEF AtCap
<1>3. ASSUME NEW r \in Request, CostStep(r) PROVE Goal
  <2>1. Cost!CallerStep(r) /\ UNCHANGED req
    BY <1>3 DEF CostStep
  <2>2. /\ query'[r].op = query[r].op /\ query'[r].skill = query[r].skill
        /\ \A d \in Request : d # r => query'[d] = query[d]
    BY <2>1, QueryGoesOn DEF KInv, LInv
  <2> QED
    BY <2>1, <2>2 DEF AskedTotal
<1>4. CASE Restart
  <2>1. \A r \in Request : req'[r].status = req[r].status /\ req'[r].at # "cap"
    BY <1>4, Dies DEF KInv
  <2> QED
    BY <2>1 DEF AskedTotal
<1>5. CASE \E r \in Request : CacheStep(r)
  BY <1>1, <1>5 DEF CacheStep, costVars
<1>6. CASE RedisMoves \/ PostgresMoves \/ Tick
  BY <1>1, <1>6 DEF RedisMoves, PostgresMoves, Tick, Cost!Tick, Cost!LateInsert, costVars
<1>7. CASE UNCHANGED vars \/ \E s \in Signal : Reconfigure(s)
  BY <1>1, <1>7 DEF Reconfigure, vars, costVars
<1> QED
  BY <1>2, <1>3, <1>4, <1>5, <1>6, <1>7 DEF Next

\* A total that reaches the cap is not the zero of a log that is down, and is
\* no more than the skill's own rows come to.
LEMMA OverCapJustified ==
    ASSUME KInv, AskedTotal, NEW r \in Request, OverCap(r)
    PROVE  pool = "open" /\ Cost!SpentSince(req'[r].skill, query[r].cutoff) >= Cap
<1>1. /\ Cap > 0 /\ query[r].op = "total" /\ query[r].skill = req[r].skill
      /\ query[r].at = "done" /\ query[r].spent >= Cap
  BY DEF OverCap, AskedTotal
<1>2. query[r] \in LP!Query /\ query[r].spent \in Nat /\ Cap \in Nat
  BY KitchenAssumption DEF KInv, LP!IInv, LP!TypeOK, LP!Query
<1>3. pool = "open"
  <2>1. query[r].spent # 0
    BY <1>1, <1>2
  <2> QED
    BY <2>1 DEF KInv, LP!IInv, LP!TypeOK, LP!Connected, LP!DisabledIsNoOp
<1>4. query[r].spent =< LP!SpentSince(query[r].skill, query[r].cutoff)
  BY <1>1 DEF KInv, LP!IInv, LP!ChargesOwnRows
<1>5. LP!SpentSince(query[r].skill, query[r].cutoff) \in Nat
  BY LogAssumed, LP!SharesType, LP!SumType DEF LP!CostAssumption, LP!SpentSince,
     KInv, LP!IInv, LP!TypeOK
<1>6. LP!SpentSince(query[r].skill, query[r].cutoff) >= Cap
  BY <1>1, <1>2, <1>4, <1>5
<1>7. Cost!SpentSince(req'[r].skill, query[r].cutoff)
         = LP!SpentSince(query[r].skill, query[r].cutoff)
  BY <1>1, LogSameSpent DEF OverCap
<1> QED
  BY <1>3, <1>6, <1>7

\* What RefusalsJustified says of a step.
JustifiedStep ==
    \A r \in Request :
        req'[r].status = 429 /\ req[r].status # 429
            => pool = "open" /\ Cost!SpentSince(req[r].skill, query[r].cutoff) >= Cap

LEMMA CapStepJustified == KInv /\ AskedTotal /\ [Next]_vars => JustifiedStep
<1> SUFFICES ASSUME KInv, AskedTotal, [Next]_vars,
                    NEW r \in Request, req'[r].status = 429, req[r].status # 429
             PROVE  pool = "open" /\ Cost!SpentSince(req[r].skill, query[r].cutoff) >= Cap
  BY DEF JustifiedStep
<1>1. OverCap(r)
  BY CapStep
<1>2. req'[r].skill = req[r].skill
  BY <1>1 DEF OverCap
<1>3. pool = "open" /\ Cost!SpentSince(req'[r].skill, query[r].cutoff) >= Cap
  BY <1>1, OverCapJustified
<1> QED
  BY <1>2, <1>3

\* A 429 is sent only to a skill whose own rows of the window reach the cap at
\* that very moment, whoever else records meanwhile, and never while the log
\* is unavailable (auth.py:82-98, cost.py:12-19).
THEOREM RefusalsAreJustified == Spec => RefusalsJustified
<1>1. Init => AskedTotal
  <2>1. Init => \A r \in Request : req[r].at = "new"
    BY UnbornTyped DEF Init
  <2> QED
    BY <2>1 DEF AskedTotal
<1>2. KInv /\ AskedTotal /\ [Next]_vars => AskedTotal'
  BY CapStep
<1> QED
  BY <1>1, <1>2, CapStepJustified, AllInvariant, PTL
     DEF Spec, RefusalsJustified, JustifiedStep
=============================================================================
