-------------------------- MODULE ProvidersProofs --------------------------
(***************************************************************************)
(* What holds of Providers for any set of lookups, any number of worker     *)
(* threads and any replies.                                                 *)
(*                                                                          *)
(* ExecInv is about jobs and threads and reads no reply.  LookupInv adds    *)
(* what each lookup has heard and what follows from it; what is left then   *)
(* are facts about the operators of Replies.                                *)
(***************************************************************************)
EXTENDS Providers, SumsProofs, FiniteSetTheorems, TLAPS

\* A lookup is a record that can stand somewhere.
LookOK ==
    /\ look = [l \in Lookup |-> look[l]]
    /\ \A l \in Lookup : "at" \in DOMAIN look[l] /\ "outcome" \in DOMAIN look[l]

\* A lookup has one job at a time: in the queue once, or in a thread.
JobsOK ==
    /\ queue \in Seq(Lookup)
    /\ running \subseteq Lookup
    /\ cancelled \subseteq Lookup
    /\ \A i, j \in 1..Len(queue) : queue[i] = queue[j] => i = j
    /\ \A i \in 1..Len(queue) : queue[i] \notin running

\* Whoever waits for a thread, in vain or not, stands where that can be.
WaitsOK ==
    /\ \A i \in 1..Len(queue) : queue[i] \in cancelled \/ look[queue[i]].at = "waiting"
    /\ \A l \in running : look[l].at \in {"waiting", "ended"}
    /\ \A l \in cancelled : look[l].at = "ended"

ExecInv == LookOK /\ JobsOK /\ WaitsOK
----------------------------------------------------------------------------
(* The steps of a lookup, seen from the executor. *)

\* A lookup comes to stand somewhere else, and no other one moves.
Moves(l, stage) ==
    \E q : /\ q.at = stage /\ "at" \in DOMAIN q /\ "outcome" \in DOMAIN q
           /\ look' = [look EXCEPT ![l] = q]

LEMMA MovesLook ==
    ASSUME LookOK, NEW l \in Lookup, NEW stage, Moves(l, stage)
    PROVE  /\ LookOK'
           /\ look'[l].at = stage
           /\ \A k \in Lookup : k # l => look'[k] = look[k]
<1>1. PICK q : /\ q.at = stage /\ "at" \in DOMAIN q /\ "outcome" \in DOMAIN q
               /\ look' = [look EXCEPT ![l] = q]
  BY DEF Moves
<1>2. look' = [k \in Lookup |-> IF k = l THEN q ELSE look[k]]
  BY <1>1, Zenon DEF LookOK
<1> QED
  BY <1>1, <1>2 DEF LookOK

\* A lookup that waits for no thread hands in a job.
LEMMA Joins ==
    ASSUME ExecInv, NEW l \in Lookup, look[l].at \in {"new", "asking"},
           Moves(l, "waiting"), queue' = Append(queue, l),
           UNCHANGED <<cancelled, running>>
    PROVE  ExecInv'
<1>1. /\ LookOK' /\ look'[l].at = "waiting"
      /\ \A k \in Lookup : k # l => look'[k] = look[k]
  BY MovesLook DEF ExecInv
<1>2. l \notin running /\ l \notin cancelled /\ \A i \in 1..Len(queue) : queue[i] # l
  BY DEF ExecInv, WaitsOK
<1>3. /\ queue' \in Seq(Lookup) /\ Len(queue') = Len(queue) + 1
      /\ \A i \in 1..Len(queue) : queue'[i] = queue[i]
      /\ queue'[Len(queue) + 1] = l
  BY DEF ExecInv, JobsOK
<1>4. JobsOK'
  BY <1>2, <1>3 DEF ExecInv, JobsOK
<1>5. WaitsOK'
  BY <1>1, <1>2, <1>3 DEF ExecInv, JobsOK, WaitsOK
<1> QED
  BY <1>1, <1>4, <1>5 DEF ExecInv

\* A lookup that waits for no thread moves without one.
LEMMA MovesOn ==
    ASSUME ExecInv, NEW l \in Lookup, look[l].at \in {"new", "asking"}, NEW stage,
           Moves(l, stage), UNCHANGED <<queue, cancelled, running>>
    PROVE  ExecInv'
<1>1. /\ LookOK' /\ look'[l].at = stage
      /\ \A k \in Lookup : k # l => look'[k] = look[k]
  BY MovesLook DEF ExecInv
<1>2. l \notin running /\ l \notin cancelled /\ \A i \in 1..Len(queue) : queue[i] # l
  BY DEF ExecInv, WaitsOK
<1>3. JobsOK'
  BY DEF ExecInv, JobsOK
<1>4. WaitsOK'
  BY <1>1, <1>2, <1>3 DEF ExecInv, JobsOK, WaitsOK
<1> QED
  BY <1>1, <1>3, <1>4 DEF ExecInv

\* A thread is done with its job.
LEMMA Frees ==
    ASSUME ExecInv, NEW l \in running, NEW stage,
           \/ look[l].at = "waiting" /\ Moves(l, stage)
           \/ UNCHANGED look,
           running' = running \ {l}, UNCHANGED <<queue, cancelled>>
    PROVE  ExecInv'
<1>1. l \in Lookup /\ \A i \in 1..Len(queue) : queue[i] # l
  BY DEF ExecInv, JobsOK
<1>2. /\ LookOK'
      /\ \A k \in Lookup : k # l => look'[k] = look[k]
      /\ l \in cancelled => look'[l] = look[l]
  BY <1>1, MovesLook DEF ExecInv, LookOK, WaitsOK
<1>3. JobsOK'
  BY DEF ExecInv, JobsOK
<1>4. WaitsOK'
  BY <1>1, <1>2, <1>3 DEF ExecInv, JobsOK, WaitsOK
<1> QED
  BY <1>2, <1>3, <1>4 DEF ExecInv

\* A lookup gives up on its job.
LEMMA Abandons ==
    ASSUME ExecInv, NEW l \in Lookup, look[l].at = "waiting", Moves(l, "ended"),
           cancelled' = cancelled \cup ({l} \ running), UNCHANGED <<queue, running>>
    PROVE  ExecInv'
<1>1. /\ LookOK' /\ look'[l].at = "ended"
      /\ \A k \in Lookup : k # l => look'[k] = look[k]
  BY MovesLook DEF ExecInv
<1>2. JobsOK'
  BY DEF ExecInv, JobsOK
<1>3. WaitsOK'
  BY <1>1, <1>2 DEF ExecInv, JobsOK, WaitsOK
<1> QED
  BY <1>1, <1>2, <1>3 DEF ExecInv

\* A thread takes a job from the queue, or lets go of it.
LEMMA Takes == ExecInv /\ Taken => ExecInv'
<1> SUFFICES ASSUME ExecInv, Taken PROVE ExecInv'
  OBVIOUS
<1> DEFINE h == Head(queue)
<1>1. /\ queue \in Seq(Lookup) /\ queue # << >> /\ h = queue[1] /\ 1 \in 1..Len(queue)
      /\ h \in Lookup
  BY DEF ExecInv, JobsOK, Taken
<1>2. /\ queue' \in Seq(Lookup) /\ Len(queue') = Len(queue) - 1
      /\ \A i \in 1..Len(queue') : queue'[i] = queue[i + 1] /\ i + 1 \in 1..Len(queue)
  BY <1>1 DEF Taken
<1>3. \A i \in 1..Len(queue') : queue'[i] # h
  BY <1>1, <1>2 DEF ExecInv, JobsOK
<1>4. running' \subseteq running \cup {h}
  BY DEF Taken
<1>5. JobsOK'
  <2>1. \A i, j \in 1..Len(queue') : queue'[i] = queue'[j] => i = j
    BY <1>1, <1>2 DEF ExecInv, JobsOK
  <2> QED
    BY <1>1, <1>2, <1>3, <1>4, <2>1 DEF ExecInv, JobsOK, Taken
<1>6. h \in running' => look[h].at \in {"waiting", "ended"}
  BY <1>1 DEF ExecInv, WaitsOK, JobsOK, Taken
<1>7. WaitsOK'
  BY <1>2, <1>4, <1>6 DEF ExecInv, WaitsOK, Taken
<1>8. LookOK'
  BY DEF ExecInv, LookOK, Taken
<1> QED
  BY <1>5, <1>7, <1>8 DEF ExecInv
----------------------------------------------------------------------------
(* The actions. *)

\* An ended lookup keeps its fields, as one that hears something does.
LEMMA Fields ==
    ASSUME NEW q, NEW outcome, NEW service, NEW reply,
           "at" \in DOMAIN q, "outcome" \in DOMAIN q
    PROVE  /\ Ended(q, outcome).at = "ended"
           /\ DOMAIN Ended(q, outcome) = DOMAIN q
           /\ Submitted(q, service).at = "waiting"
           /\ DOMAIN Submitted(q, service) = DOMAIN q
           /\ DOMAIN [q EXCEPT !.heard = Append(@, reply)] = DOMAIN q
  BY DEF Ended, Submitted

LEMMA Conclusion ==
    ASSUME LookOK, NEW l \in Lookup, NEW reply, Concludes(l, reply)
    PROVE  Moves(l, "ended")
<1> DEFINE q == Heard(l, reply)
<1>1. DOMAIN q = DOMAIN look[l] /\ "at" \in DOMAIN q /\ "outcome" \in DOMAIN q
  BY DEF LookOK, Heard
<1> HIDE DEF q
<1>2. Ended(q, Outcome(q)).at = "ended" /\ DOMAIN Ended(q, Outcome(q)) = DOMAIN q
  BY <1>1, Fields
<1>3. look' = [look EXCEPT ![l] = Ended(q, Outcome(q))]
  BY DEF Concludes, Becomes, q
<1> QED
  BY <1>1, <1>2, <1>3 DEF Moves

LEMMA StartStep ==
    ASSUME ExecInv, NEW l \in Lookup, Start(l)
    PROVE  ExecInv'
<1>1. PICK m \in Menu[l] :
          LET q == [look[l] EXCEPT !.provider = m.provider, !.arg = m.arg]
          IN  \/ /\ Becomes(l, Ended(q, Raises("ValueError")))
                 /\ UNCHANGED queue
              \/ /\ Becomes(l, Submitted(q, FirstService[m.provider]))
                 /\ queue' = Append(queue, l)
  BY DEF Start
<1> DEFINE q == [look[l] EXCEPT !.provider = m.provider, !.arg = m.arg]
<1>2. DOMAIN q = DOMAIN look[l] /\ "at" \in DOMAIN q /\ "outcome" \in DOMAIN q
  BY DEF ExecInv, LookOK
<1>3. /\ look[l].at \in {"new", "asking"}
      /\ UNCHANGED <<cancelled, running>>
  BY DEF Start
<1>4. \/ Becomes(l, Ended(q, Raises("ValueError"))) /\ UNCHANGED queue
      \/ Becomes(l, Submitted(q, FirstService[m.provider])) /\ queue' = Append(queue, l)
  BY <1>1
<1> HIDE DEF q
<1>5. CASE Becomes(l, Ended(q, Raises("ValueError"))) /\ UNCHANGED queue
  <2>1. Moves(l, "ended")
    BY <1>2, <1>5, Fields DEF Moves, Becomes
  <2> QED
    BY <1>3, <1>5, <2>1, MovesOn
<1>6. CASE Becomes(l, Submitted(q, FirstService[m.provider])) /\ queue' = Append(queue, l)
  <2>1. Moves(l, "waiting")
    BY <1>2, <1>6, Fields DEF Moves, Becomes
  <2> QED
    BY <1>3, <1>6, <2>1, Joins
<1> QED
  BY <1>4, <1>5, <1>6

LEMMA ResolvedStep ==
    ASSUME ExecInv, NEW l \in Lookup, Resolved(l)
    PROVE  ExecInv'
<1>1. /\ l \in running /\ running' = running \ {l}
      /\ UNCHANGED <<queue, cancelled>>
  BY DEF Resolved
<1>2. CASE look[l].at = "waiting" /\ Becomes(l, [look[l] EXCEPT !.at = "asking"])
  <2>1. Moves(l, "asking")
    BY <1>2 DEF Moves, Becomes, ExecInv, LookOK
  <2> QED
    BY <1>1, <1>2, <2>1, Frees
<1>3. CASE look[l].at = "waiting" /\ Concludes(l, Lost)
  BY <1>1, <1>3, Conclusion, Frees DEF ExecInv
<1>4. CASE UNCHANGED look
  BY <1>1, <1>4, Frees
<1> QED
  BY <1>2, <1>3, <1>4 DEF Resolved

LEMMA WorkedStep ==
    ASSUME ExecInv, NEW l \in Lookup, Worked(l)
    PROVE  ExecInv'
<1>1. /\ l \in running /\ running' = running \ {l}
      /\ UNCHANGED <<queue, cancelled>>
  BY DEF Worked
<1>2. CASE look[l].at = "waiting" /\ \E found \in World[look[l].service] : Concludes(l, found)
  BY <1>1, <1>2, Conclusion, Frees DEF ExecInv
<1>3. CASE UNCHANGED look
  BY <1>1, <1>3, Frees
<1> QED
  BY <1>2, <1>3 DEF Worked

LEMMA TimesOutStep ==
    ASSUME ExecInv, NEW l \in Lookup, TimesOut(l)
    PROVE  ExecInv'
<1>1. GivesUp(l)
  BY DEF TimesOut
<1>2. CASE Becomes(l, Ended(look[l], Raises("RuntimeError")))
  <2>1. Ended(look[l], Raises("RuntimeError")).at = "ended"
        /\ DOMAIN Ended(look[l], Raises("RuntimeError")) = DOMAIN look[l]
    BY Fields DEF ExecInv, LookOK
  <2> QED
    BY <1>2, <2>1, Abandons DEF TimesOut, Moves, Becomes, ExecInv, LookOK
<1>3. CASE Concludes(l, Lost)
  BY <1>3, Conclusion, Abandons DEF TimesOut, ExecInv
<1> QED
  BY <1>1, <1>2, <1>3 DEF GivesUp

LEMMA RepliedStep ==
    ASSUME ExecInv, NEW l \in Lookup, Replied(l)
    PROVE  ExecInv'
<1>1. PICK reply \in World[look[l].service] \cup {Lost, Odd} :
          \/ /\ Becomes(l, Submitted(Heard(l, reply), "submissions"))
             /\ queue' = Append(queue, l)
          \/ /\ Concludes(l, reply)
             /\ UNCHANGED queue
  BY DEF Replied
<1>2. /\ look[l].at \in {"new", "asking"}
      /\ UNCHANGED <<cancelled, running>>
  BY DEF Replied
<1>3. CASE Becomes(l, Submitted(Heard(l, reply), "submissions")) /\ queue' = Append(queue, l)
  <2>1. /\ DOMAIN Heard(l, reply) = DOMAIN look[l]
        /\ "at" \in DOMAIN Heard(l, reply) /\ "outcome" \in DOMAIN Heard(l, reply)
    BY DEF ExecInv, LookOK, Heard
  <2>2. Moves(l, "waiting")
    BY <1>3, <2>1, Fields DEF Moves, Becomes
  <2> QED
    BY <1>2, <1>3, <2>2, Joins
<1>4. CASE Concludes(l, reply) /\ UNCHANGED queue
  BY <1>2, <1>4, Conclusion, MovesOn DEF ExecInv
<1> QED
  BY <1>1, <1>3, <1>4

LEMMA NeverCompleteStep ==
    ASSUME ExecInv, NEW l \in Lookup, NeverComplete(l)
    PROVE  ExecInv'
<1>1. Moves(l, "endless")
  BY DEF NeverComplete, Moves, Becomes, ExecInv, LookOK
<1> QED
  BY <1>1, MovesOn DEF NeverComplete
----------------------------------------------------------------------------
(* The theorems. *)

LEMMA ExecStep == ExecInv /\ [Next]_vars => ExecInv'
<1> SUFFICES ASSUME ExecInv, [Next]_vars PROVE ExecInv'
  OBVIOUS
<1>1. CASE Taken
  BY <1>1, Takes
<1>2. ASSUME NEW l \in Lookup, Start(l) PROVE ExecInv'
  BY <1>2, StartStep
<1>3. ASSUME NEW l \in Lookup, Resolved(l) PROVE ExecInv'
  BY <1>3, ResolvedStep
<1>4. ASSUME NEW l \in Lookup, Worked(l) PROVE ExecInv'
  BY <1>4, WorkedStep
<1>5. ASSUME NEW l \in Lookup, TimesOut(l) PROVE ExecInv'
  BY <1>5, TimesOutStep
<1>6. ASSUME NEW l \in Lookup, Replied(l) PROVE ExecInv'
  BY <1>6, RepliedStep
<1>7. ASSUME NEW l \in Lookup, NeverComplete(l) PROVE ExecInv'
  BY <1>7, NeverCompleteStep
<1>8. CASE UNCHANGED vars
  BY <1>8 DEF vars, ExecInv, LookOK, JobsOK, WaitsOK
<1> QED
  BY <1>1, <1>2, <1>3, <1>4, <1>5, <1>6, <1>7, <1>8 DEF Next

LEMMA ExecInit == Init => ExecInv
<1> SUFFICES ASSUME Init PROVE ExecInv
  OBVIOUS
<1>1. LookOK
  BY DEF Init, LookOK, Unasked
<1>2. JobsOK /\ WaitsOK
  BY DEF Init, JobsOK, WaitsOK
<1> QED
  BY <1>1, <1>2 DEF ExecInv

\* Each lookup has at most one job, in the queue or in a thread, and whoever
\* waits for it is one whose job was not given up on.
THEOREM ExecutorSound == Spec => []ExecInv
<1> QED
  BY ExecInit, ExecStep, PTL DEF Spec

\* In a step that leaves a lookup alone it stays as it is.
LEMMA Alone ==
    ASSUME LookOK, NEW l, NEW q, Becomes(l, q), NEW k \in Lookup, k # l
    PROVE  look'[k] = look[k]
  BY DEF LookOK, Becomes

LEMMA EndedStep == ExecInv /\ [Next]_vars => EndedStays
<1> SUFFICES ASSUME ExecInv, [Next]_vars, NEW k \in Lookup, look[k].at = "ended"
             PROVE  look'[k] = look[k] /\ (k \in running' => k \in running)
  BY DEF EndedStays
<1> USE Alone DEF ExecInv
<1>1. CASE Taken
  <2>1. Head(queue) = queue[1] /\ 1 \in 1..Len(queue)
    BY <1>1 DEF JobsOK, Taken
  <2>2. Head(queue) = k => k \in cancelled
    BY <2>1 DEF WaitsOK
  <2> QED
    BY <1>1, <2>2 DEF Taken
<1>2. ASSUME NEW l \in Lookup, Start(l) PROVE k # l /\ look'[k] = look[k] /\ running' = running
  BY <1>2 DEF Start
<1>3. ASSUME NEW l \in Lookup, Resolved(l) PROVE look'[k] = look[k] /\ running' \subseteq running
  BY <1>3 DEF Resolved, Concludes
<1>4. ASSUME NEW l \in Lookup, Worked(l) PROVE look'[k] = look[k] /\ running' \subseteq running
  BY <1>4 DEF Worked, Concludes
<1>5. ASSUME NEW l \in Lookup, TimesOut(l) PROVE look'[k] = look[k] /\ running' = running
  BY <1>5 DEF TimesOut, GivesUp, Concludes
<1>6. ASSUME NEW l \in Lookup, Replied(l) PROVE look'[k] = look[k] /\ running' = running
  BY <1>6 DEF Replied, Concludes
<1>7. ASSUME NEW l \in Lookup, NeverComplete(l) PROVE look'[k] = look[k] /\ running' = running
  BY <1>7 DEF NeverComplete
<1>8. CASE UNCHANGED vars
  BY <1>8 DEF vars
<1> QED
  BY <1>1, <1>2, <1>3, <1>4, <1>5, <1>6, <1>7, <1>8 DEF Next

\* A lookup that was given up on is never touched again, by its own thread or
\* by any step, and no thread begins the job it left in the queue.
THEOREM AbandonedForGood == Spec => AbandonedIsOver
<1> QED
  BY ExecInit, ExecStep, EndedStep, PTL DEF Spec, AbandonedIsOver
----------------------------------------------------------------------------
(* What a lookup has heard. *)

\* A lookup is the record of its fields.
Whole(q) ==
    q \in [at : {q.at}, provider : {q.provider}, arg : {q.arg}, service : {q.service},
           heard : {q.heard}, outcome : {q.outcome}]

Endings == {"nothing", "ValueError", "RuntimeError", "other"}

\* A lookup comes to a result or an exception.
Ends(outcome) ==
    /\ outcome.raised \in Endings
    /\ outcome.raised # "nothing" => outcome.result = None

LEMMA YieldsEnds == ASSUME NEW v PROVE Ends(Yields(v))
  BY DEF Ends, Yields, Endings

LEMMA RaisesEnds == ASSUME NEW e \in Endings PROVE Ends(Raises(e))
  BY DEF Ends, Raises, Endings

FirstAsked(q) == q.service = FirstService[q.provider]

FilingsAsked(q) == q.provider = "sec_edgar" /\ q.service = "submissions"

\* Until a lookup ends, all it may have heard is its company.
Underway(q) ==
    \/ FirstAsked(q) /\ q.heard = << >>
    \/ FilingsAsked(q) /\ \E t \in Says("tickers") : q.heard = <<t>> /\ Knows(q.arg, t)

\* An answer is what the last reply comes to; if that was the dump of tickers,
\* the company is not in it.
Answered(q) ==
    /\ q.outcome = Outcome(q)
    /\ \/ FirstAsked(q) /\ ~GoesOn(q) /\ \E r \in Says(q.service) : q.heard = <<r>>
       \/ FilingsAsked(q) /\ \E t \in Says("tickers") : \E r \in Says("submissions") :
              q.heard = <<t, r>> /\ Knows(q.arg, t)

HeardOK(q) ==
    /\ Whole(q) /\ q.at \in Stages
    /\ q.at = "new" => q.heard = << >>
    /\ q.at # "new" => q.provider \in DOMAIN FirstService /\ AskOf(q) \in Asks
    /\ q.at \in {"waiting", "asking", "endless"} => Underway(q)
    /\ q.at \in {"asking", "endless"} => q.service \notin Threaded
    /\ q.at = "ended" => Ends(q.outcome)
    /\ q.at # "ended" => q.outcome = Pending
    /\ q.at = "ended" /\ q.outcome.raised = "nothing" => Answered(q)

HeardInv == \A l \in Lookup : HeardOK(look[l])

\* Whoever waits for a thread has a job that can get one.
QueuedInv ==
    \A l \in Lookup : look[l].at = "waiting" =>
        l \in running \/ \E i \in 1..Len(queue) : queue[i] = l

LookupInv == ExecInv /\ HeardInv /\ QueuedInv

LEMMA EndedIs ==
    ASSUME NEW q, Whole(q), NEW outcome
    PROVE  /\ Whole(Ended(q, outcome))
           /\ Ended(q, outcome).at = "ended" /\ Ended(q, outcome).outcome = outcome
           /\ Ended(q, outcome).provider = q.provider /\ Ended(q, outcome).arg = q.arg
           /\ Ended(q, outcome).service = q.service /\ Ended(q, outcome).heard = q.heard
  BY DEF Whole, Ended

LEMMA SubmittedIs ==
    ASSUME NEW q, Whole(q), NEW service
    PROVE  /\ Whole(Submitted(q, service))
           /\ Submitted(q, service).at = "waiting" /\ Submitted(q, service).outcome = q.outcome
           /\ Submitted(q, service).provider = q.provider /\ Submitted(q, service).arg = q.arg
           /\ Submitted(q, service).service = service /\ Submitted(q, service).heard = q.heard
  BY DEF Whole, Submitted

LEMMA HeardIs ==
    ASSUME NEW l, Whole(look[l]), NEW reply
    PROVE  /\ Whole(Heard(l, reply))
           /\ Heard(l, reply).at = look[l].at /\ Heard(l, reply).outcome = look[l].outcome
           /\ Heard(l, reply).provider = look[l].provider /\ Heard(l, reply).arg = look[l].arg
           /\ Heard(l, reply).service = look[l].service
           /\ Heard(l, reply).heard = Append(look[l].heard, reply)
  BY DEF Whole, Heard

LEMMA MovedIs ==
    ASSUME NEW q, Whole(q), NEW stage
    PROVE  /\ Whole([q EXCEPT !.at = stage])
           /\ [q EXCEPT !.at = stage].at = stage /\ [q EXCEPT !.at = stage].outcome = q.outcome
           /\ [q EXCEPT !.at = stage].provider = q.provider /\ [q EXCEPT !.at = stage].arg = q.arg
           /\ [q EXCEPT !.at = stage].service = q.service /\ [q EXCEPT !.at = stage].heard = q.heard
  BY DEF Whole

LEMMA Appends ==
    ASSUME NEW x, NEW y
    PROVE  Append(<< >>, x) = <<x>> /\ Append(<<x>>, y) = <<x, y>>
<1> DEFINE a == Append(<< >>, x)
           b == Append(<<x>>, y)
<1>1. << >> \in Seq({x, y}) /\ <<x>> \in Seq({x, y}) /\ <<x, y>> \in Seq({x, y})
  OBVIOUS
<1>2. a \in Seq({x, y}) /\ Len(a) = 1 /\ a[1] = x
  BY <1>1
<1>3. b \in Seq({x, y}) /\ Len(b) = 2 /\ b[1] = x /\ b[2] = y
  BY <1>1
<1> HIDE DEF a, b
<1>4. a = <<x>>
  BY <1>2
<1>5. b = <<x, y>>
  BY <1>3
<1> QED
  BY <1>4, <1>5 DEF a, b

\* What somebody else's lookup is does not matter to a lookup.
LEMMA HeardElsewhere ==
    ASSUME LookOK, HeardInv, NEW l \in Lookup, NEW q, Becomes(l, q), HeardOK(q)
    PROVE  HeardInv'
<1>1. look' = [k \in Lookup |-> IF k = l THEN q ELSE look[k]]
  BY Zenon DEF LookOK, Becomes
<1> SUFFICES ASSUME NEW k \in Lookup PROVE HeardOK(look'[k])
  BY Zenon DEF HeardInv
<1>2. look'[k] = IF k = l THEN q ELSE look[k]
  BY <1>1
<1>3. CASE k = l
  BY <1>2, <1>3
<1>4. CASE k # l
  <2>1. look'[k] = look[k]
    BY <1>2, <1>4
  <2>2. HeardOK(look[k])
    BY DEF HeardInv
  <2> QED
    BY <2>1, <2>2, Zenon
<1> QED
  BY <1>3, <1>4
----------------------------------------------------------------------------
(* What a lookup comes to. *)

Final(q) == q.heard[Len(q.heard)]

LEMMA OutcomeExa == ASSUME NEW q, q.service = "exa" PROVE Outcome(q) = Exa(Final(q))
  BY Zenon DEF Outcome, Final

LEMMA OutcomeApollo == ASSUME NEW q, q.service = "apollo" PROVE Outcome(q) = Apollo(Final(q))
  BY Zenon DEF Outcome, Final

LEMMA OutcomeFirecrawl ==
    ASSUME NEW q, q.service = "firecrawl" PROVE Outcome(q) = Firecrawl(Final(q))
  BY Zenon DEF Outcome, Final

LEMMA OutcomeTrends ==
    ASSUME NEW q, q.service = "google_trends" PROVE Outcome(q) = Trends(Final(q))
  BY Zenon DEF Outcome, Final

LEMMA OutcomeWappalyzer ==
    ASSUME NEW q, q.service = "wappalyzer_oss" PROVE Outcome(q) = Wappalyzer(Final(q))
  BY Zenon DEF Outcome, Final

LEMMA OutcomeTickers ==
    ASSUME NEW q, q.service = "tickers"
    PROVE  Outcome(q) = IF Cik(q).raised = "nothing" THEN Yields(Funding(None, << >>)) ELSE Cik(q)
  BY Zenon DEF Outcome

LEMMA OutcomeSubmissions ==
    ASSUME NEW q, q.service = "submissions"
    PROVE  Outcome(q) = IF FetchFilings(Final(q)).raised = "nothing"
                        THEN Yields(Funding(Cik(q).result, FetchFilings(Final(q)).result))
                        ELSE FetchFilings(Final(q))
  BY Zenon DEF Outcome, Final

LEMMA CheckedEnds == ASSUME NEW reply PROVE Ends(Checked(reply))
  BY YieldsEnds, RaisesEnds DEF Checked, Endings

LEMMA CikEnds == ASSUME NEW needle, NEW reply PROVE Ends(FindCik(needle, reply))
  BY YieldsEnds, RaisesEnds DEF FindCik, Endings

\* What _fetch_filings makes of the rows it kept.
Sifted(taken) ==
    LET faulty == {i \in DOMAIN taken :
                     taken[i].accessionNumber = NotObject \/ taken[i].primaryDocument = Junk}
    IN  IF faulty = {} THEN Yields(taken)
        ELSE IF taken[Min(faulty)].accessionNumber = NotObject THEN Raises("other")
        ELSE Raises("ValueError")

LEMMA FetchFilingsIs ==
    ASSUME NEW reply
    PROVE  FetchFilings(reply) =
             IF reply \in {Lost, Odd} \/ reply.status \notin {200, 404} THEN Raises("other")
             ELSE IF reply.status = 404 THEN Yields(<< >>)
             ELSE IF reply.body = NotJson THEN Raises("ValueError")
             ELSE IF reply.body = NotObject THEN Raises("other")
             ELSE IF reply.body.recent = NotObject THEN Yields(<< >>)
             ELSE Sifted(Kept(RowsOf(reply.body.recent)))
  BY Zenon DEF FetchFilings, Sifted

LEMMA SiftedIs ==
    ASSUME NEW taken
    PROVE  Sifted(taken) \in {Yields(taken), Raises("other"), Raises("ValueError")}
  BY Zenon DEF Sifted

LEMMA FilingsEnd == ASSUME NEW reply PROVE Ends(FetchFilings(reply))
<1> DEFINE rest == Sifted(Kept(RowsOf(reply.body.recent)))
<1>1. Ends(rest)
  BY SiftedIs, YieldsEnds, RaisesEnds DEF Endings
<1> HIDE DEF rest
<1> QED
  BY <1>1, FetchFilingsIs, YieldsEnds, RaisesEnds DEF rest, Endings

\* A lookup comes to a result or an exception.
LEMMA OutcomeEnds ==
    ASSUME NEW q, q.service \in Service
    PROVE  Ends(Outcome(q))
<1>1. CASE q.service = "exa"
  <2>1. Ends(Exa(Final(q)))
    BY CheckedEnds, YieldsEnds, RaisesEnds DEF Exa, Endings
  <2> QED
    BY <1>1, <2>1, OutcomeExa
<1>2. CASE q.service = "apollo"
  <2>1. Ends(Apollo(Final(q)))
    BY CheckedEnds, YieldsEnds, RaisesEnds DEF Apollo, Endings
  <2> QED
    BY <1>2, <2>1, OutcomeApollo
<1>3. CASE q.service = "firecrawl"
  <2>1. Ends(Firecrawl(Final(q)))
    BY CheckedEnds, YieldsEnds, RaisesEnds DEF Firecrawl, Endings
  <2> QED
    BY <1>3, <2>1, OutcomeFirecrawl
<1>4. CASE q.service = "google_trends"
  <2>1. Ends(Trends(Final(q)))
    BY YieldsEnds, RaisesEnds DEF Trends, Endings
  <2> QED
    BY <1>4, <2>1, OutcomeTrends
<1>5. CASE q.service = "wappalyzer_oss"
  <2>1. Ends(Wappalyzer(Final(q)))
    BY YieldsEnds, RaisesEnds DEF Wappalyzer, Endings
  <2> QED
    BY <1>5, <2>1, OutcomeWappalyzer
<1>6. CASE q.service = "tickers"
  <2>1. Ends(Cik(q))
    BY CikEnds DEF Cik
  <2>2. Ends(Yields(Funding(None, << >>)))
    BY YieldsEnds
  <2> QED
    BY <1>6, <2>1, <2>2, OutcomeTickers
<1>7. CASE q.service = "submissions"
  <2>1. Ends(FetchFilings(Final(q)))
    BY FilingsEnd
  <2>2. Ends(Yields(Funding(Cik(q).result, FetchFilings(Final(q)).result)))
    BY YieldsEnds
  <2> QED
    BY <1>7, <2>1, <2>2, OutcomeSubmissions
<1>8. q.service \in {"exa", "apollo", "firecrawl", "google_trends", "wappalyzer_oss", "tickers",
                     "submissions"}
  BY DEF Service, FirstService
<1> QED
  BY <1>1, <1>2, <1>3, <1>4, <1>5, <1>6, <1>7, <1>8

\* It comes to the same wherever it stands and whatever its outcome was.
LEMMA OutcomeSame ==
    ASSUME NEW p, NEW q, p.service = q.service, p.service \in Service, p.heard = q.heard,
           p.arg = q.arg
    PROVE  Outcome(p) = Outcome(q) /\ (GoesOn(p) <=> GoesOn(q))
<1>1. Final(p) = Final(q)
  BY DEF Final
<1>2. Cik(p) = Cik(q)
  BY DEF Cik
<1>3. p.service \in {"exa", "apollo", "firecrawl", "google_trends", "wappalyzer_oss", "tickers",
                     "submissions"}
  BY DEF Service, FirstService
<1>4. ASSUME p.service \in {"exa", "apollo", "firecrawl"}
      PROVE  Outcome(p) = Outcome(q)
  BY <1>1, <1>4, OutcomeExa, OutcomeApollo, OutcomeFirecrawl
<1>5. ASSUME p.service \in {"google_trends", "wappalyzer_oss"}
      PROVE  Outcome(p) = Outcome(q)
  BY <1>1, <1>5, OutcomeTrends, OutcomeWappalyzer
<1>6. ASSUME p.service \in {"tickers", "submissions"}
      PROVE  Outcome(p) = Outcome(q)
  BY <1>1, <1>2, <1>6, OutcomeTickers, OutcomeSubmissions
<1>7. GoesOn(p) <=> GoesOn(q)
  BY <1>2 DEF GoesOn
<1> QED
  BY <1>3, <1>4, <1>5, <1>6, <1>7

LEMMA Services ==
    ASSUME NEW q, q.provider \in DOMAIN FirstService, FirstAsked(q) \/ FilingsAsked(q)
    PROVE  /\ q.service \in Service
           /\ FirstAsked(q) /\ q.service = "tickers" => q.provider = "sec_edgar"
           /\ FirstAsked(q) => q.service # "submissions"
  BY DEF Service, FirstService, FirstAsked, FilingsAsked

\* A lookup that has not ended ends with the next thing it hears, unless that
\* is its company.
LEMMA ConcludesStep ==
    ASSUME LookOK, HeardInv, NEW l \in Lookup, look[l].at \in {"waiting", "asking"},
           NEW reply \in Says(look[l].service), ~GoesOn(Heard(l, reply)), Concludes(l, reply)
    PROVE  HeardInv'
<1> DEFINE h == Heard(l, reply)
           e == Ended(h, Outcome(h))
<1>1. HeardOK(look[l])
  BY DEF HeardInv
<1>2. /\ Whole(look[l]) /\ Underway(look[l]) /\ look[l].provider \in DOMAIN FirstService
  BY <1>1 DEF HeardOK
<1>3. /\ Whole(h) /\ h.provider = look[l].provider /\ h.arg = look[l].arg
      /\ h.service = look[l].service /\ h.heard = Append(look[l].heard, reply)
  BY <1>2, HeardIs
<1>4. h.service \in Service
  BY <1>2, <1>3, Services DEF Underway
<1>5. ~GoesOn(h) /\ Becomes(l, e)
  BY DEF Concludes
<1> HIDE DEF h
<1>6. /\ Whole(e) /\ e.at = "ended" /\ e.outcome = Outcome(h)
      /\ e.provider = look[l].provider /\ e.arg = look[l].arg
      /\ e.service = look[l].service /\ e.heard = Append(look[l].heard, reply)
      /\ e.service = h.service /\ e.arg = h.arg /\ e.heard = h.heard
  BY <1>3, EndedIs
<1> HIDE DEF e
<1>7. Outcome(e) = Outcome(h) /\ ~GoesOn(e)
  BY <1>4, <1>5, <1>6, OutcomeSame
<1>8. Ends(e.outcome) /\ AskOf(e) \in Asks
  <2>1. Ends(Outcome(h))
    BY <1>4, OutcomeEnds
  <2>2. AskOf(e) = AskOf(look[l]) /\ AskOf(look[l]) \in Asks
    BY <1>1, <1>6 DEF AskOf, HeardOK
  <2> QED
    BY <1>6, <2>1, <2>2
<1>9. Answered(e)
  <2>1. CASE FirstAsked(look[l]) /\ look[l].heard = << >>
    <3>1. e.heard = <<reply>>
      BY <1>6, <2>1, Appends
    <3>2. FirstAsked(e) /\ reply \in Says(e.service)
      BY <1>6, <2>1 DEF FirstAsked
    <3> QED
      BY <1>6, <1>7, <3>1, <3>2 DEF Answered
  <2>2. ASSUME FilingsAsked(look[l]), NEW t \in Says("tickers"), look[l].heard = <<t>>,
               Knows(look[l].arg, t)
        PROVE  Answered(e)
    <3>1. e.heard = <<t, reply>>
      BY <1>6, <2>2, Appends
    <3>2. FilingsAsked(e) /\ reply \in Says("submissions") /\ Knows(e.arg, t)
      BY <1>6, <2>2 DEF FilingsAsked
    <3> QED
      BY <1>6, <1>7, <3>1, <3>2 DEF Answered
  <2> QED
    BY <1>2, <2>1, <2>2 DEF Underway
<1>10. HeardOK(e)
  <2>1. "ended" \in Stages
    BY DEF Stages
  <2> QED
    BY <1>2, <1>6, <1>8, <1>9, <2>1 DEF HeardOK
<1> QED
  BY <1>5, <1>10, HeardElsewhere

\* No reply is no company.
LEMMA LostIsNoCompany ==
    ASSUME HeardInv, NEW l \in Lookup, look[l].at \in {"waiting", "asking"}
    PROVE  ~GoesOn(Heard(l, Lost))
<1>1. /\ Whole(look[l]) /\ Underway(look[l]) /\ look[l].provider \in DOMAIN FirstService
  BY DEF HeardInv, HeardOK
<1> DEFINE h == Heard(l, Lost)
<1>2. h.service = look[l].service /\ h.heard = Append(look[l].heard, Lost)
  BY <1>1, HeardIs
<1> HIDE DEF h
<1>3. ASSUME h.service = "tickers" PROVE Cik(h).raised = "other"
  <2>1. look[l].heard = << >>
    BY <1>1, <1>2, <1>3 DEF Underway, FilingsAsked
  <2>2. h.heard[1] = Lost
    BY <1>2, <2>1, Appends
  <2> QED
    BY <2>2 DEF Cik, FindCik, Raises
<1>4. ~GoesOn(h)
  BY <1>3 DEF GoesOn
<1> QED
  BY <1>4 DEF h
----------------------------------------------------------------------------
(* The steps of a lookup, seen from what it hears. *)

LEMMA QueuedElsewhere ==
    ASSUME ExecInv, QueuedInv, NEW l \in Lookup, NEW q, Becomes(l, q), q.at # "waiting",
           running \ {l} \subseteq running', UNCHANGED queue
    PROVE  QueuedInv'
<1> SUFFICES ASSUME NEW k \in Lookup, look'[k].at = "waiting"
             PROVE  k \in running' \/ \E i \in 1..Len(queue') : queue'[i] = k
  BY DEF QueuedInv
<1>1. look'[l] = q
  BY DEF ExecInv, LookOK, Becomes
<1>2. k # l
  BY <1>1
<1>3. look'[k] = look[k]
  BY <1>2, Alone DEF ExecInv
<1> QED
  BY <1>2, <1>3 DEF QueuedInv

LEMMA QueuedJoins ==
    ASSUME ExecInv, QueuedInv, NEW l \in Lookup, NEW q, Becomes(l, q),
           queue' = Append(queue, l), UNCHANGED running
    PROVE  QueuedInv'
<1> SUFFICES ASSUME NEW k \in Lookup, look'[k].at = "waiting"
             PROVE  k \in running' \/ \E i \in 1..Len(queue') : queue'[i] = k
  BY DEF QueuedInv
<1>1. /\ queue' \in Seq(Lookup) /\ Len(queue') = Len(queue) + 1 /\ Len(queue) \in Nat
      /\ \A i \in 1..Len(queue) : queue'[i] = queue[i]
      /\ queue'[Len(queue) + 1] = l
  BY DEF ExecInv, JobsOK
<1>2. CASE k = l
  BY <1>1, <1>2
<1>3. CASE k # l
  <2>1. look'[k] = look[k]
    BY <1>3, Alone DEF ExecInv
  <2>2. k \in running \/ \E i \in 1..Len(queue) : queue[i] = k
    BY <2>1 DEF QueuedInv
  <2>3. ASSUME NEW i \in 1..Len(queue), queue[i] = k
        PROVE  i \in 1..Len(queue') /\ queue'[i] = k
    BY <1>1, <2>3
  <2> QED
    BY <2>2, <2>3
<1> QED
  BY <1>2, <1>3

LEMMA StartHeard ==
    ASSUME LookupInv, NEW l \in Lookup, Start(l)
    PROVE  HeardInv' /\ QueuedInv'
<1> USE DEF LookupInv
<1>1. PICK m \in Menu[l] :
          LET q == [look[l] EXCEPT !.provider = m.provider, !.arg = m.arg]
          IN  \/ /\ Becomes(l, Ended(q, Raises("ValueError")))
                 /\ UNCHANGED queue
              \/ /\ Becomes(l, Submitted(q, FirstService[m.provider]))
                 /\ queue' = Append(queue, l)
  BY DEF Start
<1> DEFINE q == [look[l] EXCEPT !.provider = m.provider, !.arg = m.arg]
           f == Ended(q, Raises("ValueError"))
           g == Submitted(q, FirstService[m.provider])
<1>2. HeardOK(look[l]) /\ look[l].at = "new" /\ running' = running
  BY DEF HeardInv, Start
<1>3. /\ Whole(q) /\ q.provider = m.provider /\ q.heard = << >> /\ q.outcome = Pending
  BY <1>2 DEF HeardOK, Whole
<1>4. m.provider \in DOMAIN FirstService /\ AskOf(m) \in Asks /\ q.arg = m.arg
  <2>1. AskOf(m) \in Asks
    BY DEF Asks
  <2>2. q.arg = m.arg
    BY <1>2 DEF HeardOK, Whole
  <2> QED
    BY <2>1, <2>2, ProvidersAssumption
<1>5. \/ Becomes(l, f) /\ UNCHANGED queue
      \/ Becomes(l, g) /\ queue' = Append(queue, l)
  BY <1>1
<1> HIDE DEF q
<1>6. HeardOK(f) /\ f.at # "waiting"
  <2>1. /\ Whole(f) /\ f.at = "ended" /\ f.outcome = Raises("ValueError")
        /\ f.provider = m.provider /\ f.arg = m.arg
    BY <1>3, <1>4, EndedIs
  <2> HIDE DEF f
  <2>2. Ends(f.outcome) /\ f.outcome.raised = "ValueError"
    BY <2>1, RaisesEnds DEF Raises, Endings
  <2>3. AskOf(f) = AskOf(m)
    BY <2>1 DEF AskOf
  <2> QED
    BY <1>4, <2>1, <2>2, <2>3 DEF HeardOK, Stages
<1>7. HeardOK(g)
  <2>1. /\ Whole(g) /\ g.at = "waiting" /\ g.outcome = Pending /\ g.provider = m.provider
        /\ g.service = FirstService[m.provider] /\ g.heard = << >> /\ g.arg = m.arg
    BY <1>3, <1>4, SubmittedIs
  <2> HIDE DEF g
  <2>2. AskOf(g) = AskOf(m)
    BY <2>1 DEF AskOf
  <2> QED
    BY <1>4, <2>1, <2>2 DEF HeardOK, Stages, Underway, FirstAsked
<1> HIDE DEF f, g
<1>8. CASE Becomes(l, f) /\ UNCHANGED queue
  <2>1. HeardInv'
    BY <1>6, <1>8, HeardElsewhere DEF ExecInv
  <2>2. QueuedInv'
    BY <1>2, <1>6, <1>8, QueuedElsewhere
  <2> QED
    BY <2>1, <2>2
<1>9. CASE Becomes(l, g) /\ queue' = Append(queue, l)
  <2>1. HeardInv'
    BY <1>7, <1>9, HeardElsewhere DEF ExecInv
  <2>2. QueuedInv'
    BY <1>2, <1>9, QueuedJoins
  <2> QED
    BY <2>1, <2>2
<1> QED
  BY <1>5, <1>8, <1>9

\* The last thing heard leaves nobody waiting.
LEMMA ConcludesQueued ==
    ASSUME LookupInv, NEW l \in Lookup, NEW reply, Concludes(l, reply),
           running \ {l} \subseteq running', UNCHANGED queue
    PROVE  QueuedInv'
<1> USE DEF LookupInv
<1> DEFINE h == Heard(l, reply)
           e == Ended(h, Outcome(h))
<1>1. Whole(look[l])
  BY DEF HeardInv, HeardOK
<1>2. Whole(h)
  BY <1>1, HeardIs
<1>3. Becomes(l, e)
  BY DEF Concludes
<1> HIDE DEF h
<1>4. e.at # "waiting"
  BY <1>2, EndedIs
<1> HIDE DEF e
<1> QED
  BY <1>3, <1>4, QueuedElsewhere

LEMMA ResolvedHeard ==
    ASSUME LookupInv, NEW l \in Lookup, Resolved(l)
    PROVE  HeardInv' /\ QueuedInv'
<1> USE DEF LookupInv
<1>1. /\ l \in running /\ running' = running \ {l} /\ UNCHANGED queue
      /\ look[l].service \notin Threaded /\ HeardOK(look[l])
  BY DEF Resolved, HeardInv
<1>2. CASE look[l].at = "waiting" /\ Becomes(l, [look[l] EXCEPT !.at = "asking"])
  <2> DEFINE q == [look[l] EXCEPT !.at = "asking"]
  <2>1. Whole(look[l]) /\ Becomes(l, q)
    BY <1>1, <1>2 DEF HeardOK
  <2>2. /\ Whole(q) /\ q.at = "asking" /\ q.outcome = look[l].outcome
        /\ q.provider = look[l].provider /\ q.arg = look[l].arg
        /\ q.service = look[l].service /\ q.heard = look[l].heard
    BY <2>1, MovedIs
  <2> HIDE DEF q
  <2>3. HeardOK(q)
    BY <1>1, <1>2, <2>2 DEF HeardOK, Stages, Underway, FirstAsked, FilingsAsked, AskOf
  <2>4. HeardInv'
    BY <2>1, <2>3, HeardElsewhere DEF ExecInv
  <2>5. QueuedInv'
    BY <1>1, <2>1, <2>2, QueuedElsewhere
  <2> QED
    BY <2>4, <2>5
<1>3. CASE look[l].at = "waiting" /\ Concludes(l, Lost)
  <2>1. Lost \in Says(look[l].service)
    BY <1>1 DEF Says
  <2>2. HeardInv'
    BY <1>3, <2>1, LostIsNoCompany, ConcludesStep DEF ExecInv
  <2>3. QueuedInv'
    BY <1>1, <1>3, ConcludesQueued
  <2> QED
    BY <2>2, <2>3
<1>4. CASE look[l].at # "waiting" /\ UNCHANGED look
  <2>1. HeardInv'
    BY <1>4 DEF HeardInv
  <2>2. QueuedInv'
    BY <1>1, <1>4 DEF QueuedInv
  <2> QED
    BY <2>1, <2>2
<1> QED
  BY <1>2, <1>3, <1>4 DEF Resolved

LEMMA WorkedHeard ==
    ASSUME LookupInv, NEW l \in Lookup, Worked(l)
    PROVE  HeardInv' /\ QueuedInv'
<1> USE DEF LookupInv
<1>1. /\ l \in running /\ running' = running \ {l} /\ UNCHANGED queue
      /\ look[l].service \in Threaded /\ HeardOK(look[l])
  BY DEF Worked, HeardInv
<1>2. ASSUME look[l].at = "waiting", NEW found \in World[look[l].service], Concludes(l, found)
      PROVE  HeardInv' /\ QueuedInv'
  <2>1. found \in Says(look[l].service)
    BY <1>2 DEF Says
  <2>2. /\ Whole(look[l]) /\ look[l].service # "tickers"
    BY <1>1 DEF Threaded, HeardOK
  <2>3. ~GoesOn(Heard(l, found))
    BY <2>2, HeardIs DEF GoesOn
  <2>4. HeardInv'
    BY <1>2, <2>1, <2>3, ConcludesStep DEF ExecInv
  <2>5. QueuedInv'
    BY <1>1, <1>2, ConcludesQueued
  <2> QED
    BY <2>4, <2>5
<1>3. CASE look[l].at # "waiting" /\ UNCHANGED look
  <2>1. HeardInv'
    BY <1>3 DEF HeardInv
  <2>2. QueuedInv'
    BY <1>1, <1>3 DEF QueuedInv
  <2> QED
    BY <2>1, <2>2
<1> QED
  BY <1>2, <1>3 DEF Worked

LEMMA TimesOutHeard ==
    ASSUME LookupInv, NEW l \in Lookup, TimesOut(l)
    PROVE  HeardInv' /\ QueuedInv'
<1> USE DEF LookupInv
<1>1. /\ look[l].at = "waiting" /\ GivesUp(l) /\ UNCHANGED <<queue, running>> /\ HeardOK(look[l])
  BY DEF TimesOut, HeardInv
<1>2. CASE Becomes(l, Ended(look[l], Raises("RuntimeError")))
  <2> DEFINE e == Ended(look[l], Raises("RuntimeError"))
  <2>1. /\ Whole(e) /\ e.at = "ended" /\ e.outcome = Raises("RuntimeError")
        /\ e.provider = look[l].provider /\ e.arg = look[l].arg
    BY <1>1, EndedIs DEF HeardOK
  <2>2. Becomes(l, e)
    BY <1>2
  <2> HIDE DEF e
  <2>3. Ends(e.outcome) /\ e.outcome.raised = "RuntimeError"
    BY <2>1, RaisesEnds DEF Raises, Endings
  <2>4. HeardOK(e)
    BY <1>1, <2>1, <2>3 DEF HeardOK, Stages, AskOf
  <2>5. HeardInv'
    BY <2>2, <2>4, HeardElsewhere DEF ExecInv
  <2>6. QueuedInv'
    BY <1>1, <2>1, <2>2, QueuedElsewhere
  <2> QED
    BY <2>5, <2>6
<1>3. CASE look[l].service \notin Threaded /\ Concludes(l, Lost)
  <2>1. Lost \in Says(look[l].service)
    BY <1>3 DEF Says
  <2>2. HeardInv'
    BY <1>1, <1>3, <2>1, LostIsNoCompany, ConcludesStep DEF ExecInv
  <2>3. QueuedInv'
    BY <1>1, <1>3, ConcludesQueued
  <2> QED
    BY <2>2, <2>3
<1> QED
  BY <1>1, <1>2, <1>3 DEF GivesUp

LEMMA RepliedHeard ==
    ASSUME LookupInv, NEW l \in Lookup, Replied(l)
    PROVE  HeardInv' /\ QueuedInv'
<1> USE DEF LookupInv
<1>1. /\ look[l].at = "asking" /\ UNCHANGED running /\ HeardOK(look[l])
  BY DEF Replied, HeardInv
<1>2. look[l].service \notin Threaded /\ Whole(look[l])
  BY <1>1 DEF HeardOK
<1>3. PICK reply \in World[look[l].service] \cup {Lost, Odd} :
          \/ /\ GoesOn(Heard(l, reply))
             /\ Becomes(l, Submitted(Heard(l, reply), "submissions"))
             /\ queue' = Append(queue, l)
          \/ /\ ~GoesOn(Heard(l, reply))
             /\ Concludes(l, reply)
             /\ UNCHANGED queue
  BY DEF Replied
<1>4. reply \in Says(look[l].service)
  BY <1>2 DEF Says
<1>5. CASE /\ GoesOn(Heard(l, reply))
           /\ Becomes(l, Submitted(Heard(l, reply), "submissions"))
           /\ queue' = Append(queue, l)
  <2> DEFINE h == Heard(l, reply)
             q == Submitted(h, "submissions")
  <2>1. /\ Whole(h) /\ h.provider = look[l].provider /\ h.arg = look[l].arg
        /\ h.service = look[l].service /\ h.heard = Append(look[l].heard, reply)
        /\ h.outcome = look[l].outcome
    BY <1>2, HeardIs
  <2>2. GoesOn(h) /\ Becomes(l, q)
    BY <1>5
  <2> HIDE DEF h
  <2>3. /\ Whole(q) /\ q.at = "waiting" /\ q.outcome = look[l].outcome
        /\ q.provider = look[l].provider /\ q.arg = look[l].arg
        /\ q.service = "submissions" /\ q.heard = Append(look[l].heard, reply)
    BY <2>1, SubmittedIs
  <2> HIDE DEF q
  <2>4. /\ look[l].service = "tickers" /\ Underway(look[l])
        /\ look[l].provider \in DOMAIN FirstService /\ look[l].outcome = Pending
        /\ AskOf(q) \in Asks
    BY <1>1, <2>1, <2>2, <2>3 DEF GoesOn, HeardOK, AskOf
  <2>5. look[l].heard = << >> /\ look[l].provider = "sec_edgar"
    BY <2>4, Services DEF Underway, FilingsAsked
  <2>6. q.heard = <<reply>> /\ h.heard = <<reply>>
    BY <2>1, <2>3, <2>5, Appends
  <2>7. Knows(q.arg, reply)
    BY <2>1, <2>2, <2>3, <2>6 DEF GoesOn, Cik, Knows
  <2>8. reply \in Says("tickers")
    BY <1>4, <2>4
  <2>9. Underway(q)
    BY <2>3, <2>5, <2>6, <2>7, <2>8 DEF Underway, FilingsAsked
  <2>10. HeardOK(q)
    BY <2>3, <2>4, <2>9 DEF HeardOK, Stages
  <2>11. HeardInv'
    BY <2>2, <2>10, HeardElsewhere DEF ExecInv
  <2>12. QueuedInv'
    BY <1>1, <1>5, <2>2, QueuedJoins
  <2> QED
    BY <2>11, <2>12
<1>6. CASE ~GoesOn(Heard(l, reply)) /\ Concludes(l, reply) /\ UNCHANGED queue
  <2>1. HeardInv'
    BY <1>1, <1>4, <1>6, ConcludesStep DEF ExecInv
  <2>2. QueuedInv'
    BY <1>1, <1>6, ConcludesQueued
  <2> QED
    BY <2>1, <2>2
<1> QED
  BY <1>3, <1>5, <1>6

LEMMA NeverCompleteHeard ==
    ASSUME LookupInv, NEW l \in Lookup, NeverComplete(l)
    PROVE  HeardInv' /\ QueuedInv'
<1> USE DEF LookupInv
<1> DEFINE q == [look[l] EXCEPT !.at = "endless"]
<1>1. /\ look[l].at = "asking" /\ HeardOK(look[l]) /\ Becomes(l, q)
      /\ UNCHANGED <<queue, running>>
  BY DEF NeverComplete, HeardInv
<1>2. /\ Whole(q) /\ q.at = "endless" /\ q.outcome = look[l].outcome
      /\ q.provider = look[l].provider /\ q.arg = look[l].arg
      /\ q.service = look[l].service /\ q.heard = look[l].heard
  BY <1>1, MovedIs DEF HeardOK
<1> HIDE DEF q
<1>3. HeardOK(q)
  BY <1>1, <1>2 DEF HeardOK, Stages, Underway, FirstAsked, FilingsAsked, AskOf
<1>4. HeardInv'
  BY <1>1, <1>3, HeardElsewhere DEF ExecInv
<1>5. QueuedInv'
  BY <1>1, <1>2, QueuedElsewhere
<1> QED
  BY <1>4, <1>5

LEMMA TakesHeard ==
    ASSUME LookupInv, Taken
    PROVE  HeardInv' /\ QueuedInv'
<1> USE DEF LookupInv
<1>1. HeardInv'
  BY DEF Taken, HeardInv
<1>2. ASSUME NEW k \in Lookup, look'[k].at = "waiting"
      PROVE  k \in running' \/ \E i \in 1..Len(queue') : queue'[i] = k
  <2>1. /\ queue \in Seq(Lookup) /\ queue # << >> /\ Head(queue) = queue[1]
        /\ 1 \in 1..Len(queue)
    BY DEF ExecInv, JobsOK, Taken
  <2>2. /\ queue' \in Seq(Lookup) /\ Len(queue') = Len(queue) - 1
        /\ \A i \in 1..Len(queue') : queue'[i] = queue[i + 1]
    BY <2>1 DEF Taken
  <2>3. k \notin cancelled
    BY <1>2 DEF ExecInv, WaitsOK, Taken
  <2>4. k \in running \/ \E i \in 1..Len(queue) : queue[i] = k
    BY <1>2 DEF QueuedInv, Taken
  <2>5. CASE k \in running \/ k = queue[1]
    BY <2>1, <2>3, <2>5 DEF Taken
  <2>6. ASSUME NEW i \in 1..Len(queue), queue[i] = k, i # 1
        PROVE  i - 1 \in 1..Len(queue') /\ queue'[i - 1] = k
    BY <2>1, <2>2, <2>6
  <2> QED
    BY <2>4, <2>5, <2>6
<1> QED
  BY <1>1, <1>2 DEF QueuedInv

LEMMA LookupStep == LookupInv /\ [Next]_vars => LookupInv'
<1> SUFFICES ASSUME LookupInv, [Next]_vars PROVE LookupInv'
  OBVIOUS
<1>1. ExecInv'
  BY ExecStep DEF LookupInv
<1>2. HeardInv' /\ QueuedInv'
  <2>1. CASE Taken
    BY <2>1, TakesHeard
  <2>2. ASSUME NEW l \in Lookup, Start(l) PROVE HeardInv' /\ QueuedInv'
    BY <2>2, StartHeard
  <2>3. ASSUME NEW l \in Lookup, Resolved(l) PROVE HeardInv' /\ QueuedInv'
    BY <2>3, ResolvedHeard
  <2>4. ASSUME NEW l \in Lookup, Worked(l) PROVE HeardInv' /\ QueuedInv'
    BY <2>4, WorkedHeard
  <2>5. ASSUME NEW l \in Lookup, TimesOut(l) PROVE HeardInv' /\ QueuedInv'
    BY <2>5, TimesOutHeard
  <2>6. ASSUME NEW l \in Lookup, Replied(l) PROVE HeardInv' /\ QueuedInv'
    BY <2>6, RepliedHeard
  <2>7. ASSUME NEW l \in Lookup, NeverComplete(l) PROVE HeardInv' /\ QueuedInv'
    BY <2>7, NeverCompleteHeard
  <2>8. CASE UNCHANGED vars
    BY <2>8 DEF vars, LookupInv, HeardInv, QueuedInv
  <2> QED
    BY <2>1, <2>2, <2>3, <2>4, <2>5, <2>6, <2>7, <2>8 DEF Next
<1> QED
  BY <1>1, <1>2 DEF LookupInv

LEMMA LookupInit == Init => LookupInv
<1> SUFFICES ASSUME Init PROVE LookupInv
  OBVIOUS
<1>1. ExecInv
  BY ExecInit
<1>2. HeardOK(Unasked) /\ Unasked.at = "new"
  BY DEF HeardOK, Whole, Stages, Unasked
<1>3. \A l \in Lookup : look[l] = Unasked
  BY DEF Init
<1>4. HeardInv
  BY <1>2, <1>3 DEF HeardInv
<1>5. QueuedInv
  BY <1>2, <1>3 DEF QueuedInv
<1> QED
  BY <1>1, <1>4, <1>5 DEF LookupInv

\* Every answer is what the provider makes of what it was told by the services
\* it is to ask, and whoever waits for a thread has a job that can get one,
\* whatever was given up on meanwhile (sec_edgar.py:49-78,
\* google_trends.py:59-74).
THEOREM AnswersAreHeard == Spec => []LookupInv
<1> QED
  BY LookupInit, LookupStep, PTL DEF Spec
----------------------------------------------------------------------------
(* What an answer says of the replies. *)

LEMMA Answers ==
    ASSUME LookupInv, NEW l \in Lookup, Succeeded(l)
    PROVE  /\ Answered(look[l]) /\ look[l].provider \in DOMAIN FirstService
           /\ look[l].service \in Service
           /\ Outcome(look[l]).raised = "nothing" /\ Result(l) = Outcome(look[l]).result
<1>1. Answered(look[l]) /\ look[l].provider \in DOMAIN FirstService
  BY DEF LookupInv, HeardInv, HeardOK, Succeeded
<1>2. FirstAsked(look[l]) \/ FilingsAsked(look[l])
  BY <1>1 DEF Answered
<1> QED
  BY <1>1, <1>2, Services DEF Answered, Succeeded, Result

LEMMA Only ==
    ASSUME NEW x, NEW y
    PROVE  /\ Len(<<x>>) = 1 /\ <<x>>[1] = x /\ DOMAIN <<x>> = {1}
           /\ Len(<<x, y>>) = 2 /\ <<x, y>>[1] = x /\ <<x, y>>[2] = y /\ DOMAIN <<x, y>> = {1, 2}
  OBVIOUS

\* A reply that is one, of success, with a body that can be read.
Good(reply) == reply \notin {Lost, Odd} /\ reply.status < 400 /\ reply.body # NotJson

LEMMA CheckedGood ==
    ASSUME NEW service \in Service \ Threaded, NEW reply \in Says(service),
           Checked(reply).raised = "nothing"
    PROVE  Good(reply)
<1>1. reply # Lost /\ reply # Odd
  BY DEF Checked, Raises
<1>2. reply.status \in Nat
  BY <1>1, WorldAssumption DEF Says
<1>3. ~(reply.status >= 400)
  BY <1>1 DEF Checked, Raises
<1>4. reply.body # NotJson
  BY <1>1, <1>3 DEF Checked, Raises
<1> QED
  BY <1>1, <1>2, <1>3, <1>4 DEF Good

LEMMA CikGood ==
    ASSUME NEW needle, NEW reply, FindCik(needle, reply).raised = "nothing"
    PROVE  Good(reply) /\ reply.status = 200
<1>1. reply \notin {Lost, Odd} /\ reply.status = 200
  BY DEF FindCik, Raises
<1>2. reply.body # NotJson
  BY <1>1 DEF FindCik, Raises
<1> QED
  BY <1>1, <1>2 DEF Good

LEMMA FilingsGood ==
    ASSUME NEW reply, FetchFilings(reply).raised = "nothing"
    PROVE  /\ reply \notin {Lost, Odd} /\ reply.status \in {200, 404}
           /\ reply.status = 200 => reply.body \notin {NotJson, NotObject}
<1>1. reply \notin {Lost, Odd} /\ reply.status \in {200, 404}
  BY FetchFilingsIs DEF Raises
<1>2. reply.status = 200 => reply.body \notin {NotJson, NotObject}
  BY <1>1, FetchFilingsIs DEF Raises
<1> QED
  BY <1>1, <1>2

\* What an HTTP provider answered with: one good reply, or two of EDGAR, the
\* second perhaps of a company without filings.
LEMMA AnswerHeard ==
    ASSUME LookupInv, NEW l \in Lookup, Succeeded(l), look[l].service \notin Threaded
    PROVE  \/ \E r : look[l].heard = <<r>> /\ Good(r)
           \/ \E t, r : /\ look[l].heard = <<t, r>> /\ Good(t)
                        /\ r \notin {Lost, Odd} /\ r.status \in {200, 404}
                        /\ r.status = 200 => r.body # NotJson
<1>1. /\ Answered(look[l]) /\ look[l].provider \in DOMAIN FirstService
      /\ look[l].service \in Service /\ Outcome(look[l]).raised = "nothing"
  BY Answers
<1>2. ASSUME FirstAsked(look[l]), NEW r \in Says(look[l].service), look[l].heard = <<r>>
      PROVE  Good(r)
  <2>1. Final(look[l]) = r /\ look[l].heard[1] = r
    BY <1>2, Only DEF Final
  <2>2. CASE look[l].service = "exa"
    <3>1. Exa(r).raised = "nothing"
      BY <1>1, <2>1, <2>2, OutcomeExa
    <3>2. Checked(r).raised = "nothing"
      BY <3>1 DEF Exa
    <3> QED
      BY <1>1, <1>2, <3>2, CheckedGood
  <2>3. CASE look[l].service = "apollo"
    <3>1. Apollo(r).raised = "nothing"
      BY <1>1, <2>1, <2>3, OutcomeApollo
    <3>2. Checked(r).raised = "nothing"
      BY <3>1 DEF Apollo
    <3> QED
      BY <1>1, <1>2, <3>2, CheckedGood
  <2>4. CASE look[l].service = "firecrawl"
    <3>1. Firecrawl(r).raised = "nothing"
      BY <1>1, <2>1, <2>4, OutcomeFirecrawl
    <3>2. Checked(r).raised = "nothing"
      BY <3>1 DEF Firecrawl
    <3> QED
      BY <1>1, <1>2, <3>2, CheckedGood
  <2>5. CASE look[l].service = "tickers"
    <3>1. Cik(look[l]).raised = "nothing"
      BY <1>1, <2>5, OutcomeTickers
    <3> QED
      BY <2>1, <3>1, CikGood DEF Cik
  <2>6. look[l].service \in {"exa", "apollo", "firecrawl", "tickers"}
    BY <1>1, <1>2, Services DEF Service, FirstService, Threaded
  <2> QED
    BY <2>2, <2>3, <2>4, <2>5, <2>6
<1>3. ASSUME FilingsAsked(look[l]), NEW t, NEW r, look[l].heard = <<t, r>>, Knows(look[l].arg, t)
      PROVE  /\ Good(t) /\ r \notin {Lost, Odd} /\ r.status \in {200, 404}
             /\ r.status = 200 => r.body # NotJson
  <2>1. Good(t)
    BY <1>3, CikGood DEF Knows
  <2>2. Final(look[l]) = r
    BY <1>3, Only DEF Final
  <2>3. FetchFilings(r).raised = "nothing"
    BY <1>1, <1>3, <2>2, OutcomeSubmissions DEF FilingsAsked
  <2> QED
    BY <2>1, <2>3, FilingsGood
<1> QED
  BY <1>1, <1>2, <1>3 DEF Answered

LEMMA Refusals == LookupInv => RefusalsNeverAnswer
<1> SUFFICES ASSUME LookupInv, NEW l \in Lookup, Succeeded(l), look[l].service \notin Threaded,
                    NEW i \in DOMAIN look[l].heard
             PROVE  LET reply == look[l].heard[i]
                    IN  /\ reply \notin {Lost, Odd}
                        /\ reply.status < 400 \/ (i = 2 /\ reply.status = 404)
                        /\ reply.status < 400 => reply.body # NotJson
  BY DEF RefusalsNeverAnswer
<1>1. CASE \E r : look[l].heard = <<r>> /\ Good(r)
  BY <1>1, Only DEF Good
<1>2. ASSUME NEW t, NEW r, look[l].heard = <<t, r>>, Good(t),
             r \notin {Lost, Odd}, r.status \in {200, 404},
             r.status = 200 => r.body # NotJson
      PROVE  \/ i = 1 /\ Good(look[l].heard[i])
             \/ i = 2 /\ look[l].heard[i] = r
  BY <1>2, Only
<1> QED
  BY <1>1, <1>2, AnswerHeard DEF Good

\* A provider that is unreachable, or refuses, never turns into an answer:
\* neither by its first reply nor, at EDGAR, by its second (exa.py:71-85 and
\* its like, sec_edgar.py:91, 123-125).
THEOREM RefusedNeverAnswers == Spec => []RefusalsNeverAnswer
<1> QED
  BY AnswersAreHeard, Refusals, PTL

LEMMA TrendsHeard ==
    ASSUME LookupInv, NEW l \in Lookup, Succeeded(l), look[l].provider = "google_trends"
    PROVE  \E told \in World["google_trends"] :
               look[l].heard[1] = told /\ told.ready /\ Result(l) = Trends(told).result
<1>1. /\ Answered(look[l]) /\ Outcome(look[l]).raised = "nothing"
      /\ Result(l) = Outcome(look[l]).result
  BY Answers
<1>2. PICK told \in Says(look[l].service) : FirstAsked(look[l]) /\ look[l].heard = <<told>>
  BY <1>1 DEF Answered, FilingsAsked
<1>3. look[l].service = "google_trends"
  BY <1>2 DEF FirstAsked, FirstService
<1>4. told \in World["google_trends"]
  BY <1>2, <1>3 DEF Says, Threaded
<1>5. Final(look[l]) = told /\ look[l].heard[1] = told
  BY <1>2, Only DEF Final
<1>6. Outcome(look[l]) = Trends(told)
  BY <1>3, <1>5, OutcomeTrends
<1>7. told.ready
  BY <1>1, <1>6 DEF Trends, Raises
<1> QED
  BY <1>1, <1>4, <1>5, <1>6, <1>7

LEMMA Noted == LookupInv => FailuresNoted
<1> SUFFICES ASSUME LookupInv, NEW l \in Lookup, Succeeded(l), look[l].provider = "google_trends"
             PROVE  LET told == look[l].heard[1]
                    IN  /\ told.interest = Fails => "interest" \in Result(l).notes
                        /\ told.related = Fails => "related" \in Result(l).notes
  BY DEF FailuresNoted
<1>1. PICK told : look[l].heard[1] = told /\ told.ready /\ Result(l) = Trends(told).result
  BY TrendsHeard
<1> QED
  BY <1>1 DEF Trends, Yields

\* A query of Google that failed is owned up to in the notes of the answer
\* (google_trends.py:117-137).
THEOREM FailuresAreNoted == Spec => []FailuresNoted
<1> QED
  BY AnswersAreHeard, Noted, PTL
----------------------------------------------------------------------------
(* The company. *)

LEMMA MinIs ==
    ASSUME NEW S \in SUBSET Nat, S # {}
    PROVE  Min(S) \in S /\ \A k \in S : Min(S) =< k
<1>1. \E m \in S : \A k \in S : m =< k
  BY Least
<1> QED
  BY <1>1 DEF Min

\* What MatchJustified says of the company c.
Justified(needle, dump, c) ==
    LET listed == Range(dump) \ {Junk}
    IN  \/ c = None /\ \A e \in listed : e.ticker # needle /\ ~(needle \subseteq e.title)
        \/ c \in listed /\ needle \in {c.ticker, c.title}
        \/ c \in listed /\ needle \subseteq c.title
             /\ \A e \in listed :
                   /\ needle \notin {e.ticker, e.title}
                   /\ needle \subseteq e.title => Cardinality(c.title) =< Cardinality(e.title)

LEMMA Matches ==
    ASSUME NEW needle, NEW dump, IsList(dump),
           \A e \in Range(dump) \ {Junk} : IsFiniteSet(e.title)
    PROVE  Justified(needle, dump, Match(needle, dump))
<1> DEFINE usable == {i \in DOMAIN dump : dump[i] # Junk}
           exact == {i \in usable : Named(dump[i], needle)}
           partial == {i \in usable : needle \subseteq dump[i].title}
           Size(i) == Cardinality(dump[i].title)
           best == {i \in partial : \A j \in partial : Size(i) =< Size(j)}
           listed == Range(dump) \ {Junk}
<1>1. usable \in SUBSET Nat
  BY DEF IsList
<1>2. listed = {dump[i] : i \in usable}
  BY DEF Range
<1>3. Match(needle, dump) = IF exact # {} THEN dump[Min(exact)]
                            ELSE IF partial # {} THEN dump[Min(best)]
                            ELSE None
  BY Zenon DEF Match
<1>4. \A i \in usable : Size(i) \in Nat
  BY <1>2, FS_CardinalityType
<1>5. ASSUME exact # {}
      PROVE  Justified(needle, dump, dump[Min(exact)])
  <2>1. Min(exact) \in exact
    BY <1>1, <1>5, MinIs
  <2> HIDE DEF exact
  <2>2. Min(exact) \in usable /\ Named(dump[Min(exact)], needle)
    BY <2>1 DEF exact
  <2>3. dump[Min(exact)] \in listed
    BY <1>2, <2>2
  <2> QED
    BY <2>2, <2>3, Zenon DEF Justified, Named
<1>6. ASSUME exact = {}
      PROVE  \A e \in listed : needle \notin {e.ticker, e.title}
  BY <1>2, <1>6 DEF Named
<1>7. ASSUME exact = {}, partial # {}
      PROVE  Justified(needle, dump, dump[Min(best)])
  <2>1. best # {}
    <3> DEFINE sizes == {Size(i) : i \in partial}
    <3> HIDE DEF usable
    <3>1. sizes \in SUBSET Nat /\ sizes # {}
      BY <1>4, <1>7
    <3>2. PICK m \in sizes : \A k \in sizes : m =< k
      BY <3>1, Least
    <3> HIDE DEF Size
    <3>3. PICK i \in partial : m = Size(i)
      OBVIOUS
    <3>4. \A j \in partial : Size(i) =< Size(j)
      BY <3>2, <3>3
    <3> QED
      BY <3>3, <3>4
  <2>2. Min(best) \in best
    <3>1. best \in SUBSET Nat
      BY <1>1
    <3> QED
      BY <2>1, <3>1, MinIs
  <2> HIDE DEF usable, best
  <2>3. Min(best) \in partial /\ \A j \in partial : Size(Min(best)) =< Size(j)
    BY <2>2 DEF best
  <2> DEFINE c == dump[Min(best)]
  <2>4. c \in listed /\ needle \subseteq c.title
    BY <1>2, <2>3
  <2>5. ASSUME NEW e \in listed, needle \subseteq e.title
        PROVE  Cardinality(c.title) =< Cardinality(e.title)
    <3>1. PICK j \in usable : e = dump[j]
      BY <1>2
    <3>2. j \in partial
      BY <2>5, <3>1
    <3> QED
      BY <2>3, <3>1, <3>2
  <2> HIDE DEF c
  <2>6. Justified(needle, dump, c)
    BY <1>6, <1>7, <2>4, <2>5, Zenon DEF Justified
  <2> QED
    BY <2>6 DEF c
<1>8. ASSUME exact = {}, partial = {}
      PROVE  Justified(needle, dump, None)
  <2>1. ASSUME NEW e \in listed PROVE e.ticker # needle /\ ~(needle \subseteq e.title)
    BY <1>2, <1>6, <1>8, <2>1
  <2> QED
    BY <2>1, Zenon DEF Justified
<1> HIDE DEF usable, exact, partial, best
<1>9. CASE exact # {}
  BY <1>3, <1>5, <1>9
<1>10. CASE exact = {} /\ partial # {}
  BY <1>3, <1>7, <1>10
<1>11. CASE exact = {} /\ partial = {}
  BY <1>3, <1>8, <1>11
<1> QED
  BY <1>9, <1>10, <1>11

LEMMA Found ==
    ASSUME NEW needle, NEW t \in Says("tickers"), FindCik(needle, t).raised = "nothing",
           t.body # NotObject
    PROVE  Justified(needle, t.body.dump, FindCik(needle, t).result)
<1>1. Good(t) /\ t.status = 200
  BY CikGood
<1>2. FindCik(needle, t).result = Match(needle, t.body.dump)
  BY <1>1 DEF FindCik, Good, Yields
<1>3. t \in World["tickers"]
  BY <1>1 DEF Says, Good
<1>4. IsList(t.body.dump) /\ \A e \in Range(t.body.dump) \ {Junk} : IsFiniteSet(e.title)
  BY <1>1, <1>3, WorldAssumption DEF Good
<1> QED
  BY <1>2, <1>4, Matches

LEMMA FundingIs ==
    ASSUME NEW company, NEW filings
    PROVE  /\ Yields(Funding(company, filings)).result.company = company
           /\ Yields(Funding(company, filings)).result.filings = filings
  BY DEF Yields, Funding

LEMMA CompanyHeard ==
    ASSUME LookupInv, NEW l \in Lookup, Succeeded(l), look[l].provider = "sec_edgar"
    PROVE  \E t \in Says("tickers") :
               /\ look[l].heard[1] = t
               /\ FindCik(look[l].arg, t).raised = "nothing"
               /\ Result(l).company = FindCik(look[l].arg, t).result
<1>1. /\ Answered(look[l]) /\ Outcome(look[l]).raised = "nothing"
      /\ Result(l) = Outcome(look[l]).result
  BY Answers
<1>2. ASSUME FirstAsked(look[l]), ~GoesOn(look[l]), NEW t \in Says(look[l].service),
             look[l].heard = <<t>>
      PROVE  /\ t \in Says("tickers") /\ look[l].heard[1] = t
             /\ FindCik(look[l].arg, t).raised = "nothing"
             /\ Result(l).company = FindCik(look[l].arg, t).result
  <2>1. look[l].service = "tickers" /\ look[l].heard[1] = t
    BY <1>2, Only DEF FirstAsked, FirstService
  <2>2. Cik(look[l]) = FindCik(look[l].arg, t)
    BY <2>1 DEF Cik
  <2>3. Cik(look[l]).raised = "nothing" /\ Outcome(look[l]) = Yields(Funding(None, << >>))
    BY <1>1, <2>1, OutcomeTickers
  <2>4. Cik(look[l]).result = None
    BY <1>2, <2>1, <2>3 DEF GoesOn
  <2> QED
    BY <1>1, <1>2, <2>1, <2>2, <2>3, <2>4, FundingIs
<1>3. ASSUME FilingsAsked(look[l]), NEW t, NEW r, look[l].heard = <<t, r>>, Knows(look[l].arg, t)
      PROVE  /\ look[l].heard[1] = t /\ FindCik(look[l].arg, t).raised = "nothing"
             /\ Result(l).company = FindCik(look[l].arg, t).result
  <2>1. look[l].service = "submissions" /\ look[l].heard[1] = t
    BY <1>3, Only DEF FilingsAsked
  <2>2. Cik(look[l]) = FindCik(look[l].arg, t)
    BY <2>1 DEF Cik
  <2>3. Outcome(look[l]) =
            Yields(Funding(Cik(look[l]).result, FetchFilings(Final(look[l])).result))
    BY <1>1, <2>1, OutcomeSubmissions
  <2> QED
    BY <1>1, <1>3, <2>1, <2>2, <2>3, FundingIs DEF Knows
<1> QED
  BY <1>1, <1>2, <1>3 DEF Answered

LEMMA Companies == LookupInv => MatchJustified
<1> SUFFICES ASSUME LookupInv, NEW l \in Lookup, Succeeded(l), look[l].provider = "sec_edgar",
                    look[l].heard[1].body # NotObject
             PROVE  Justified(look[l].arg, look[l].heard[1].body.dump, Result(l).company)
  BY Zenon DEF MatchJustified, Justified
<1> QED
  BY CompanyHeard, Found

\* The company of an answer is the one the argument names best, in a dump of
\* any length (sec_edgar.py:97-119).
THEOREM BestMatch == Spec => []MatchJustified
<1> QED
  BY AnswersAreHeard, Companies, PTL
----------------------------------------------------------------------------
(* The trend. *)

\* Backwards and the community modules' Reverse are the same.
LEMMA ReverseIs ==
    ASSUME NEW s \in Seq(Nat)
    PROVE  Reverse(s) = Backwards(s)
  BY DEF Reverse, Backwards

LEMMA BackwardsIs ==
    ASSUME NEW s \in Seq(Nat)
    PROVE  /\ Backwards(s) \in Seq(Nat) /\ Len(Backwards(s)) = Len(s)
           /\ \A i \in 1..Len(s) : Backwards(s)[i] = s[Len(s) - i + 1]
  BY DEF Backwards

LEMMA SubSeqIs ==
    ASSUME NEW s \in Seq(Nat), NEW i \in 1..(Len(s) + 1), NEW j \in 0..Len(s), i =< j + 1
    PROVE  /\ SubSeq(s, i, j) \in Seq(Nat) /\ Len(SubSeq(s, i, j)) = j - i + 1
           /\ \A k \in 1..(j - i + 1) : SubSeq(s, i, j)[k] = s[i + k - 1]
<1>1. \A k \in i..j : s[k] \in Nat
  OBVIOUS
<1> QED
  BY <1>1

\* The first numbers of a series read backwards are its last.
LEMMA SubSeqBackwards ==
    ASSUME NEW s \in Seq(Nat), NEW i \in 1..(Len(s) + 1), NEW j \in 0..Len(s), i =< j + 1
    PROVE  SubSeq(Backwards(s), i, j) = Backwards(SubSeq(s, Len(s) - j + 1, Len(s) - i + 1))
<1> DEFINE n == Len(s)
           m == j - i + 1
           b == Backwards(s)
           p == SubSeq(s, n - j + 1, n - i + 1)
           x == SubSeq(b, i, j)
           y == Backwards(p)
<1>1. /\ n \in Nat /\ m \in Nat /\ i \in 1..(n + 1) /\ j \in 0..n
      /\ n - j + 1 \in 1..(n + 1) /\ n - i + 1 \in 0..n
      /\ (n - i + 1) - (n - j + 1) + 1 = m
  OBVIOUS
<1>2. b \in Seq(Nat) /\ Len(b) = n /\ \A k \in 1..n : b[k] = s[n - k + 1]
  BY BackwardsIs
<1> HIDE DEF b, n, m
<1>3. /\ p \in Seq(Nat) /\ Len(p) = m
      /\ \A k \in 1..m : p[k] = s[(n - j + 1) + k - 1]
  <2> DEFINE u == n - j + 1
             w == n - i + 1
  <2>1. u \in 1..(Len(s) + 1) /\ w \in 0..Len(s) /\ u =< w + 1 /\ w - u + 1 = m
    BY <1>1 DEF n
  <2> HIDE DEF u, w
  <2>2. /\ SubSeq(s, u, w) \in Seq(Nat) /\ Len(SubSeq(s, u, w)) = m
        /\ \A k \in 1..m : SubSeq(s, u, w)[k] = s[u + k - 1]
    BY <2>1, SubSeqIs
  <2> QED
    BY <2>2 DEF u, w
<1> HIDE DEF p
<1>4. y \in Seq(Nat) /\ Len(y) = m /\ \A k \in 1..m : y[k] = p[m - k + 1]
  <2>1. y \in Seq(Nat) /\ Len(y) = Len(p) /\ \A k \in 1..Len(p) : y[k] = p[Len(p) - k + 1]
    BY <1>3, BackwardsIs
  <2> HIDE DEF y
  <2> QED
    BY <1>3, <2>1
<1>5. /\ x \in Seq(Nat) /\ Len(x) = m
      /\ \A k \in 1..m : x[k] = b[i + k - 1]
  BY <1>1, <1>2, SubSeqIs DEF m
<1> HIDE DEF x, y
<1>6. ASSUME NEW k \in 1..m PROVE x[k] = y[k]
  <2>1. /\ i + k - 1 \in 1..n /\ m - k + 1 \in 1..m
        /\ n - (i + k - 1) + 1 = (n - j + 1) + (m - k + 1) - 1
    BY <1>1 DEF m
  <2>2. x[k] = s[n - (i + k - 1) + 1]
    BY <1>2, <1>5, <2>1
  <2>3. y[k] = s[(n - j + 1) + (m - k + 1) - 1]
    BY <1>3, <1>4, <2>1
  <2> QED
    BY <2>1, <2>2, <2>3
<1>7. x = y
  BY <1>4, <1>5, <1>6
<1> QED
  BY <1>7 DEF x, y, b, p, n

FirstQuarter(s) == SubSeq(s, 1, Len(s) \div 4)

LastQuarter(s) == SubSeq(s, Len(s) - (Len(s) \div 4) + 1, Len(s))

\* ClassifyTrend, of the length of a series and the sums of its quarters.
Tells(n, head, tail) ==
    IF n < 8 THEN "unknown"
    ELSE IF head = 0 THEN IF tail > 0 THEN "growing" ELSE "unknown"
    ELSE IF 5 * (tail - head) > head THEN "growing"
    ELSE IF 5 * (tail - head) < -head THEN "declining"
    ELSE "flat"

LEMMA TrendTells ==
    ASSUME NEW s
    PROVE  ClassifyTrend(s) = Tells(Len(s), Sum(FirstQuarter(s)), Sum(LastQuarter(s)))
  BY Zenon DEF ClassifyTrend, Tells, FirstQuarter, LastQuarter

LEMMA Quarters ==
    ASSUME NEW s \in Seq(Nat)
    PROVE  /\ FirstQuarter(s) \in Seq(Nat) /\ LastQuarter(s) \in Seq(Nat)
           /\ FirstQuarter(Backwards(s)) = Backwards(LastQuarter(s))
           /\ LastQuarter(Backwards(s)) = Backwards(FirstQuarter(s))
<1> DEFINE n == Len(s)
           q == n \div 4
<1>1. n \in Nat /\ q \in Nat /\ q =< n
  OBVIOUS
<1>2. Len(Backwards(s)) = n
  BY BackwardsIs
<1> HIDE DEF n, q
<1>3. /\ 1 \in 1..(n + 1) /\ q \in 0..n /\ 1 =< q + 1
      /\ n - q + 1 \in 1..(n + 1) /\ n \in 0..n /\ n - q + 1 =< n + 1
      /\ n - 1 + 1 = n /\ n - n + 1 = 1 /\ n - (n - q + 1) + 1 = q
  BY <1>1
<1>4. FirstQuarter(s) = SubSeq(s, 1, q) /\ LastQuarter(s) = SubSeq(s, n - q + 1, n)
  BY Zenon DEF FirstQuarter, LastQuarter, n, q
<1>5. /\ FirstQuarter(Backwards(s)) = SubSeq(Backwards(s), 1, q)
      /\ LastQuarter(Backwards(s)) = SubSeq(Backwards(s), n - q + 1, n)
  BY <1>2, Zenon DEF FirstQuarter, LastQuarter, q
<1>6. SubSeq(Backwards(s), 1, q) = Backwards(SubSeq(s, n - q + 1, n - 1 + 1))
  BY <1>3, SubSeqBackwards DEF n
<1>7. SubSeq(Backwards(s), n - q + 1, n)
        = Backwards(SubSeq(s, n - n + 1, n - (n - q + 1) + 1))
  BY <1>3, SubSeqBackwards DEF n
<1>8. SubSeq(s, 1, q) \in Seq(Nat) /\ SubSeq(s, n - q + 1, n) \in Seq(Nat)
  BY <1>3, SubSeqIs DEF n
<1> QED
  BY <1>3, <1>4, <1>5, <1>6, <1>7, <1>8, Zenon

\* What one way tells about the other.
LEMMA Directions ==
    ASSUME NEW n \in Nat, NEW head \in Nat, NEW tail \in Nat
    PROVE  /\ Tells(n, head, tail) = Tells(n, tail, head)
                => Tells(n, head, tail) \in {"flat", "unknown"}
           /\ Tells(n, head, tail) = "unknown" <=> Tells(n, tail, head) = "unknown"
<1>1. CASE n < 8
  BY <1>1 DEF Tells
<1>2. CASE ~(n < 8) /\ head = 0 /\ tail = 0
  BY <1>2 DEF Tells
<1>3. CASE ~(n < 8) /\ head = 0 /\ tail > 0
  <2>1. Tells(n, head, tail) = "growing"
    BY <1>3 DEF Tells
  <2>2. Tells(n, tail, head) = "declining"
    BY <1>3 DEF Tells
  <2> QED
    BY <2>1, <2>2
<1>4. CASE ~(n < 8) /\ head > 0 /\ tail = 0
  <2>1. Tells(n, head, tail) = "declining"
    BY <1>4 DEF Tells
  <2>2. Tells(n, tail, head) = "growing"
    BY <1>4 DEF Tells
  <2> QED
    BY <2>1, <2>2
<1>5. CASE ~(n < 8) /\ head > 0 /\ tail > 0
  <2>1. /\ Tells(n, head, tail) # "unknown" /\ Tells(n, tail, head) # "unknown"
        /\ Tells(n, head, tail) = "growing" <=> 5 * (tail - head) > head
        /\ Tells(n, tail, head) = "growing" <=> 5 * (head - tail) > tail
        /\ Tells(n, head, tail) = "declining" => 5 * (tail - head) < -head
        /\ Tells(n, tail, head) = "declining" => 5 * (head - tail) < -tail
        /\ Tells(n, head, tail) \in {"growing", "declining", "flat"}
    BY <1>5 DEF Tells
  <2> QED
    BY <1>5, <2>1
<1> QED
  BY <1>1, <1>2, <1>3, <1>4, <1>5

LEMMA Trend == LookupInv => TrendsHaveADirection
<1> SUFFICES ASSUME LookupInv, NEW l \in Lookup, Succeeded(l),
                    look[l].provider = "google_trends",
                    look[l].heard[1].interest \notin {Fails, Absent}
             PROVE  LET forth == Result(l).growth
                        back == ClassifyTrend(Reverse(look[l].heard[1].interest))
                    IN  /\ forth = back => forth \in {"flat", "unknown"}
                        /\ forth = "unknown" <=> back = "unknown"
  BY DEF TrendsHaveADirection
<1>1. PICK told \in World["google_trends"] :
          look[l].heard[1] = told /\ told.ready /\ Result(l) = Trends(told).result
  BY TrendsHeard
<1> DEFINE s == told.interest
           n == Len(s)
           head == Sum(FirstQuarter(s))
           tail == Sum(LastQuarter(s))
<1>2. s \in Seq(Nat)
  BY <1>1, WorldAssumption
<1>3. Result(l).growth = ClassifyTrend(s)
  BY <1>1 DEF Trends, Yields
<1>4. ClassifyTrend(s) = Tells(n, head, tail)
  BY TrendTells
<1> DEFINE b == Backwards(s)
<1>5. ClassifyTrend(b) = Tells(Len(b), Sum(FirstQuarter(b)), Sum(LastQuarter(b)))
  BY TrendTells
<1>6. /\ FirstQuarter(s) \in Seq(Nat) /\ LastQuarter(s) \in Seq(Nat)
      /\ FirstQuarter(b) = Backwards(LastQuarter(s))
      /\ LastQuarter(b) = Backwards(FirstQuarter(s))
      /\ Len(b) = n /\ n \in Nat /\ Reverse(s) = b
  <2>1. /\ FirstQuarter(s) \in Seq(Nat) /\ LastQuarter(s) \in Seq(Nat)
        /\ FirstQuarter(b) = Backwards(LastQuarter(s))
        /\ LastQuarter(b) = Backwards(FirstQuarter(s))
    BY <1>2, Quarters, Zenon
  <2>2. Len(b) = n /\ Reverse(s) = b
    BY <1>2, BackwardsIs, ReverseIs, Zenon
  <2>3. n \in Nat
    BY <1>2
  <2> QED
    BY <2>1, <2>2, <2>3
<1>7. /\ Sum(Backwards(FirstQuarter(s))) = head /\ head \in Nat
      /\ Sum(Backwards(LastQuarter(s))) = tail /\ tail \in Nat
  BY <1>6, SumBackwards, SumType
<1>8. ClassifyTrend(Reverse(s)) = Tells(n, tail, head)
  BY <1>5, <1>6, <1>7, Zenon
<1> HIDE DEF head, tail, n
<1> QED
  BY <1>1, <1>3, <1>4, <1>6, <1>7, <1>8, Directions

\* A series and the same series read backwards do not tell the same direction,
\* however long the series (google_trends.py:146-162).
THEOREM Directed == Spec => []TrendsHaveADirection
<1> QED
  BY AnswersAreHeard, Trend, PTL
----------------------------------------------------------------------------
(* The filings. *)

\* One turn of the loop over the rows.
Keep(taken, row) == IF Surfaced(row) /\ Len(taken) < MaxFilings THEN Append(taken, row) ELSE taken

\* The equation that defines the function in Kept.
KeptBy(rows, f) == f = [i \in 0..Len(rows) |-> IF i = 0 THEN << >> ELSE Keep(f[i - 1], rows[i])]

LEMMA KeptExists ==
    ASSUME NEW rows, Len(rows) \in Nat
    PROVE  \E f : KeptBy(rows, f)
<1> DEFINE N == Len(rows)
           To(k, f) == /\ f = [i \in 0..k |-> f[i]] /\ f[0] = << >>
                       /\ \A i \in 1..k : f[i] = Keep(f[i - 1], rows[i])
           P == {k \in 0..N : \E f : To(k, f)}
<1>1. N \in Nat
  OBVIOUS
<1> HIDE DEF N
<1>2. 0 \in P
  <2>1. To(0, [i \in 0..0 |-> << >>])
    OBVIOUS
  <2> HIDE DEF To
  <2> QED
    BY <1>1, <2>1
<1>3. ASSUME NEW k \in 0..(N - 1), k \in P PROVE k + 1 \in P
  <2>1. PICK f : To(k, f)
    BY <1>3
  <2> DEFINE g == [i \in 0..(k + 1) |-> IF i = k + 1 THEN Keep(f[k], rows[k + 1]) ELSE f[i]]
  <2>2. k \in Nat /\ k + 1 \in 0..N
    BY <1>1
  <2>3. g = [i \in 0..(k + 1) |-> g[i]]
    OBVIOUS
  <2>4. g[0] = << >>
    BY <2>1, <2>2
  <2>5. ASSUME NEW i \in 1..(k + 1) PROVE g[i] = Keep(g[i - 1], rows[i])
    <3>1. i - 1 \in 0..k /\ i - 1 # k + 1 /\ i - 1 \in 0..(k + 1) /\ i \in 0..(k + 1)
      BY <2>2
    <3>2. g[i - 1] = f[i - 1]
      BY <3>1
    <3>3. CASE i = k + 1
      <4>1. g[i] = Keep(f[k], rows[k + 1]) /\ i - 1 = k
        BY <2>2, <3>1, <3>3
      <4> QED
        BY <3>2, <3>3, <4>1, Zenon
    <3>4. CASE i # k + 1
      <4>1. i \in 1..k /\ g[i] = f[i]
        BY <2>2, <3>1, <3>4
      <4>2. f[i] = Keep(f[i - 1], rows[i])
        BY <2>1, <4>1
      <4> QED
        BY <3>2, <4>1, <4>2, Zenon
    <3> QED
      BY <3>3, <3>4
  <2> HIDE DEF g
  <2>6. To(k + 1, g)
    BY <2>3, <2>4, <2>5
  <2> HIDE DEF To
  <2> QED
    BY <2>2, <2>6
<1>4. N \in P
  <2> HIDE DEF P
  <2>1. 0..N \subseteq P
    BY <1>1, <1>2, <1>3, Induct
  <2> QED
    BY <1>1, <2>1
<1>5. PICK f : To(N, f)
  BY <1>4
<1>6. \A i \in 0..N : f[i] = IF i = 0 THEN << >> ELSE Keep(f[i - 1], rows[i])
  <2>1. f[0] = << >> /\ \A i \in 1..N : f[i] = Keep(f[i - 1], rows[i])
    BY <1>5
  <2>2. ASSUME NEW i \in 0..N, i # 0 PROVE i \in 1..N
    BY <1>1, <2>2
  <2> QED
    BY <2>1, <2>2
<1>7. f = [i \in 0..N |-> IF i = 0 THEN << >> ELSE Keep(f[i - 1], rows[i])]
  BY <1>5, <1>6
<1> QED
  BY <1>7, Zenon DEF KeptBy, N

LEMMA KeptIs ==
    ASSUME NEW rows, Len(rows) \in Nat
    PROVE  \E f : KeptBy(rows, f) /\ Kept(rows) = f[Len(rows)]
<1> DEFINE g == CHOOSE f : KeptBy(rows, f)
<1>1. KeptBy(rows, g)
  BY KeptExists, Zenon
<1>2. Kept(rows) = g[Len(rows)]
  BY Zenon DEF Kept, KeptBy, Keep
<1> QED
  BY <1>1, <1>2, Zenon

OfInterest(rows, n) == {i \in 1..n : Surfaced(rows[i])}

\* taken are the rows at the places that row names, up to row n.
Places(rows, n, taken, row) ==
    /\ row \in [1..Len(taken) -> OfInterest(rows, n)]
    /\ \A m \in 1..Len(taken) : taken[m] = rows[row[m]]
    /\ \A m, k \in 1..Len(taken) : m < k => row[m] < row[k]
    /\ \A i \in OfInterest(rows, n) :
          \/ \E m \in 1..Len(taken) : row[m] = i
          \/ Len(taken) = MaxFilings /\ \A m \in 1..Len(taken) : row[m] < i

KeptUpTo(rows, n, taken) ==
    /\ taken \in Seq(Range(rows)) /\ Len(taken) =< MaxFilings
    /\ \E row : Places(rows, n, taken, row)

LEMMA KeepStep ==
    ASSUME NEW rows, IsList(rows), NEW n \in 0..(Len(rows) - 1), NEW taken,
           KeptUpTo(rows, n, taken)
    PROVE  KeptUpTo(rows, n + 1, Keep(taken, rows[n + 1]))
<1> DEFINE L == Len(taken)
           x == rows[n + 1]
<1>1. PICK row : Places(rows, n, taken, row)
  BY DEF KeptUpTo
<1>2. /\ taken \in Seq(Range(rows)) /\ L \in Nat /\ L =< MaxFilings /\ MaxFilings \in Nat
  BY RepliesAssumption DEF KeptUpTo
<1>3. n \in Nat /\ n + 1 \in 1..(n + 1) /\ n + 1 \in 1..Len(rows) /\ x \in Range(rows)
  BY DEF IsList, Range
<1>4. /\ OfInterest(rows, n) \subseteq OfInterest(rows, n + 1)
      /\ \A i \in OfInterest(rows, n + 1) : i \in OfInterest(rows, n) \/ i = n + 1
      /\ \A i \in OfInterest(rows, n) : i \in Nat /\ i < n + 1
  BY <1>3 DEF OfInterest
<1> HIDE DEF x
<1>5. CASE Surfaced(x) /\ L < MaxFilings
  <2> DEFINE new == Append(taken, x)
             to == [m \in 1..(L + 1) |-> IF m = L + 1 THEN n + 1 ELSE row[m]]
  <2>1. Keep(taken, x) = new
    BY <1>5 DEF Keep
  <2>2. /\ new \in Seq(Range(rows)) /\ Len(new) = L + 1 /\ new[L + 1] = x
        /\ \A m \in 1..L : new[m] = taken[m]
    BY <1>2, <1>3
  <2> HIDE DEF new
  <2>3. n + 1 \in OfInterest(rows, n + 1)
    BY <1>3, <1>5 DEF OfInterest, x
  <2>4. /\ to \in [1..(L + 1) -> OfInterest(rows, n + 1)]
        /\ to[L + 1] = n + 1 /\ \A m \in 1..L : to[m] = row[m]
    BY <1>1, <1>2, <1>4, <2>3 DEF Places
  <2> HIDE DEF to
  <2>5. \A m \in 1..(L + 1) : new[m] = rows[to[m]]
    BY <1>1, <1>2, <2>2, <2>4 DEF Places, x
  <2>6. \A m, k \in 1..(L + 1) : m < k => to[m] < to[k]
    <3> SUFFICES ASSUME NEW m \in 1..(L + 1), NEW k \in 1..(L + 1), m < k
                 PROVE  to[m] < to[k]
      OBVIOUS
    <3>1. m \in 1..L /\ to[m] = row[m] /\ row[m] \in OfInterest(rows, n)
      BY <1>1, <1>2, <2>4 DEF Places
    <3>2. CASE k = L + 1
      BY <1>4, <2>4, <3>1, <3>2
    <3>3. CASE k # L + 1
      <4>1. k \in 1..L
        BY <1>2, <3>3
      <4> QED
        BY <1>1, <2>4, <3>1, <4>1 DEF Places
    <3> QED
      BY <3>2, <3>3
  <2>7. ASSUME NEW i \in OfInterest(rows, n + 1) PROVE \E m \in 1..(L + 1) : to[m] = i
    <3>1. CASE i = n + 1
      BY <1>2, <2>4, <3>1
    <3>2. CASE i \in OfInterest(rows, n)
      <4>1. PICK m \in 1..L : row[m] = i
        BY <1>1, <1>2, <1>5, <3>2 DEF Places
      <4>2. m \in 1..(L + 1) /\ to[m] = i
        BY <1>2, <2>4, <4>1
      <4> QED
        BY <4>2
    <3> QED
      BY <1>4, <3>1, <3>2
  <2>8. Places(rows, n + 1, new, to)
    BY <2>2, <2>4, <2>5, <2>6, <2>7 DEF Places
  <2>9. Len(new) =< MaxFilings
    BY <1>2, <1>5, <2>2
  <2>10. KeptUpTo(rows, n + 1, new)
    BY <2>2, <2>8, <2>9, Zenon DEF KeptUpTo
  <2> QED
    BY <2>1, <2>10 DEF x
<1>6. CASE ~(Surfaced(x) /\ L < MaxFilings)
  <2>1. Keep(taken, x) = taken
    BY <1>6 DEF Keep
  <2>2. row \in [1..L -> OfInterest(rows, n + 1)]
    BY <1>1, <1>4 DEF Places
  <2>3. ASSUME NEW i \in OfInterest(rows, n + 1)
        PROVE  \/ \E m \in 1..L : row[m] = i
               \/ L = MaxFilings /\ \A m \in 1..L : row[m] < i
    <3>1. CASE i = n + 1
      <4>1. Surfaced(x)
        BY <3>1 DEF OfInterest, x
      <4>2. L = MaxFilings
        BY <1>2, <1>6, <4>1
      <4> QED
        BY <1>1, <1>4, <3>1, <4>2 DEF Places
    <3>2. CASE i \in OfInterest(rows, n)
      BY <1>1, <3>2 DEF Places
    <3> QED
      BY <1>4, <3>1, <3>2
  <2>4. Places(rows, n + 1, taken, row)
    BY <1>1, <2>2, <2>3 DEF Places
  <2>5. KeptUpTo(rows, n + 1, taken)
    BY <1>2, <2>4 DEF KeptUpTo
  <2> QED
    BY <2>1, <2>5 DEF x
<1> QED
  BY <1>5, <1>6

\* The rows that are kept, and how many are looked at for them.
LEMMA KeepsInOrder ==
    ASSUME NEW rows, IsList(rows)
    PROVE  KeptUpTo(rows, Len(rows), Kept(rows))
<1> DEFINE N == Len(rows)
<1>1. N \in Nat
  BY DEF IsList
<1>2. PICK f : KeptBy(rows, f) /\ Kept(rows) = f[N]
  BY <1>1, KeptIs
<1> HIDE DEF N
<1>3. \A i \in 0..N : f[i] = IF i = 0 THEN << >> ELSE Keep(f[i - 1], rows[i])
  <2>1. f = [i \in 0..N |-> IF i = 0 THEN << >> ELSE Keep(f[i - 1], rows[i])]
    BY <1>2, Zenon DEF KeptBy, N
  <2> QED
    BY <2>1
<1> DEFINE P == {i \in 0..N : KeptUpTo(rows, i, f[i])}
<1>4. 0 \in P
  <2>1. f[0] = << >> /\ 0 \in 0..N
    BY <1>1, <1>3
  <2>2. Places(rows, 0, << >>, << >>)
    BY DEF Places, OfInterest
  <2>3. << >> \in Seq(Range(rows)) /\ Len(<< >>) =< MaxFilings
    BY RepliesAssumption
  <2>4. KeptUpTo(rows, 0, << >>)
    BY <2>2, <2>3 DEF KeptUpTo
  <2> QED
    BY <2>1, <2>4
<1>5. ASSUME NEW i \in 0..(N - 1), i \in P PROVE i + 1 \in P
  <2>1. i + 1 \in 0..N /\ i + 1 # 0 /\ (i + 1) - 1 = i
    BY <1>1
  <2>2. f[i + 1] = Keep(f[i], rows[i + 1])
    BY <1>3, <2>1
  <2>3. KeptUpTo(rows, i + 1, Keep(f[i], rows[i + 1]))
    BY <1>5, KeepStep DEF N
  <2> QED
    BY <2>1, <2>2, <2>3
<1> HIDE DEF P
<1>6. 0..N \subseteq P
  BY <1>1, <1>4, <1>5, Induct
<1>7. N \in P
  BY <1>1, <1>6
<1> QED
  BY <1>2, <1>7 DEF P, N

\* The rows reach as far as all columns do.
LEMMA RowsReach ==
    ASSUME NEW recent, DOMAIN recent = Columns, \A f \in Columns : IsList(recent[f])
    PROVE  \E n \in Nat :
               /\ IsList(RowsOf(recent)) /\ Len(RowsOf(recent)) = n
               /\ \A i \in 1..n : \A f \in Columns : RowsOf(recent)[i][f] = recent[f][i]
               /\ {i \in DOMAIN recent.form : \A f \in Columns : i \in DOMAIN recent[f]} = 1..n
<1> DEFINE lengths == {Len(recent[f]) : f \in DOMAIN recent}
           n == Min(lengths)
           rows == [i \in 1..n |-> [f \in DOMAIN recent |-> recent[f][i]]]
<1>1. lengths \in SUBSET Nat /\ lengths # {}
  BY DEF IsList, Columns
<1>2. n \in lengths /\ \A k \in lengths : n =< k
  <2> HIDE DEF lengths
  <2> QED
    BY <1>1, MinIs
<1>3. RowsOf(recent) = rows
  BY Zenon DEF RowsOf
<1> HIDE DEF n
<1>4. n \in Nat /\ (\A f \in Columns : n =< Len(recent[f])) /\ \E f \in Columns : n = Len(recent[f])
  BY <1>1, <1>2
<1>5. \A f \in Columns : Len(recent[f]) \in Nat /\ DOMAIN recent[f] = 1..Len(recent[f])
  BY DEF IsList
<1>6. {i \in DOMAIN recent.form : \A f \in Columns : i \in DOMAIN recent[f]} = 1..n
  <2>1. "form" \in Columns
    BY DEF Columns
  <2>2. ASSUME NEW i, \A f \in Columns : i \in DOMAIN recent[f] PROVE i \in 1..n
    BY <1>4, <1>5, <2>2
  <2>3. ASSUME NEW i \in 1..n, NEW f \in Columns PROVE i \in DOMAIN recent[f]
    BY <1>4, <1>5, <2>3
  <2> QED
    BY <2>1, <2>2, <2>3
<1>7. /\ Len(rows) = n /\ DOMAIN rows = 1..n
      /\ \A i \in 1..n : rows[i] = [f \in Columns |-> recent[f][i]]
  BY <1>4
<1>8. IsList(rows)
  <2>1. rows = [i \in 1..n |-> rows[i]]
    OBVIOUS
  <2> HIDE DEF rows
  <2> QED
    BY <1>4, <1>7, <2>1 DEF IsList
<1> HIDE DEF rows
<1>9. \A i \in 1..n : \A f \in Columns : rows[i][f] = recent[f][i]
  BY <1>7
<1> QED
  BY <1>3, <1>4, <1>6, <1>7, <1>8, <1>9

\* What FilingsTrue says of the filings taken from a company's arrays.
TakenFrom(recent, filings) ==
    LET complete == {i \in DOMAIN recent.form : \A f \in DOMAIN recent : i \in DOMAIN recent[f]}
        good == {i \in complete : recent.form[i] = "10-K" /\ recent.filingDate[i] # Junk}
    IN  \E row \in [DOMAIN filings -> good] :
          /\ \A n \in DOMAIN filings : \A f \in DOMAIN recent :
                filings[n][f] = recent[f][row[n]]
          /\ \A m, n \in DOMAIN filings : m < n => row[m] < row[n]
          /\ \A i \in good \ Range(row) :
                Len(filings) = MaxFilings /\ \A n \in DOMAIN filings : row[n] < i

LEMMA KeptFrom ==
    ASSUME NEW recent, DOMAIN recent = Columns, \A f \in Columns : IsList(recent[f])
    PROVE  TakenFrom(recent, Kept(RowsOf(recent)))
<1> DEFINE rows == RowsOf(recent)
           filings == Kept(rows)
           complete == {i \in DOMAIN recent.form : \A f \in DOMAIN recent : i \in DOMAIN recent[f]}
           good == {i \in complete : recent.form[i] = "10-K" /\ recent.filingDate[i] # Junk}
<1>1. PICK n \in Nat :
          /\ IsList(rows) /\ Len(rows) = n
          /\ \A i \in 1..n : \A f \in Columns : rows[i][f] = recent[f][i]
          /\ complete = 1..n
  BY RowsReach
<1>2. KeptUpTo(rows, n, filings)
  BY <1>1, KeepsInOrder
<1> HIDE DEF rows, filings, complete
<1>3. \A i \in 1..n : rows[i].form = recent.form[i] /\ rows[i].filingDate = recent.filingDate[i]
  BY <1>1 DEF Columns
<1>4. good = OfInterest(rows, n)
  BY <1>1, <1>3 DEF OfInterest, Surfaced
<1> HIDE DEF good
<1>5. PICK row : Places(rows, n, filings, row)
  BY <1>2 DEF KeptUpTo
<1>6. DOMAIN filings = 1..Len(filings)
  BY <1>2 DEF KeptUpTo
<1>7. row \in [DOMAIN filings -> good]
  BY <1>4, <1>5, <1>6 DEF Places
<1>8. ASSUME NEW m \in DOMAIN filings, NEW f \in DOMAIN recent
      PROVE  filings[m][f] = recent[f][row[m]]
  <2>1. filings[m] = rows[row[m]] /\ row[m] \in 1..n
    BY <1>5, <1>6, <1>8 DEF Places, OfInterest
  <2> QED
    BY <1>1, <2>1
<1>9. \A m, k \in DOMAIN filings : m < k => row[m] < row[k]
  BY <1>5, <1>6 DEF Places
<1>10. ASSUME NEW i \in good \ Range(row)
       PROVE  Len(filings) = MaxFilings /\ \A m \in DOMAIN filings : row[m] < i
  <2>1. \A m \in 1..Len(filings) : row[m] # i
    BY <1>6, <1>7 DEF Range
  <2> QED
    BY <1>4, <1>5, <1>6, <2>1 DEF Places
<1>11. TakenFrom(recent, filings)
  BY <1>7, <1>8, <1>9, <1>10, Zenon DEF TakenFrom, good, complete
<1> QED
  BY <1>11 DEF filings, rows

LEMMA Filings == LookupInv => FilingsTrue
<1> SUFFICES ASSUME LookupInv, NEW l \in Lookup, Succeeded(l), look[l].service = "submissions",
                    look[l].heard[2].status = 200, look[l].heard[2].body.recent # NotObject
             PROVE  TakenFrom(look[l].heard[2].body.recent, Result(l).filings)
  BY Zenon DEF FilingsTrue, TakenFrom
<1>1. /\ Answered(look[l]) /\ look[l].provider \in DOMAIN FirstService
      /\ Outcome(look[l]).raised = "nothing" /\ Result(l) = Outcome(look[l]).result
  BY Answers
<1>2. PICK t \in Says("tickers") : \E r \in Says("submissions") : look[l].heard = <<t, r>>
  BY <1>1, Services DEF Answered
<1>3. PICK r \in Says("submissions") : look[l].heard = <<t, r>>
  BY <1>2
<1>4. Final(look[l]) = r /\ look[l].heard[2] = r
  BY <1>3, Only DEF Final
<1>5. /\ FetchFilings(r).raised = "nothing"
      /\ Outcome(look[l]) = Yields(Funding(Cik(look[l]).result, FetchFilings(r).result))
  BY <1>1, <1>4, OutcomeSubmissions
<1>6. Result(l).filings = FetchFilings(r).result
  BY <1>1, <1>5, FundingIs
<1>7. r \notin {Lost, Odd} /\ r.body \notin {NotJson, NotObject} /\ r.status = 200
  BY <1>4, <1>5, FilingsGood
<1>8. FetchFilings(r).result = Kept(RowsOf(r.body.recent))
  <2>1. r.body.recent # NotObject
    BY <1>4
  <2> DEFINE taken == Kept(RowsOf(r.body.recent))
  <2>2. FetchFilings(r) = Sifted(taken)
    BY <1>7, <2>1, FetchFilingsIs
  <2> HIDE DEF taken
  <2>3. FetchFilings(r) = Yields(taken)
    BY <1>5, <2>2, SiftedIs DEF Raises
  <2>4. FetchFilings(r).result = taken
    BY <2>3 DEF Yields
  <2> QED
    BY <2>4 DEF taken
<1>9. r \in World["submissions"]
  BY <1>7 DEF Says
<1>10. /\ DOMAIN r.body.recent = Columns /\ \A f \in Columns : IsList(r.body.recent[f])
  BY <1>4, <1>7, <1>9, WorldAssumption
<1>11. TakenFrom(r.body.recent, Kept(RowsOf(r.body.recent)))
  BY <1>10, KeptFrom
<1> QED
  BY <1>4, <1>6, <1>8, <1>11

\* The filings of an answer are rows of the company's arrays, in their order,
\* and none of interest is missing below the maximum (sec_edgar.py:131-157).
THEOREM FilingsAreRows == Spec => []FilingsTrue
<1> QED
  BY AnswersAreHeard, Filings, PTL
----------------------------------------------------------------------------
(* Types. *)

LEMMA Headcount ==
    ASSUME LookupInv, NEW l \in Lookup, Succeeded(l), look[l].provider = "apollo"
    PROVE  Result(l).headcount = None \/ Result(l).headcount > 0
<1>1. /\ Answered(look[l]) /\ Outcome(look[l]).raised = "nothing"
      /\ Result(l) = Outcome(look[l]).result
  BY Answers
<1>2. look[l].service = "apollo"
  BY <1>1 DEF Answered, FirstAsked, FilingsAsked, FirstService
<1> DEFINE r == Final(look[l])
           o == Checked(r).result.organization
<1>3. Outcome(look[l]) = Apollo(r)
  BY <1>2, OutcomeApollo
<1> HIDE DEF r
<1>4. Checked(r).raised = "nothing"
  BY <1>1, <1>3 DEF Apollo
<1>5. \/ Apollo(r) = Yields([headcount |-> None])
      \/ Apollo(r) = Raises("other")
      \/ Apollo(r) = Yields([headcount |-> SafeInt(o.employees)])
  BY <1>4, Zenon DEF Apollo
<1> HIDE DEF o
<1>6. Apollo(r).result.headcount \in {None, SafeInt(o.employees)}
  BY <1>1, <1>3, <1>5 DEF Yields, Raises
<1>7. SafeInt(o.employees) = None \/ SafeInt(o.employees) > 0
  BY DEF SafeInt
<1> QED
  BY <1>1, <1>3, <1>6, <1>7

LEMMA QueueOnce ==
    ASSUME JobsOK
    PROVE  Cardinality(Range(queue)) = Len(queue)
<1>1. /\ Len(queue) \in Nat /\ DOMAIN queue = 1..Len(queue)
      /\ queue \in [1..Len(queue) -> Range(queue)]
  BY DEF JobsOK, Range
<1>2. IsFiniteSet(1..Len(queue)) /\ Cardinality(1..Len(queue)) = Len(queue)
  <2> DEFINE n == Len(queue)
  <2>1. n \in Nat
    BY <1>1
  <2> HIDE DEF n
  <2>2. IsFiniteSet(1..n) /\ Cardinality(1..n) = n
    BY <2>1, FS_Interval
  <2> QED
    BY <2>2 DEF n
<1>3. queue \in Bijection(1..Len(queue), Range(queue))
  BY <1>1 DEF JobsOK, Bijection, Injection, Surjection, IsInjective, Range
<1>4. ExistsBijection(1..Len(queue), Range(queue))
  BY <1>3 DEF ExistsBijection
<1> QED
  BY <1>2, <1>4, FS_Bijection

\* No more jobs run than there are threads.
ThreadsOK == IsFiniteSet(running) /\ Cardinality(running) =< Workers

LEMMA ThreadsStep == ThreadsOK /\ [Next]_vars => ThreadsOK'
<1> SUFFICES ASSUME ThreadsOK, [Next]_vars PROVE ThreadsOK'
  OBVIOUS
<1>1. CASE running' \subseteq running
  <2>1. IsFiniteSet(running') /\ Cardinality(running') =< Cardinality(running)
    BY <1>1, FS_Subset DEF ThreadsOK
  <2>2. Cardinality(running') \in Nat /\ Cardinality(running) \in Nat /\ Workers \in Nat
    BY <2>1, FS_CardinalityType, ProvidersAssumption DEF ThreadsOK
  <2> QED
    BY <2>1, <2>2 DEF ThreadsOK
<1>2. CASE Taken
  <2>1. running' = running \cup {Head(queue)} \/ running' = running
    BY <1>2 DEF Taken
  <2>2. /\ IsFiniteSet(running \cup {Head(queue)})
        /\ Cardinality(running \cup {Head(queue)}) =< Cardinality(running) + 1
    <3>1. IsFiniteSet(running) /\ Cardinality(running) \in Nat
      BY FS_CardinalityType DEF ThreadsOK
    <3>2. /\ IsFiniteSet(running \cup {Head(queue)})
          /\ Cardinality(running \cup {Head(queue)}) \in
               {Cardinality(running), Cardinality(running) + 1}
      BY <3>1, FS_AddElement, Zenon
    <3> QED
      BY <3>1, <3>2
  <2>3. Cardinality(running) \in Nat /\ Cardinality(running \cup {Head(queue)}) \in Nat
        /\ Workers \in Nat
    BY <2>2, FS_CardinalityType, ProvidersAssumption DEF ThreadsOK
  <2>4. Cardinality(running) < Workers
    BY <1>2 DEF Taken
  <2> QED
    BY <2>1, <2>2, <2>3, <2>4 DEF ThreadsOK
<1>3. ASSUME NEW l \in Lookup,
             \/ Start(l) \/ Resolved(l) \/ Worked(l) \/ TimesOut(l) \/ Replied(l)
             \/ NeverComplete(l)
      PROVE  running' \subseteq running
  BY <1>3 DEF Start, Resolved, Worked, TimesOut, Replied, NeverComplete
<1>4. CASE UNCHANGED vars
  BY <1>4, <1>1 DEF vars
<1> QED
  BY <1>1, <1>2, <1>3, <1>4 DEF Next

LEMMA Types == LookupInv /\ ThreadsOK => TypeOK
<1> SUFFICES ASSUME LookupInv, ThreadsOK PROVE TypeOK
  OBVIOUS
<1> USE DEF LookupInv, ExecInv
<1>1. ASSUME NEW l \in Lookup
      PROVE  /\ look[l].at \in Stages
             /\ look[l].at # "new" => look[l].provider \in DOMAIN FirstService
  BY DEF HeardInv, HeardOK
<1>2. ASSUME NEW l \in Lookup
      PROVE  look[l].at = "ended" <=> look[l].outcome # Pending
  <2>1. HeardOK(look[l]) /\ Pending.raised = "pending"
    BY DEF HeardInv, Pending, Raises
  <2> QED
    BY <2>1 DEF HeardOK, Ends, Endings
<1>3. ASSUME NEW l \in Lookup
      PROVE  look[l].at = "waiting" <=>
                /\ l \in running \cup Range(queue) /\ l \notin cancelled
                /\ look[l].at # "ended"
  <2>1. DOMAIN queue = 1..Len(queue)
    BY DEF JobsOK
  <2>2. CASE look[l].at = "waiting"
    <3>1. l \notin cancelled
      BY <2>2 DEF WaitsOK
    <3>2. l \in running \cup Range(queue)
      BY <2>1, <2>2 DEF QueuedInv, Range
    <3> QED
      BY <2>2, <3>1, <3>2
  <2>3. ASSUME l \in running \cup Range(queue), l \notin cancelled, look[l].at # "ended"
        PROVE  look[l].at = "waiting"
    <3>1. CASE l \in running
      BY <2>3, <3>1 DEF WaitsOK
    <3>2. ASSUME NEW i \in 1..Len(queue), queue[i] = l PROVE look[l].at = "waiting"
      BY <2>3, <3>2 DEF WaitsOK
    <3> QED
      BY <2>1, <2>3, <3>1, <3>2 DEF Range
  <2> QED
    BY <2>2, <2>3
<1>4. ASSUME NEW l \in Lookup, Succeeded(l), look[l].provider = "apollo"
      PROVE  Result(l).headcount = None \/ Result(l).headcount > 0
  BY <1>4, Headcount
<1>5. /\ cancelled \subseteq Lookup /\ running \subseteq Lookup /\ queue \in Seq(Lookup)
      /\ Cardinality(Range(queue)) = Len(queue)
  BY QueueOnce DEF JobsOK
<1> QED
  BY <1>1, <1>2, <1>3, <1>4, <1>5 DEF TypeOK, ThreadsOK

\* Where a lookup stands fits its outcome, the queue and the threads, of which
\* there are never more than the executor has (google_trends.py:59-74,
\* apollo.py:112-119).
THEOREM TypeCorrect == Spec => []TypeOK
<1>1. Init => ThreadsOK
  <2>1. Init => running = {}
    BY DEF Init
  <2>2. IsFiniteSet({}) /\ Cardinality({}) = 0
    BY FS_EmptySet
  <2> QED
    BY <2>1, <2>2, ProvidersAssumption DEF ThreadsOK
<1>2. Spec => []ThreadsOK
  BY <1>1, ThreadsStep, PTL DEF Spec
<1> QED
  BY <1>2, AnswersAreHeard, Types, PTL
----------------------------------------------------------------------------
(* The promise to the routes. *)

\* What a lookup has heard when it comes to a result is a whole conversation.
LEMMA ResultIsTellable ==
    ASSUME NEW q, HeardOK(q), q.at = "ended", q.outcome.raised = "nothing"
    PROVE  q.outcome.result \in Tellable[AskOf(q)]
<1> DEFINE a == AskOf(q)
           c == [arg |-> q.arg, service |-> q.service, heard |-> q.heard]
<1>1. Answered(q) /\ q.provider \in DOMAIN FirstService /\ a \in Asks
  BY DEF HeardOK
<1>2. a.provider = q.provider /\ a.arg = q.arg
  BY DEF AskOf
<1>3. c.arg = q.arg /\ c.service = q.service /\ c.heard = q.heard
  OBVIOUS
<1>4. q.service \in Service
  BY <1>1, Services DEF Answered
<1> HIDE DEF a
<1>5. Outcome(c) = Outcome(q) /\ (GoesOn(c) <=> GoesOn(q))
  <2> HIDE DEF c
  <2> QED
    BY <1>3, <1>4, OutcomeSame
<1>6. ASSUME FirstAsked(q), ~GoesOn(q), NEW r \in Says(q.service), q.heard = <<r>>
      PROVE  c \in Conversations(a)
  <2>1. c \in OneReply(a)
    BY <1>2, <1>6 DEF FirstAsked, OneReply
  <2> HIDE DEF c
  <2> QED
    BY <1>5, <1>6, <2>1 DEF Conversations
<1>7. ASSUME FilingsAsked(q), NEW t \in Says("tickers"), NEW r \in Says("submissions"),
             q.heard = <<t, r>>, Knows(q.arg, t)
      PROVE  c \in Conversations(a)
  <2>1. c \in TwoReplies(a)
    BY <1>2, <1>7 DEF FilingsAsked, TwoReplies
  <2>2. c.heard[1] = t
    BY <1>3, <1>7, Only
  <2>3. a.provider = "sec_edgar"
    BY <1>2, <1>7 DEF FilingsAsked
  <2> HIDE DEF c
  <2> QED
    BY <1>3, <1>7, <2>1, <2>2, <2>3 DEF Conversations
<1> HIDE DEF c
<1>8. c \in Conversations(a)
  BY <1>1, <1>6, <1>7 DEF Answered
<1>9. Outcome(c).raised = "nothing" /\ Outcome(c).result = q.outcome.result
  BY <1>1, <1>5 DEF Answered
<1>10. Tellable[a] =
         {Outcome(d).result : d \in {e \in Conversations(a) : Outcome(e).raised = "nothing"}}
  BY <1>1, Zenon DEF Tellable
<1> QED
  BY <1>8, <1>9, <1>10 DEF a

\* The status a route makes of an exception: ValueError first.
LEMMA StatusIs ==
    ASSUME NEW outcome, Ends(outcome)
    PROVE  /\ outcome.raised = "nothing" => RouteStatus(outcome) = 200
           /\ outcome.raised = "ValueError" => RouteStatus(outcome) = 422
           /\ outcome.raised \in {"RuntimeError", "other"} => RouteStatus(outcome) = 502
  BY DEF RouteStatus

LEMMA ToldIs ==
    ASSUME NEW q, HeardOK(q), q.at = "ended"
    PROVE  ToldTo(q) \in Promise!Answer(AskOf(q))
<1>1. Ends(q.outcome)
  BY DEF HeardOK
<1>2. ToldTo(q) = [status |-> RouteStatus(q.outcome), result |-> q.outcome.result]
  BY DEF ToldTo
<1>3. CASE q.outcome.raised = "nothing"
  <2>1. q.outcome.result \in Tellable[AskOf(q)]
    BY <1>3, ResultIsTellable
  <2>2. RouteStatus(q.outcome) = 200
    BY <1>1, <1>3, StatusIs
  <2> QED
    BY <1>2, <2>1, <2>2 DEF Promise!Answer
<1>4. CASE q.outcome.raised # "nothing"
  <2>1. q.outcome.result = None /\ q.outcome.raised \in Endings
    BY <1>1, <1>4 DEF Ends
  <2>2. RouteStatus(q.outcome) \in {422, 502}
    BY <1>1, <1>4, <2>1, StatusIs DEF Endings
  <2> QED
    BY <1>2, <2>1, <2>2 DEF Promise!Answer, Promise!Refusal
<1> QED
  BY <1>3, <1>4

\* A step of one lookup, as the routes see it.
LEMMA SeenOnce ==
    ASSUME LookOK, NEW l \in Lookup, NEW q, Becomes(l, q)
    PROVE  /\ [k \in Lookup |-> StageOf(look[k])]' =
                [[k \in Lookup |-> StageOf(look[k])] EXCEPT ![l] = StageOf(q)]
           /\ [k \in Lookup |-> AskedBy(look[k])]' =
                [[k \in Lookup |-> AskedBy(look[k])] EXCEPT ![l] = AskedBy(q)]
           /\ [k \in Lookup |-> ToldTo(look[k])]' =
                [[k \in Lookup |-> ToldTo(look[k])] EXCEPT ![l] = ToldTo(q)]
<1>1. look' = [k \in Lookup |-> IF k = l THEN q ELSE look[k]]
  BY Zenon DEF LookOK, Becomes
<1>2. \A k \in Lookup : look'[k] = IF k = l THEN q ELSE look[k]
  BY <1>1
<1>3. \A k \in Lookup : StageOf(look'[k]) = IF k = l THEN StageOf(q) ELSE StageOf(look[k])
  BY <1>2, Zenon
<1>4. \A k \in Lookup : AskedBy(look'[k]) = IF k = l THEN AskedBy(q) ELSE AskedBy(look[k])
  BY <1>2, Zenon
<1>5. \A k \in Lookup : ToldTo(look'[k]) = IF k = l THEN ToldTo(q) ELSE ToldTo(look[k])
  BY <1>2, Zenon
<1> QED
  BY <1>3, <1>4, <1>5

\* A lookup made with an ask either ends over it, being blank, or is under way.
LEMMA StartPromised ==
    ASSUME LookupInv, NEW l \in Lookup, Start(l)
    PROVE  Promise!Ask(l) \/ Promise!Refuse(l)
<1> DEFINE stage == [k \in Lookup |-> StageOf(look[k])]
           asked == [k \in Lookup |-> AskedBy(look[k])]
           told == [k \in Lookup |-> ToldTo(look[k])]
<1>1. PICK m \in Menu[l] :
          LET q == [look[l] EXCEPT !.provider = m.provider, !.arg = m.arg]
          IN  \/ m.arg = {} /\ Becomes(l, Ended(q, Raises("ValueError")))
              \/ m.arg # {} /\ Becomes(l, Submitted(q, FirstService[m.provider]))
  BY Zenon DEF Start
<1> DEFINE q == [look[l] EXCEPT !.provider = m.provider, !.arg = m.arg]
           f == Ended(q, Raises("ValueError"))
           g == Submitted(q, FirstService[m.provider])
<1>2. \/ m.arg = {} /\ Becomes(l, f)
      \/ m.arg # {} /\ Becomes(l, g)
  BY <1>1
<1>3. LookOK /\ HeardOK(look[l]) /\ look[l].at = "new"
  BY DEF Start, LookupInv, ExecInv, HeardInv
<1>4. Whole(q) /\ q.provider = m.provider /\ q.arg = m.arg /\ q.outcome = Pending
  BY <1>3 DEF HeardOK, Whole
<1>5. AskOf(m) \in DOMAIN Tellable /\ AskOf(m).arg = m.arg
  BY DEF Asks, Tellable, AskOf
<1> HIDE DEF q
<1>6. StageOf(look[l]) = "new" /\ ToldTo(look[l]) = None
  BY <1>3 DEF StageOf, ToldTo
<1>7. CASE m.arg = {} /\ Becomes(l, f)
  <2>1. /\ f.at = "ended" /\ f.outcome = Raises("ValueError")
        /\ f.provider = m.provider /\ f.arg = m.arg
    BY <1>4, EndedIs
  <2>2. Becomes(l, f)
    BY <1>7
  <2> HIDE DEF f
  <2>3. f.outcome.raised = "ValueError" /\ f.outcome.result = None /\ Ends(f.outcome)
    BY <2>1, RaisesEnds DEF Raises, Endings
  <2>4. StageOf(f) = "ended" /\ AskedBy(f) = AskOf(m)
    BY <2>1 DEF StageOf, AskedBy, AskOf
  <2>5. ToldTo(f) = Promise!Refusal(422)
    BY <2>1, <2>3, StatusIs DEF ToldTo, Promise!Refusal
  <2>6. /\ stage' = [stage EXCEPT ![l] = "ended"]
        /\ asked' = [asked EXCEPT ![l] = AskOf(m)]
        /\ told' = [told EXCEPT ![l] = Promise!Refusal(422)]
    <3>1. /\ stage' = [stage EXCEPT ![l] = StageOf(f)]
          /\ asked' = [asked EXCEPT ![l] = AskedBy(f)]
          /\ told' = [told EXCEPT ![l] = ToldTo(f)]
      BY <1>3, <2>2, SeenOnce
    <3> HIDE DEF stage, asked, told
    <3> QED
      BY <2>4, <2>5, <3>1
  <2>7. stage[l] = "new" /\ asked'[l] = AskOf(m)
    BY <1>6, <2>6
  <2> HIDE DEF stage, asked, told
  <2>8. Promise!Makes(l) /\ asked'[l].arg = {}
    BY <1>5, <1>7, <2>6, <2>7 DEF Promise!Makes, stage, asked
  <2> QED
    BY <2>6, <2>8 DEF Promise!Refuse, stage, asked, told
<1>8. CASE m.arg # {} /\ Becomes(l, g)
  <2>1. g.at = "waiting" /\ g.provider = m.provider /\ g.arg = m.arg
    BY <1>4, SubmittedIs
  <2>2. Becomes(l, g)
    BY <1>8
  <2> HIDE DEF g
  <2>3. StageOf(g) = "asked" /\ AskedBy(g) = AskOf(m) /\ ToldTo(g) = None
    BY <2>1 DEF StageOf, AskedBy, AskOf, ToldTo
  <2>4. /\ stage' = [stage EXCEPT ![l] = "asked"]
        /\ asked' = [asked EXCEPT ![l] = AskOf(m)]
        /\ told' = [told EXCEPT ![l] = None]
    <3>1. /\ stage' = [stage EXCEPT ![l] = StageOf(g)]
          /\ asked' = [asked EXCEPT ![l] = AskedBy(g)]
          /\ told' = [told EXCEPT ![l] = ToldTo(g)]
      BY <1>3, <2>2, SeenOnce
    <3> HIDE DEF stage, asked, told
    <3> QED
      BY <2>3, <3>1
  <2>5. stage[l] = "new" /\ asked'[l] = AskOf(m) /\ told' = told
    BY <1>6, <2>4
  <2> HIDE DEF stage, asked, told
  <2>6. Promise!Makes(l) /\ asked'[l].arg # {}
    BY <1>5, <1>8, <2>4, <2>5 DEF Promise!Makes, stage, asked
  <2> QED
    BY <2>4, <2>5, <2>6 DEF Promise!Ask, stage, asked, told
<1> QED
  BY <1>2, <1>7, <1>8

\* A lookup under way stays what it was made with.
GoesAhead(l) ==
    /\ look[l].at \in {"waiting", "asking"}
    /\ \E q : Becomes(l, q) /\ q.at # "new" /\ AskOf(q) = AskOf(look[l])

LEMMA AheadPromised ==
    ASSUME LookupInv, HeardInv', NEW l \in Lookup, GoesAhead(l)
    PROVE  Promise!Tell(l) \/ UNCHANGED Promise!vars
<1> DEFINE stage == [k \in Lookup |-> StageOf(look[k])]
           asked == [k \in Lookup |-> AskedBy(look[k])]
           told == [k \in Lookup |-> ToldTo(look[k])]
<1>1. PICK q : Becomes(l, q) /\ q.at # "new" /\ AskOf(q) = AskOf(look[l])
  BY DEF GoesAhead
<1>2. LookOK /\ look[l].at \in {"waiting", "asking"}
  BY DEF LookupInv, ExecInv, GoesAhead
<1>3. look'[l] = q
  BY <1>1, <1>2 DEF LookOK, Becomes
<1>4. HeardOK(q)
  <2>1. HeardOK(look'[l])
    BY Zenon DEF HeardInv
  <2> QED
    BY <1>3, <2>1
<1>5. /\ StageOf(look[l]) = "asked" /\ AskedBy(look[l]) = AskOf(look[l])
      /\ ToldTo(look[l]) = None /\ AskedBy(q) = AskOf(look[l])
  BY <1>1, <1>2 DEF StageOf, AskedBy, ToldTo
<1>6. /\ stage[l] = "asked" /\ asked[l] = AskOf(look[l]) /\ told[l] = None
      /\ stage' = [stage EXCEPT ![l] = StageOf(q)]
      /\ asked' = [asked EXCEPT ![l] = AskedBy(q)]
      /\ told' = [told EXCEPT ![l] = ToldTo(q)]
  BY <1>1, <1>2, <1>5, SeenOnce
<1>7. asked' = asked
  BY <1>5, <1>6
<1>8. told'[l] = ToldTo(q)
  BY <1>6
<1>9. CASE q.at = "ended"
  <2>1. StageOf(q) = "ended"
    BY <1>9 DEF StageOf
  <2>2. ToldTo(q) \in Promise!Answer(AskOf(look[l]))
    <3>1. ToldTo(q) \in Promise!Answer(AskOf(q))
      BY <1>4, <1>9, ToldIs
    <3> QED
      BY <1>1, <3>1
  <2> HIDE DEF stage, asked, told
  <2>3. /\ stage' = [stage EXCEPT ![l] = "ended"]
        /\ told'[l] \in Promise!Answer(asked[l])
        /\ told' = [told EXCEPT ![l] = told'[l]]
    BY <1>6, <1>8, <2>1, <2>2
  <2> QED
    BY <1>6, <1>7, <2>3 DEF Promise!Tell, stage, asked, told
<1>10. CASE q.at # "ended"
  <2>1. StageOf(q) = "asked" /\ ToldTo(q) = None
    BY <1>1, <1>10 DEF StageOf, ToldTo
  <2>2. stage = [k \in Lookup |-> stage[k]] /\ told = [k \in Lookup |-> told[k]]
    OBVIOUS
  <2> HIDE DEF stage, asked, told
  <2>3. stage' = stage
    BY <1>6, <2>1, <2>2
  <2>4. told' = told
    BY <1>6, <2>1, <2>2
  <2> QED
    BY <1>7, <2>3, <2>4 DEF Promise!vars, stage, asked, told
<1> QED
  BY <1>9, <1>10

LEMMA ConcludesAhead ==
    ASSUME HeardInv, NEW l \in Lookup, look[l].at \in {"waiting", "asking"}, NEW reply,
           Concludes(l, reply)
    PROVE  GoesAhead(l)
<1> DEFINE h == Heard(l, reply)
           e == Ended(h, Outcome(h))
<1>1. Whole(look[l])
  BY DEF HeardInv, HeardOK
<1>2. Whole(h) /\ h.provider = look[l].provider /\ h.arg = look[l].arg
  BY <1>1, HeardIs
<1>3. Becomes(l, e)
  BY DEF Concludes
<1> HIDE DEF h
<1>4. e.at = "ended" /\ e.provider = look[l].provider /\ e.arg = look[l].arg
  BY <1>2, EndedIs
<1> HIDE DEF e
<1> QED
  BY <1>3, <1>4 DEF GoesAhead, AskOf

\* The steps between the start and the end of a lookup.
LEMMA StepsAhead ==
    ASSUME LookupInv, NEW l \in Lookup,
           Resolved(l) \/ Worked(l) \/ TimesOut(l) \/ Replied(l) \/ NeverComplete(l)
    PROVE  GoesAhead(l) \/ UNCHANGED look
<1>1. HeardInv /\ Whole(look[l])
  BY DEF LookupInv, HeardInv, HeardOK
<1>2. ASSUME NEW stage, stage # "new", look[l].at \in {"waiting", "asking"},
             Becomes(l, [look[l] EXCEPT !.at = stage])
      PROVE  GoesAhead(l)
  <2> DEFINE q == [look[l] EXCEPT !.at = stage]
  <2>1. q.at = stage /\ q.provider = look[l].provider /\ q.arg = look[l].arg
    BY <1>1, MovedIs
  <2>2. Becomes(l, q)
    BY <1>2
  <2> HIDE DEF q
  <2> QED
    BY <1>2, <2>1, <2>2 DEF GoesAhead, AskOf
<1>3. CASE Resolved(l)
  BY <1>1, <1>2, <1>3, ConcludesAhead DEF Resolved
<1>4. CASE Worked(l)
  BY <1>1, <1>4, ConcludesAhead DEF Worked
<1>5. CASE TimesOut(l)
  <2>1. look[l].at = "waiting" /\ GivesUp(l)
    BY <1>5 DEF TimesOut
  <2>2. CASE Becomes(l, Ended(look[l], Raises("RuntimeError")))
    <3> DEFINE e == Ended(look[l], Raises("RuntimeError"))
    <3>1. e.at = "ended" /\ e.provider = look[l].provider /\ e.arg = look[l].arg
      BY <1>1, EndedIs
    <3>2. Becomes(l, e)
      BY <2>2
    <3> HIDE DEF e
    <3> QED
      BY <2>1, <3>1, <3>2 DEF GoesAhead, AskOf
  <2> QED
    BY <1>1, <2>1, <2>2, ConcludesAhead DEF GivesUp
<1>6. CASE Replied(l)
  <2>1. PICK reply : \/ Becomes(l, Submitted(Heard(l, reply), "submissions"))
                     \/ Concludes(l, reply)
    BY <1>6 DEF Replied
  <2>2. look[l].at = "asking"
    BY <1>6 DEF Replied
  <2>3. CASE Becomes(l, Submitted(Heard(l, reply), "submissions"))
    <3> DEFINE h == Heard(l, reply)
               s == Submitted(h, "submissions")
    <3>1. Whole(h) /\ h.provider = look[l].provider /\ h.arg = look[l].arg
      BY <1>1, HeardIs
    <3>2. Becomes(l, s)
      BY <2>3
    <3> HIDE DEF h
    <3>3. s.at = "waiting" /\ s.provider = look[l].provider /\ s.arg = look[l].arg
      BY <3>1, SubmittedIs
    <3> HIDE DEF s
    <3> QED
      BY <2>2, <3>2, <3>3 DEF GoesAhead, AskOf
  <2> QED
    BY <1>1, <2>1, <2>2, <2>3, ConcludesAhead
<1>7. CASE NeverComplete(l)
  BY <1>2, <1>7 DEF NeverComplete
<1> QED
  BY <1>3, <1>4, <1>5, <1>6, <1>7

LEMMA PromiseStep ==
    LookupInv /\ LookupInv' /\ [Next]_vars => [Promise!Next]_(Promise!vars)
<1> SUFFICES ASSUME LookupInv, LookupInv', [Next]_vars
             PROVE  [Promise!Next]_(Promise!vars)
  OBVIOUS
<1>1. ASSUME UNCHANGED look PROVE UNCHANGED Promise!vars
  BY <1>1 DEF Promise!vars, StageOf, AskedBy, ToldTo
<1>2. ASSUME NEW l \in Lookup, Start(l) PROVE Promise!Next
  BY <1>2, StartPromised DEF Promise!Next
<1>3. ASSUME NEW l \in Lookup,
             Resolved(l) \/ Worked(l) \/ TimesOut(l) \/ Replied(l) \/ NeverComplete(l)
      PROVE  [Promise!Next]_(Promise!vars)
  <2>1. CASE GoesAhead(l)
    <3>1. HeardInv'
      BY DEF LookupInv
    <3>2. Promise!Tell(l) \/ UNCHANGED Promise!vars
      BY <2>1, <3>1, AheadPromised
    <3> QED
      BY <3>2 DEF Promise!Next
  <2> QED
    BY <1>1, <1>3, <2>1, StepsAhead
<1>4. CASE Taken \/ UNCHANGED vars
  BY <1>1, <1>4 DEF Taken, vars
<1> QED
  BY <1>2, <1>3, <1>4 DEF Next

LEMMA PromiseInit == Init => Promise!Init
<1> SUFFICES ASSUME Init PROVE Promise!Init
  OBVIOUS
<1>1. \A l \in Lookup : look[l].at = "new"
  BY DEF Init, Unasked
<1>2. \A l \in Lookup :
        StageOf(look[l]) = "new" /\ AskedBy(look[l]) = None /\ ToldTo(look[l]) = None
  BY <1>1 DEF StageOf, AskedBy, ToldTo
<1> QED
  BY <1>2 DEF Promise!Init

\* Providers implements Upstream: a lookup has one answer, which nothing that
\* comes late changes; a result is one its provider can come to for what the
\* lookup was made with, from one conversation with its services; and anything
\* else is a 422 or a 502 (sec_edgar.py:49-78, google_trends.py:52-74 and their
\* like, routes/funding.py:56-66).
THEOREM ImplementsUpstream == Spec => AnswersAsPromised
<1> QED
  BY PromiseInit, PromiseStep, LookupInit, LookupStep, PTL
     DEF Spec, AnswersAsPromised, Promise!Spec
=============================================================================
