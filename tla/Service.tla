------------------------------ MODULE Service ------------------------------
(***************************************************************************)
(* What the service promises of each request, whatever happens inside it    *)
(* and to Redis, Postgres and the process: an answer that is decided once,  *)
(* goes out as it was decided, and is entered in the ledger at most once,   *)
(* for a known skill only.  The entry is handed to the keeper of the ledger *)
(* after the answer is decided and before it goes out, but nobody waits for *)
(* the keeper for ever: it may write what it was handed long after the      *)
(* answer went out or was lost, or never.                                   *)
(* Module Kitchen is shown to implement this one.                           *)
(***************************************************************************)
CONSTANTS
    Request,
    Answers,    \* records with the skill, the status and the result
    Bare,       \* those among them that no layer of the service made
    NoSkill,    \* the skill of whoever was not let in
    Undecided

VARIABLES
    stage,      \* request -> "new", "open", "decided", "sent" or "lost"
    answer,     \* request -> what its client is told, once that is decided
    posted,     \* requests whose entry the keeper has not written yet
    ledger      \* request -> the lines about it -> what they say

vars == <<stage, answer, posted, ledger>>

Entered(a) == [skill |-> a.skill, status |-> a.status]

Init ==
    /\ stage = [r \in Request |-> "new"]
    /\ answer = [r \in Request |-> Undecided]
    /\ posted = {}
    /\ ledger = [r \in Request |-> [line \in {} |-> Undecided]]

Enter(r) ==
    /\ stage[r] = "new"
    /\ stage' = [stage EXCEPT ![r] = "open"]
    /\ UNCHANGED <<answer, posted, ledger>>

\* Only a bare answer goes out past the layer that keeps the ledger.
Decide(r) ==
    /\ stage[r] \in {"new", "open"}
    /\ stage'[r] \in {"decided", "sent"} /\ stage' = [stage EXCEPT ![r] = stage'[r]]
    /\ answer'[r] \in Answers /\ answer' = [answer EXCEPT ![r] = answer'[r]]
    /\ stage'[r] = "sent" <=> answer'[r] \in Bare
    /\ UNCHANGED <<posted, ledger>>

\* The entry is handed over: once, and before the answer goes out.
Post(r) ==
    /\ stage[r] = "decided" /\ answer[r].skill # NoSkill
    /\ r \notin posted /\ DOMAIN ledger[r] = {}
    /\ posted' = posted \cup {r}
    /\ UNCHANGED <<stage, answer, ledger>>

\* The keeper writes it: one line of the ledger, wherever it may be, says of r
\* what its client is told, was told or would have been told.
Log(r) ==
    /\ r \in posted
    /\ posted' = posted \ {r}
    /\ \E line \in DOMAIN ledger'[r] : ledger'[r] = [l \in {line} |-> Entered(answer[r])]
    /\ ledger' = [ledger EXCEPT ![r] = ledger'[r]]
    /\ UNCHANGED <<stage, answer>>

Send(r) ==
    /\ stage[r] = "decided"
    /\ stage' = [stage EXCEPT ![r] = "sent"]
    /\ UNCHANGED <<answer, posted, ledger>>

\* The process dies with all that is under way, but for what was posted.
Die ==
    /\ stage' = [r \in Request |-> IF stage[r] \in {"open", "decided"} THEN "lost" ELSE stage[r]]
    /\ UNCHANGED <<answer, posted, ledger>>

Next == Die \/ \E r \in Request : Enter(r) \/ Decide(r) \/ Post(r) \/ Log(r) \/ Send(r)

Spec == Init /\ [][Next]_vars
=============================================================================
