------------------------------ MODULE Upstream ------------------------------
(***************************************************************************)
(* What the routes rely on when they ask a provider, whatever its services  *)
(* and its threads do: a blank argument is refused before anybody is asked; *)
(* any other one has at most one answer, a result this provider can come to *)
(* for this argument, or a refusal of theirs.  Module Providers is shown to *)
(* implement this one.                                                      *)
(***************************************************************************)
CONSTANTS
    Lookup,
    Answers,    \* provider and argument -> the results that may be told
    Blank,      \* the argument without a word
    None

VARIABLES
    stage,      \* lookup -> "new", "asked" or "ended"
    asked,      \* lookup -> the provider and the argument
    told        \* lookup -> the status and the result its route goes on with

vars == <<stage, asked, told>>

Refusal(status) == [status |-> status, result |-> None]

Answer(a) ==
    [status : {200}, result : Answers[a]] \cup {Refusal(422), Refusal(502)}

Init ==
    /\ stage = [l \in Lookup |-> "new"]
    /\ asked = [l \in Lookup |-> None]
    /\ told = [l \in Lookup |-> None]

Makes(l) ==
    /\ stage[l] = "new"
    /\ asked'[l] \in DOMAIN Answers
    /\ asked' = [asked EXCEPT ![l] = asked'[l]]

Ask(l) ==
    /\ Makes(l) /\ asked'[l].arg # Blank
    /\ stage' = [stage EXCEPT ![l] = "asked"]
    /\ UNCHANGED told

Refuse(l) ==
    /\ Makes(l) /\ asked'[l].arg = Blank
    /\ stage' = [stage EXCEPT ![l] = "ended"]
    /\ told' = [told EXCEPT ![l] = Refusal(422)]

Tell(l) ==
    /\ stage[l] = "asked"
    /\ stage' = [stage EXCEPT ![l] = "ended"]
    /\ told'[l] \in Answer(asked[l])
    /\ told' = [told EXCEPT ![l] = told'[l]]
    /\ UNCHANGED asked

Next == \E l \in Lookup : Ask(l) \/ Refuse(l) \/ Tell(l)

Spec == Init /\ [][Next]_vars
=============================================================================
