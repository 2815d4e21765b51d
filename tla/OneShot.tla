------------------------------ MODULE OneShot ------------------------------
(***************************************************************************)
(* What a lazily opened, process-wide connection promises.                  *)
(*                                                                          *)
(* Both back ends of the service are opened by the first request that needs *)
(* them: Redis by _get_client of src/cache.py, Postgres by _get_pool of     *)
(* src/cost.py.  The promise is the same: one attempt per process life.  A  *)
(* connection that came up stays up, one that failed is not tried again     *)
(* until the process restarts.  Cache and Cost are shown to implement this  *)
(* module.                                                                  *)
(***************************************************************************)
EXTENDS Integers

VARIABLES
    life,   \* 0 or 1: flips when the process restarts, so that two
            \* successive lives can be told apart
    phase   \* where the attempt of the present life stands

vars == <<life, phase>>

Phases == {"untried", "trying", "up", "down"}

Init == life = 0 /\ phase = "untried"

\* There is nothing to connect to: no address is configured, or it cannot
\* even be parsed.
Skip == phase = "untried" /\ phase' = "down" /\ life' = life

Attempt == phase = "untried" /\ phase' = "trying" /\ life' = life

Succeed == phase = "trying" /\ phase' = "up" /\ life' = life

Fail == phase = "trying" /\ phase' = "down" /\ life' = life

Restart == life' = 1 - life /\ phase' = "untried"

Next == Skip \/ Attempt \/ Succeed \/ Fail \/ Restart

Spec == Init /\ [][Next]_vars
=============================================================================
