------------------------------- MODULE MCCost -------------------------------
(***************************************************************************)
(* A small instance of Cost: two callers, two skills, a pool of one         *)
(* connection, a window of one tick.                                        *)
(***************************************************************************)
EXTENDS Cost, TLC

CONSTANTS c1, c2

Symmetric == Permutations({c1, c2})
=============================================================================
