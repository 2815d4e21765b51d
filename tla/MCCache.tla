------------------------------ MODULE MCCache ------------------------------
(***************************************************************************)
(* Small instances of Cache: two triples that differ in the provider only,  *)
(* one of them with a value json.dumps refuses.                             *)
(***************************************************************************)
EXTENDS Cache, TLC

CONSTANTS c1, c2, exa, other, acme

MCAsk == {[signal |-> "search", provider |-> p, payload |-> acme] : p \in {exa, other}}

MCValue == {"good", "better", "circular"}

MCOwner ==
    [v \in MCValue |->
        [signal |-> "search", provider |-> IF v = "better" THEN other ELSE exa,
         payload |-> acme]]

\* Foreign text that stays, and foreign text that goes with the next tick.
MCForeignTtl == {NoExpiry, 1}

MCDigest == [p \in {acme} |-> "d1"]

Symmetric == Permutations({c1, c2})
=============================================================================
