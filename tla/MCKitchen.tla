----------------------------- MODULE MCKitchen -----------------------------
(***************************************************************************)
(* Small instances of Kitchen.                                              *)
(***************************************************************************)
EXTENDS Kitchen, TLC

CONSTANTS r1, r2, r3, exa, other

\* Two searches that differ in their limit only.
TwoLimits == "search" :> {[query |-> "acme", limit |-> n] : n \in {5, 10}}

OneCompany == "funding" :> {[company |-> "acme"]}

\* Redis disturbs the entry of one of the four questions.
OneShaken ==
    {[signal |-> "search", provider |-> exa, payload |-> [query |-> "acme", limit |-> 5]]}

\* Foreign text without a time to live; an eviction may end it at any time.
NoEnd == {-1}

SearchExaOther == {"search"} \X {exa, other}

FundingExa == {<<"funding", exa>>}

FundingExaOther == {"funding"} \X {exa, other}

\* The shipped providers.yaml can name any of these.
ShippedNames == {d[2] : d \in Defined}

OneCompanyOneQuery == OneCompany @@ TwoLimits

Symmetric == Permutations({r1, r2})
=============================================================================
