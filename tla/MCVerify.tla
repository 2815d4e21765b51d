------------------------------ MODULE MCVerify ------------------------------
(***************************************************************************)
(* Two requests: one of two insights that cite three URLs, one of them in   *)
(* both and twice in the first, and with a number; and one that asks for no *)
(* check of its URLs.                                                       *)
(***************************************************************************)
EXTENDS Verify

Page(name) == [login |-> "none", user |-> "", host |-> <<name, "com">>, port |-> "none"]

MCUrl == {Page("stripe"), Page("ft"), Page("exa")}

Insight(domain, sources, confidence, facts) ==
    [domain |-> domain, sources |-> sources, confidence |-> confidence, facts |-> facts]

MCRequests ==
    {[insights |-> <<Insight("market", <<Page("ft"), Page("stripe"), Page("ft")>>, "high", << >>),
                     Insight("people", <<Page("exa"), Page("ft")>>, "medium",
                             <<[metric |-> "headcount", value |-> 9]>>)>>,
      target |-> None, skip |-> skip] : skip \in BOOLEAN}

MCFaults == {{}, {"headcount"}}

MCBounds == [headcount |-> [min |-> 1, max |-> 8]]
=============================================================================
