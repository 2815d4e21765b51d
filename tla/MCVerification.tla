--------------------------- MODULE MCVerification ---------------------------
(***************************************************************************)
(* Two families of requests: one insight with all combinations of up to     *)
(* two sources, confidence and target; and two insights with up to one and  *)
(* up to two numbers, at and around the thresholds.                         *)
(***************************************************************************)
EXTENDS Verification

At(login, user, host, port) == [login |-> login, user |-> user, host |-> host, port |-> port]

Stripe == <<"stripe", "com">>

Host == {Stripe, <<"www", "stripe", "com">>, Append(Stripe, ""),
         <<"ft", "com">>, <<"bbc", "co", "uk">>, <<"itv", "co", "uk">>, <<"localhost">>,
         <<"www", "com">>, <<"blog", "www", "com">>}

Netloc ==
    {At("none", "", h, "none") : h \in Host} \cup
    {At("none", "", <<"blog", "stripe", "com">>, "8443"), At("name", "a", Stripe, "none"),
     At("password", "a", Stripe, "none"), At("password", "", Stripe, "none")}

UpTo(S, n) == UNION {[1..m -> S] : m \in 0..n}

Insight(domain, sources, confidence, facts) ==
    [domain |-> domain, sources |-> sources, confidence |-> confidence, facts |-> facts]

Target == {None, At("none", "", Stripe, "none"),
           At("none", "", <<"www", "bbc", "co", "uk">>, "none")}

CitingRequests ==
    {[insights |-> <<Insight("market", sources, confidence, << >>)>>,
      target |-> target, skip |-> FALSE] :
        sources \in UpTo(Netloc, 2), confidence \in Confidence, target \in Target}

Fact == {[metric |-> m, value |-> v] : m \in {"headcount", "arr_usd"}, v \in {0, 4, 5, 9}}
          \cup {[metric |-> "funding_round_usd", value |-> v] : v \in {10, 11, 12}}
          \cup {[metric |-> "founding_year", value |-> v] : v \in {16, 27}}

CountingRequests ==
    {[insights |-> <<Insight("people", << >>, "medium", f), Insight(d, << >>, "low", g)>>,
      target |-> None, skip |-> TRUE] :
        f \in UpTo(Fact, 1), g \in UpTo(Fact, 2), d \in {"people", "money"}}

MCFaults == {{}, {"headcount"}, {"disagreement_thresholds"}}

MCPublicSuffix == {<<"com">>, <<"uk">>, <<"co", "uk">>}

MCRequests == CitingRequests \cup CountingRequests

MCBounds ==
    [headcount |-> [min |-> 1, max |-> 8], arr_usd |-> [min |-> 0, max |-> 8],
     funding_round_usd |-> [min |-> 11, max |-> 100],
     founding_year |-> [min |-> 17, max |-> 26]]
=============================================================================
