-------------------------------- MODULE Sums --------------------------------
(***************************************************************************)
(* Totals as Postgres and Python compute them, SUM(...) of cost.py and      *)
(* sum(...) of google_trends.py: one summand after the other.               *)
(***************************************************************************)
EXTENDS Integers, Sequences

\* The sum of a sequence of numbers.  A recursive function, for want of facts
\* about the folds of the community modules that could be cited in a proof.
Sum(s) ==
    LET upTo[n \in 0..Len(s)] == IF n = 0 THEN 0 ELSE upTo[n - 1] + s[n]
    IN  upTo[Len(s)]
=============================================================================
