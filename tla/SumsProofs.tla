----------------------------- MODULE SumsProofs -----------------------------
(***************************************************************************)
(* What Sum computes, and what else is proved by looking at a least number. *)
(*                                                                          *)
(* The induction theorems of the library take a predicate as a parameter,   *)
(* which the provers cannot instantiate.  Induct takes a set of numbers     *)
(* instead.                                                                 *)
(***************************************************************************)
EXTENDS Sums, FiniteSetTheorems, WellFoundedInduction, TLAPS

\* A set of natural numbers that is not empty has a least member.
LEMMA Least ==
    ASSUME NEW S \in SUBSET Nat, S # {}
    PROVE  \E m \in S : \A k \in S : m =< k
<1>1. PICK n \in S : TRUE
  OBVIOUS
<1> DEFINE Below(m) == 0..m
           F == {Below(m) : m \in S \cap 0..n}
<1>2. F \subseteq SUBSET (0..n) /\ F # {}
  <2>1. \A m \in S \cap 0..n : Below(m) \subseteq 0..n
    OBVIOUS
  <2>2. n \in S \cap 0..n
    BY <1>1
  <2> HIDE DEF Below
  <2> QED
    BY <2>1, <2>2
<1>3. F \subseteq FiniteSubsetsOf(0..n) /\ IsFiniteSet(0..n)
  <2> HIDE DEF F
  <2>1. IsFiniteSet(0..n)
    BY FS_Interval
  <2> QED
    BY <1>2, <2>1, FS_FiniteSubsetsOfFinite
<1>4. PICK T \in F : \A U \in F : <<U, T>> \notin StrictSubsetOrdering(0..n)
  BY <1>2, <1>3, FS_StrictSubsetOrderingWellFounded, WFMin
<1>5. PICK m \in S \cap 0..n : T = Below(m)
  OBVIOUS
<1>6. ASSUME NEW k \in S PROVE m =< k
  <2> SUFFICES ASSUME k < m PROVE FALSE
    OBVIOUS
  <2>1. k \in S \cap 0..n /\ Below(k) \subseteq Below(m) /\ m \in Below(m) /\ m \notin Below(k)
    OBVIOUS
  <2>2. Below(k) \in F
    BY <2>1
  <2>3. <<Below(k), Below(m)>> \in StrictSubsetOrdering(0..n)
    BY <1>2, <2>1, <2>2 DEF StrictSubsetOrdering
  <2> QED
    BY <1>4, <1>5, <2>2, <2>3
<1> QED
  BY <1>6

\* What holds of 0, and of n + 1 whenever of n, holds of all up to N.
LEMMA Induct ==
    ASSUME NEW N \in Nat, NEW P, 0 \in P,
           \A n \in 0..(N - 1) : n \in P => n + 1 \in P
    PROVE  0..N \subseteq P
<1> SUFFICES ASSUME ~(0..N \subseteq P) PROVE FALSE
  OBVIOUS
<1> DEFINE S == 0..N \ P
<1>1. S \in SUBSET Nat /\ S # {}
  OBVIOUS
<1>2. PICK m \in S : \A k \in S : m =< k
  <2> HIDE DEF S
  <2> QED
    BY <1>1, Least
<1>3. m \in Nat /\ m # 0 /\ m - 1 \in 0..(N - 1) /\ m - 1 \notin S
  BY <1>2
<1> QED
  BY <1>2, <1>3
----------------------------------------------------------------------------
(* Sums. *)

\* The equation that defines the function in Sum.
Solves(s, f) == f = [n \in 0..Len(s) |-> IF n = 0 THEN 0 ELSE f[n - 1] + s[n]]

Totals(s, f) == Solves(s, f) /\ f \in [0..Len(s) -> Nat]

LEMMA TotalsExist ==
    ASSUME NEW s \in Seq(Nat)
    PROVE  \E f : Totals(s, f)
<1> DEFINE N == Len(s)
           To(k, f) == /\ f \in [0..k -> Nat] /\ f[0] = 0
                       /\ \A n \in 1..k : f[n] = f[n - 1] + s[n]
           P == {k \in 0..N : \E f : To(k, f)}
<1>1. N \in Nat /\ \A n \in 1..N : s[n] \in Nat
  OBVIOUS
<1>2. 0 \in P
  <2>1. To(0, [n \in 0..0 |-> 0])
    OBVIOUS
  <2> HIDE DEF To
  <2> QED
    BY <1>1, <2>1
<1>3. ASSUME NEW k \in 0..(N - 1), k \in P PROVE k + 1 \in P
  <2>1. PICK f : To(k, f)
    BY <1>3
  <2> DEFINE g == [n \in 0..(k + 1) |-> IF n = k + 1 THEN f[k] + s[k + 1] ELSE f[n]]
  <2>2. k \in Nat /\ k + 1 \in 1..N /\ k \in 0..k /\ k + 1 \in 0..N
    BY <1>1
  <2>3. f[k] + s[k + 1] \in Nat
    BY <1>1, <2>1, <2>2
  <2>4. g \in [0..(k + 1) -> Nat]
    BY <2>1, <2>2, <2>3
  <2>5. g[0] = 0
    BY <2>1, <2>2
  <2>6. ASSUME NEW n \in 1..(k + 1) PROVE g[n] = g[n - 1] + s[n]
    <3>1. n - 1 \in 0..k /\ n - 1 # k + 1 /\ n \in 0..(k + 1)
      BY <2>2
    <3>2. g[n - 1] = f[n - 1]
      BY <3>1
    <3>3. CASE n = k + 1
      BY <2>2, <3>1, <3>2, <3>3
    <3>4. CASE n # k + 1
      <4>1. n \in 1..k /\ g[n] = f[n]
        BY <2>2, <3>1, <3>4
      <4> QED
        BY <2>1, <3>2, <4>1
    <3> QED
      BY <3>3, <3>4
  <2>7. To(k + 1, g)
    BY <2>4, <2>5, <2>6
  <2> HIDE DEF To, g
  <2> QED
    BY <2>2, <2>7
<1>4. N \in P
  <2> HIDE DEF P, N
  <2>1. 0..N \subseteq P
    BY <1>1, <1>2, <1>3, Induct
  <2> QED
    BY <1>1, <2>1
<1>5. PICK f : To(N, f)
  BY <1>4
<1>6. f = [n \in 0..Len(s) |-> IF n = 0 THEN 0 ELSE f[n - 1] + s[n]]
  BY <1>1, <1>5
<1> QED
  BY <1>5, <1>6 DEF Totals, Solves

\* The defining equation of Sum has one solution only.
LEMMA TotalsAgree ==
    ASSUME NEW s \in Seq(Nat), NEW t \in Seq(Nat), Len(s) =< Len(t),
           \A n \in 1..Len(s) : s[n] = t[n],
           NEW f, NEW g, Solves(s, f), Solves(t, g)
    PROVE  \A n \in 0..Len(s) : f[n] = g[n]
<1> DEFINE N == Len(s)
           P == {n \in 0..N : f[n] = g[n]}
<1>1. N \in Nat /\ Len(t) \in Nat
  OBVIOUS
<1>2. \A n \in 0..N : f[n] = IF n = 0 THEN 0 ELSE f[n - 1] + s[n]
  BY DEF Solves
<1>3. \A n \in 0..Len(t) : g[n] = IF n = 0 THEN 0 ELSE g[n - 1] + t[n]
  BY DEF Solves
<1>4. 0 \in P
  BY <1>1, <1>2, <1>3
<1>5. ASSUME NEW n \in 0..(N - 1), n \in P PROVE n + 1 \in P
  <2>1. /\ n + 1 \in 0..N /\ n + 1 \in 0..Len(t) /\ n + 1 # 0 /\ (n + 1) - 1 = n
        /\ n + 1 \in 1..N
    BY <1>1
  <2>2. f[n + 1] = f[n] + s[n + 1] /\ g[n + 1] = g[n] + t[n + 1]
    BY <1>2, <1>3, <2>1
  <2> QED
    BY <1>5, <2>1, <2>2
<1> HIDE DEF P, N
<1>6. 0..N \subseteq P
  BY <1>1, <1>4, <1>5, Induct
<1> QED
  BY <1>6 DEF P, N

LEMMA SumIs ==
    ASSUME NEW s \in Seq(Nat), NEW f, Totals(s, f)
    PROVE  Sum(s) = f[Len(s)]
<1> DEFINE g == CHOOSE x : x = [n \in 0..Len(s) |-> IF n = 0 THEN 0 ELSE x[n - 1] + s[n]]
<1>1. Solves(s, g)
  BY DEF Totals, Solves
<1>2. Sum(s) = g[Len(s)]
  BY DEF Sum
<1> HIDE DEF g
<1>3. Len(s) \in 0..Len(s)
  OBVIOUS
<1>4. \A n \in 0..Len(s) : g[n] = f[n]
  BY <1>1, <1>3, TotalsAgree DEF Totals
<1> QED
  BY <1>2, <1>3, <1>4

LEMMA SumType == ASSUME NEW s \in Seq(Nat) PROVE Sum(s) \in Nat
<1>1. PICK f : Totals(s, f)
  BY TotalsExist
<1>2. f \in [0..Len(s) -> Nat] /\ Len(s) \in 0..Len(s)
  BY <1>1 DEF Totals
<1> QED
  BY <1>1, <1>2, SumIs

LEMMA SumEmpty == Sum(<< >>) = 0
<1>1. << >> \in Seq(Nat) /\ Len(<< >>) = 0
  OBVIOUS
<1>2. PICK f : Totals(<< >>, f)
  BY <1>1, TotalsExist
<1> QED
  BY <1>1, <1>2, SumIs DEF Totals, Solves

\* One more summand.
LEMMA SumAppend ==
    ASSUME NEW s \in Seq(Nat), NEW x \in Nat
    PROVE  Sum(Append(s, x)) = Sum(s) + x
<1> DEFINE t == Append(s, x)
<1>1. /\ t \in Seq(Nat) /\ Len(t) = Len(s) + 1 /\ Len(s) \in Nat
      /\ \A n \in 1..Len(s) : s[n] = t[n]
      /\ t[Len(s) + 1] = x
  OBVIOUS
<1> HIDE DEF t
<1>2. PICK f : Totals(s, f)
  BY TotalsExist
<1>3. PICK g : Totals(t, g)
  BY <1>1, TotalsExist
<1>4. \A n \in 0..Len(s) : f[n] = g[n]
  BY <1>1, <1>2, <1>3, TotalsAgree DEF Totals
<1>5. g[Len(s) + 1] = g[Len(s)] + x
  BY <1>1, <1>3 DEF Totals, Solves
<1>6. Sum(s) = f[Len(s)] /\ Sum(t) = g[Len(s) + 1]
  BY <1>1, <1>2, <1>3, SumIs
<1> QED
  BY <1>1, <1>4, <1>5, <1>6 DEF t

LEMMA PrependAppend ==
    ASSUME NEW s \in Seq(Nat), NEW x \in Nat, NEW y \in Nat
    PROVE  /\ <<x>> \o s \in Seq(Nat)
           /\ <<x>> \o Append(s, y) = Append(<<x>> \o s, y)
<1> DEFINE a == <<x>> \o Append(s, y)
           b == Append(<<x>> \o s, y)
<1>1. a \in Seq(Nat) /\ b \in Seq(Nat) /\ <<x>> \o s \in Seq(Nat)
  OBVIOUS
<1>2. Len(a) = Len(s) + 2 /\ Len(b) = Len(s) + 2 /\ Len(s) \in Nat
  OBVIOUS
<1>3. ASSUME NEW i \in 1..(Len(s) + 2) PROVE a[i] = b[i]
  OBVIOUS
<1> HIDE DEF a, b
<1>4. a = b
  BY <1>1, <1>2, <1>3
<1> QED
  BY <1>1, <1>4 DEF a, b

\* One summand more at the other end.
LEMMA SumPrepend ==
    ASSUME NEW s \in Seq(Nat), NEW x \in Nat
    PROVE  Sum(<<x>> \o s) = x + Sum(s)
<1> DEFINE N == Len(s)
           Start(k) == SubSeq(s, 1, k)
           P == {k \in 0..N : Sum(<<x>> \o Start(k)) = x + Sum(Start(k))}
<1>1. N \in Nat
  OBVIOUS
<1>2. 0 \in P
  <2>1. Start(0) = << >> /\ <<x>> \o << >> = Append(<< >>, x) /\ << >> \in Seq(Nat)
    OBVIOUS
  <2> HIDE DEF Start
  <2>2. Sum(Append(<< >>, x)) = Sum(<< >>) + x
    BY <2>1, SumAppend
  <2>3. Sum(<<x>> \o Start(0)) = Sum(<< >>) + x /\ Sum(Start(0)) = Sum(<< >>)
    BY <2>1, <2>2, Zenon
  <2>4. Sum(<<x>> \o Start(0)) = x + Sum(Start(0))
    BY <2>3, SumEmpty
  <2> QED
    BY <1>1, <2>4
<1>3. ASSUME NEW k \in 0..(N - 1), k \in P PROVE k + 1 \in P
  <2>1. k + 1 \in 0..N /\ s[k + 1] \in Nat /\ Start(k) \in Seq(Nat)
    BY <1>1
  <2>2. Start(k + 1) = Append(Start(k), s[k + 1])
    BY <1>1
  <2> HIDE DEF Start
  <2>3. /\ <<x>> \o Start(k) \in Seq(Nat)
        /\ <<x>> \o Append(Start(k), s[k + 1]) = Append(<<x>> \o Start(k), s[k + 1])
    BY <2>1, PrependAppend
  <2>4. Sum(<<x>> \o Start(k)) = x + Sum(Start(k)) /\ Sum(Start(k)) \in Nat
    BY <1>3, <2>1, SumType
  <2>5. /\ Sum(Append(Start(k), s[k + 1])) = Sum(Start(k)) + s[k + 1]
        /\ Sum(Append(<<x>> \o Start(k), s[k + 1])) = Sum(<<x>> \o Start(k)) + s[k + 1]
    BY <2>1, <2>3, SumAppend
  <2>6. /\ Sum(<<x>> \o Start(k + 1)) = Sum(<<x>> \o Start(k)) + s[k + 1]
        /\ Sum(Start(k + 1)) = Sum(Start(k)) + s[k + 1]
    BY <2>2, <2>3, <2>5, Zenon
  <2>7. Sum(<<x>> \o Start(k + 1)) = x + Sum(Start(k + 1))
    BY <2>1, <2>4, <2>6
  <2> QED
    BY <2>1, <2>7
<1>4. N \in P
  <2> HIDE DEF P, N
  <2>1. 0..N \subseteq P
    BY <1>1, <1>2, <1>3, Induct
  <2> QED
    BY <1>1, <2>1
<1>5. Start(N) = s
  OBVIOUS
<1> HIDE DEF Start, N
<1> QED
  BY <1>4, <1>5

Backwards(s) == [i \in 1..Len(s) |-> s[Len(s) - i + 1]]

LEMMA PrependAt ==
    ASSUME NEW s \in Seq(Nat), NEW x \in Nat
    PROVE  /\ <<x>> \o s \in Seq(Nat) /\ Len(<<x>> \o s) = Len(s) + 1
           /\ (<<x>> \o s)[1] = x
           /\ \A i \in 2..(Len(s) + 1) : (<<x>> \o s)[i] = s[i - 1]
OBVIOUS

LEMMA BackwardsAppend ==
    ASSUME NEW s \in Seq(Nat), NEW x \in Nat
    PROVE  /\ Backwards(s) \in Seq(Nat)
           /\ Backwards(Append(s, x)) = <<x>> \o Backwards(s)
<1> DEFINE b == Backwards(s)
           t == Append(s, x)
           a == Backwards(t)
           N == Len(s)
<1>1. N \in Nat /\ \A i \in 1..N : s[i] \in Nat
  OBVIOUS
<1>2. /\ t \in Seq(Nat) /\ Len(t) = N + 1
      /\ \A i \in 1..N : t[i] = s[i]
      /\ t[N + 1] = x
  OBVIOUS
<1>3. b \in [1..N -> Nat] /\ \A i \in 1..N : b[i] = s[N - i + 1]
  BY <1>1 DEF Backwards
<1> HIDE DEF t
<1>4. /\ a = [i \in 1..(N + 1) |-> t[N + 1 - i + 1]]
      /\ \A i \in 1..(N + 1) : t[i] \in Nat
  BY <1>1, <1>2 DEF Backwards
<1> HIDE DEF a, b, N
<1>5. a \in [1..(N + 1) -> Nat]
  <2>1. \A i \in 1..(N + 1) : N + 1 - i + 1 \in 1..(N + 1)
    BY <1>1
  <2>2. \A i \in 1..(N + 1) : t[N + 1 - i + 1] \in Nat
    BY <1>4, <2>1
  <2> QED
    BY <1>4, <2>2
<1>6. a[1] = x
  BY <1>1, <1>2, <1>4
<1>7. \A i \in 2..(N + 1) : a[i] = s[N - i + 2]
  <2> TAKE i \in 2..(N + 1)
  <2>1. i \in 1..(N + 1) /\ N + 1 - i + 1 = N - i + 2 /\ N - i + 2 \in 1..N
    BY <1>1
  <2> QED
    BY <1>2, <1>4, <2>1
<1>8. b \in Seq(Nat) /\ Len(b) = N
  BY <1>1, <1>3
<1>9. a \in Seq(Nat) /\ Len(a) = N + 1
  BY <1>1, <1>5
<1>10. /\ <<x>> \o b \in Seq(Nat) /\ Len(<<x>> \o b) = N + 1
       /\ (<<x>> \o b)[1] = x
       /\ \A i \in 2..(N + 1) : (<<x>> \o b)[i] = b[i - 1]
  BY <1>8, PrependAt, Zenon
<1> DEFINE e == <<x>> \o b
<1>11. /\ e \in Seq(Nat) /\ Len(e) = N + 1 /\ e[1] = x
       /\ \A i \in 2..(N + 1) : e[i] = b[i - 1]
  BY <1>10
<1> HIDE DEF e
<1>12. \A i \in 1..(N + 1) : a[i] = e[i]
  <2> TAKE i \in 1..(N + 1)
  <2>1. CASE i = 1
    BY <1>6, <1>11, <2>1
  <2>2. CASE i # 1
    <3>1. i \in 2..(N + 1) /\ i - 1 \in 1..N /\ N - (i - 1) + 1 = N - i + 2
      BY <1>1, <2>2
    <3> QED
      BY <1>3, <1>7, <1>11, <3>1
  <2> QED
    BY <2>1, <2>2
<1>13. a = e
  BY <1>1, <1>9, <1>11, <1>12
<1> QED
  BY <1>8, <1>13 DEF a, b, e, t

\* The order of the summands does not matter, at least if it is reversed.
LEMMA SumBackwards ==
    ASSUME NEW s \in Seq(Nat)
    PROVE  Sum(Backwards(s)) = Sum(s)
<1> DEFINE N == Len(s)
           Start(k) == SubSeq(s, 1, k)
           P == {k \in 0..N : Sum(Backwards(Start(k))) = Sum(Start(k))}
<1>1. N \in Nat
  OBVIOUS
<1>2. 0 \in P
  <2>1. Start(0) = << >> /\ Backwards(<< >>) = << >>
    BY DEF Backwards
  <2> HIDE DEF Start
  <2> QED
    BY <1>1, <2>1
<1>3. ASSUME NEW k \in 0..(N - 1), k \in P PROVE k + 1 \in P
  <2>1. /\ k + 1 \in 0..N /\ s[k + 1] \in Nat /\ Start(k) \in Seq(Nat)
        /\ Start(k + 1) = Append(Start(k), s[k + 1])
    BY <1>1
  <2> HIDE DEF Start
  <2>2. /\ Backwards(Start(k)) \in Seq(Nat)
        /\ Backwards(Append(Start(k), s[k + 1])) = <<s[k + 1]>> \o Backwards(Start(k))
    BY <2>1, BackwardsAppend
  <2>3. Sum(Backwards(Start(k))) = Sum(Start(k)) /\ Sum(Start(k)) \in Nat
    BY <1>3, <2>1, SumType
  <2>4. /\ Sum(Append(Start(k), s[k + 1])) = Sum(Start(k)) + s[k + 1]
        /\ Sum(<<s[k + 1]>> \o Backwards(Start(k))) = s[k + 1] + Sum(Backwards(Start(k)))
    BY <2>1, <2>2, SumAppend, SumPrepend
  <2>5. /\ Sum(Backwards(Start(k + 1))) = s[k + 1] + Sum(Backwards(Start(k)))
        /\ Sum(Start(k + 1)) = Sum(Start(k)) + s[k + 1]
    BY <2>1, <2>2, <2>4, Zenon
  <2>6. Sum(Backwards(Start(k + 1))) = Sum(Start(k + 1))
    BY <2>1, <2>3, <2>5
  <2> QED
    BY <2>1, <2>6
<1>4. N \in P
  <2> HIDE DEF P, N
  <2>1. 0..N \subseteq P
    BY <1>1, <1>2, <1>3, Induct
  <2> QED
    BY <1>1, <2>1
<1>5. Start(N) = s
  OBVIOUS
<1> HIDE DEF Start, N
<1> QED
  BY <1>4, <1>5
=============================================================================
