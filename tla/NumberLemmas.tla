---------------------------- MODULE NumberLemmas ----------------------------
(***************************************************************************)
(* Lemmas about natural numbers that the proofs of several modules use:    *)
(* the smallest and the greatest member of a set, induction up to a bound, *)
(* and recursive functions on an initial segment of the numbers.           *)
(***************************************************************************)
EXTENDS Naturals, FiniteSetsExt, WellFoundedInduction, TLAPS

LEMMA SmallestExists ==
    ASSUME NEW S, S \subseteq Nat, S # {}
    PROVE  \E i \in S : \A j \in S : i <= j
<1>1. PICK x \in S : \A y \in S : ~(<<y, x>> \in OpToRel(<, Nat))
  BY NatLessThanWellFounded, WFMin
<1>2. \A y \in S : ~(y < x)
  BY <1>1 DEF OpToRel
<1> QED
  BY <1>2

\* The least member of a set of numbers.
LEMMA MinIs ==
    ASSUME NEW S, S \subseteq Nat, S # {}
    PROVE  Min(S) \in S /\ \A x \in S : Min(S) <= x
BY SmallestExists DEF Min

\* The greatest member of a bounded one.
LEMMA MaxIs ==
    ASSUME NEW N \in Nat, NEW S, S \subseteq 0 .. N, S # {}
    PROVE  Max(S) \in S /\ \A x \in S : x <= Max(S)
<1> DEFINE T == {N - x : x \in S}
<1>1. T \subseteq Nat /\ T # {}
  <2>1. \A x \in S : N - x \in Nat
    OBVIOUS
  <2> QED
    BY <2>1
<1>2. PICK i \in T : \A j \in T : i <= j
  BY <1>1, SmallestExists
<1>3. PICK x \in S : i = N - x
  BY <1>2
<1>4. \A y \in S : x >= y
  BY <1>2, <1>3
<1> QED
  BY <1>3, <1>4 DEF Max

\* Induction up to N, for the members of a set.
LEMMA AllUpTo ==
    ASSUME NEW N \in Nat, NEW T, 0 \in T,
           \A i \in 1 .. N : i - 1 \in T => i \in T
    PROVE  \A i \in 0 .. N : i \in T
<1> DEFINE Bad == {i \in 0 .. N : i \notin T}
<1>1. SUFFICES ASSUME Bad # {} PROVE FALSE
  OBVIOUS
<1>2. PICK n \in Bad : \A m \in Bad : n <= m
  <2>1. Bad \subseteq Nat
    OBVIOUS
  <2> QED
    BY <1>1, <2>1, SmallestExists
<1>3. n \in 1 .. N /\ n - 1 \in 0 .. N /\ ~(n <= n - 1) /\ n \notin T
  OBVIOUS
<1>4. n - 1 \in T
  BY <1>2, <1>3
<1> QED
  BY <1>3, <1>4

Steps(N, V) == [1 .. N -> [V -> V]]
Iterates(g, N, V, b, h) ==
    /\ g \in [0 .. N -> V]
    /\ g[0] = b
    /\ \A i \in 1 .. N : g[i] = h[i][g[i - 1]]

LEMMA RecursionExists ==
    ASSUME NEW N \in Nat, NEW V, NEW b \in V, NEW h \in Steps(N, V)
    PROVE  \E g : Iterates(g, N, V, b, h)
<1> DEFINE G(n) == \E g \in [0 .. n -> V] :
                       g[0] = b /\ \A i \in 1 .. n : g[i] = h[i][g[i - 1]]
           Bad == {n \in 0 .. N : ~G(n)}
<1>1. SUFFICES ASSUME Bad # {} PROVE FALSE
  <2>1. N \in 0 .. N
    OBVIOUS
  <2>2. Bad = {} => G(N)
    BY <2>1
  <2> QED
    BY <2>2 DEF Iterates
<1>2. PICK n \in Bad : \A m \in Bad : n <= m
  <2>1. Bad \subseteq Nat
    OBVIOUS
  <2> QED
    BY <1>1, <2>1, SmallestExists
<1>3. n \in 0 .. N /\ n \in Nat /\ ~G(n)
  OBVIOUS
<1>4. n # 0
  <2>1. [x \in 0 .. 0 |-> b] \in [0 .. 0 -> V] /\ [x \in 0 .. 0 |-> b][0] = b
    OBVIOUS
  <2>2. \A i \in 1 .. 0 : FALSE
    OBVIOUS
  <2>3. G(0)
    BY <2>1, <2>2
  <2> QED
    BY <1>3, <2>3
<1>5. n - 1 \in 0 .. N /\ n - 1 \in Nat /\ ~(n <= n - 1)
  BY <1>3, <1>4
<1>6. G(n - 1)
  BY <1>2, <1>5
<1>7. PICK g \in [0 .. n - 1 -> V] :
          g[0] = b /\ \A i \in 1 .. n - 1 : g[i] = h[i][g[i - 1]]
  BY <1>6
<1> DEFINE f == [x \in 0 .. n |-> IF x = n THEN h[n][g[n - 1]] ELSE g[x]]
<1>8. g[n - 1] \in V /\ h[n][g[n - 1]] \in V
  BY <1>3, <1>4, <1>5, <1>7 DEF Steps
<1>9. f \in [0 .. n -> V] /\ f[n] = h[n][g[n - 1]]
      /\ \A x \in 0 .. n - 1 : f[x] = g[x]
  BY <1>3, <1>7, <1>8
<1> HIDE DEF f
<1>10. f[0] = b
  BY <1>3, <1>4, <1>7, <1>9
<1>11. \A i \in 1 .. n : f[i] = h[i][f[i - 1]]
  <2> TAKE i \in 1 .. n
  <2>1. i - 1 \in 0 .. n - 1 /\ f[i - 1] = g[i - 1]
    BY <1>3, <1>9
  <2>2. CASE i = n
    BY <1>9, <2>1, <2>2
  <2>3. CASE i # n
    <3>1. i \in 1 .. n - 1 /\ i \in 0 .. n - 1
      BY <1>3, <2>3
    <3> QED
      BY <1>7, <1>9, <2>1, <3>1
  <2> QED
    BY <2>2, <2>3
<1>12. G(n)
  BY <1>9, <1>10, <1>11
<1> QED
  BY <1>3, <1>12

=============================================================================
