----------------------------- MODULE Iteration -----------------------------
(***************************************************************************)
(* Lemmas about functions that are defined by recursion on 0..N, as the    *)
(* models write an iteration over a text.                                  *)
(*                                                                         *)
(* Induction is taken as a fact about sets: a set of numbers that holds    *)
(* zero and every successor of a member holds them all, for otherwise the  *)
(* numbers outside of it had a least one.                                  *)
(***************************************************************************)
EXTENDS Naturals, WellFoundedInduction, TLAPS

\* A set of numbers has a least member.
LEMMA LeastNumber ==
  ASSUME NEW S \in SUBSET Nat, S # {}
  PROVE  \E m \in S : \A n \in S : ~(n < m)
<1>1. \E m \in S : \A n \in S : ~(<<n, m>> \in OpToRel(<, Nat))
  BY NatLessThanWellFounded, WFMin, Zenon
<1> QED BY <1>1, Zenon DEF OpToRel

\* Induction over the numbers, for a set in place of a predicate.
LEMMA NumberInduction ==
  ASSUME NEW S, 0 \in S, \A n \in Nat : n \in S => n + 1 \in S
  PROVE  Nat \subseteq S
<1> DEFINE Rest == {n \in Nat : n \notin S}
<1> SUFFICES ASSUME Rest # {} PROVE FALSE
  OBVIOUS
<1>1. PICK m \in Rest : \A n \in Rest : ~(n < m)
  <2>1. Rest \in SUBSET Nat
    OBVIOUS
  <2> HIDE DEF Rest
  <2> QED BY <2>1, LeastNumber
<1>2. m # 0 /\ m - 1 \in Nat
  BY <1>1
<1>3. m - 1 \in Rest
  BY <1>1, <1>2
<1> QED BY <1>1, <1>2, <1>3

\* The values a recursion passes through from base, one step at a time.
Iterates(f, base, F, N) ==
  f[0] = base /\ \A i \in 1..N : f[i] = F[i][f[i - 1]]

\* A recursion whose steps stay in V has a solution, with values in V.
LEMMA IterationExists ==
  ASSUME NEW V, NEW base \in V, NEW N \in Nat, NEW F \in [1..N -> [V -> V]]
  PROVE  \E f \in [0..N -> V] : Iterates(f, base, F, N)
<1> DEFINE Solvable(n) == \E f \in [0..n -> V] : Iterates(f, base, F, n)
           S == {n \in Nat : n <= N => Solvable(n)}
<1>1. 0 \in S
  <2> DEFINE f == [i \in 0..0 |-> base]
  <2>1. f \in [0..0 -> V] /\ Iterates(f, base, F, 0)
    BY DEF Iterates
  <2>2. Solvable(0)
    BY <2>1
  <2> QED BY <2>2
<1>2. ASSUME NEW n \in Nat, n \in S PROVE n + 1 \in S
  <2> SUFFICES ASSUME n + 1 <= N PROVE Solvable(n + 1)
    OBVIOUS
  <2>1. PICK f \in [0..n -> V] : Iterates(f, base, F, n)
    BY <1>2
  <2> DEFINE g == [i \in 0..(n + 1) |-> IF i = n + 1 THEN F[n + 1][f[n]] ELSE f[i]]
  <2>2. n + 1 \in 1..N /\ f[n] \in V /\ F[n + 1] \in [V -> V]
    OBVIOUS
  <2>3. g \in [0..(n + 1) -> V]
    <3>1. F[n + 1][f[n]] \in V
      BY <2>2
    <3> QED BY <3>1
  <2>4. Iterates(g, base, F, n + 1)
    <3>1. g[0] = base
      BY <2>1 DEF Iterates
    <3>2. ASSUME NEW i \in 1..(n + 1) PROVE g[i] = F[i][g[i - 1]]
      <4>1. g[i - 1] = f[i - 1]
        OBVIOUS
      <4>2. CASE i = n + 1
        BY <4>1, <4>2
      <4>3. CASE i # n + 1
        <5>1. i \in 1..n /\ g[i] = f[i]
          BY <4>3
        <5> QED BY <2>1, <4>1, <5>1 DEF Iterates
      <4> QED BY <4>2, <4>3
    <3> QED BY <3>1, <3>2 DEF Iterates
  <2> QED BY <2>3, <2>4
<1>3. Nat \subseteq S
  <2> HIDE DEF S
  <2> QED BY <1>1, <1>2, NumberInduction
<1>4. N \in S
  BY <1>3
<1> QED BY <1>4

\* Two solutions of the same recursion agree as far as both go.
LEMMA IterationUnique ==
  ASSUME NEW N \in Nat, NEW base, NEW F, NEW f, NEW g,
         Iterates(f, base, F, N), Iterates(g, base, F, N)
  PROVE  \A n \in 0..N : f[n] = g[n]
<1> DEFINE S == {n \in Nat : n <= N => f[n] = g[n]}
<1>1. 0 \in S
  BY DEF Iterates
<1>2. ASSUME NEW n \in Nat, n \in S PROVE n + 1 \in S
  <2> SUFFICES ASSUME n + 1 <= N PROVE f[n + 1] = g[n + 1]
    OBVIOUS
  <2>1. n + 1 \in 1..N /\ (n + 1) - 1 = n /\ f[n] = g[n]
    BY <1>2
  <2>2. f[n + 1] = F[n + 1][f[n]] /\ g[n + 1] = F[n + 1][g[n]]
    BY <2>1 DEF Iterates
  <2> QED BY <2>1, <2>2
<1>3. Nat \subseteq S
  <2> HIDE DEF S
  <2> QED BY <1>1, <1>2, NumberInduction
<1> QED BY <1>3
=============================================================================
