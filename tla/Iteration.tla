----------------------------- MODULE Iteration -----------------------------
(***************************************************************************)
(* Induction on the natural numbers, and the recursion it justifies, in a  *)
(* form that takes sets and functions instead of operators: what the       *)
(* proofs need to know of the recursive functions of the models.           *)
(***************************************************************************)
EXTENDS Integers, TLAPS, WellFoundedInduction

\* Every nonempty set of natural numbers has a least element.
LEMMA LeastExists ==
  ASSUME NEW S \in SUBSET Nat, S # {}
  PROVE  \E c \in S : \A d \in S : c <= d
<1>1. PICK c \in S : \A d \in S : ~(<<d, c>> \in OpToRel(<, Nat))
  BY NatLessThanWellFounded, WFMin
<1>2. \A d \in S : ~(d < c)
  BY <1>1 DEF OpToRel
<1> QED
  BY <1>2

\* What holds of 0, and of each number up to N if it holds of the one before,
\* holds of all of them; S is the set of those it holds of.
LEMMA UpTo ==
  ASSUME NEW N \in Nat, NEW S,
         0 \in S,
         \A n \in 0 .. N - 1 : n \in S => n + 1 \in S
  PROVE  0 .. N \subseteq S
<1> DEFINE T == {n \in 0 .. N : n \notin S}
<1> SUFFICES ASSUME T # {}
             PROVE  FALSE
  OBVIOUS
<1>1. PICK c \in T : \A d \in T : c <= d
  <2>1. T \in SUBSET Nat
    OBVIOUS
  <2> HIDE DEF T
  <2> QED
    BY <2>1, LeastExists
<1>2. c # 0
  BY <1>1
<1>3. c - 1 \in 0 .. N - 1 /\ c - 1 \in S
  BY <1>1, <1>2
<1>4. (c - 1) + 1 \in S
  BY <1>3
<1> QED
  BY <1>1, <1>4

IsIteration(f, N, first, next) ==
  f[0] = first /\ \A n \in 1 .. N : f[n] = next[n][f[n - 1]]

\* A first value and a step give a function on 0 .. N.
LEMMA Iterates ==
  ASSUME NEW N \in Nat, NEW V, NEW first \in V, NEW next \in [1 .. N -> [V -> V]]
  PROVE  \E f \in [0 .. N -> V] : IsIteration(f, N, first, next)
<1> DEFINE Begins(f, m) == /\ f \in [0 .. m -> V]
                           /\ f[0] = first
                           /\ \A n \in 1 .. m : f[n] = next[n][f[n - 1]]
           S == {m \in 0 .. N : \E f : Begins(f, m)}
<1>1. 0 \in S
  <2>1. Begins([n \in 0 .. 0 |-> first], 0)
    OBVIOUS
  <2> HIDE DEF Begins
  <2> QED
    BY <2>1
<1>2. ASSUME NEW m \in 0 .. N - 1, m \in S
      PROVE  m + 1 \in S
  <2>1. PICK f : Begins(f, m)
    BY <1>2
  <2> DEFINE g == [n \in 0 .. m + 1 |-> IF n = m + 1 THEN next[n][f[m]] ELSE f[n]]
  <2>2. f[m] \in V /\ next[m + 1] \in [V -> V]
    BY <2>1
  <2>3. g \in [0 .. m + 1 -> V]
    BY <2>1, <2>2
  <2>4. \A n \in 1 .. m + 1 : g[n] = next[n][g[n - 1]]
    BY <2>1
  <2>5. g[0] = first
    BY <2>1
  <2>6. Begins(g, m + 1)
    BY <2>3, <2>4, <2>5
  <2> HIDE DEF Begins, g
  <2> QED
    BY <2>6
<1>3. 0 .. N \subseteq S
  <2> HIDE DEF S
  <2> QED
    BY <1>1, <1>2, UpTo
<1>4. N \in S
  BY <1>3
<1> QED
  BY <1>4 DEF IsIteration
=============================================================================
