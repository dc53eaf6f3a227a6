--------------------------- MODULE IterationProofs ---------------------------
(***************************************************************************)
(* Facts about iteration the recursive functions of the models rest on:    *)
(* the least number of a set, the existence of the iterates of a function, *)
(* and that a growing chain of subsets of a finite set stops.  They speak  *)
(* of sets and functions, never of operators, so that a proof can          *)
(* instantiate them.                                                       *)
(***************************************************************************)
EXTENDS Naturals, FiniteSets, FiniteSetTheorems, WellFoundedInduction, TLAPS

(* Every set of numbers that is not empty has a least one. *)
LEMMA LeastNumber ==
  ASSUME NEW S \in SUBSET Nat, S # {}
  PROVE  \E n \in S : \A m \in S : n <= m
<1>1. OpToRel(<, Nat) = {ss \in Nat \X Nat : ss[1] < ss[2]}
  BY DEF OpToRel
<1>2. IsWellFoundedOn({ss \in Nat \X Nat : ss[1] < ss[2]}, Nat)
  BY <1>1, NatLessThanWellFounded
<1>3. PICK n \in S : \A m \in S : ~(<<m, n>> \in {ss \in Nat \X Nat : ss[1] < ss[2]})
  BY <1>2, WFMin
<1>4. ASSUME NEW m \in S PROVE n <= m
  <2>1. n \in Nat /\ m \in Nat /\ ~(m < n)
    BY <1>3, Zenon
  <2> QED
    BY <2>1
<1> QED
  BY <1>4

(* Induction over the numbers, for a set that has 0 and every successor. *)
LEMMA SetInduction ==
  ASSUME NEW P \in SUBSET Nat, 0 \in P, \A n \in P : n + 1 \in P
  PROVE  P = Nat
<1> SUFFICES ASSUME Nat \ P # {} PROVE FALSE
  OBVIOUS
<1>1. PICK n \in Nat \ P : \A m \in Nat \ P : n <= m
  <2> DEFINE S == Nat \ P
  <2>1. S \in SUBSET Nat /\ S # {}
    OBVIOUS
  <2> HIDE DEF S
  <2>2. \E n \in S : \A m \in S : n <= m
    BY <2>1, LeastNumber
  <2> QED
    BY <2>2 DEF S
<1>2. n # 0 /\ n - 1 \in Nat
  BY <1>1
<1>3. n - 1 \in P
  BY <1>1, <1>2
<1> QED
  BY <1>1, <1>2, <1>3

(* g holds the first n iterates of step from a, and the start. *)
FirstIterates(S, step, a, n) ==
  {g \in [0..n -> S] : g[0] = a /\ \A k \in 0..n : k # n => g[k + 1] = step[g[k]]}

LEMMA FirstIteratesExist ==
  ASSUME NEW S, NEW step \in [S -> S], NEW a \in S
  PROVE  \A n \in Nat : FirstIterates(S, step, a, n) # {}
<1> DEFINE P == {n \in Nat : FirstIterates(S, step, a, n) # {}}
<1>1. 0 \in P
  <2> DEFINE g == [k \in 0..0 |-> a]
  <2>1. g \in FirstIterates(S, step, a, 0)
    BY DEF FirstIterates
  <2> QED
    BY <2>1
<1>2. ASSUME NEW n \in P PROVE n + 1 \in P
  <2>1. n \in Nat
    OBVIOUS
  <2>2. PICK g \in [0..n -> S] : g[0] = a /\ \A k \in 0..n : k # n => g[k + 1] = step[g[k]]
    BY <1>2 DEF FirstIterates
  <2> DEFINE h == [k \in 0..(n + 1) |-> IF k = n + 1 THEN step[g[n]] ELSE g[k]]
  <2>3. h \in [0..(n + 1) -> S]
    BY <2>1, <2>2
  <2>4. h[0] = a
    BY <2>1, <2>2
  <2>5. \A k \in 0..(n + 1) : k # n + 1 => h[k + 1] = step[h[k]]
    BY <2>1, <2>2
  <2>6. h \in FirstIterates(S, step, a, n + 1)
    BY <2>3, <2>4, <2>5 DEF FirstIterates
  <2> QED
    BY <2>1, <2>6
<1>3. P = Nat
  <2> HIDE DEF P
  <2>1. P \in SUBSET Nat
    BY DEF P
  <2> QED
    BY <1>1, <1>2, <2>1, SetInduction
<1> QED
  BY <1>3

(* Two of them agree as far as both go. *)
LEMMA FirstIteratesAgree ==
  ASSUME NEW S, NEW step \in [S -> S], NEW a \in S, NEW m \in Nat, NEW n \in Nat, m <= n,
         NEW g \in FirstIterates(S, step, a, m), NEW h \in FirstIterates(S, step, a, n)
  PROVE  \A k \in 0..m : g[k] = h[k]
<1> DEFINE P == {k \in Nat : k <= m => g[k] = h[k]}
<1>1. 0 \in P
  BY DEF FirstIterates
<1>2. ASSUME NEW k \in P PROVE k + 1 \in P
  <2>1. k \in Nat
    OBVIOUS
  <2>2. ASSUME k + 1 <= m PROVE g[k + 1] = h[k + 1]
    <3>1. k \in 0..m /\ k # m /\ k \in 0..n /\ k # n
      BY <2>1, <2>2
    <3>2. g[k + 1] = step[g[k]] /\ h[k + 1] = step[h[k]]
      BY <3>1 DEF FirstIterates
    <3>3. g[k] = h[k]
      BY <1>2, <3>1
    <3> QED
      BY <3>2, <3>3
  <2> QED
    BY <2>1, <2>2
<1>3. P = Nat
  <2> HIDE DEF P
  <2>1. P \in SUBSET Nat
    BY DEF P
  <2> QED
    BY <1>1, <1>2, <2>1, SetInduction
<1> QED
  BY <1>3

(* A function of a set into itself has its iterates, as the recursive         *)
(* definition of a sequence of them asks.                                     *)
LEMMA IteratesExist ==
  ASSUME NEW S, NEW step \in [S -> S], NEW a \in S
  PROVE  \E f \in [Nat -> S] : f = [k \in Nat |-> IF k = 0 THEN a ELSE step[f[k - 1]]]
<1> DEFINE some(n) == CHOOSE g : g \in FirstIterates(S, step, a, n)
           f == [k \in Nat |-> some(k)[k]]
<1>1. \A n \in Nat : some(n) \in FirstIterates(S, step, a, n)
  BY FirstIteratesExist
<1> HIDE DEF some
<1>2. f \in [Nat -> S]
  BY <1>1 DEF FirstIterates
<1>3. f[0] = a
  BY <1>1 DEF FirstIterates
<1>4. ASSUME NEW k \in Nat, k # 0 PROVE f[k] = step[f[k - 1]]
  <2>1. k - 1 \in Nat /\ k - 1 \in 0..k /\ k - 1 # k /\ k - 1 \in 0..(k - 1) /\ k - 1 <= k
        /\ (k - 1) + 1 = k
    BY <1>4
  <2>2. some(k) \in FirstIterates(S, step, a, k)
    BY <1>1
  <2>3. some(k)[k] = step[some(k)[k - 1]]
    BY <2>1, <2>2 DEF FirstIterates
  <2>4. some(k - 1) \in FirstIterates(S, step, a, k - 1)
    BY <1>1, <2>1
  <2>5. some(k - 1)[k - 1] = some(k)[k - 1]
    BY <2>1, <2>2, <2>4, FirstIteratesAgree
  <2> QED
    BY <2>1, <2>3, <2>5
<1>5. f = [k \in Nat |-> IF k = 0 THEN a ELSE step[f[k - 1]]]
  <2>1. \A k \in Nat : f[k] = IF k = 0 THEN a ELSE step[f[k - 1]]
    BY <1>3, <1>4
  <2> HIDE DEF f
  <2>2. f = [k \in Nat |-> f[k]]
    BY <1>2
  <2> QED
    BY <2>1, <2>2
<1> QED
  BY <1>2, <1>5

(* A chain of subsets of a finite set U that stays put once it stands still:  *)
(* it stands still by the time it could have taken every element.             *)
LEMMA ChainStops ==
  ASSUME NEW U, IsFiniteSet(U), NEW E \in [Nat -> SUBSET U],
         \A k \in Nat : E[k] \subseteq E[k + 1],
         \A k \in Nat : E[k] = E[k + 1] => E[k + 1] = E[k + 2]
  PROVE  \A k \in Nat : Cardinality(U) <= Cardinality(E[0]) + k => E[k] = E[k + 1]
<1>1. \A k \in Nat : IsFiniteSet(E[k]) /\ Cardinality(E[k]) \in Nat
  BY FS_Subset, FS_CardinalityType
<1> DEFINE P == {k \in Nat : E[k] = E[k + 1] \/ Cardinality(E[k]) >= Cardinality(E[0]) + k}
<1>2. 0 \in P
  BY <1>1
<1>3. ASSUME NEW k \in P PROVE k + 1 \in P
  <2>1. CASE E[k] = E[k + 1]
    BY <2>1
  <2>2. CASE E[k] # E[k + 1]
    <3>1. Cardinality(E[k]) >= Cardinality(E[0]) + k
      BY <2>2
    <3>2. Cardinality(E[k]) < Cardinality(E[k + 1])
      <4>1. E[k] \in SUBSET E[k + 1] /\ IsFiniteSet(E[k + 1])
        BY <1>1
      <4>2. /\ Cardinality(E[k]) <= Cardinality(E[k + 1])
            /\ Cardinality(E[k + 1]) = Cardinality(E[k]) => E[k + 1] = E[k]
        BY <4>1, FS_Subset
      <4>3. Cardinality(E[k]) \in Nat /\ Cardinality(E[k + 1]) \in Nat
        BY <1>1
      <4> QED
        BY <2>2, <4>2, <4>3
    <3>3. Cardinality(E[k + 1]) >= Cardinality(E[0]) + (k + 1)
      BY <1>1, <3>1, <3>2
    <3> QED
      BY <3>3
  <2> QED
    BY <2>1, <2>2
<1>4. P = Nat
  <2> HIDE DEF P
  <2>1. P \in SUBSET Nat
    BY DEF P
  <2> QED
    BY <1>2, <1>3, <2>1, SetInduction
<1>5. SUFFICES ASSUME NEW k \in Nat, Cardinality(U) <= Cardinality(E[0]) + k PROVE E[k] = E[k + 1]
  OBVIOUS
<1>6. CASE Cardinality(E[k]) >= Cardinality(E[0]) + k
  <2>1. Cardinality(U) \in Nat /\ Cardinality(E[k]) \in Nat /\ Cardinality(E[0]) \in Nat
    BY <1>1, FS_CardinalityType
  <2>2. Cardinality(E[k]) <= Cardinality(U) /\ (Cardinality(U) = Cardinality(E[k]) => U = E[k])
    BY FS_Subset
  <2>3. Cardinality(U) = Cardinality(E[k])
    BY <1>5, <1>6, <2>1, <2>2
  <2> QED
    BY <2>2, <2>3
<1> QED
  BY <1>4, <1>6
=============================================================================
