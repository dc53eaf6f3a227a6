--------------------------- MODULE ReplaySeedProofs ---------------------------
(***************************************************************************)
(* What the graph functions of a replay compute, for every graph.          *)
(***************************************************************************)
EXTENDS ReplaySeed, IterationProofs

(* Everything an edge reaches from near. *)
Reach(edges, near) == UNION {e.targets : e \in {d \in edges : d.sources \cap near # {}}}

(* D is closed under the edges of a graph. *)
ClosedUnder(edges, D) == \A e \in edges : e.sources \cap D # {} => e.targets \subseteq D

(* The rounds of forward_closure. *)
Rounds(edges, roots) ==
  CHOOSE reached : reached = [k \in Nat |->
    IF k = 0 THEN roots ELSE reached[k - 1] \cup Reach(edges, reached[k - 1])]

LEMMA ClosureIsLastRound ==
  ASSUME NEW edges, NEW roots
  PROVE  forward_closure(edges, roots) = Rounds(edges, roots)[Cardinality(edges)]
  BY DEF forward_closure, Rounds, Reach

LEMMA RoundsAre ==
  ASSUME NEW edges, NEW roots
  PROVE  LET f == Rounds(edges, roots)
         IN  /\ f[0] = roots
             /\ \A k \in Nat : f[k + 1] = f[k] \cup Reach(edges, f[k])
<1> DEFINE V == roots \cup UNION {e.targets : e \in edges}
           S == SUBSET V
           step == [near \in S |-> near \cup Reach(edges, near)]
<1>1. \A near : Reach(edges, near) \subseteq V
  BY DEF Reach
<1>2. step \in [S -> S] /\ roots \in S
  BY <1>1
<1>3. \A near \in S : step[near] = near \cup Reach(edges, near)
  OBVIOUS
<1> HIDE DEF S, step
<1>4. PICK f \in [Nat -> S] : f = [k \in Nat |-> IF k = 0 THEN roots ELSE step[f[k - 1]]]
  BY <1>2, IteratesExist
<1>5. f = [k \in Nat |-> IF k = 0 THEN roots ELSE f[k - 1] \cup Reach(edges, f[k - 1])]
  <2>1. \A k \in Nat : k # 0 => f[k - 1] \in S
    OBVIOUS
  <2>2. \A k \in Nat : f[k] = IF k = 0 THEN roots ELSE f[k - 1] \cup Reach(edges, f[k - 1])
    BY <1>3, <1>4, <2>1
  <2>3. f = [k \in Nat |-> f[k]]
    OBVIOUS
  <2> QED
    BY <2>2, <2>3
<1> DEFINE g == Rounds(edges, roots)
<1>6. g = [k \in Nat |-> IF k = 0 THEN roots ELSE g[k - 1] \cup Reach(edges, g[k - 1])]
  BY <1>5 DEF Rounds
<1> HIDE DEF g
<1>7. g[0] = roots
  BY <1>6
<1>8. ASSUME NEW k \in Nat PROVE g[k + 1] = g[k] \cup Reach(edges, g[k])
  <2>1. k + 1 \in Nat /\ k + 1 # 0 /\ (k + 1) - 1 = k
    OBVIOUS
  <2> QED
    BY <1>6, <2>1
<1> QED
  BY <1>7, <1>8 DEF g

(* build_seeded_graph, forward_closure: the number of edges bounds the rounds *)
(* it takes, so the result is the least set that has the roots and everything *)
(* an edge leads to, in every graph, cyclic ones included.                    *)
THEOREM ForwardClosure ==
  ASSUME NEW edges, IsFiniteSet(edges), NEW roots
  PROVE  LET C == forward_closure(edges, roots)
         IN  /\ roots \subseteq C /\ ClosedUnder(edges, C)
             /\ \A D : roots \subseteq D /\ ClosedUnder(edges, D) => C \subseteq D
<1> DEFINE f == Rounds(edges, roots)
           m == Cardinality(edges)
           E == [k \in Nat |-> {d \in edges : d.sources \cap f[k] # {}}]
<1>1. m \in Nat
  BY FS_CardinalityType
<1>2. f[0] = roots /\ \A k \in Nat : f[k + 1] = f[k] \cup Reach(edges, f[k])
  BY RoundsAre
<1> HIDE DEF f, m
<1>3. ASSUME NEW k \in Nat PROVE f[k + 1] = f[k] \cup UNION {e.targets : e \in E[k]}
  BY <1>2 DEF Reach
<1>4. \A k \in Nat : f[k] \subseteq f[k + 1]
  BY <1>2
<1>5. E \in [Nat -> SUBSET edges] /\ \A k \in Nat : E[k] \subseteq E[k + 1]
  BY <1>4
<1>6. \A k \in Nat : E[k] = {d \in edges : d.sources \cap f[k] # {}}
  OBVIOUS
<1> HIDE DEF E
<1>7. ASSUME NEW k \in Nat, E[k] = E[k + 1]
      PROVE  f[k + 2] = f[k + 1] /\ E[k + 2] = E[k + 1]
  <2>1. k + 1 \in Nat /\ (k + 1) + 1 = k + 2 /\ k + 2 \in Nat
    OBVIOUS
  <2>2. f[k + 2] = f[k + 1] \cup UNION {e.targets : e \in E[k + 1]}
    BY <1>3, <2>1
  <2>3. f[k + 1] = f[k] \cup UNION {e.targets : e \in E[k]}
    BY <1>3
  <2>4. f[k + 2] = f[k + 1]
    BY <1>7, <2>2, <2>3
  <2> QED
    BY <1>6, <2>1, <2>4
<1>8. roots \subseteq f[m]
  <2> DEFINE P == {k \in Nat : roots \subseteq f[k]}
  <2>1. 0 \in P /\ \A k \in P : k + 1 \in P
    BY <1>2
  <2>2. P \in SUBSET Nat
    OBVIOUS
  <2>3. P = Nat
    <3> HIDE DEF P
    <3> QED
      BY <2>1, <2>2, SetInduction
  <2> QED
    BY <1>1, <2>3
<1>9. ASSUME NEW D, roots \subseteq D, ClosedUnder(edges, D) PROVE f[m] \subseteq D
  <2> DEFINE P == {k \in Nat : f[k] \subseteq D}
  <2>1. 0 \in P
    BY <1>2, <1>9
  <2>2. ASSUME NEW k \in P PROVE k + 1 \in P
    BY <1>2, <1>9, <2>2 DEF Reach, ClosedUnder
  <2>3. P \in SUBSET Nat
    OBVIOUS
  <2>4. P = Nat
    <3> HIDE DEF P
    <3> QED
      BY <2>1, <2>2, <2>3, SetInduction
  <2> QED
    BY <1>1, <2>4
<1>10. ASSUME NEW e \in edges, e.sources \cap f[m] # {} PROVE e.targets \subseteq f[m]
  <2>1. e \in E[m]
    BY <1>1, <1>6, <1>10
  <2>2. m # 0 /\ m - 1 \in Nat /\ (m - 1) + 1 = m
    <3>1. m # 0
      BY FS_EmptySet DEF m
    <3> QED
      BY <1>1, <3>1
  <2>3. CASE E[0] = {}
    <3> DEFINE P == {k \in Nat : E[k] = {} /\ f[k] = roots}
    <3>1. 0 \in P
      BY <1>2, <2>3
    <3>2. ASSUME NEW k \in P PROVE k + 1 \in P
      <4>4. k \in Nat /\ E[k] = {}
        BY <3>2
      <4>5. f[k + 1] = f[k] \cup UNION {d.targets : d \in E[k]}
        BY <1>3, <4>4
      <4>1. f[k + 1] = f[k]
        BY <4>4, <4>5
      <4>2. k \in Nat /\ k + 1 \in Nat
        OBVIOUS
      <4>3. E[k + 1] = E[k]
        BY <1>6, <4>1, <4>2
      <4> QED
        BY <4>1, <4>3
    <3>3. P \in SUBSET Nat
      OBVIOUS
    <3>4. P = Nat
      <4> HIDE DEF P
      <4> QED
        BY <3>1, <3>2, <3>3, SetInduction
    <3> QED
      BY <1>1, <2>1, <3>4
  <2>4. CASE E[0] # {}
    <3>1. E[0] \in SUBSET edges
      BY <1>5
    <3>2. IsFiniteSet(E[0]) /\ Cardinality(E[0]) \in Nat
      BY <3>1, FS_Subset, FS_CardinalityType
    <3>3. Cardinality(E[0]) # 0
      BY <2>4, <3>2, FS_EmptySet
    <3>4. Cardinality(edges) <= Cardinality(E[0]) + (m - 1)
      BY <1>1, <3>2, <3>3 DEF m
    <3>5. \A k \in Nat : E[k] = E[k + 1] => E[k + 1] = E[k + 2]
      BY <1>7
    <3>6. E[m - 1] = E[(m - 1) + 1]
      BY <1>5, <2>2, <3>4, <3>5, ChainStops
    <3>7. f[(m - 1) + 1] = f[m - 1] \cup UNION {d.targets : d \in E[m - 1]}
      BY <1>3, <2>2
    <3> QED
      BY <2>1, <2>2, <3>6, <3>7
  <2> QED
    BY <2>3, <2>4
<1>11. forward_closure(edges, roots) = f[m]
  BY ClosureIsLastRound DEF f, m
<1> QED
  BY <1>8, <1>9, <1>10, <1>11 DEF ClosedUnder

-----------------------------------------------------------------------------
(* The doom enumeration *)

(* A node some edge of which has only sources that succeeded or are known. *)
Ready(edges, ground, roots, known) ==
  {n \in forward_closure(edges, roots) :
     \E e \in edges : /\ n \in e.targets /\ e.sources # {}
                      /\ \A s \in e.sources : s \in known \/ Succeeded(ground, s)}

(* The rounds of the enumeration. *)
Growth(edges, ground, roots) ==
  CHOOSE grown : grown = [k \in Nat |->
    IF k = 0 THEN roots ELSE grown[k - 1] \cup Ready(edges, ground, roots, grown[k - 1])]

LEMMA FireableIsLastRound ==
  ASSUME NEW edges, NEW ground, NEW roots
  PROVE  fireable(edges, ground, roots) = Growth(edges, ground, roots)[Cardinality(Nodes)]
  BY DEF fireable, Growth, Ready

LEMMA GrowthIs ==
  ASSUME NEW edges, NEW ground, NEW roots
  PROVE  LET f == Growth(edges, ground, roots)
         IN  /\ f[0] = roots
             /\ \A k \in Nat : f[k + 1] = f[k] \cup Ready(edges, ground, roots, f[k])
<1> DEFINE V == roots \cup forward_closure(edges, roots)
           S == SUBSET V
           R(known) == Ready(edges, ground, roots, known)
           step == [known \in S |-> known \cup R(known)]
<1>1. \A known : R(known) \subseteq V
  BY DEF Ready
<1> HIDE DEF R
<1>2. step \in [S -> S] /\ roots \in S
  BY <1>1
<1>3. \A known \in S : step[known] = known \cup R(known)
  OBVIOUS
<1> HIDE DEF S, step
<1>4. PICK f \in [Nat -> S] : f = [k \in Nat |-> IF k = 0 THEN roots ELSE step[f[k - 1]]]
  BY <1>2, IteratesExist
<1>5. f = [k \in Nat |-> IF k = 0 THEN roots ELSE f[k - 1] \cup R(f[k - 1])]
  <2>1. \A k \in Nat : k # 0 => f[k - 1] \in S
    OBVIOUS
  <2>2. \A k \in Nat : f[k] = IF k = 0 THEN roots ELSE f[k - 1] \cup R(f[k - 1])
    BY <1>3, <1>4, <2>1
  <2>3. f = [k \in Nat |-> f[k]]
    OBVIOUS
  <2> QED
    BY <2>2, <2>3
<1> DEFINE g == Growth(edges, ground, roots)
<1>6. g = [k \in Nat |-> IF k = 0 THEN roots ELSE g[k - 1] \cup R(g[k - 1])]
  BY <1>5 DEF Growth, R
<1> HIDE DEF g
<1>7. g[0] = roots
  BY <1>6
<1>8. ASSUME NEW k \in Nat PROVE g[k + 1] = g[k] \cup R(g[k])
  <2>1. k + 1 \in Nat /\ k + 1 # 0 /\ (k + 1) - 1 = k
    OBVIOUS
  <2> QED
    BY <1>6, <2>1
<1> QED
  BY <1>7, <1>8 DEF g, R

(* validate_fireability: as many rounds as there are nodes are enough, so the *)
(* enumeration ends with the least set that has the roots and every node      *)
(* downstream of them that can fire from it; what is left is doomed.          *)
THEOREM FireableFixpoint ==
  ASSUME NEW edges, IsFiniteSet(edges), IsFiniteSet(Nodes), NEW ground,
         \A e \in edges : e.targets \subseteq Nodes, NEW roots \in SUBSET Nodes
  PROVE  LET F == fireable(edges, ground, roots)
         IN  /\ roots \subseteq F /\ F \subseteq forward_closure(edges, roots)
             /\ Ready(edges, ground, roots, F) \subseteq F
             /\ \A D : roots \subseteq D /\ Ready(edges, ground, roots, D) \subseteq D => F \subseteq D
<1> DEFINE f == Growth(edges, ground, roots)
           C == forward_closure(edges, roots)
           R(known) == Ready(edges, ground, roots, known)
           m == Cardinality(Nodes)
<1>1. m \in Nat
  BY FS_CardinalityType
<1>2. f[0] = roots /\ \A k \in Nat : f[k + 1] = f[k] \cup R(f[k])
  BY GrowthIs
<1>3. roots \subseteq C /\ ClosedUnder(edges, C)
      /\ \A D : roots \subseteq D /\ ClosedUnder(edges, D) => C \subseteq D
  BY ForwardClosure
<1>4. C \subseteq Nodes
  <2>1. ClosedUnder(edges, Nodes)
    BY DEF ClosedUnder
  <2> HIDE DEF C
  <2> QED
    BY <1>3, <2>1
<1>5. /\ \A known : R(known) \subseteq C
      /\ \A known, more : known \subseteq more => R(known) \subseteq R(more)
  BY DEF Ready
<1> HIDE DEF f, m, C, R
<1>6. \A k \in Nat : roots \subseteq f[k] /\ f[k] \subseteq C
  <2> DEFINE P == {k \in Nat : roots \subseteq f[k] /\ f[k] \subseteq C}
  <2>1. 0 \in P /\ \A k \in P : k + 1 \in P
    BY <1>2, <1>3, <1>5
  <2>2. P \in SUBSET Nat
    OBVIOUS
  <2>3. P = Nat
    <3> HIDE DEF P
    <3> QED
      BY <2>1, <2>2, SetInduction
  <2> QED
    BY <2>3
<1>7. ASSUME NEW D, roots \subseteq D, R(D) \subseteq D PROVE f[m] \subseteq D
  <2> DEFINE P == {k \in Nat : f[k] \subseteq D}
  <2>1. 0 \in P
    BY <1>2, <1>7
  <2>2. ASSUME NEW k \in P PROVE k + 1 \in P
    BY <1>2, <1>5, <1>7, <2>2
  <2>3. P \in SUBSET Nat
    OBVIOUS
  <2>4. P = Nat
    <3> HIDE DEF P
    <3> QED
      BY <2>1, <2>2, <2>3, SetInduction
  <2> QED
    BY <1>1, <2>4
<1>8. R(f[m]) \subseteq f[m]
  <2> DEFINE E == [k \in Nat |-> f[k]]
  <2>1. E \in [Nat -> SUBSET Nodes] /\ \A k \in Nat : E[k] = f[k]
    BY <1>4, <1>6
  <2> HIDE DEF E
  <2>2. \A k \in Nat : E[k] \subseteq E[k + 1]
    BY <1>2, <2>1
  <2>3. ASSUME NEW k \in Nat, E[k] = E[k + 1] PROVE E[k + 1] = E[k + 2]
    <3>1. k + 1 \in Nat /\ (k + 1) + 1 = k + 2 /\ k + 2 \in Nat
      OBVIOUS
    <3>2. f[k + 2] = f[k + 1] \cup R(f[k + 1]) /\ f[k + 1] = f[k] \cup R(f[k])
      BY <1>2, <3>1
    <3> QED
      BY <2>1, <2>3, <3>1, <3>2
  <2>4. IsFiniteSet(E[0]) /\ Cardinality(E[0]) \in Nat
    BY <2>1, FS_Subset, FS_CardinalityType
  <2>5. m <= Cardinality(E[0]) + m
    BY <1>1, <2>4
  <2>6. E[m] = E[m + 1]
    BY <1>1, <2>1, <2>2, <2>3, <2>5, ChainStops DEF m
  <2>7. f[m + 1] = f[m] \cup R(f[m])
    BY <1>1, <1>2
  <2> QED
    BY <1>1, <2>1, <2>6, <2>7
<1>9. fireable(edges, ground, roots) = f[m]
  BY FireableIsLastRound DEF f, m
<1> QED
  BY <1>1, <1>6, <1>7, <1>8, <1>9 DEF C, R
=============================================================================
