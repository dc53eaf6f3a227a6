------------------------ MODULE ReplayLifecycleProofs ------------------------
(***************************************************************************)
(* Theorems about ReplayLifecycle, for any number of requests, keys and    *)
(* faults and every archived graph.                                        *)
(***************************************************************************)
EXTENDS ReplayLifecycle, ReplaySeedProofs

-----------------------------------------------------------------------------
(* The inductive invariant                                                    *)

Rowed(r)  == replays[r].status # "none"
Active(r) == replays[r].status \in {"Materializing", "Released"}
Present(s) == archive[s].present
Known(s)  == s = Origin \/ (s \in Requests /\ Rowed(s))

(* What the reads before the insert establish and nothing undoes. *)
Seeded(source, roots, pre) ==
  /\ Present(source) /\ is_hydration_complete(source)
  /\ Fireability(edges, archive[source].ground, roots) = "ok"
  /\ pre = pre_grounded(edges, archive[source].ground, roots)

RowsSound ==
  \A r \in Requests :
    /\ Rowed(r) => Known(replays[r].source)
    /\ Active(r) => Seeded(replays[r].source, replays[r].roots, replays[r].pre)
    /\ replays[r].status \in {"none", "Released", "VersionUnresolvable"} => replays[r].lease = "none"

CallsSound ==
  /\ \A c \in calls : /\ ~Rowed(c.id) /\ Known(c.source)
                      /\ c.status = "Materializing" => Seeded(c.source, c.roots, c.pre)
  /\ \A c, d \in calls : c.id = d.id => c = d

(* The runs replayed form no cycle. *)
NoCycle ==
  \A S \in SUBSET Requests : S # {} /\ (\A r \in S : Rowed(r)) =>
    \E r \in S : replays[r].source \notin S

(* A drive is past a step only if the signal of that step was sent. *)
DrivesSound ==
  \A d \in drives :
    /\ Active(d.id)
    /\ d.at \notin {"load", "trigger"} /\ ~born_stalled(d.id) => Outbound(d.id)
    /\ d.at = "settle" => Outbound(d.id)

InstancesSound ==
  \A r \in Requests :
    /\ instances[r].phase # "absent" => Active(r)
    /\ instances[r].phase = "stalled" => born_stalled(r)
    /\ replays[r].status = "Released" => Outbound(r)
    /\ Present(r) => instances[r].phase = "ended" /\ archive[r].parent = replays[r].source
    /\ <<"trigger", r>> \in sent => Active(r)

OriginSound == archive[Origin].parent = 0

(* Every archived run and every run under way was executed as far as it went. *)
GraphSound ==
  /\ IsFiniteSet(edges)
  /\ \A s \in Runs : Present(s) =>
       /\ Executed(edges, archive[s].ground)
       /\ \A n \in Nodes : archive[s].ground[n] # "Pending"
  /\ \A r \in Requests : instances[r].phase # "absent" => Executed(edges, instances[r].ground)

Closure(r)  == forward_closure(edges, replays[r].roots)
Fireable(r) == fireable(edges, archive[replays[r].source].ground, replays[r].roots)

(* A run keeps what its seed carried over and runs only what can fire. *)
RunsTheSeed ==
  \A r \in Requests : instances[r].phase # "absent" =>
    \A n \in Nodes :
      /\ n \notin Closure(r) => instances[r].ground[n] = archive[replays[r].source].ground[n]
      /\ n \in Closure(r) => \/ instances[r].ground[n] = "Pending"
                             \/ n \in Fireable(r) /\ instances[r].ground[n] \in {"Success", "Failed"}

(* Where the outputs of a successful Task come from. *)
Carried(r) ==
  \A n \in replays[r].pre : archive[replays[r].source].ground[n] = "Success" =>
    scopes[r].keys[n] = LastRan(r, n)

ScopesSound ==
  \A r \in Requests :
    /\ scopes[r].sentinel => Active(r) /\ Carried(r)
    /\ scopes[r].namespace = "replay" => scopes[r].sentinel
    /\ instances[r].phase = "running" /\ born_stalled(r) => scopes[r].sentinel \/ r \in rejected
    /\ <<"resume", r>> \in sent => scopes[r].sentinel \/ r \in rejected
    /\ \A n \in Nodes \ replays[r].pre :
         instances[r].phase # "absent" /\ instances[r].ground[n] = "Success" =>
           scopes[r].keys[n] = r /\ scopes[r].namespace = "default"

(* A drive has put what is no longer to do. *)
HydrationSound ==
  \A d \in drives :
    /\ d.at \in {"hydrate", "sentinel"} =>
         /\ d.todo \subseteq Plan(d.id)
         /\ formation = "lite" => d.todo = Plan(d.id)
         /\ formation = "distributed" => \A n \in Plan(d.id) \ d.todo :
              scopes[d.id].keys[n] = archive[replays[d.id].source].dump[n]
    /\ d.at = "sentinel" => formation = "distributed" /\ d.todo = {}
    /\ d.at = "resume" => scopes[d.id].sentinel \/ d.id \in rejected

DumpsSound ==
  \A s \in Runs : Present(s) /\ (s = Origin \/ archive[s].sentinel) =>
    \A n \in Nodes : archive[s].ground[n] = "Success" =>
      archive[s].dump[n] = IF s # Origin /\ n \in replays[s].pre THEN LastRan(s, n) ELSE s

ReplayInv ==
  /\ RowsSound /\ CallsSound /\ NoCycle /\ DrivesSound /\ InstancesSound /\ OriginSound
  /\ GraphSound /\ RunsTheSeed /\ ScopesSound /\ HydrationSound /\ DumpsSound

-----------------------------------------------------------------------------
(* Which run last executed a Task *)

Lineage(rows, r, n) ==
  CHOOSE at : at = [k \in Nat |->
    IF k = 0 THEN rows[r].source
    ELSE IF at[k - 1] # Origin /\ n \in rows[at[k - 1]].pre THEN rows[at[k - 1]].source
    ELSE at[k - 1]]

LastIn(rows, r, n) == Lineage(rows, r, n)[Cardinality(Runs)]

HasRow(rows, s) == s \in Requests /\ rows[s].status # "none"

(* Rows replay known runs, without a cycle. *)
Tidy(rows) ==
  /\ \A r \in Requests : HasRow(rows, r) =>
       rows[r].source = Origin \/ HasRow(rows, rows[r].source)
  /\ \A S \in SUBSET Requests : S # {} /\ (\A r \in S : HasRow(rows, r)) =>
       \E r \in S : rows[r].source \notin S

LEMMA LastRanIs ==
  ASSUME NEW r, NEW n
  PROVE  /\ LastRan(r, n) = LastIn(replays, r, n)
         /\ LastRan(r, n)' = LastIn(replays', r, n)
BY DEF LastRan, LastIn, Lineage

LEMMA RunsFinite == IsFiniteSet(Runs) /\ Cardinality(Runs) \in Nat /\ Cardinality(Runs) # 0
<1>1. IsFiniteSet({Origin}) /\ IsFiniteSet(Requests)
  BY FS_Singleton, ReplayAssumption
<1>2. IsFiniteSet(Runs)
  BY <1>1, FS_Union DEF Runs
<1>3. Cardinality(Runs) \in Nat /\ (Cardinality(Runs) = 0 <=> Runs = {})
  BY <1>2, FS_CardinalityType, FS_EmptySet
<1> QED
  BY <1>2, <1>3 DEF Runs

(* The function LastRan follows exists and stays within the known runs. *)
LEMMA LineageIs ==
  ASSUME NEW rows, Tidy(rows), NEW r \in Requests, HasRow(rows, r), NEW n
  PROVE  LET f == Lineage(rows, r, n)
         IN  /\ f[0] = rows[r].source
             /\ \A k \in Nat :
                  /\ f[k] = Origin \/ HasRow(rows, f[k])
                  /\ f[k + 1] = IF f[k] # Origin /\ n \in rows[f[k]].pre
                                THEN rows[f[k]].source ELSE f[k]
<1> DEFINE S == {s \in Runs : s = Origin \/ HasRow(rows, s)}
           next(s) == IF s # Origin /\ n \in rows[s].pre THEN rows[s].source ELSE s
           step == [s \in S |-> next(s)]
           a == rows[r].source
<1>1. ASSUME NEW s \in S PROVE next(s) \in S
  BY DEF Tidy, HasRow, Runs
<1>2. a \in S
  BY DEF Tidy, HasRow, Runs
<1>3. step \in [S -> S] /\ \A s \in S : step[s] = next(s)
  BY <1>1
<1>4. \A s \in S : s = Origin \/ HasRow(rows, s)
  OBVIOUS
<1> HIDE DEF S, step, a
<1>5. PICK f \in [Nat -> S] : f = [k \in Nat |-> IF k = 0 THEN a ELSE step[f[k - 1]]]
  <2>1. step \in [S -> S]
    BY <1>3
  <2> QED BY ONLY <1>2, <2>1, IteratesExist
<1>6. \A k \in Nat : k # 0 => k - 1 \in Nat /\ f[k - 1] \in S
  OBVIOUS
<1>7. \A k \in Nat : f[k] = IF k = 0 THEN a ELSE next(f[k - 1])
  <2> HIDE DEF next
  <2> QED BY <1>3, <1>5, <1>6
<1>8. f = [k \in Nat |-> IF k = 0 THEN a ELSE next(f[k - 1])]
  <2> HIDE DEF next
  <2>1. f = [k \in Nat |-> f[k]]
    OBVIOUS
  <2> QED BY <1>7, <2>1
<1> DEFINE g == Lineage(rows, r, n)
<1>9. g = [k \in Nat |-> IF k = 0 THEN a ELSE next(g[k - 1])]
  BY <1>8 DEF Lineage, a
<1> HIDE DEF g
<1>10. g[0] = a
  BY <1>9
<1>11. ASSUME NEW k \in Nat PROVE g[k + 1] = next(g[k])
  <2>1. k + 1 \in Nat /\ k + 1 # 0 /\ (k + 1) - 1 = k
    OBVIOUS
  <2> HIDE DEF next
  <2> QED BY <1>9, <2>1
<1>12. \A k \in Nat : g[k] \in S
  <2> DEFINE P == {k \in Nat : g[k] \in S}
  <2>1. 0 \in P
    BY <1>10, <1>2
  <2>2. ASSUME NEW k \in P PROVE k + 1 \in P
    <3>1. k \in Nat /\ g[k] \in S
      OBVIOUS
    <3> HIDE DEF next
    <3> QED BY <3>1, <1>11, <1>1
  <2>3. P \in SUBSET Nat
    OBVIOUS
  <2>4. P = Nat
    <3> HIDE DEF P
    <3> QED BY <2>1, <2>2, <2>3, SetInduction
  <2> QED BY <2>4
<1> QED
  BY <1>4, <1>10, <1>11, <1>12 DEF g, a

(* As many steps as there are runs reach the end of a lineage. *)
LEMMA LineageEnds ==
  ASSUME NEW rows, Tidy(rows), NEW r \in Requests, HasRow(rows, r), NEW n
  PROVE  LET f == Lineage(rows, r, n)
             K == Cardinality(Runs)
         IN  f[K + 1] = f[K]
<1> DEFINE f == Lineage(rows, r, n)
           K == Cardinality(Runs)
           moves(s) == s # Origin /\ n \in rows[s].pre
<1>1. /\ \A k \in Nat : f[k] = Origin \/ HasRow(rows, f[k])
      /\ \A k \in Nat : f[k + 1] = IF moves(f[k]) THEN rows[f[k]].source ELSE f[k]
  BY LineageIs
<1>2. K \in Nat /\ K # 0 /\ K - 1 \in Nat /\ (K - 1) + 1 = K
  BY RunsFinite
<1>3. \A k \in Nat : f[k] \in Runs
  BY <1>1 DEF HasRow, Runs
<1> HIDE DEF f, K, moves
<1> DEFINE E == [k \in Nat |-> {f[j] : j \in 0..k}]
<1>4. E \in [Nat -> SUBSET Runs] /\ \A k \in Nat : E[k] = {f[j] : j \in 0..k}
  BY <1>3
<1>5. E[0] = {f[0]}
  BY <1>4
<1> HIDE DEF E
<1>6. \A k \in Nat : E[k] \subseteq E[k + 1]
  BY <1>4
<1>7. \A k \in Nat : E[k + 1] = E[k] \cup {f[k + 1]}
  <2> SUFFICES ASSUME NEW k \in Nat PROVE E[k + 1] = E[k] \cup {f[k + 1]}
    OBVIOUS
  <2>1. 0..(k + 1) = (0..k) \cup {k + 1} /\ k + 1 \in Nat
    OBVIOUS
  <2> QED BY <2>1, <1>4
<1>8. ASSUME NEW k \in Nat, E[k] = E[k + 1] PROVE E[k + 1] = E[k + 2]
  <2>1. k + 1 \in Nat /\ (k + 1) + 1 = k + 2
    OBVIOUS
  <2>2. f[k + 1] \in E[k]
    BY <1>8, <1>7
  <2>3. PICK j \in 0..k : f[k + 1] = f[j]
    BY <2>2, <1>4
  <2>4. j \in Nat /\ f[k + 2] = f[j + 1]
    BY <2>1, <2>3, <1>1
  <2>5. f[k + 2] \in E[k + 1]
    BY <2>1, <2>4, <1>4
  <2> QED BY <2>1, <2>5, <1>7
<1>9. E[K - 1] = E[(K - 1) + 1]
  <2>1. Cardinality(E[0]) = 1
    BY <1>5, FS_Singleton
  <2>2. Cardinality(Runs) <= Cardinality(E[0]) + (K - 1)
    BY <2>1, <1>2 DEF K
  <2>3. \A k \in Nat : E[k] = E[k + 1] => E[k + 1] = E[k + 2]
    BY <1>8
  <2> QED BY <2>2, <2>3, <1>2, <1>4, <1>6, RunsFinite, ChainStops
<1>10. PICK j \in 0..(K - 1) : f[K] = f[j]
  <2>1. f[K] \in E[K - 1]
    BY <1>9, <1>7, <1>2
  <2> QED BY <2>1, <1>4, <1>2
<1>11. SUFFICES ASSUME moves(f[K]) PROVE FALSE
  BY <1>1, <1>2 DEF f, K
<1>12. ASSUME NEW k \in Nat, ~moves(f[k]), NEW m \in Nat, k <= m PROVE ~moves(f[m])
  <2> DEFINE P == {i \in Nat : f[k + i] = f[k]}
  <2>1. 0 \in P
    OBVIOUS
  <2>2. ASSUME NEW i \in P PROVE i + 1 \in P
    <3>1. k + i \in Nat /\ (k + i) + 1 = k + (i + 1) /\ f[k + i] = f[k]
      OBVIOUS
    <3> QED BY <3>1, <1>12, <1>1
  <2>3. P \in SUBSET Nat
    OBVIOUS
  <2>4. P = Nat
    <3> HIDE DEF P
    <3> QED BY <2>1, <2>2, <2>3, SetInduction
  <2>5. m - k \in Nat /\ k + (m - k) = m
    BY <1>12
  <2>6. f[m] = f[k]
    <3>1. m - k \in P
      BY <2>4, <2>5
    <3> QED BY <3>1, <2>5
  <2> QED BY <2>6, <1>12
<1> DEFINE S == {f[k] : k \in j..(K - 1)}
<1>13. \A k \in j..(K - 1) : moves(f[k])
  BY <1>2, <1>11, <1>12
<1>14. \A k \in j..(K - 1) : HasRow(rows, f[k]) /\ rows[f[k]].source \in S
  <2> SUFFICES ASSUME NEW k \in j..(K - 1) PROVE HasRow(rows, f[k]) /\ rows[f[k]].source \in S
    OBVIOUS
  <2>1. k \in Nat /\ moves(f[k]) /\ j \in Nat
    BY <1>13, <1>2
  <2>2. HasRow(rows, f[k]) /\ rows[f[k]].source = f[k + 1]
    BY <2>1, <1>1 DEF moves
  <2>3. CASE k + 1 \in j..(K - 1)
    BY <2>2, <2>3
  <2>4. CASE k + 1 = K
    <3>1. f[k + 1] = f[j] /\ j \in j..(K - 1)
      BY <2>4, <1>10, <1>2
    <3> QED BY <2>2, <3>1
  <2> QED BY <2>1, <2>3, <2>4, <1>2
<1>15. S # {} /\ S \in SUBSET Requests /\ (\A s \in S : HasRow(rows, s) /\ rows[s].source \in S)
  <2>1. j \in j..(K - 1)
    BY <1>2
  <2> QED BY <2>1, <1>14 DEF HasRow
<1> HIDE DEF S
<1> QED BY <1>15 DEF Tidy

(* LastRan as a recursion over the runs: the source of a replay ran the Task, *)
(* or the run that did is the one its source has it from.                     *)
LEMMA LastEquation ==
  ASSUME NEW rows, Tidy(rows), NEW r \in Requests, HasRow(rows, r), NEW n
  PROVE  LET s == rows[r].source
         IN  LastIn(rows, r, n) = IF s = Origin \/ n \notin rows[s].pre THEN s
                                  ELSE LastIn(rows, s, n)
<1> DEFINE f == Lineage(rows, r, n)
           K == Cardinality(Runs)
           s == rows[r].source
           moves(x) == x # Origin /\ n \in rows[x].pre
<1>1. /\ f[0] = s
      /\ \A k \in Nat : f[k + 1] = IF moves(f[k]) THEN rows[f[k]].source ELSE f[k]
  BY LineageIs
<1>2. f[K + 1] = f[K]
  BY LineageEnds
<1>3. K \in Nat
  BY RunsFinite
<1>4. CASE ~moves(s)
  <2> DEFINE P == {k \in Nat : f[k] = s}
  <2> HIDE DEF f, K, moves, s
  <2>1. 0 \in P
    BY <1>1
  <2>2. ASSUME NEW k \in P PROVE k + 1 \in P
    BY <1>1, <1>4
  <2>3. P \in SUBSET Nat
    OBVIOUS
  <2>4. P = Nat
    <3> HIDE DEF P
    <3> QED BY <2>1, <2>2, <2>3, SetInduction
  <2>5. f[K] = s
    <3>1. K \in P
      BY <2>4, <1>3
    <3> QED BY <3>1
  <2> QED BY <2>5, <1>4 DEF LastIn, f, K, moves, s
<1>5. CASE moves(s)
  <2> DEFINE g == Lineage(rows, s, n)
             P == {k \in Nat : g[k] = f[k + 1]}
  <2>1. s \in Requests /\ HasRow(rows, s)
    BY <1>5 DEF Tidy, HasRow
  <2>2. /\ g[0] = rows[s].source
        /\ \A k \in Nat : g[k + 1] = IF moves(g[k]) THEN rows[g[k]].source ELSE g[k]
    <3> HIDE DEF s
    <3> QED BY <2>1, LineageIs
  <2> HIDE DEF f, g, K, moves, s
  <2>3. 0 \in P
    <3>1. f[0 + 1] = rows[s].source
      BY <1>1, <1>5
    <3> QED BY <3>1, <2>2
  <2>4. ASSUME NEW k \in P PROVE k + 1 \in P
    <3>1. k \in Nat /\ k + 1 \in Nat /\ g[k] = f[k + 1]
      OBVIOUS
    <3> QED BY <3>1, <1>1, <2>2
  <2>5. P \in SUBSET Nat
    OBVIOUS
  <2>6. P = Nat
    <3> HIDE DEF P
    <3> QED BY <2>3, <2>4, <2>5, SetInduction
  <2>7. g[K] = f[K]
    <3>1. K \in P
      BY <2>6, <1>3
    <3> QED BY <3>1, <1>2
  <2> QED BY <2>7, <1>5 DEF LastIn, f, g, K, moves, s
<1> QED BY <1>4, <1>5

(* What the lineage of a row reads of the rows. *)
SameLineage(rows, rows2) ==
  \A r \in Requests : HasRow(rows, r) =>
    HasRow(rows2, r) /\ rows2[r].source = rows[r].source /\ rows2[r].pre = rows[r].pre

LEMMA LastStable ==
  ASSUME NEW rows, Tidy(rows), NEW rows2, Tidy(rows2), SameLineage(rows, rows2),
         NEW r \in Requests, HasRow(rows, r), NEW n
  PROVE  LastIn(rows2, r, n) = LastIn(rows, r, n)
<1> DEFINE S == {x \in Requests : HasRow(rows, x) /\ LastIn(rows2, x, n) # LastIn(rows, x, n)}
<1>1. SUFFICES ASSUME S # {} PROVE FALSE
  OBVIOUS
<1>2. S \in SUBSET Requests /\ \A x \in S : HasRow(rows, x)
  OBVIOUS
<1>3. PICK x \in S : rows[x].source \notin S
  <2> HIDE DEF S
  <2> QED BY <1>1, <1>2 DEF Tidy
<1> DEFINE s == rows[x].source
<1>4. x \in Requests /\ HasRow(rows, x) /\ HasRow(rows2, x) /\ rows2[x].source = s
  BY DEF SameLineage
<1>5. /\ LastIn(rows, x, n) = IF s = Origin \/ n \notin rows[s].pre THEN s ELSE LastIn(rows, s, n)
      /\ LastIn(rows2, x, n) = IF s = Origin \/ n \notin rows2[s].pre THEN s ELSE LastIn(rows2, s, n)
  BY <1>4, LastEquation
<1>6. s = Origin \/ (s \in Requests /\ HasRow(rows, s) /\ rows2[s].pre = rows[s].pre)
  BY <1>4 DEF Tidy, SameLineage, HasRow
<1> QED BY <1>3, <1>4, <1>5, <1>6

-----------------------------------------------------------------------------
(* The ancestors of a source *)

Ups(arch, source) ==
  CHOOSE up : up = [k \in Nat |->
    IF k = 0 THEN {source}
    ELSE up[k - 1] \cup {arch[s].parent : s \in {x \in up[k - 1] \ {0} : arch[x].present}}]

ChainIn(arch, source) == {s \in Ups(arch, source)[Cardinality(Runs)] \ {0} : arch[s].present}

LEMMA ChainIs ==
  ASSUME NEW source
  PROVE  Chain(source) = ChainIn(archive, source) /\ Chain(source)' = ChainIn(archive', source)
BY DEF Chain, ChainIn, Ups

(* Archived runs have parents that are runs, and 0 is no run. *)
Parents(arch) == \A s \in Runs : arch[s].parent \in Runs \cup {0}

LEMMA ZeroIsNoRun == 0 \notin Runs
BY ReplayAssumption DEF Runs, Origin

LEMMA UpsAre ==
  ASSUME NEW arch, Parents(arch), NEW source \in Runs
  PROVE  LET f == Ups(arch, source)
         IN  /\ f[0] = {source}
             /\ \A k \in Nat :
                  /\ f[k] \subseteq Runs \cup {0}
                  /\ f[k + 1] = f[k] \cup
                       {arch[s].parent : s \in {x \in f[k] \ {0} : arch[x].present}}
<1> DEFINE V == Runs \cup {0}
           S == SUBSET V
           next(near) == near \cup {arch[s].parent : s \in {x \in near \ {0} : arch[x].present}}
           step == [near \in S |-> next(near)]
<1>1. ASSUME NEW near \in S PROVE next(near) \in S
  BY DEF Parents
<1>2. {source} \in S
  OBVIOUS
<1>3. step \in [S -> S] /\ \A near \in S : step[near] = next(near)
  <2> HIDE DEF next, S
  <2> QED BY <1>1
<1>4. \A near \in S : near \subseteq Runs \cup {0}
  OBVIOUS
<1> HIDE DEF S, step, next
<1>5. PICK f \in [Nat -> S] : f = [k \in Nat |-> IF k = 0 THEN {source} ELSE step[f[k - 1]]]
  BY <1>2, <1>3, IteratesExist
<1>6. \A k \in Nat : k # 0 => k - 1 \in Nat /\ f[k - 1] \in S
  OBVIOUS
<1>7. \A k \in Nat : f[k] = IF k = 0 THEN {source} ELSE next(f[k - 1])
  BY <1>3, <1>5, <1>6
<1>8. f = [k \in Nat |-> IF k = 0 THEN {source} ELSE next(f[k - 1])]
  <2>1. f = [k \in Nat |-> f[k]]
    OBVIOUS
  <2> QED BY <1>7, <2>1
<1> DEFINE g == Ups(arch, source)
<1>9. g = [k \in Nat |-> IF k = 0 THEN {source} ELSE next(g[k - 1])]
  BY <1>8 DEF Ups, next
<1> HIDE DEF g
<1>10. g[0] = {source}
  BY <1>9
<1>11. ASSUME NEW k \in Nat PROVE g[k + 1] = next(g[k])
  <2>1. k + 1 \in Nat /\ k + 1 # 0 /\ (k + 1) - 1 = k
    OBVIOUS
  <2> QED BY <1>9, <2>1
<1>12. \A k \in Nat : g[k] \in S
  <2> DEFINE P == {k \in Nat : g[k] \in S}
  <2>1. 0 \in P
    BY <1>10, <1>2
  <2>2. ASSUME NEW k \in P PROVE k + 1 \in P
    <3>1. k \in Nat /\ g[k] \in S
      OBVIOUS
    <3> QED BY <3>1, <1>11, <1>1
  <2>3. P \in SUBSET Nat
    OBVIOUS
  <2>4. P = Nat
    <3> HIDE DEF P
    <3> QED BY <2>1, <2>2, <2>3, SetInduction
  <2> QED BY <2>4
<1> QED
  BY <1>4, <1>10, <1>11, <1>12 DEF g, next

(* The walk ends with every ancestor archives lead to. *)
LEMMA ChainClosed ==
  ASSUME NEW arch, Parents(arch), NEW source \in Runs
  PROVE  LET C == ChainIn(arch, source)
         IN  /\ arch[source].present => source \in C
             /\ \A s \in C : s \in Runs /\ arch[s].present
             /\ \A s \in C : arch[s].parent \in Runs /\ arch[arch[s].parent].present
                             => arch[s].parent \in C
<1> DEFINE f == Ups(arch, source)
           K == Cardinality(Runs)
           next(near) == near \cup {arch[s].parent : s \in {x \in near \ {0} : arch[x].present}}
<1>1. /\ f[0] = {source}
      /\ \A k \in Nat : f[k] \subseteq Runs \cup {0} /\ f[k + 1] = next(f[k])
  <2>1. f[0] = {source}
    BY UpsAre
  <2>2. \A k \in Nat : f[k] \subseteq Runs \cup {0}
    BY UpsAre
  <2>3. \A k \in Nat : f[k + 1] = next(f[k])
    BY UpsAre
  <2> QED BY ONLY <2>1, <2>2, <2>3
<1>2. K \in Nat
  BY RunsFinite
<1>3. \A near : near \subseteq next(near)
  OBVIOUS
<1> HIDE DEF f, K, next
<1>4. source \in f[K]
  <2> DEFINE P == {k \in Nat : source \in f[k]}
  <2>1. 0 \in P
    BY <1>1
  <2>2. ASSUME NEW k \in P PROVE k + 1 \in P
    BY <1>1, <1>3
  <2>3. P \in SUBSET Nat
    OBVIOUS
  <2>4. P = Nat
    <3> HIDE DEF P
    <3> QED BY <2>1, <2>2, <2>3, SetInduction
  <2> QED BY <2>4, <1>2
<1>5. f[K] = f[K + 1]
  <2> DEFINE E == [k \in Nat |-> f[k]]
             U == Runs \cup {0}
  <2>1. E \in [Nat -> SUBSET U] /\ \A k \in Nat : E[k] = f[k]
    BY <1>1
  <2>2. IsFiniteSet(U) /\ Cardinality(U) = K + 1
    <3>1. IsFiniteSet(U) /\ Cardinality(U) = Cardinality(Runs) + 1
      BY RunsFinite, ZeroIsNoRun, FS_AddElement
    <3> QED BY <3>1 DEF K
  <2> HIDE DEF E, U
  <2>3. \A k \in Nat : E[k] \subseteq E[k + 1]
    BY <2>1, <1>1, <1>3
  <2>4. ASSUME NEW k \in Nat, E[k] = E[k + 1] PROVE E[k + 1] = E[k + 2]
    <3>1. k + 1 \in Nat /\ (k + 1) + 1 = k + 2 /\ k + 2 \in Nat
      OBVIOUS
    <3>2. f[k + 2] = next(f[k + 1]) /\ f[k + 1] = next(f[k])
      BY <3>1, <1>1
    <3> QED BY <3>1, <3>2, <2>1, <2>4
  <2>5. Cardinality(E[0]) = 1
    BY <2>1, <1>1, FS_Singleton
  <2>6. Cardinality(U) <= Cardinality(E[0]) + K
    BY <2>5, <2>2, <1>2
  <2>7. \A k \in Nat : E[k] = E[k + 1] => E[k + 1] = E[k + 2]
    BY <2>4
  <2>8. E[K] = E[K + 1]
    BY <2>1, <2>2, <2>3, <2>6, <2>7, <1>2, ChainStops
  <2> QED BY <2>8, <2>1, <1>2
<1>6. f[K] = next(f[K])
  BY <1>5, <1>1, <1>2
<1>7. ChainIn(arch, source) = {s \in f[K] \ {0} : arch[s].present}
  BY DEF ChainIn, f, K
<1>8. ASSUME NEW s \in f[K] \ {0}, arch[s].present PROVE arch[s].parent \in f[K]
  BY <1>6, <1>8 DEF next
<1> QED BY <1>1, <1>2, <1>4, <1>7, <1>8, ZeroIsNoRun

(* Archives that lead only to archives are walked the same way later. *)
LEMMA ChainStable ==
  ASSUME NEW arch, Parents(arch), NEW arch2, Parents(arch2), NEW source \in Runs,
         arch[source].present,
         \A s \in Runs : arch[s].present => arch2[s] = arch[s],
         \A s \in Runs : arch[s].present /\ arch[s].parent # 0 => arch[arch[s].parent].present
  PROVE  ChainIn(arch2, source) = ChainIn(arch, source)
<1> DEFINE f == Ups(arch, source)
           g == Ups(arch2, source)
           K == Cardinality(Runs)
           P == {k \in Nat : g[k] = f[k] /\ \A s \in f[k] \ {0} : s \in Runs /\ arch[s].present}
<1>1. /\ f[0] = {source}
      /\ \A k \in Nat : f[k + 1] = f[k] \cup
                          {arch[s].parent : s \in {x \in f[k] \ {0} : arch[x].present}}
  BY UpsAre
<1>2. /\ g[0] = {source}
      /\ \A k \in Nat : g[k + 1] = g[k] \cup
                          {arch2[s].parent : s \in {x \in g[k] \ {0} : arch2[x].present}}
  BY UpsAre
<1>3. K \in Nat
  BY RunsFinite
<1> HIDE DEF f, g, K
<1>4. 0 \in P
  BY <1>1, <1>2
<1>5. ASSUME NEW k \in P PROVE k + 1 \in P
  <2>1. k \in Nat /\ g[k] = f[k] /\ \A s \in f[k] \ {0} : s \in Runs /\ arch[s].present
    OBVIOUS
  <2>2. \A s \in f[k] \ {0} : arch2[s] = arch[s]
    BY <2>1
  <2>3. {x \in g[k] \ {0} : arch2[x].present} = {x \in f[k] \ {0} : arch[x].present}
    BY <2>1, <2>2
  <2>4. {arch2[s].parent : s \in {x \in g[k] \ {0} : arch2[x].present}}
         = {arch[s].parent : s \in {x \in f[k] \ {0} : arch[x].present}}
    BY <2>2, <2>3
  <2>5. g[k + 1] = f[k + 1]
    BY <2>1, <2>4, <1>1, <1>2
  <2>6. ASSUME NEW t \in f[k + 1], t # 0 PROVE t \in Runs /\ arch[t].present
    <3>1. CASE t \in f[k]
      BY <3>1, <2>1, <2>6
    <3>2. CASE t \notin f[k]
      <4>1. PICK s \in f[k] \ {0} : arch[s].present /\ t = arch[s].parent
        BY <3>2, <2>6, <2>1, <1>1
      <4> QED BY <4>1, <2>1, <2>6 DEF Parents
    <3> QED BY <3>1, <3>2
  <2> QED BY <2>1, <2>5, <2>6
<1>6. P \in SUBSET Nat
  OBVIOUS
<1>7. P = Nat
  <2> HIDE DEF P
  <2> QED BY <1>4, <1>5, <1>6, SetInduction
<1>8. g[K] = f[K] /\ \A s \in f[K] \ {0} : s \in Runs /\ arch[s].present
  <2>1. K \in P
    BY <1>7, <1>3
  <2> QED BY <2>1
<1>9. \A s \in f[K] \ {0} : arch2[s] = arch[s]
  BY <1>8
<1> QED BY <1>8, <1>9 DEF ChainIn, f, g, K

-----------------------------------------------------------------------------
(* Types *)

ArchiveRec  == [present : BOOLEAN, ground : [Nodes -> Grounds], dump : [Nodes -> Runs \cup {0}],
                sentinel : BOOLEAN, parent : Runs \cup {0}]
ReplayRec   == [status : {"none", "Materializing", "Released", "VersionUnresolvable"},
                source : Runs \cup {0}, key : Keys \cup {NoKey}, roots : SUBSET Nodes,
                pre : SUBSET Nodes, shadow : BOOLEAN, lease : {"none", "live", "expired"}]
ScopeRec    == [namespace : {"none", "default", "replay"}, keys : [Nodes -> Runs \cup {0}],
                shadow : BOOLEAN, sentinel : BOOLEAN]
InstanceRec == [phase : {"absent", "stalled", "running", "ended"}, ground : [Nodes -> Grounds]]

Typed ==
  /\ formation \in Formations
  /\ edges \subseteq [sources : SUBSET (Nodes \cup {Start}), targets : SUBSET Nodes]
  /\ archive \in [Runs -> ArchiveRec]
  /\ replays \in [Requests -> ReplayRec]
  /\ calls \subseteq Call /\ drives \subseteq Drive
  /\ scopes \in [Requests -> ScopeRec]
  /\ instances \in [Requests -> InstanceRec]
  /\ sent \subseteq Signal /\ lost \subseteq Signal /\ rejected \subseteq Requests
  /\ faults \in 0..MaxFaults

LEMMA TypedIs == Typed <=> TypeOK
BY DEF Typed, TypeOK, ArchiveRec, ReplayRec, ScopeRec, InstanceRec

(* Records that change one field keep their type. *)
LEMMA ReplayFields ==
  ASSUME NEW rec \in ReplayRec
  PROVE  /\ \A l \in {"none", "live", "expired"} : [rec EXCEPT !.lease = l] \in ReplayRec
         /\ [rec EXCEPT !.status = "Released", !.lease = "none"] \in ReplayRec
BY DEF ReplayRec

LEMMA DriveFields ==
  ASSUME NEW d \in Drive
  PROVE  /\ \A a \in {"load", "trigger", "hydrate", "sentinel", "resume", "settle"} :
              [d EXCEPT !.at = a] \in Drive
         /\ \A T \in SUBSET Nodes : [d EXCEPT !.todo = T] \in Drive
         /\ d.id \in Requests /\ d.todo \in SUBSET Nodes /\ d.shadow \in BOOLEAN
BY DEF Drive

LEMMA NewDriveType ==
  ASSUME NEW r \in Requests, NEW kind \in {"request", "redrive", "leased"}, NEW shadow \in BOOLEAN
  PROVE  NewDrive(r, kind, shadow) \in Drive
BY DEF NewDrive, Drive

LEMMA ScopeFields ==
  ASSUME NEW rec \in ScopeRec
  PROVE  /\ [rec EXCEPT !.namespace = "default"] \in ScopeRec
         /\ [rec EXCEPT !.namespace = "default", !.shadow = TRUE] \in ScopeRec
         /\ [rec EXCEPT !.namespace = "default", !.sentinel = TRUE] \in ScopeRec
         /\ \A n \in Nodes : \A v \in Runs \cup {0} :
              [[rec EXCEPT !.namespace = "default"] EXCEPT !.keys[n] = v] \in ScopeRec
BY DEF ScopeRec

LEMMA InstanceFields ==
  ASSUME NEW rec \in InstanceRec
  PROVE  /\ \A p \in {"running", "ended"} : [rec EXCEPT !.phase = p] \in InstanceRec
         /\ \A n \in Nodes : \A g \in {"Success", "Failed"} :
              [rec EXCEPT !.ground[n] = g] \in InstanceRec
BY DEF InstanceRec, Grounds

LEMMA InitTyped == Init => Typed
<1> SUFFICES ASSUME Init PROVE Typed
  OBVIOUS
<1>1. PICK a \in Archives, found \in BOOLEAN :
        /\ edges = a.edges
        /\ archive = [r \in Runs |->
            IF r = Origin /\ found
            THEN [NoArchive EXCEPT !.present = TRUE, !.ground = a.ground,
                    !.dump = [n \in Nodes |-> IF a.ground[n] = "Success" THEN Origin ELSE 0]]
            ELSE NoArchive]
  BY DEF Init
<1>2. NoArchive \in ArchiveRec
  BY DEF NoArchive, NoDump, ArchiveRec, Grounds
<1>3. /\ a.edges \subseteq [sources : SUBSET (Nodes \cup {Start}), targets : SUBSET Nodes]
      /\ a.ground \in [Nodes -> Grounds]
  BY ArchiveAssumption DEF Grounds
<1>4. [NoArchive EXCEPT !.present = TRUE, !.ground = a.ground,
         !.dump = [n \in Nodes |-> IF a.ground[n] = "Success" THEN Origin ELSE 0]] \in ArchiveRec
  BY <1>3 DEF NoArchive, NoDump, ArchiveRec, Runs
<1>5. archive \in [Runs -> ArchiveRec]
  BY <1>1, <1>2, <1>4
<1>6. NoReplay \in ReplayRec /\ NoScope \in ScopeRec
  BY DEF NoReplay, NoScope, NoDump, ReplayRec, ScopeRec
<1>7. [phase |-> "absent", ground |-> NoArchive.ground] \in InstanceRec
  BY <1>2 DEF InstanceRec, ArchiveRec
<1>8. replays \in [Requests -> ReplayRec] /\ scopes \in [Requests -> ScopeRec]
      /\ instances \in [Requests -> InstanceRec]
  BY <1>6, <1>7 DEF Init
<1>9. formation \in Formations /\ calls \subseteq Call /\ drives \subseteq Drive /\ faults = 0
  BY DEF Init
<1>10. edges \subseteq [sources : SUBSET (Nodes \cup {Start}), targets : SUBSET Nodes]
  BY <1>1, <1>3
<1>11. faults \in 0..MaxFaults
  BY <1>9, ReplayAssumption
<1>12. sent \subseteq Signal /\ lost \subseteq Signal /\ rejected \subseteq Requests
  BY DEF Init
<1> QED
  BY ONLY <1>5, <1>8, <1>9, <1>10, <1>11, <1>12 DEF Typed

-----------------------------------------------------------------------------
(* What the invariant says of the source of a row *)

LEMMA TidyNow ==
  ASSUME RowsSound, NoCycle
  PROVE  Tidy(replays)
BY DEF RowsSound, NoCycle, Tidy, HasRow, Rowed, Known

LEMMA TidyNext ==
  ASSUME RowsSound', NoCycle'
  PROVE  Tidy(replays')
BY DEF RowsSound, NoCycle, Tidy, HasRow, Rowed, Known

LEMMA SourceSound ==
  ASSUME Typed, ReplayInv, NEW r \in Requests, Active(r)
  PROVE  /\ replays[r].source \in Runs /\ Present(replays[r].source)
         /\ replays[r].source # Origin => archive[replays[r].source].sentinel
         /\ replays[r].pre = Nodes \ Closure(r)
         /\ replays[r].roots \subseteq Closure(r) /\ ClosedUnder(edges, Closure(r))
         /\ Closure(r) \subseteq Nodes
         /\ HasRow(replays, r)
<1> DEFINE s == replays[r].source
           C == Closure(r)
<1>1. Rowed(r) /\ Known(s) /\ Seeded(s, replays[r].roots, replays[r].pre)
  BY DEF ReplayInv, RowsSound, Active, Rowed
<1>2. s \in Runs
  BY <1>1 DEF Known, Runs
<1>3. Present(s) /\ is_hydration_complete(s) /\ replays[r].pre = pre_grounded(edges, archive[s].ground, replays[r].roots)
  BY <1>1 DEF Seeded
<1>4. s # Origin => archive[s].sentinel
  <2>1. SUFFICES ASSUME s # Origin PROVE archive[s].parent # 0
    BY <1>3 DEF is_hydration_complete
  <2>2. s \in Requests /\ Rowed(s) /\ archive[s].parent = replays[s].source
    BY <2>1, <1>1, <1>3 DEF Known, ReplayInv, InstancesSound
  <2>3. Known(replays[s].source)
    BY <2>2 DEF ReplayInv, RowsSound
  <2> QED
    BY <2>2, <2>3, ZeroIsNoRun DEF Known, Runs
<1>5. archive[s].ground \in [Nodes -> Grounds] /\ \A n \in Nodes : archive[s].ground[n] # "Pending"
  BY <1>2, <1>3 DEF ReplayInv, GraphSound, Typed, ArchiveRec
<1>6. C = forward_closure(edges, replays[r].roots)
  BY DEF Closure
<1>7. IsFiniteSet(edges) /\ replays[r].roots \in SUBSET Nodes
  BY DEF ReplayInv, GraphSound, Typed, ReplayRec
<1>8. /\ replays[r].roots \subseteq C /\ ClosedUnder(edges, C)
      /\ \A D : replays[r].roots \subseteq D /\ ClosedUnder(edges, D) => C \subseteq D
  BY <1>6, <1>7, ForwardClosure
<1>9. ClosedUnder(edges, Nodes)
  BY DEF Typed, ClosedUnder
<1>10. C \subseteq Nodes
  <2> HIDE DEF C
  <2> QED BY <1>7, <1>8, <1>9
<1>11. replays[r].pre = Nodes \ C
  BY <1>3, <1>5, <1>6 DEF pre_grounded, seeded_ground
<1> QED
  BY <1>1, <1>2, <1>3, <1>4, <1>8, <1>10, <1>11 DEF HasRow, Rowed

LEMMA ArchiveClosed ==
  ASSUME Typed, ReplayInv
  PROVE  /\ Parents(archive)
         /\ \A s \in Runs : Present(s) /\ archive[s].parent # 0 => Present(archive[s].parent)
         /\ \A s \in Requests : Present(s) => Active(s) /\ archive[s].parent = replays[s].source
<1>1. Parents(archive)
  BY DEF Typed, ArchiveRec, Parents
<1>2. ASSUME NEW s \in Requests, Present(s)
      PROVE  Active(s) /\ archive[s].parent = replays[s].source
  BY <1>2 DEF ReplayInv, InstancesSound
<1>3. ASSUME NEW s \in Requests, Present(s)
      PROVE  Present(archive[s].parent)
  BY <1>2, <1>3, SourceSound
<1>4. ASSUME NEW s \in Runs, Present(s), archive[s].parent # 0 PROVE s \in Requests
  BY <1>4 DEF ReplayInv, OriginSound, Runs
<1> QED BY <1>1, <1>2, <1>3, <1>4

(* The run that last executed a Task is an ancestor whose archive is there. *)
LEMMA LastInChain ==
  ASSUME Typed, ReplayInv, NEW r \in Requests, Active(r), NEW n
  PROVE  LastRan(r, n) \in Chain(replays[r].source)
<1> DEFINE s0 == replays[r].source
           C == ChainIn(archive, s0)
           S == {x \in Requests : /\ Active(x) /\ replays[x].source \in C
                                  /\ LastIn(replays, x, n) \notin C}
<1>1. s0 \in Runs /\ archive[s0].present
  BY SourceSound DEF Present
<1>2. Parents(archive) /\ \A s \in Requests : archive[s].present => Active(s) /\ archive[s].parent = replays[s].source
  BY ArchiveClosed DEF Present
<1>3. /\ s0 \in C
      /\ \A s \in C : s \in Runs /\ archive[s].present
      /\ \A s \in C : archive[s].parent \in Runs /\ archive[archive[s].parent].present
                      => archive[s].parent \in C
  <2> HIDE DEF s0
  <2> QED BY <1>1, <1>2, ChainClosed
<1>4. Tidy(replays)
  BY TidyNow DEF ReplayInv
<1>5. \A x \in Requests : Active(x) => HasRow(replays, x)
  BY DEF Active, HasRow
<1> HIDE DEF C
<1>6. SUFFICES ASSUME S # {} PROVE FALSE
  BY <1>3, LastRanIs, ChainIs DEF C
<1>7. S \in SUBSET Requests /\ \A x \in S : HasRow(replays, x)
  BY <1>5
<1>8. PICK x \in S : replays[x].source \notin S
  <2> HIDE DEF S
  <2> QED BY <1>4, <1>6, <1>7 DEF Tidy
<1> DEFINE s == replays[x].source
<1>9. x \in Requests /\ HasRow(replays, x) /\ s \in C /\ LastIn(replays, x, n) \notin C
  BY <1>7
<1>10. LastIn(replays, x, n) = IF s = Origin \/ n \notin replays[s].pre THEN s ELSE LastIn(replays, s, n)
  BY <1>4, <1>9, LastEquation
<1>11. s \in Requests /\ LastIn(replays, s, n) \notin C /\ archive[s].present
  BY <1>9, <1>10, <1>3 DEF Runs
<1>12. Active(s) /\ archive[s].parent = replays[s].source
  BY <1>2, <1>11
<1>13. replays[s].source \in Runs /\ archive[replays[s].source].present
  <2> HIDE DEF s
  <2> QED BY <1>11, <1>12, SourceSound DEF Present
<1>14. replays[s].source \in C
  BY <1>3, <1>9, <1>12, <1>13
<1> QED BY <1>8, <1>11, <1>12, <1>14

(* The plan of a rehydration has every Task that keeps its success, with the  *)
(* output of the run that last executed it.                                   *)
LEMMA PlanCovers ==
  ASSUME Typed, ReplayInv, NEW r \in Requests, Active(r), NEW n \in replays[r].pre,
         archive[replays[r].source].ground[n] = "Success"
  PROVE  n \in Plan(r) /\ archive[replays[r].source].dump[n] = LastRan(r, n)
<1> DEFINE s == replays[r].source
<1>1. s \in Runs /\ Present(s) /\ (s # Origin => archive[s].sentinel) /\ HasRow(replays, r)
      /\ replays[r].pre \subseteq Nodes
  BY SourceSound
<1>2. n \in Nodes
  BY <1>1
<1>3. archive[s].dump[n] = IF s # Origin /\ n \in replays[s].pre THEN LastRan(s, n) ELSE s
  BY <1>1, <1>2 DEF ReplayInv, DumpsSound
<1>4. LastIn(replays, r, n) = IF s = Origin \/ n \notin replays[s].pre THEN s ELSE LastIn(replays, s, n)
  BY <1>1, TidyNow, LastEquation DEF ReplayInv
<1>5. archive[s].dump[n] = LastRan(r, n)
  BY <1>3, <1>4, LastRanIs
<1>6. LastRan(r, n) \in Chain(s)
  BY LastInChain
<1> QED BY <1>5, <1>6 DEF Plan, plan_rehydration

-----------------------------------------------------------------------------
(* Every step keeps the types *)

LEMMA DriveSound ==
  ASSUME Typed, ReplayInv, NEW d \in drives
  PROVE  /\ d \in Drive /\ d.id \in Requests /\ Active(d.id)
         /\ replays[d.id].source \in Runs /\ Present(replays[d.id].source)
         /\ replays[d.id] \in ReplayRec /\ archive[replays[d.id].source] \in ArchiveRec
         /\ scopes[d.id] \in ScopeRec /\ instances[d.id] \in InstanceRec
<1>1. d \in Drive /\ d.id \in Requests /\ Active(d.id)
  BY DEF Typed, Drive, ReplayInv, DrivesSound
<1>2. replays[d.id].source \in Runs /\ Present(replays[d.id].source)
  BY <1>1, SourceSound
<1> QED BY <1>1, <1>2 DEF Typed

LEMMA GraphTypes ==
  ASSUME Typed, NEW s \in Runs, NEW roots
  PROVE  /\ seeded_ground(edges, archive[s].ground, roots) \in [Nodes -> Grounds]
         /\ pre_grounded(edges, archive[s].ground, roots) \subseteq Nodes
         /\ default_resume_from(archive[s].ground) \subseteq Nodes
<1>1. archive[s].ground \in [Nodes -> Grounds]
  BY DEF Typed, ArchiveRec
<1> QED
  BY <1>1 DEF seeded_ground, pre_grounded, default_resume_from, Grounds

LEMMA FaultType ==
  ASSUME Typed, Fault
  PROVE  faults' \in 0..MaxFaults
BY ReplayAssumption DEF Typed, Fault

LEMMA ReadTyped ==
  ASSUME Typed, NEW r \in Requests, Request(r)
  PROVE  Typed'
<1>1. PICK source \in {Origin} \cup {s \in Requests : replays[s].status # "none"}, asks \in Inputs :
        ReadSource(r, source, asks) \/ ReadNothing(r, source, asks)
  BY DEF Request
<1>2. source \in Runs /\ asks.resume_from \subseteq Nodes /\ asks.key \in Keys \cup {NoKey}
      /\ asks.shadow \in BOOLEAN
  BY ReplayAssumption DEF Runs
<1> DEFINE roots == Roots(source, asks.resume_from)
           pre == pre_grounded(edges, archive[source].ground, roots)
<1>3. roots \subseteq Nodes /\ pre \subseteq Nodes
  BY <1>2, GraphTypes DEF Roots
<1> HIDE DEF roots, pre
<1>4. /\ [id |-> r, source |-> source, key |-> asks.key, roots |-> roots, shadow |-> asks.shadow,
          status |-> "Materializing", pre |-> pre] \in Call
      /\ [id |-> r, source |-> source, key |-> asks.key, roots |-> {}, shadow |-> FALSE,
          status |-> "VersionUnresolvable", pre |-> {}] \in Call
  BY <1>2, <1>3 DEF Call
<1>5. calls' \subseteq Call
  BY <1>1, <1>4 DEF ReadSource, ReadNothing, Typed, roots, pre
<1>6. UNCHANGED <<formation, edges, archive, replays, drives, scopes, instances, sent, lost,
                      rejected, faults>>
  BY <1>1 DEF ReadSource, ReadNothing
<1> QED BY <1>5, <1>6 DEF Typed

LEMMA InsertTyped ==
  ASSUME Typed, NEW c \in calls, insert_replay_lifecycle(c)
  PROVE  Typed'
<1>1. c \in Call /\ c.id \in Requests /\ c.shadow \in BOOLEAN
  BY DEF Typed, Call
<1>2. [status |-> c.status, source |-> c.source, key |-> c.key, roots |-> c.roots,
       pre |-> c.pre, shadow |-> c.shadow, lease |-> "none"] \in ReplayRec
  BY <1>1 DEF Call, ReplayRec
<1>3. replays' \in [Requests -> ReplayRec]
  BY <1>1, <1>2 DEF Typed, insert_replay_lifecycle
<1>4. drives' \subseteq Drive
  BY <1>1, NewDriveType DEF Typed, insert_replay_lifecycle
<1>5. calls' \subseteq Call
  BY DEF Typed, insert_replay_lifecycle
<1> QED BY <1>3, <1>4, <1>5 DEF Typed, insert_replay_lifecycle

LEMMA RedriveTyped ==
  ASSUME Typed, NEW r \in Requests, Redrive(r) \/ LeaseExpires(r)
  PROVE  Typed'
<1>0. replays[r] \in ReplayRec
  BY DEF Typed
<1>1. CASE Redrive(r)
  BY <1>1, NewDriveType DEF Typed, Redrive
<1>2. CASE LeaseExpires(r)
  <2>1. replays' \in [Requests -> ReplayRec]
    BY <1>0, <1>2, ReplayFields DEF Typed, LeaseExpires
  <2>2. faults' \in 0..MaxFaults
    BY <1>2, FaultType DEF Typed, LeaseExpires
  <2> QED BY <1>2, <2>1, <2>2 DEF Typed, LeaseExpires
<1> QED BY <1>1, <1>2

LEMMA LeaseTyped ==
  ASSUME Typed, lease_replays
  PROVE  Typed'
<1>1. replays' \in [Requests -> ReplayRec]
  BY ReplayFields DEF Typed, lease_replays
<1>2. drives' \subseteq Drive
  BY NewDriveType DEF Typed, lease_replays
<1> QED BY <1>1, <1>2 DEF Typed, lease_replays

LEMMA GiveBackTyped ==
  ASSUME Typed, ReplayInv, NEW d \in drives, GiveBack(d)
  PROVE  replays' \in [Requests -> ReplayRec] /\ drives' \subseteq Drive
<1>1. d.id \in Requests /\ replays[d.id] \in ReplayRec
  BY DriveSound
<1> QED BY <1>1, ReplayFields DEF GiveBack, Leave, Typed

LEMMA DriveTyped ==
  ASSUME Typed, ReplayInv, NEW d \in drives, DriveStep(d) \/ DriveFails(d)
  PROVE  Typed'
<1>1. /\ d \in Drive /\ d.id \in Requests /\ replays[d.id].source \in Runs
      /\ replays[d.id] \in ReplayRec /\ archive[replays[d.id].source] \in ArchiveRec
      /\ scopes[d.id] \in ScopeRec /\ instances[d.id] \in InstanceRec
  BY DriveSound
<1>2. Plan(d.id) \subseteq Nodes
  BY <1>1 DEF Plan, plan_rehydration, ReplayRec
<1>3. archive[replays[d.id].source].dump \in [Nodes -> Runs \cup {0}]
  BY <1>1 DEF ArchiveRec
<1>4. CASE load_replay_drive(d)
  <2>1. drives' \subseteq Drive
    BY <1>1, <1>4, DriveFields DEF Typed, load_replay_drive, Advance, Leave
  <2> QED BY <1>4, <2>1 DEF Typed, load_replay_drive
<1>5. CASE SendTrigger(d)
  <2>1. [d EXCEPT !.at = "hydrate", !.todo = Plan(d.id)] \in Drive
    BY <1>1, <1>2 DEF Drive
  <2>2. AfterTrigger(d) \in Drive
    BY <1>1, <2>1, DriveFields DEF AfterTrigger
  <2>3. drives' \subseteq Drive
    BY <1>5, <2>2 DEF Typed, SendTrigger, Advance
  <2>4. <<"trigger", d.id>> \in Signal
    BY <1>1 DEF Signal
  <2> QED BY <1>5, <2>3, <2>4 DEF Typed, SendTrigger, Send
<1>6. ASSUME NEW n \in d.todo, PutCarried(d, n) PROVE Typed'
  <2> DEFINE v == archive[replays[d.id].source].dump[n]
  <2>1. n \in Nodes /\ v \in Runs \cup {0}
    BY <1>1, <1>3, DriveFields
  <2>2. scopes' = [scopes EXCEPT ![d.id] = [[scopes[d.id] EXCEPT !.namespace = "default"] EXCEPT !.keys[n] = v]]
    BY <1>6, <1>1 DEF PutCarried, Typed, ScopeRec
  <2> HIDE DEF v
  <2>3. scopes' \in [Requests -> ScopeRec]
    BY <1>1, <2>1, <2>2, ScopeFields DEF Typed
  <2>5. [d EXCEPT !.todo = @ \ {n}] \in Drive
    BY <1>1 DEF Drive
  <2>4. drives' \subseteq Drive
    BY <1>6, <2>5 DEF Typed, PutCarried, Advance
  <2> QED BY <1>6, <2>3, <2>4 DEF Typed, PutCarried
<1>7. CASE PutShadow(d)
  <2>1. scopes' = [scopes EXCEPT ![d.id] = [scopes[d.id] EXCEPT !.namespace = "default", !.shadow = TRUE]]
    BY <1>7, <1>1 DEF PutShadow, Typed, ScopeRec
  <2>2. scopes' \in [Requests -> ScopeRec]
    BY <1>1, <2>1, ScopeFields DEF Typed
  <2>3. drives' \subseteq Drive
    BY <1>1, <1>7, DriveFields DEF Typed, PutShadow, Advance
  <2> QED BY <1>7, <2>2, <2>3 DEF Typed, PutShadow
<1>8. AfterHydration(d) \in Drive /\ [AfterHydration(d) EXCEPT !.todo = {}] \in Drive
  BY <1>1, DriveFields DEF AfterHydration
<1>9. CASE PutSentinel(d)
  <2>1. scopes' = [scopes EXCEPT ![d.id] = [scopes[d.id] EXCEPT !.namespace = "default", !.sentinel = TRUE]]
    BY <1>9, <1>1 DEF PutSentinel, Typed, ScopeRec
  <2>2. scopes' \in [Requests -> ScopeRec]
    BY <1>1, <2>1, ScopeFields DEF Typed
  <2>3. drives' \subseteq Drive
    BY <1>8, <1>9 DEF Typed, PutSentinel, Advance
  <2> QED BY <1>9, <2>2, <2>3 DEF Typed, PutSentinel
<1>10. CASE CreateScope(d)
  <2>1. [namespace |-> "replay", shadow |-> d.shadow, sentinel |-> TRUE,
         keys |-> [n \in Nodes |-> IF n \in d.todo
                                   THEN archive[replays[d.id].source].dump[n] ELSE 0]] \in ScopeRec
    BY <1>1, <1>3, DriveFields DEF ScopeRec
  <2>2. scopes' \in [Requests -> ScopeRec]
    BY <1>1, <1>10, <2>1 DEF Typed, CreateScope
  <2>3. drives' \subseteq Drive
    BY <1>8, <1>10 DEF Typed, CreateScope, Advance
  <2> QED BY <1>10, <2>2, <2>3 DEF Typed, CreateScope
<1>15. CASE CreateScopeRejected(d)
  <2>1. drives' \subseteq Drive
    BY <1>8, <1>15 DEF Typed, CreateScopeRejected, Advance
  <2> QED BY <1>1, <1>15, <2>1 DEF Typed, CreateScopeRejected
<1>11. CASE CreateScopeRefused(d)
  BY <1>11, GiveBackTyped DEF Typed, CreateScopeRefused
<1>12. CASE SendResume(d)
  <2>1. drives' \subseteq Drive
    BY <1>1, <1>12, DriveFields DEF Typed, SendResume, Advance
  <2>2. <<"resume", d.id>> \in Signal
    BY <1>1 DEF Signal
  <2> QED BY <1>12, <2>1, <2>2 DEF Typed, SendResume, Send
<1>13. CASE SettleReleased(d)
  <2>1. replays' \in [Requests -> ReplayRec]
    BY <1>1, <1>13, ReplayFields DEF Typed, SettleReleased
  <2> QED BY <1>13, <2>1 DEF Typed, SettleReleased, Leave
<1>14. CASE DriveFails(d)
  BY <1>14, GiveBackTyped, FaultType DEF Typed, DriveFails
<1> QED
  BY <1>4, <1>5, <1>6, <1>7, <1>9, <1>10, <1>11, <1>12, <1>13, <1>14, <1>15 DEF DriveStep

LEMMA ArriveTyped ==
  ASSUME Typed, ReplayInv, NEW r \in Requests, ArriveTrigger(r) \/ ArriveResume(r)
  PROVE  Typed'
<1>1. instances[r] \in InstanceRec
  BY DEF Typed
<1>2. CASE ArriveTrigger(r)
  <2>1. replays[r].source \in Runs
    BY <1>2, SourceSound DEF ArriveTrigger, ReplayInv, InstancesSound
  <2>2. seeded_ground(edges, archive[replays[r].source].ground, replays[r].roots) \in [Nodes -> Grounds]
    BY <2>1, GraphTypes
  <2>3. [phase |-> IF born_stalled(r) THEN "stalled" ELSE "running",
         ground |-> seeded_ground(edges, archive[replays[r].source].ground, replays[r].roots)]
          \in InstanceRec
    BY <2>2 DEF InstanceRec
  <2>4. instances' \in [Requests -> InstanceRec]
    BY <1>2, <2>3 DEF Typed, ArriveTrigger
  <2> QED BY <1>2, <2>4 DEF Typed, ArriveTrigger
<1>3. CASE ArriveResume(r)
  <2>1. instances' \in [Requests -> InstanceRec]
    BY <1>1, <1>3, InstanceFields DEF Typed, ArriveResume
  <2>2. <<"resume", r>> \in Signal
    BY DEF Signal
  <2> QED BY <1>3, <2>1, <2>2 DEF Typed, ArriveResume
<1> QED BY <1>2, <1>3

LEMMA LossTyped ==
  ASSUME Typed, NEW s \in sent, SignalLost(s)
  PROVE  Typed'
BY FaultType DEF Typed, SignalLost

LEMMA CrashTyped ==
  ASSUME Typed, Crash
  PROVE  Typed'
<1>1. calls' \subseteq Call /\ drives' \subseteq Drive
  BY DEF Typed, Crash
<1> QED BY <1>1, FaultType DEF Typed, Crash

LEMMA RunTyped ==
  ASSUME Typed, NEW r \in Requests,
         RunEnds(r) \/ \E n \in Nodes : TaskSucceeds(r, n) \/ TaskFails(r, n) \/ LaunchRefused(r, n)
  PROVE  Typed'
<1>1. scopes[r] \in ScopeRec /\ instances[r] \in InstanceRec /\ replays[r] \in ReplayRec
      /\ Opened(r) \in ScopeRec
  BY ScopeFields DEF Typed, Opened
<1>2. r \in Runs
  BY DEF Runs
<1>3. ASSUME NEW n \in Nodes, TaskSucceeds(r, n) PROVE Typed'
  <2>1. [Opened(r) EXCEPT !.keys[n] = r] \in ScopeRec
    BY <1>1, <1>2, ScopeFields DEF Opened
  <2>2. scopes' \in [Requests -> ScopeRec]
    BY <1>3, <2>1 DEF Typed, TaskSucceeds
  <2>3. instances' = [instances EXCEPT ![r] = [instances[r] EXCEPT !.ground[n] = "Success"]]
    BY <1>1, <1>3 DEF Typed, TaskSucceeds
  <2>4. instances' \in [Requests -> InstanceRec]
    BY <1>1, <2>3, InstanceFields DEF Typed
  <2> QED BY <1>3, <2>2, <2>4 DEF Typed, TaskSucceeds
<1>4. ASSUME NEW n \in Nodes, TaskFails(r, n) \/ LaunchRefused(r, n) PROVE Typed'
  <2>1. instances' = [instances EXCEPT ![r] = [instances[r] EXCEPT !.ground[n] = "Failed"]]
    BY <1>1, <1>4 DEF Typed, TaskFails, LaunchRefused
  <2>2. instances' \in [Requests -> InstanceRec]
    BY <1>1, <2>1, InstanceFields DEF Typed
  <2>3. scopes' \in [Requests -> ScopeRec]
    BY <1>1, <1>4 DEF Typed, TaskFails, LaunchRefused
  <2>4. faults' \in 0..MaxFaults
    BY <1>4, FaultType DEF Typed, TaskFails, LaunchRefused
  <2> QED BY <1>4, <2>2, <2>3, <2>4 DEF Typed, TaskFails, LaunchRefused
<1>5. CASE RunEnds(r)
  <2> DEFINE rec == [present |-> TRUE, dump |-> scopes[r].keys, sentinel |-> scopes[r].sentinel,
                parent |-> replays[r].source,
                ground |-> [n \in Nodes |-> IF instances[r].ground[n] = "Pending"
                                            THEN "Cancelled" ELSE instances[r].ground[n]]]
  <2>1. rec \in ArchiveRec
    BY <1>1 DEF ArchiveRec, ScopeRec, ReplayRec, InstanceRec, Grounds
  <2>2. archive' = [archive EXCEPT ![r] = rec] \/ archive' = archive
    BY <1>5 DEF RunEnds
  <2> HIDE DEF rec
  <2>3. archive' \in [Runs -> ArchiveRec]
    BY <1>2, <2>1, <2>2 DEF Typed
  <2>4. scopes' \in [Requests -> ScopeRec]
    BY <1>1, <1>5 DEF Typed, RunEnds
  <2>5. instances' \in [Requests -> InstanceRec]
    BY <1>1, <1>5, InstanceFields DEF Typed, RunEnds
  <2> QED BY <1>5, <2>3, <2>4, <2>5 DEF Typed, RunEnds
<1> QED BY <1>3, <1>4, <1>5

LEMMA NextTyped ==
  ASSUME Typed, ReplayInv, [Next]_vars
  PROVE  Typed'
<1>1. CASE UNCHANGED vars
  BY <1>1 DEF vars, Typed
<1>2. ASSUME NEW r \in Requests,
             \/ Request(r) \/ Redrive(r) \/ LeaseExpires(r) \/ RunEnds(r)
             \/ ArriveTrigger(r) \/ ArriveResume(r)
             \/ \E n \in Nodes : TaskSucceeds(r, n) \/ TaskFails(r, n) \/ LaunchRefused(r, n)
      PROVE  Typed'
  BY <1>2, ReadTyped, RedriveTyped, ArriveTyped, RunTyped
<1>3. ASSUME NEW c \in calls, insert_replay_lifecycle(c) PROVE Typed'
  BY <1>3, InsertTyped
<1>4. ASSUME NEW d \in drives, DriveStep(d) \/ DriveFails(d) PROVE Typed'
  BY <1>4, DriveTyped
<1>5. CASE lease_replays
  BY <1>5, LeaseTyped
<1>6. CASE Crash
  BY <1>6, CrashTyped
<1>7. ASSUME NEW s \in sent, SignalLost(s) PROVE Typed'
  BY <1>7, LossTyped
<1> QED BY <1>1, <1>2, <1>3, <1>4, <1>5, <1>6, <1>7 DEF Next

-----------------------------------------------------------------------------
(* What no step changes: the seed of a row and what is archived *)

SameSeed(r) ==
  /\ replays'[r].source = replays[r].source /\ replays'[r].roots = replays[r].roots
  /\ replays'[r].pre = replays[r].pre /\ replays'[r].key = replays[r].key

Kept ==
  /\ edges' = edges /\ formation' = formation
  /\ \A r \in Requests : Rowed(r) =>
       /\ SameSeed(r)
       /\ \/ replays'[r].status = replays[r].status
          \/ replays[r].status = "Materializing" /\ replays'[r].status = "Released"
  /\ \A s \in Runs : Present(s) => archive'[s] = archive[s]
  /\ rejected \subseteq rejected'

LEMMA KnownKept ==
  ASSUME Kept, NEW s, Known(s)
  PROVE  Known(s)'
BY DEF Kept, Known, Rowed

LEMMA ActiveKept ==
  ASSUME Kept, NEW r \in Requests, Active(r)
  PROVE  /\ Active(r)' /\ Rowed(r) /\ SameSeed(r) /\ born_stalled(r)' = born_stalled(r)
BY DEF Kept, Active, Rowed, SameSeed, born_stalled

LEMMA SeededKept ==
  ASSUME Kept, NEW source \in Runs, NEW roots, NEW pre, Seeded(source, roots, pre)
  PROVE  Seeded(source, roots, pre)'
<1>1. edges' = edges /\ archive'[source] = archive[source] /\ archive[source].present
  BY DEF Kept, Seeded, Present
<1> QED
  BY <1>1 DEF Seeded, Present, is_hydration_complete

LEMMA ClosureKept ==
  ASSUME Typed, ReplayInv, Kept, NEW r \in Requests, Active(r)
  PROVE  /\ replays'[r].source = replays[r].source
         /\ replays'[r].pre = replays[r].pre
         /\ archive'[replays[r].source] = archive[replays[r].source]
         /\ Closure(r)' = Closure(r) /\ Fireable(r)' = Fireable(r)
<1>1. SameSeed(r) /\ edges' = edges
  BY ActiveKept DEF Kept
<1>2. archive'[replays[r].source] = archive[replays[r].source]
  BY SourceSound DEF Kept
<1> QED
  BY <1>1, <1>2 DEF SameSeed, Closure, Fireable

LEMMA PlanKept ==
  ASSUME Typed, Typed', ReplayInv, Kept, NEW r \in Requests, Active(r)
  PROVE  Plan(r)' = Plan(r)
<1> DEFINE s == replays[r].source
<1>1. s \in Runs /\ archive[s].present
  BY SourceSound DEF Present
<1>2. /\ replays'[r].source = s /\ replays'[r].pre = replays[r].pre /\ archive'[s] = archive[s]
  BY ClosureKept
<1>3. Parents(archive) /\ \A x \in Runs : archive[x].present /\ archive[x].parent # 0 => archive[archive[x].parent].present
  BY ArchiveClosed DEF Present
<1>4. Parents(archive')
  BY DEF Typed, ArchiveRec, Parents
<1>5. \A x \in Runs : archive[x].present => archive'[x] = archive[x]
  BY DEF Kept, Present
<1>6. ChainIn(archive', s) = ChainIn(archive, s)
  <2> HIDE DEF s
  <2> QED BY <1>1, <1>3, <1>4, <1>5, ChainStable
<1> HIDE DEF s
<1>7. Plan(r) = plan_rehydration(archive[s].dump, ChainIn(archive, s), s, replays[r].pre)
  BY ChainIs DEF Plan, s
<1>8. Plan(r)' = plan_rehydration(archive'[replays'[r].source].dump, ChainIn(archive', replays'[r].source),
                                 replays'[r].source, replays'[r].pre)
  BY DEF Plan, Chain, ChainIn, Ups
<1> QED BY <1>2, <1>6, <1>7, <1>8

LEMMA LastKept ==
  ASSUME ReplayInv, Kept, RowsSound', NoCycle', NEW r \in Requests, Rowed(r), NEW n
  PROVE  LastRan(r, n)' = LastRan(r, n)
<1>1. Tidy(replays) /\ Tidy(replays')
  BY TidyNow, TidyNext DEF ReplayInv
<1>2. SameLineage(replays, replays') /\ HasRow(replays, r)
  BY DEF Kept, SameLineage, SameSeed, HasRow, Rowed
<1> QED BY <1>1, <1>2, LastStable, LastRanIs

-----------------------------------------------------------------------------
(* Steps that only pace the drives *)

RowsPaced ==
  \A r \in Requests :
    /\ SameSeed(r)
    /\ \/ replays'[r].status = replays[r].status
       \/ /\ replays[r].status = "Materializing" /\ replays'[r].status = "Released"
          /\ Outbound(r)
    /\ replays'[r].status # "Materializing" => replays'[r].lease = "none"
    /\ replays[r].status \in {"Released", "VersionUnresolvable"} => replays'[r] = replays[r]

Paced ==
  /\ RowsPaced /\ UNCHANGED <<formation, edges, archive, scopes, instances, rejected>>
  /\ sent' \subseteq sent /\ sent' \cup lost' = sent \cup lost
  /\ calls' \subseteq calls
  /\ \A e \in drives' : e \in drives \/ (Active(e.id) /\ e.at \in {"load", "trigger"})

LEMMA RowsUnchanged ==
  ASSUME Typed, ReplayInv, replays' = replays
  PROVE  RowsPaced
<1>1. ASSUME NEW r \in Requests PROVE replays[r].status # "Materializing" => replays[r].lease = "none"
  BY DEF Typed, ReplayRec, ReplayInv, RowsSound
<1> QED BY <1>1 DEF RowsPaced, SameSeed

LEMMA RowsLeased ==
  ASSUME Typed, ReplayInv,
         \A r \in Requests : \/ replays'[r] = replays[r]
                             \/ /\ replays[r].status = "Materializing"
                                /\ \E l \in {"none", "live", "expired"} :
                                     replays'[r] = [replays[r] EXCEPT !.lease = l]
                             \/ replays'[r] = [replays[r] EXCEPT !.lease = "none"]
  PROVE  RowsPaced
<1>1. ASSUME NEW r \in Requests PROVE replays[r].status # "Materializing" => replays[r].lease = "none"
  BY DEF Typed, ReplayRec, ReplayInv, RowsSound
<1>2. ASSUME NEW r \in Requests PROVE replays[r] \in ReplayRec
  BY DEF Typed
<1>3. ASSUME NEW rec \in ReplayRec, NEW l
      PROVE  LET new == [rec EXCEPT !.lease = l]
             IN  /\ new.source = rec.source /\ new.roots = rec.roots /\ new.pre = rec.pre
                 /\ new.key = rec.key /\ new.status = rec.status /\ new.lease = l
                 /\ rec.lease = l => new = rec
  BY DEF ReplayRec
<1> SUFFICES ASSUME NEW r \in Requests
    PROVE  /\ SameSeed(r)
           /\ replays'[r].status = replays[r].status
           /\ replays'[r].status # "Materializing" => replays'[r].lease = "none"
           /\ replays[r].status \in {"Released", "VersionUnresolvable"} => replays'[r] = replays[r]
  BY DEF RowsPaced
<1>4. CASE replays'[r] = replays[r]
  BY <1>1, <1>4 DEF SameSeed
<1>5. CASE /\ replays[r].status = "Materializing"
           /\ \E l \in {"none", "live", "expired"} : replays'[r] = [replays[r] EXCEPT !.lease = l]
  BY <1>2, <1>3, <1>5 DEF SameSeed
<1>6. CASE replays'[r] = [replays[r] EXCEPT !.lease = "none"]
  BY <1>1, <1>2, <1>3, <1>6 DEF SameSeed
<1> QED BY <1>4, <1>5, <1>6

LEMMA StandingPaced ==
  ASSUME Typed, ReplayInv, UNCHANGED vars
  PROVE  Paced
BY RowsUnchanged DEF Paced, vars

LEMMA RedrivePaced ==
  ASSUME Typed, ReplayInv, NEW r \in Requests, Redrive(r)
  PROVE  Paced
<1>1. \A e \in drives' : e \in drives \/ (Active(e.id) /\ e.at \in {"load", "trigger"})
  BY DEF Redrive, NewDrive, Active
<1> QED BY <1>1, RowsUnchanged DEF Paced, Redrive

LEMMA LeasePaced ==
  ASSUME Typed, ReplayInv, lease_replays
  PROVE  Paced
<1>1. \A e \in drives' : e \in drives \/ (Active(e.id) /\ e.at \in {"load", "trigger"})
  BY DEF lease_replays, NewDrive, Active, LeaseEligible
<1>2. \A r \in Requests : \/ replays'[r] = replays[r]
                          \/ /\ replays[r].status = "Materializing"
                             /\ replays'[r] = [replays[r] EXCEPT !.lease = "live"]
  BY DEF lease_replays, LeaseEligible
<1>3. RowsPaced
  BY <1>2, RowsLeased
<1> QED BY <1>1, <1>3 DEF Paced, lease_replays

LEMMA ExpiryPaced ==
  ASSUME Typed, ReplayInv, NEW r \in Requests, LeaseExpires(r)
  PROVE  Paced
<1>1. \A x \in Requests : \/ replays'[x] = replays[x]
                          \/ /\ replays[x].status = "Materializing"
                             /\ replays'[x] = [replays[x] EXCEPT !.lease = "expired"]
  BY DEF LeaseExpires, Typed
<1>2. RowsPaced
  BY <1>1, RowsLeased
<1> QED BY <1>2 DEF Paced, LeaseExpires

LEMMA GiveBackPaced ==
  ASSUME Typed, ReplayInv, NEW d \in drives, GiveBack(d)
  PROVE  RowsPaced /\ drives' \subseteq drives
<1>1. \A x \in Requests : \/ replays'[x] = replays[x]
                          \/ replays'[x] = [replays[x] EXCEPT !.lease = "none"]
  BY DEF GiveBack, Typed
<1>2. RowsPaced
  BY <1>1, RowsLeased
<1> QED BY <1>2 DEF GiveBack, Leave

LEMMA SettlePaced ==
  ASSUME Typed, ReplayInv, NEW d \in drives, SettleReleased(d)
  PROVE  Paced
<1>1. d.id \in Requests /\ replays[d.id] \in ReplayRec
  BY DriveSound
<1>2. Outbound(d.id)
  BY DEF SettleReleased, ReplayInv, DrivesSound
<1>3. CASE replays' = replays
  BY <1>3, RowsUnchanged DEF Paced, SettleReleased, Leave
<1>4. CASE replays' # replays
  <2> DEFINE new == [replays[d.id] EXCEPT !.status = "Released", !.lease = "none"]
  <2>1. replays[d.id].status = "Materializing" /\ replays' = [replays EXCEPT ![d.id] = new]
    BY <1>1, <1>4 DEF SettleReleased, Typed
  <2>2. /\ new.source = replays[d.id].source /\ new.roots = replays[d.id].roots
        /\ new.pre = replays[d.id].pre /\ new.key = replays[d.id].key
        /\ new.status = "Released" /\ new.lease = "none"
    BY <1>1 DEF ReplayRec
  <2> HIDE DEF new
  <2>3. ASSUME NEW r \in Requests PROVE replays[r].status # "Materializing" => replays[r].lease = "none"
    BY DEF Typed, ReplayRec, ReplayInv, RowsSound
  <2>4. ASSUME NEW r \in Requests, r # d.id PROVE replays'[r] = replays[r]
    BY <2>1, <2>4 DEF Typed
  <2>5. replays'[d.id] = new
    BY <2>1, <1>1 DEF Typed
  <2>6. RowsPaced
    <3> SUFFICES ASSUME NEW r \in Requests
        PROVE  /\ SameSeed(r)
               /\ \/ replays'[r].status = replays[r].status
                  \/ /\ replays[r].status = "Materializing" /\ replays'[r].status = "Released"
                     /\ Outbound(r)
               /\ replays'[r].status # "Materializing" => replays'[r].lease = "none"
               /\ replays[r].status \in {"Released", "VersionUnresolvable"} => replays'[r] = replays[r]
      BY DEF RowsPaced
    <3>1. CASE r = d.id
      BY <1>2, <2>1, <2>2, <2>5, <3>1 DEF SameSeed
    <3>2. CASE r # d.id
      BY <2>3, <2>4, <3>2 DEF SameSeed
    <3> QED BY <3>1, <3>2
  <2> QED BY <2>6 DEF Paced, SettleReleased, Leave
<1> QED BY <1>3, <1>4

LEMMA DrivePaced ==
  ASSUME Typed, ReplayInv, NEW d \in drives,
         load_replay_drive(d) \/ CreateScopeRefused(d) \/ SettleReleased(d) \/ DriveFails(d)
  PROVE  Paced
<1>1. CASE load_replay_drive(d)
  <2>1. d \in Drive
    BY DriveSound
  <2>2. [d EXCEPT !.at = "trigger"].id = d.id /\ [d EXCEPT !.at = "trigger"].at = "trigger"
    BY <2>1 DEF Drive
  <2>3. \A e \in drives' : e \in drives \/ (Active(e.id) /\ e.at \in {"load", "trigger"})
    BY <1>1, <2>2, DriveSound DEF load_replay_drive, Advance, Leave
  <2> QED BY <1>1, <2>3, RowsUnchanged DEF Paced, load_replay_drive
<1>2. CASE CreateScopeRefused(d)
  BY <1>2, GiveBackPaced DEF Paced, CreateScopeRefused
<1>3. CASE DriveFails(d)
  BY <1>3, GiveBackPaced DEF Paced, DriveFails
<1> QED BY <1>1, <1>2, <1>3, SettlePaced

LEMMA CrashPaced ==
  ASSUME Typed, ReplayInv, Crash
  PROVE  Paced
BY RowsUnchanged DEF Paced, Crash

LEMMA LossPaced ==
  ASSUME Typed, ReplayInv, NEW s \in sent, SignalLost(s)
  PROVE  Paced
BY RowsUnchanged DEF Paced, SignalLost

LEMMA ConflictPaced ==
  ASSUME Typed, ReplayInv, NEW c \in calls, insert_replay_lifecycle(c), Conflict(c) # {}
  PROVE  Paced
BY RowsUnchanged DEF Paced, insert_replay_lifecycle

-----------------------------------------------------------------------------
(* Ingress *)

Reading(c) ==
  /\ c \in Call /\ calls' = calls \cup {c}
  /\ ~Rowed(c.id) /\ Known(c.source) /\ \A x \in calls : x.id # c.id
  /\ c.status = "Materializing" => Seeded(c.source, c.roots, c.pre)
  /\ UNCHANGED <<formation, edges, archive, replays, drives, scopes, instances, sent, lost,
                      rejected, faults>>

NewRow(c) ==
  [status |-> c.status, source |-> c.source, key |-> c.key, roots |-> c.roots,
   pre |-> c.pre, shadow |-> c.shadow, lease |-> "none"]

Inserting(c) ==
  /\ c \in calls /\ calls' = calls \ {c} /\ Conflict(c) = {}
  /\ replays' = [replays EXCEPT ![c.id] = NewRow(c)]
  /\ drives' = IF c.status = "Materializing"
               THEN drives \cup {NewDrive(c.id, "request", c.shadow)} ELSE drives
  /\ UNCHANGED <<formation, edges, archive, scopes, instances, sent, lost, rejected, faults>>

LEMMA RequestReads ==
  ASSUME Typed, ReplayInv, NEW r \in Requests, Request(r)
  PROVE  \E c : Reading(c)
<1>1. PICK source \in {Origin} \cup {s \in Requests : replays[s].status # "none"}, asks \in Inputs :
        ReadSource(r, source, asks) \/ ReadNothing(r, source, asks)
  BY DEF Request
<1>2. source \in Runs /\ Known(source) /\ asks.resume_from \subseteq Nodes
      /\ asks.key \in Keys \cup {NoKey} /\ asks.shadow \in BOOLEAN
  BY ReplayAssumption DEF Runs, Known, Rowed
<1>3. ~Rowed(r) /\ \A x \in calls : x.id # r
  BY <1>1 DEF ReadSource, ReadNothing, Unused, Minted, Rowed
<1>4. CASE ReadSource(r, source, asks)
  <2> DEFINE roots == Roots(source, asks.resume_from)
             pre == pre_grounded(edges, archive[source].ground, roots)
             c == [id |-> r, source |-> source, key |-> asks.key, roots |-> roots,
                   shadow |-> asks.shadow, status |-> "Materializing", pre |-> pre]
  <2>1. roots \subseteq Nodes /\ pre \subseteq Nodes
    BY <1>2, GraphTypes DEF Roots
  <2>2. Seeded(source, roots, pre)
    BY <1>4 DEF ReadSource, Seeded, Present
  <2>3. calls' = calls \cup {c}
        /\ UNCHANGED <<formation, edges, archive, replays, drives, scopes, instances, sent, lost,
                      rejected, faults>>
    BY <1>4 DEF ReadSource
  <2> HIDE DEF roots, pre
  <2>4. c \in Call
    BY <1>2, <2>1 DEF Call
  <2>5. c.id = r /\ c.source = source /\ c.roots = roots /\ c.pre = pre
    OBVIOUS
  <2> HIDE DEF c
  <2> QED BY <1>2, <1>3, <2>2, <2>3, <2>4, <2>5 DEF Reading
<1>5. CASE ReadNothing(r, source, asks)
  <2> DEFINE c == [id |-> r, source |-> source, key |-> asks.key, roots |-> {}, shadow |-> FALSE,
                   status |-> "VersionUnresolvable", pre |-> {}]
  <2>1. calls' = calls \cup {c}
        /\ UNCHANGED <<formation, edges, archive, replays, drives, scopes, instances, sent, lost,
                      rejected, faults>>
    BY <1>5 DEF ReadNothing
  <2>2. c \in Call
    BY <1>2 DEF Call
  <2>3. c.id = r /\ c.source = source /\ c.status = "VersionUnresolvable"
    OBVIOUS
  <2> HIDE DEF c
  <2> QED BY <1>2, <1>3, <2>1, <2>2, <2>3 DEF Reading
<1> QED BY <1>1, <1>4, <1>5

LEMMA InsertInserts ==
  ASSUME NEW c \in calls, insert_replay_lifecycle(c), Conflict(c) = {}
  PROVE  Inserting(c)
BY DEF insert_replay_lifecycle, Inserting, NewRow

LEMMA NewRowIs ==
  ASSUME Typed, ReplayInv, NEW c, Inserting(c)
  PROVE  /\ c \in Call /\ c.id \in Requests /\ ~Rowed(c.id) /\ Known(c.source) /\ c.source \in Runs
         /\ c.status = "Materializing" => Seeded(c.source, c.roots, c.pre)
         /\ c.status \in {"Materializing", "VersionUnresolvable"}
         /\ \A x \in calls : x.id = c.id => x = c
         /\ replays'[c.id] = NewRow(c)
         /\ \A r \in Requests : r # c.id => replays'[r] = replays[r]
<1>1. c \in Call /\ c.id \in Requests /\ c.source \in Runs
      /\ c.status \in {"Materializing", "VersionUnresolvable"}
  BY DEF Inserting, Typed, Call
<1>2. ~Rowed(c.id) /\ Known(c.source) /\ (c.status = "Materializing" => Seeded(c.source, c.roots, c.pre))
      /\ \A x \in calls : x.id = c.id => x = c
  BY DEF Inserting, ReplayInv, CallsSound
<1> QED BY <1>1, <1>2 DEF Inserting, Typed

(* The steps of a drive or a run that touch neither a row nor a call. *)
RowsStill == UNCHANGED <<formation, edges, replays, calls>> /\ rejected \subseteq rejected'

LEMMA PacedKept ==
  ASSUME Paced
  PROVE  Kept
BY DEF Paced, RowsPaced, Kept

LEMMA ReadingKept ==
  ASSUME NEW c, Reading(c)
  PROVE  Kept
BY DEF Reading, Kept, SameSeed

LEMMA InsertingKept ==
  ASSUME Typed, ReplayInv, NEW c, Inserting(c)
  PROVE  Kept
<1>1. ASSUME NEW r \in Requests, Rowed(r) PROVE replays'[r] = replays[r]
  BY <1>1, NewRowIs
<1> QED BY <1>1 DEF Inserting, Kept, SameSeed

LEMMA StillKept ==
  ASSUME RowsStill, archive' = archive
  PROVE  Kept
BY DEF RowsStill, Kept, SameSeed

LEMMA DriveStill ==
  ASSUME NEW d \in drives, NEW n,
         \/ SendTrigger(d) \/ SendResume(d) \/ PutCarried(d, n) \/ PutShadow(d) \/ PutSentinel(d)
         \/ CreateScope(d) \/ CreateScopeRejected(d)
  PROVE  RowsStill /\ archive' = archive
BY DEF RowsStill, SendTrigger, SendResume, PutCarried, PutShadow, PutSentinel, CreateScope,
       CreateScopeRejected

LEMMA ArriveStill ==
  ASSUME NEW r, ArriveTrigger(r) \/ ArriveResume(r)
  PROVE  RowsStill /\ archive' = archive /\ drives' = drives /\ scopes' = scopes /\ rejected' = rejected
BY DEF RowsStill, ArriveTrigger, ArriveResume

LEMMA TaskStill ==
  ASSUME NEW r, NEW n, TaskSucceeds(r, n) \/ TaskFails(r, n) \/ LaunchRefused(r, n)
  PROVE  RowsStill /\ archive' = archive
BY DEF RowsStill, TaskSucceeds, TaskFails, LaunchRefused

LEMMA EndStill ==
  ASSUME Typed, ReplayInv, NEW r \in Requests, RunEnds(r)
  PROVE  RowsStill /\ Kept /\ archive'[Origin] = archive[Origin] /\ ~Present(r)
         /\ \A s \in Runs : s # r => archive'[s] = archive[s]
<1>1. instances[r].phase # "ended"
  BY DEF RunEnds, Quiet
<1>2. ~Present(r)
  BY <1>1 DEF ReplayInv, InstancesSound
<1>3. \A s \in Runs : s # r => archive'[s] = archive[s]
  BY DEF RunEnds, Typed
<1>4. r # Origin /\ Origin \in Runs
  BY ReplayAssumption DEF Runs
<1> QED BY <1>2, <1>3, <1>4 DEF RunEnds, RowsStill, Kept, SameSeed

-----------------------------------------------------------------------------
(* Rows and calls *)

LEMMA RowsPreserved ==
  ASSUME Typed, ReplayInv, Kept, \A r \in Requests : ~Rowed(r) => ~Rowed(r)',
         \A r \in Requests : replays'[r].status # "Materializing" => replays'[r].lease = "none"
  PROVE  RowsSound' /\ NoCycle'
<1>1. RowsSound'
  <2> SUFFICES ASSUME NEW r \in Requests
      PROVE  /\ Rowed(r)' => Known(replays[r].source)'
             /\ Active(r)' => Seeded(replays[r].source, replays[r].roots, replays[r].pre)'
             /\ replays'[r].status \in {"none", "Released", "VersionUnresolvable"} => replays'[r].lease = "none"
    BY DEF RowsSound
  <2>1. ASSUME Rowed(r)' PROVE Rowed(r) /\ SameSeed(r) /\ Known(replays[r].source)
    BY <2>1 DEF Kept, ReplayInv, RowsSound, Rowed
  <2>2. ASSUME Rowed(r)' PROVE Known(replays[r].source)'
    BY <2>1, <2>2 DEF Kept, SameSeed, Known, Rowed
  <2>3. ASSUME Active(r)'
        PROVE  Seeded(replays[r].source, replays[r].roots, replays[r].pre)'
    <3>1. Rowed(r) /\ SameSeed(r) /\ Active(r)
      BY <2>1, <2>3 DEF Kept, Active, Rowed
    <3> DEFINE s == replays[r].source
               o == replays[r].roots
               p == replays[r].pre
    <3>2. s \in Runs /\ Seeded(s, o, p)
      BY <3>1, SourceSound DEF ReplayInv, RowsSound
    <3>3. edges' = edges /\ archive'[s] = archive[s] /\ archive[s].present
      BY <3>2 DEF Kept, Seeded, Present
    <3>4. replays'[r].source = s /\ replays'[r].roots = o /\ replays'[r].pre = p
      BY <3>1 DEF SameSeed
    <3> QED BY <3>2, <3>3, <3>4 DEF Seeded, Present, is_hydration_complete
  <2> QED BY <2>2, <2>3
<1>2. NoCycle'
  <2> SUFFICES ASSUME NEW S \in SUBSET Requests, S # {}, \A r \in S : Rowed(r)'
      PROVE  \E r \in S : replays'[r].source \notin S
    BY DEF NoCycle
  <2>1. \A r \in S : Rowed(r) /\ replays'[r].source = replays[r].source
    BY DEF Kept, SameSeed
  <2> QED BY <2>1 DEF ReplayInv, NoCycle
<1> QED BY <1>1, <1>2

LEMMA RowsInserted ==
  ASSUME Typed, ReplayInv, NEW c, Inserting(c)
  PROVE  RowsSound' /\ NoCycle'
<1>1. /\ c.id \in Requests /\ ~Rowed(c.id) /\ Known(c.source) /\ c.source \in Runs
      /\ c.status = "Materializing" => Seeded(c.source, c.roots, c.pre)
      /\ c.status \in {"Materializing", "VersionUnresolvable"}
      /\ replays'[c.id] = NewRow(c)
      /\ \A r \in Requests : r # c.id => replays'[r] = replays[r]
  BY NewRowIs
<1>2. Kept
  BY InsertingKept
<1>3. /\ replays'[c.id].source = c.source /\ replays'[c.id].roots = c.roots
      /\ replays'[c.id].pre = c.pre /\ replays'[c.id].status = c.status
      /\ replays'[c.id].lease = "none"
  BY <1>1 DEF NewRow
<1>4. edges' = edges /\ archive' = archive
  BY DEF Inserting
<1>5. c.source # c.id /\ \A r \in Requests : Rowed(r) => replays[r].source # c.id
  <2>1. ASSUME NEW s, Known(s) PROVE s # c.id
    BY <1>1, <2>1, ReplayAssumption DEF Known
  <2> QED BY <1>1, <2>1 DEF ReplayInv, RowsSound
<1>6. RowsSound'
  <2> SUFFICES ASSUME NEW r \in Requests
      PROVE  /\ Rowed(r)' => Known(replays[r].source)'
             /\ Active(r)' => Seeded(replays[r].source, replays[r].roots, replays[r].pre)'
             /\ replays'[r].status \in {"none", "Released", "VersionUnresolvable"} => replays'[r].lease = "none"
    BY DEF RowsSound
  <2>1. CASE r = c.id
    <3>1. Known(replays[r].source)'
      BY <1>1, <1>2, <1>3, <2>1 DEF Kept, Known, Rowed
    <3>2. ASSUME Active(r)' PROVE Seeded(c.source, c.roots, c.pre)
      BY <1>1, <1>3, <2>1, <3>2 DEF Active
    <3>3. ASSUME Active(r)' PROVE Seeded(replays[r].source, replays[r].roots, replays[r].pre)'
      BY <1>3, <1>4, <2>1, <3>2, <3>3 DEF Seeded, Present, is_hydration_complete
    <3> QED BY <1>3, <2>1, <3>1, <3>3
  <2>2. CASE r # c.id
    <3>0. replays'[r] = replays[r]
      BY <1>1, <2>2
    <3>1. ASSUME Rowed(r)' PROVE Known(replays[r].source)'
      <4>1. Rowed(r) /\ Known(replays[r].source)
        BY <3>0, <3>1 DEF Rowed, ReplayInv, RowsSound
      <4> QED BY <1>2, <3>0, <4>1 DEF Kept, Known, Rowed
    <3>2. ASSUME Active(r)' PROVE Seeded(replays[r].source, replays[r].roots, replays[r].pre)
      BY <3>0, <3>2 DEF Active, ReplayInv, RowsSound
    <3>3. ASSUME Active(r)' PROVE Seeded(replays[r].source, replays[r].roots, replays[r].pre)'
      BY <1>4, <3>0, <3>2, <3>3 DEF Seeded, Present, is_hydration_complete
    <3>4. replays[r].status \in {"none", "Released", "VersionUnresolvable"} => replays[r].lease = "none"
      BY DEF ReplayInv, RowsSound
    <3> QED BY <3>0, <3>1, <3>3, <3>4
  <2> QED BY <2>1, <2>2
<1>7. NoCycle'
  <2> SUFFICES ASSUME NEW S \in SUBSET Requests, S # {}, \A r \in S : Rowed(r)'
      PROVE  \E r \in S : replays'[r].source \notin S
    BY DEF NoCycle
  <2> DEFINE T == S \ {c.id}
  <2>1. T \in SUBSET Requests /\ \A r \in T : Rowed(r) /\ replays'[r] = replays[r]
    BY <1>1 DEF Rowed
  <2>2. CASE T = {}
    BY <1>1, <1>3, <1>5, <2>2
  <2>3. CASE T # {}
    <3>1. PICK r \in T : replays[r].source \notin T
      <4> HIDE DEF T
      <4> QED BY <2>1, <2>3 DEF ReplayInv, NoCycle
    <3> QED BY <1>5, <2>1, <3>1
  <2> QED BY <2>2, <2>3
<1> QED BY <1>6, <1>7

(* A call that is sound stays sound until its own row is there. *)
LEMMA CallKept ==
  ASSUME Typed, ReplayInv, Kept, NEW c \in calls, ~Rowed(c.id)'
  PROVE  ~Rowed(c.id)' /\ Known(c.source)' /\ (c.status = "Materializing" => Seeded(c.source, c.roots, c.pre)')
<1>1. c.source \in Runs /\ Known(c.source) /\ (c.status = "Materializing" => Seeded(c.source, c.roots, c.pre))
  BY DEF Typed, Call, ReplayInv, CallsSound
<1> QED BY <1>1, KnownKept, SeededKept

LEMMA CallsPreserved ==
  ASSUME Typed, ReplayInv, Kept, \A r \in Requests : ~Rowed(r) => ~Rowed(r)', calls' \subseteq calls
  PROVE  CallsSound'
<1>1. ASSUME NEW c \in calls PROVE ~Rowed(c.id)'
  BY DEF Typed, Call, ReplayInv, CallsSound
<1> QED BY <1>1, CallKept DEF ReplayInv, CallsSound

LEMMA CallsRead ==
  ASSUME Typed, ReplayInv, NEW c, Reading(c)
  PROVE  CallsSound'
<1>1. Kept
  BY ReadingKept
<1>2. \A x \in calls : ~Rowed(x.id)'
  BY DEF Reading, Rowed, ReplayInv, CallsSound
<1>3. c.source \in Runs /\ Known(c.source) /\ (c.status = "Materializing" => Seeded(c.source, c.roots, c.pre))
  BY DEF Reading, Call
<1>4. ~Rowed(c.id)' /\ Known(c.source)' /\ (c.status = "Materializing" => Seeded(c.source, c.roots, c.pre)')
  BY <1>1, <1>3, KnownKept, SeededKept DEF Reading, Rowed
<1>5. \A x \in calls' : x \in calls \/ x = c
  BY DEF Reading
<1>6. \A x \in calls' : ~Rowed(x.id)' /\ Known(x.source)' /\ (x.status = "Materializing" => Seeded(x.source, x.roots, x.pre)')
  BY <1>1, <1>2, <1>4, <1>5, CallKept
<1>7. \A x, y \in calls' : x.id = y.id => x = y
  BY <1>5 DEF Reading, ReplayInv, CallsSound
<1> QED BY <1>6, <1>7 DEF CallsSound

LEMMA CallsInserted ==
  ASSUME Typed, ReplayInv, NEW c, Inserting(c)
  PROVE  CallsSound'
<1>1. Kept
  BY InsertingKept
<1>2. calls' = calls \ {c} /\ \A x \in calls : x.id = c.id => x = c
  BY NewRowIs DEF Inserting
<1>3. ASSUME NEW x \in calls' PROVE x \in calls /\ ~Rowed(x.id)'
  <2>1. x \in calls /\ x.id # c.id /\ x.id \in Requests /\ ~Rowed(x.id)
    BY <1>2 DEF Typed, Call, ReplayInv, CallsSound
  <2> QED BY <2>1, NewRowIs DEF Rowed
<1> QED BY <1>1, <1>3, CallKept DEF ReplayInv, CallsSound

-----------------------------------------------------------------------------
(* Drives, instances and the archive *)

(* What was sent of a run stays sent, until it took effect. *)
Forward == \A r \in Requests : Active(r) /\ Outbound(r) => Outbound(r)'

LEMMA ForwardIs ==
  ASSUME Kept, sent \cup lost \subseteq sent' \cup lost',
         \A r \in Requests : instances[r].phase \notin {"absent", "stalled"} =>
                             instances'[r].phase \notin {"absent", "stalled"}
  PROVE  Forward
<1>1. ASSUME NEW r \in Requests, Active(r), Outbound(r) PROVE Outbound(r)'
  BY <1>1, ActiveKept DEF Outbound
<1> QED BY <1>1 DEF Forward

DriveOK(d) ==
  /\ Active(d.id)
  /\ d.at \notin {"load", "trigger"} /\ ~born_stalled(d.id) => Outbound(d.id)
  /\ d.at = "settle" => Outbound(d.id)

LEMMA DrivesPreserved ==
  ASSUME Typed, ReplayInv, Kept, Forward, \A e \in drives' : e \in drives \/ DriveOK(e)'
  PROVE  DrivesSound'
<1>1. ASSUME NEW e \in drives PROVE DriveOK(e)'
  <2>1. e.id \in Requests /\ DriveOK(e)
    BY DriveSound DEF DriveOK, ReplayInv, DrivesSound
  <2>2. Active(e.id)' /\ born_stalled(e.id)' = born_stalled(e.id)
    BY <2>1, ActiveKept DEF DriveOK
  <2> QED BY <2>1, <2>2 DEF DriveOK, Forward
<1> QED BY <1>1 DEF DriveOK, DrivesSound

LEMMA InstancesPreserved ==
  ASSUME Typed, ReplayInv, Kept, UNCHANGED <<instances, archive>>,
         sent \cup lost \subseteq sent' \cup lost',
         \A r \in Requests : <<"trigger", r>> \in sent' => <<"trigger", r>> \in sent \/ Active(r),
         \A r \in Requests : replays'[r].status = "Released" /\ replays[r].status # "Released" =>
           Outbound(r) /\ Active(r)
  PROVE  InstancesSound' /\ OriginSound' /\ Forward
<1>1. OriginSound'
  BY DEF ReplayInv, OriginSound
<1>2. Forward
  BY ForwardIs
<1>3. ASSUME NEW r \in Requests
      PROVE  /\ instances'[r].phase # "absent" => Active(r)'
             /\ instances'[r].phase = "stalled" => born_stalled(r)'
             /\ replays'[r].status = "Released" => Outbound(r)'
             /\ Present(r)' => instances'[r].phase = "ended" /\ archive'[r].parent = replays'[r].source
             /\ <<"trigger", r>> \in sent' => Active(r)'
  <2>1. /\ instances[r].phase # "absent" => Active(r)
        /\ instances[r].phase = "stalled" => born_stalled(r)
        /\ replays[r].status = "Released" => Outbound(r)
        /\ Present(r) => instances[r].phase = "ended" /\ archive[r].parent = replays[r].source
        /\ <<"trigger", r>> \in sent => Active(r)
    BY DEF ReplayInv, InstancesSound
  <2>2. CASE Active(r)
    <3>1. Active(r)' /\ born_stalled(r)' = born_stalled(r) /\ SameSeed(r)
      BY <2>2, ActiveKept
    <3>2. replays'[r].status = "Released" => Outbound(r)'
      BY <1>2, <2>1, <2>2 DEF Forward
    <3> QED BY <2>1, <3>1, <3>2 DEF SameSeed, Present
  <2>3. CASE ~Active(r)
    BY <2>1, <2>3 DEF Present, Active
  <2> QED BY <2>2, <2>3
<1> QED BY <1>1, <1>2, <1>3 DEF InstancesSound

(* The part of the invariant that is about control alone. *)
ControlSound ==
  RowsSound /\ CallsSound /\ NoCycle /\ DrivesSound /\ InstancesSound /\ OriginSound

LEMMA PacedControl ==
  ASSUME Typed, Typed', ReplayInv, Paced
  PROVE  ControlSound'
<1>1. Kept
  BY PacedKept
<1>2. \A r \in Requests : ~Rowed(r) => ~Rowed(r)'
  BY DEF Paced, RowsPaced, Rowed
<1>3. RowsSound' /\ NoCycle'
  BY <1>1, <1>2, RowsPreserved DEF Paced, RowsPaced
<1>4. CallsSound'
  BY <1>1, <1>2, CallsPreserved DEF Paced
<1>8. InstancesSound' /\ OriginSound' /\ Forward
  <2>1. \A r \in Requests : replays'[r].status = "Released" /\ replays[r].status # "Released" =>
          Outbound(r) /\ Active(r)
    BY DEF Paced, RowsPaced, Active
  <2> QED BY <1>1, <2>1, InstancesPreserved DEF Paced
<1>6. ASSUME NEW e \in drives', e \notin drives PROVE DriveOK(e)'
  <2>1. Active(e.id) /\ e.at \in {"load", "trigger"}
    BY <1>6 DEF Paced
  <2>2. \A r : r \in Requests /\ Active(r) => Active(r)'
    BY <1>1, ActiveKept
  <2>3. e.id \in Requests
    BY DEF Typed, Drive
  <2> QED BY <2>1, <2>2, <2>3 DEF DriveOK
<1>7. DrivesSound'
  BY <1>1, <1>8, <1>6, DrivesPreserved
<1> QED BY <1>3, <1>4, <1>7, <1>8 DEF ControlSound

LEMMA ReadingControl ==
  ASSUME Typed, ReplayInv, NEW c, Reading(c)
  PROVE  ControlSound'
<1>1. Kept
  BY ReadingKept
<1>2. \A r \in Requests : ~Rowed(r) => ~Rowed(r)'
  BY DEF Reading, Rowed
<1>3. \A r \in Requests : replays'[r].status # "Materializing" => replays'[r].lease = "none"
  BY DEF Reading, ReplayInv, RowsSound, Typed, ReplayRec
<1>4. RowsSound' /\ NoCycle'
  BY <1>1, <1>2, <1>3, RowsPreserved
<1>6. InstancesSound' /\ OriginSound' /\ Forward
  BY <1>1, InstancesPreserved DEF Reading
<1>5. DrivesSound'
  BY <1>1, <1>6, DrivesPreserved DEF Reading
<1> QED BY <1>4, <1>5, <1>6, CallsRead DEF ControlSound

LEMMA InsertingControl ==
  ASSUME Typed, ReplayInv, NEW c, Inserting(c)
  PROVE  ControlSound'
<1>1. Kept
  BY InsertingKept
<1>2. RowsSound' /\ NoCycle' /\ CallsSound'
  BY RowsInserted, CallsInserted
<1>3. c.id \in Requests /\ replays'[c.id].status = c.status /\ c.status # "Released"
      /\ \A r \in Requests : r # c.id => replays'[r] = replays[r]
  <2>1. replays'[c.id] = NewRow(c) /\ c.status \in {"Materializing", "VersionUnresolvable"}
    BY NewRowIs
  <2>2. replays'[c.id].status = c.status /\ c.status # "Released"
    BY <2>1 DEF NewRow
  <2>3. c.id \in Requests /\ \A r \in Requests : r # c.id => replays'[r] = replays[r]
    BY NewRowIs
  <2> QED BY <2>2, <2>3
<1>4. ASSUME NEW e \in drives', e \notin drives PROVE DriveOK(e)'
  BY <1>3, <1>4 DEF Inserting, NewDrive, DriveOK, Active
<1>6. InstancesSound' /\ OriginSound' /\ Forward
  BY <1>1, <1>3, InstancesPreserved DEF Inserting
<1>5. DrivesSound'
  BY <1>1, <1>4, <1>6, DrivesPreserved
<1> QED BY <1>2, <1>5, <1>6 DEF ControlSound

LEMMA StillControl ==
  ASSUME Typed, ReplayInv, RowsStill, Kept
  PROVE  RowsSound' /\ NoCycle' /\ CallsSound'
<1>1. \A r \in Requests : ~Rowed(r) => ~Rowed(r)'
  BY DEF RowsStill, Rowed
<1>2. \A r \in Requests : replays'[r].status # "Materializing" => replays'[r].lease = "none"
  BY DEF RowsStill, ReplayInv, RowsSound, Typed, ReplayRec
<1>3. RowsSound' /\ NoCycle'
  BY <1>1, <1>2, RowsPreserved
<1>4. CallsSound'
  BY <1>1, CallsPreserved DEF RowsStill
<1> QED BY <1>3, <1>4

(* What the arrival of a Trigger does to the instance. *)
Started(r) ==
  [phase |-> IF born_stalled(r) THEN "stalled" ELSE "running",
   ground |-> seeded_ground(edges, archive[replays[r].source].ground, replays[r].roots)]

LEMMA TriggerEffect ==
  ASSUME Typed, ReplayInv, NEW i \in Requests, ArriveTrigger(i)
  PROVE  /\ Active(i)
         /\ \A r \in Requests : r # i => instances'[r] = instances[r]
         /\ IF instances[i].phase = "absent" THEN instances'[i] = Started(i)
            ELSE instances'[i] = instances[i]
<1>1. Active(i)
  BY DEF ArriveTrigger, ReplayInv, InstancesSound
<1> QED BY <1>1 DEF ArriveTrigger, Started, Typed

LEMMA ResumeEffect ==
  ASSUME Typed, ReplayInv, NEW i \in Requests, ArriveResume(i)
  PROVE  /\ \A r \in Requests : instances'[r].ground = instances[r].ground
         /\ \A r \in Requests : r # i => instances'[r] = instances[r]
         /\ instances'[i].phase = IF instances[i].phase = "stalled" THEN "running"
                                  ELSE instances[i].phase
<1>1. instances[i] \in InstanceRec
  BY DEF Typed
<1>2. [instances[i] EXCEPT !.phase = "running"].ground = instances[i].ground
      /\ [instances[i] EXCEPT !.phase = "running"].phase = "running"
  BY <1>1 DEF InstanceRec
<1>3. instances' = IF instances[i].phase = "stalled"
                   THEN [instances EXCEPT ![i] = [instances[i] EXCEPT !.phase = "running"]]
                   ELSE instances
  BY DEF ArriveResume, Typed
<1> QED BY <1>1, <1>2, <1>3 DEF Typed

(* What InstancesSound says of one run. *)
InstanceOK(r) ==
  /\ instances[r].phase # "absent" => Active(r)
  /\ instances[r].phase = "stalled" => born_stalled(r)
  /\ replays[r].status = "Released" => Outbound(r)
  /\ Present(r) => instances[r].phase = "ended" /\ archive[r].parent = replays[r].source
  /\ <<"trigger", r>> \in sent => Active(r)

LEMMA ArriveControl ==
  ASSUME Typed, ReplayInv, NEW i \in Requests, ArriveTrigger(i) \/ ArriveResume(i),
         Outbound(i) => Outbound(i)', InstanceOK(i)',
         \A r \in Requests : r # i => instances'[r] = instances[r]
  PROVE  ControlSound'
<1>1. RowsStill /\ archive' = archive /\ drives' = drives /\ Kept
  BY ArriveStill, StillKept
<1>2. RowsSound' /\ NoCycle' /\ CallsSound'
  BY <1>1, StillControl
<1>3. \A r \in Requests : Active(r)' = Active(r) /\ born_stalled(r)' = born_stalled(r) /\ Present(r)' = Present(r)
  BY <1>1 DEF RowsStill, Active, born_stalled, Present
<1>4. ASSUME NEW r \in Requests, r # i
      PROVE  (Outbound(r) => Outbound(r)') /\ (<<"trigger", r>> \in sent' => <<"trigger", r>> \in sent)
  BY <1>3, <1>4 DEF ArriveTrigger, ArriveResume, Outbound
<1>5. Forward
  BY <1>4 DEF Forward
<1>6. ASSUME NEW r \in Requests PROVE InstanceOK(r)'
  <2>1. CASE r = i
    BY <2>1
  <2>2. CASE r # i
    <3>1. InstanceOK(r)
      BY DEF ReplayInv, InstancesSound, InstanceOK
    <3> QED BY <1>1, <1>3, <1>4, <2>2, <3>1 DEF InstanceOK, RowsStill
  <2> QED BY <2>1, <2>2
<1>7. InstancesSound' /\ OriginSound'
  BY <1>1, <1>6 DEF InstancesSound, InstanceOK, OriginSound, ReplayInv
<1>8. DrivesSound'
  BY <1>1, <1>5, DrivesPreserved
<1> QED BY <1>2, <1>7, <1>8 DEF ControlSound

LEMMA TriggerControl ==
  ASSUME Typed, ReplayInv, NEW i \in Requests, ArriveTrigger(i)
  PROVE  ControlSound'
<1>1. RowsStill /\ archive' = archive
  BY ArriveStill
<1>2. /\ Active(i)
      /\ \A r \in Requests : r # i => instances'[r] = instances[r]
      /\ IF instances[i].phase = "absent" THEN instances'[i] = Started(i)
         ELSE instances'[i] = instances[i]
  BY TriggerEffect
<1>3. Started(i).phase = IF born_stalled(i) THEN "stalled" ELSE "running"
  BY DEF Started
<1>4. InstanceOK(i)
  BY DEF ReplayInv, InstancesSound, InstanceOK
<1>5. Active(i)' = Active(i) /\ born_stalled(i)' = born_stalled(i) /\ Present(i)' = Present(i)
  BY <1>1 DEF RowsStill, Active, born_stalled, Present
<1>6. <<"resume", i>> \in sent \cup lost => <<"resume", i>> \in sent' \cup lost'
  BY DEF ArriveTrigger
<1>7. instances'[i].phase # "absent" /\ (~born_stalled(i) => instances'[i].phase # "stalled")
      /\ (instances[i].phase \notin {"absent", "stalled"} => instances'[i].phase = instances[i].phase)
      /\ (instances'[i].phase = "stalled" => born_stalled(i))
  BY <1>2, <1>3, <1>4 DEF InstanceOK
<1>8. Outbound(i) => Outbound(i)'
  BY <1>5, <1>6, <1>7 DEF Outbound
<1>9. InstanceOK(i)'
  BY <1>1, <1>2, <1>4, <1>5, <1>7, <1>8 DEF InstanceOK, RowsStill
<1> QED BY <1>2, <1>8, <1>9, ArriveControl

LEMMA ResumeControl ==
  ASSUME Typed, ReplayInv, NEW i \in Requests, ArriveResume(i)
  PROVE  ControlSound'
<1>1. RowsStill /\ archive' = archive
  BY ArriveStill
<1>2. /\ \A r \in Requests : r # i => instances'[r] = instances[r]
      /\ instances'[i].phase = IF instances[i].phase = "stalled" THEN "running"
                               ELSE instances[i].phase
  BY ResumeEffect
<1>4. InstanceOK(i)
  BY DEF ReplayInv, InstancesSound, InstanceOK
<1>5. Active(i)' = Active(i) /\ born_stalled(i)' = born_stalled(i) /\ Present(i)' = Present(i)
  BY <1>1 DEF RowsStill, Active, born_stalled, Present
<1>6. /\ <<"trigger", i>> \in sent \cup lost => <<"trigger", i>> \in sent' \cup lost'
      /\ <<"trigger", i>> \in sent' => <<"trigger", i>> \in sent
      /\ instances[i].phase = "absent" => <<"resume", i>> \in lost'
  BY DEF ArriveResume
<1>8. Outbound(i) => Outbound(i)'
  BY <1>2, <1>5, <1>6 DEF Outbound
<1>9. InstanceOK(i)'
  BY <1>1, <1>2, <1>4, <1>5, <1>6, <1>8 DEF InstanceOK, RowsStill
<1> QED BY <1>2, <1>8, <1>9, ArriveControl

(* A drive sends a signal. *)
LEMMA SendControl ==
  ASSUME Typed, ReplayInv, NEW d \in drives, SendTrigger(d) \/ SendResume(d)
  PROVE  ControlSound'
<1>1. RowsStill /\ archive' = archive /\ Kept
  BY DriveStill, StillKept
<1>2. RowsSound' /\ NoCycle' /\ CallsSound'
  BY <1>1, StillControl
<1>3. d \in Drive /\ d.id \in Requests /\ Active(d.id)
  BY DriveSound
<1>4. instances' = instances /\ sent \cup lost \subseteq sent' \cup lost'
  BY DEF SendTrigger, SendResume, Send
<1>5. \A r \in Requests : <<"trigger", r>> \in sent' => <<"trigger", r>> \in sent \/ Active(r)
  BY <1>3 DEF SendTrigger, SendResume, Send
<1>6. InstancesSound' /\ OriginSound' /\ Forward
  BY <1>1, <1>4, <1>5, InstancesPreserved DEF RowsStill
<1>7. Active(d.id)' /\ born_stalled(d.id)' = born_stalled(d.id)
  BY <1>1, <1>3, ActiveKept
<1>8. ASSUME NEW e \in drives', e \notin drives PROVE DriveOK(e)'
  <2>1. CASE SendTrigger(d)
    <3>1. e = AfterTrigger(d) /\ <<"trigger", d.id>> \in sent'
      BY <1>8, <2>1 DEF SendTrigger, Advance, Send
    <3>2. e.id = d.id /\ (e.at = "settle" => ~born_stalled(d.id))
      BY <1>3, <3>1 DEF AfterTrigger, Drive
    <3> QED BY <1>7, <3>1, <3>2 DEF DriveOK, Outbound
  <2>2. CASE SendResume(d)
    <3>1. e = [d EXCEPT !.at = "settle"] /\ <<"resume", d.id>> \in sent' /\ d.at = "resume"
      BY <1>8, <2>2 DEF SendResume, Advance, Send
    <3>2. e.id = d.id
      BY <1>3, <3>1 DEF Drive
    <3>3. ~born_stalled(d.id) => Outbound(d.id)'
      BY <1>3, <1>6, <3>1 DEF ReplayInv, DrivesSound, Forward
    <3>4. born_stalled(d.id) => Outbound(d.id)'
      BY <1>7, <3>1 DEF Outbound
    <3> QED BY <1>7, <3>2, <3>3, <3>4 DEF DriveOK
  <2> QED BY <2>1, <2>2
<1>9. DrivesSound'
  BY <1>1, <1>6, <1>8, DrivesPreserved
<1> QED BY <1>2, <1>6, <1>9 DEF ControlSound

LEMMA AfterHydrationIs ==
  ASSUME NEW d \in Drive
  PROVE  LET e == AfterHydration(d)
             f == [AfterHydration(d) EXCEPT !.todo = {}]
         IN  /\ e.id = d.id /\ f.id = d.id /\ f.at = e.at
             /\ e.at = IF born_stalled(d.id) THEN "resume" ELSE "settle"
BY DEF AfterHydration, Drive

(* Where a drive goes that writes the scope. *)
LEMMA PutDrives ==
  ASSUME Typed, ReplayInv, NEW d \in drives, NEW n,
         PutCarried(d, n) \/ PutShadow(d) \/ PutSentinel(d) \/ CreateScope(d) \/ CreateScopeRejected(d),
         NEW e \in drives', e \notin drives
  PROVE  /\ e.id = d.id /\ e.at \in {"hydrate", "sentinel", "resume", "settle"}
         /\ e.at = "settle" => ~born_stalled(d.id)
         /\ e.at = "hydrate" => PutCarried(d, n) /\ e.todo = d.todo \ {n}
         /\ e.at = "sentinel" => PutShadow(d) /\ e.todo = {}
         /\ e.at = "resume" => PutSentinel(d) \/ CreateScope(d) \/ CreateScopeRejected(d)
<1>1. d \in Drive
  BY DriveSound
<1>2. CASE PutCarried(d, n)
  <2>1. e = [d EXCEPT !.todo = @ \ {n}] /\ d.at = "hydrate"
    BY <1>2 DEF PutCarried, Advance
  <2>2. e.id = d.id /\ e.at = "hydrate" /\ e.todo = d.todo \ {n}
    BY <1>1, <2>1 DEF Drive
  <2> QED BY <1>2, <2>2
<1>3. CASE PutShadow(d)
  <2>1. e = [d EXCEPT !.at = "sentinel"] /\ d.todo = {}
    BY <1>3 DEF PutShadow, Advance
  <2>2. e.id = d.id /\ e.at = "sentinel" /\ e.todo = {}
    BY <1>1, <2>1 DEF Drive
  <2> QED BY <1>3, <2>2
<1>4. CASE PutSentinel(d)
  <2>1. e = AfterHydration(d)
    BY <1>4 DEF PutSentinel, Advance
  <2> QED BY <1>1, <1>4, <2>1, AfterHydrationIs
<1>5. CASE CreateScope(d)
  <2>1. e = [AfterHydration(d) EXCEPT !.todo = {}]
    BY <1>5 DEF CreateScope, Advance
  <2> QED BY <1>1, <1>5, <2>1, AfterHydrationIs
<1>6. CASE CreateScopeRejected(d)
  <2>1. e = [AfterHydration(d) EXCEPT !.todo = {}]
    BY <1>6 DEF CreateScopeRejected, Advance
  <2> QED BY <1>1, <1>6, <2>1, AfterHydrationIs
<1> QED BY <1>2, <1>3, <1>4, <1>5, <1>6

LEMMA PutControl ==
  ASSUME Typed, ReplayInv, NEW d \in drives, NEW n,
         PutCarried(d, n) \/ PutShadow(d) \/ PutSentinel(d) \/ CreateScope(d) \/ CreateScopeRejected(d)
  PROVE  ControlSound'
<1>1. RowsStill /\ archive' = archive /\ Kept
  BY DriveStill, StillKept
<1>2. RowsSound' /\ NoCycle' /\ CallsSound'
  BY <1>1, StillControl
<1>3. UNCHANGED <<instances, sent, lost>> /\ d.at \in {"hydrate", "sentinel"}
  BY DEF PutCarried, PutShadow, PutSentinel, CreateScope, CreateScopeRejected
<1>4. InstancesSound' /\ OriginSound' /\ Forward
  BY <1>1, <1>3, InstancesPreserved DEF RowsStill
<1>5. d.id \in Requests /\ Active(d.id) /\ (~born_stalled(d.id) => Outbound(d.id))
  BY <1>3, DriveSound DEF ReplayInv, DrivesSound
<1>6. ASSUME NEW e \in drives', e \notin drives PROVE DriveOK(e)'
  <2>1. e.id = d.id /\ (e.at = "settle" => ~born_stalled(d.id))
    BY <1>6, PutDrives
  <2>2. Active(d.id)' /\ born_stalled(d.id)' = born_stalled(d.id)
    BY <1>1, <1>5, ActiveKept
  <2> QED BY <1>4, <1>5, <2>1, <2>2 DEF DriveOK, Forward
<1>7. DrivesSound'
  BY <1>1, <1>4, <1>6, DrivesPreserved
<1> QED BY <1>2, <1>4, <1>7 DEF ControlSound

(* A Task of the run r gets an outcome. *)
LEMMA TaskEffect ==
  ASSUME Typed, NEW r \in Requests, NEW n \in Nodes,
         TaskSucceeds(r, n) \/ TaskFails(r, n) \/ LaunchRefused(r, n)
  PROVE  /\ Fires(r, n)
         /\ \A x \in Requests : x # r => instances'[x] = instances[x]
         /\ instances'[r].phase = instances[r].phase /\ instances[r].phase = "running"
         /\ \E v \in {"Success", "Failed"} :
              /\ v = "Success" <=> TaskSucceeds(r, n)
              /\ instances'[r].ground = [instances[r].ground EXCEPT ![n] = v]
<1>1. instances[r] \in InstanceRec /\ Fires(r, n) /\ instances[r].phase = "running"
  BY DEF Typed, TaskSucceeds, TaskFails, LaunchRefused, Fires
<1> DEFINE v == IF TaskSucceeds(r, n) THEN "Success" ELSE "Failed"
<1>2. instances' = [instances EXCEPT ![r] = [instances[r] EXCEPT !.ground = [instances[r].ground EXCEPT ![n] = v]]]
  BY <1>1 DEF Typed, TaskSucceeds, TaskFails, LaunchRefused
<1>3. v \in {"Success", "Failed"} /\ (v = "Success" <=> TaskSucceeds(r, n))
  OBVIOUS
<1> HIDE DEF v
<1> DEFINE g == [instances[r].ground EXCEPT ![n] = v]
<1>4. [instances[r] EXCEPT !.ground = g].phase = instances[r].phase
      /\ [instances[r] EXCEPT !.ground = g].ground = g
  BY <1>1 DEF InstanceRec
<1> HIDE DEF g
<1>5. instances'[r] = [instances[r] EXCEPT !.ground = g] /\ \A x \in Requests : x # r => instances'[x] = instances[x]
  BY <1>2 DEF Typed, g
<1> QED BY <1>1, <1>3, <1>4, <1>5 DEF g

LEMMA TaskControl ==
  ASSUME Typed, ReplayInv, NEW r \in Requests, NEW n \in Nodes,
         TaskSucceeds(r, n) \/ TaskFails(r, n) \/ LaunchRefused(r, n)
  PROVE  ControlSound'
<1>1. RowsStill /\ archive' = archive /\ Kept
  BY TaskStill, StillKept
<1>2. RowsSound' /\ NoCycle' /\ CallsSound'
  BY <1>1, StillControl
<1>3. \A x \in Requests : instances'[x].phase = instances[x].phase
  BY TaskEffect
<1>4. UNCHANGED <<drives, sent, lost>>
  BY DEF TaskSucceeds, TaskFails, LaunchRefused
<1>7. Forward
  BY <1>1, <1>3, <1>4, ForwardIs
<1>5. DrivesSound'
  BY <1>1, <1>4, <1>7, DrivesPreserved
<1>6. InstancesSound' /\ OriginSound'
  BY <1>1, <1>3, <1>4 DEF ReplayInv, InstancesSound, OriginSound, RowsStill, Active, Present,
                          born_stalled, Outbound
<1> QED BY <1>2, <1>5, <1>6 DEF ControlSound

(* The archive a run leaves. *)
Closed(r) ==
  [present |-> TRUE, dump |-> scopes[r].keys, sentinel |-> scopes[r].sentinel,
   parent |-> replays[r].source,
   ground |-> [n \in Nodes |-> IF instances[r].ground[n] = "Pending"
                               THEN "Cancelled" ELSE instances[r].ground[n]]]

LEMMA EndEffect ==
  ASSUME Typed, NEW r \in Requests, RunEnds(r)
  PROVE  /\ instances[r].phase \in {"stalled", "running"} /\ instances'[r].phase = "ended"
         /\ \A x \in Requests : x # r => instances'[x] = instances[x]
         /\ \A x \in Requests : instances'[x].ground = instances[x].ground
         /\ archive'[r] \in {archive[r], Closed(r)}
         /\ UNCHANGED <<drives, sent, lost, rejected>>
<1>1. instances[r] \in InstanceRec /\ instances[r].phase \in {"stalled", "running"} /\ r \in Runs
  BY DEF Typed, RunEnds, Quiet, Runs
<1>2. [instances[r] EXCEPT !.phase = "ended"].ground = instances[r].ground
      /\ [instances[r] EXCEPT !.phase = "ended"].phase = "ended"
  BY <1>1 DEF InstanceRec
<1>3. instances' = [instances EXCEPT ![r] = [instances[r] EXCEPT !.phase = "ended"]]
  BY DEF RunEnds, Typed
<1>4. archive'[r] \in {archive[r], Closed(r)}
  BY <1>1 DEF RunEnds, Typed, Closed
<1> QED BY <1>1, <1>2, <1>3, <1>4 DEF Typed, RunEnds

LEMMA EndControl ==
  ASSUME Typed, ReplayInv, NEW r \in Requests, RunEnds(r)
  PROVE  ControlSound'
<1>1. /\ RowsStill /\ Kept /\ archive'[Origin] = archive[Origin] /\ ~Present(r)
      /\ \A s \in Runs : s # r => archive'[s] = archive[s]
  BY EndStill
<1>2. RowsSound' /\ NoCycle' /\ CallsSound'
  BY <1>1, StillControl
<1>3. /\ instances[r].phase \in {"stalled", "running"} /\ instances'[r].phase = "ended"
      /\ \A x \in Requests : x # r => instances'[x] = instances[x]
      /\ archive'[r] \in {archive[r], Closed(r)}
      /\ UNCHANGED <<drives, sent, lost>>
  BY EndEffect
<1>8. \A x \in Requests : /\ instances'[x].phase = instances[x].phase \/ (x = r /\ instances'[x].phase = "ended")
                          /\ Outbound(x) => Outbound(x)'
  BY <1>1, <1>3 DEF Outbound, RowsStill, born_stalled
<1>4. DrivesSound'
  BY <1>1, <1>3, <1>8, DrivesPreserved DEF Forward
<1>5. Closed(r).parent = replays[r].source
  BY DEF Closed
<1>6. Requests \subseteq Runs
  BY DEF Runs
<1>7. InstancesSound' /\ OriginSound'
  BY <1>1, <1>3, <1>5, <1>6, <1>8 DEF ReplayInv, InstancesSound, OriginSound, RowsStill, Active, Present, born_stalled
<1> QED BY <1>2, <1>4, <1>7 DEF ControlSound

-----------------------------------------------------------------------------
(* The graph a run executes *)

EdgeSet == SUBSET [sources : SUBSET (Nodes \cup {Start}), targets : SUBSET Nodes]

(* A seed leaves a graph that was executed as far as it goes. *)
LEMMA ExecutedSeed ==
  ASSUME NEW E \in EdgeSet, IsFiniteSet(E), NEW g \in [Nodes -> Grounds], NEW roots, Executed(E, g)
  PROVE  Executed(E, seeded_ground(E, g, roots))
<1> DEFINE C == forward_closure(E, roots)
           h == seeded_ground(E, g, roots)
<1>1. ClosedUnder(E, C)
  BY ForwardClosure
<1>2. \A n \in Nodes : h[n] = IF n \in C THEN "Pending" ELSE g[n]
  BY DEF seeded_ground
<1> HIDE DEF C, h
<1>3. ASSUME NEW n \in Nodes, n \notin C, NEW e \in E, n \in e.targets,
             \A s \in e.sources : Succeeded(g, s)
      PROVE  \A s \in e.sources : Succeeded(h, s)
  <2> SUFFICES ASSUME NEW s \in e.sources PROVE Succeeded(h, s)
    OBVIOUS
  <2>1. s \notin C /\ (s = Start \/ s \in Nodes)
    BY <1>1, <1>3 DEF ClosedUnder, EdgeSet
  <2> QED BY <1>2, <1>3, <2>1 DEF Succeeded
<1>4. ASSUME NEW n \in Nodes, h[n] = "Failed" PROVE has_all_success_incident_edge(E, h, n)
  <2>1. n \notin C /\ g[n] = "Failed"
    BY <1>2, <1>4
  <2> QED BY <1>3, <2>1 DEF Executed, has_all_success_incident_edge
<1>5. ASSUME NEW S \in SUBSET {n \in Nodes : h[n] = "Success"}, S # {}
      PROVE  \E n \in S : \E e \in E : /\ n \in e.targets /\ e.sources # {}
                                       /\ \A s \in e.sources : s \notin S /\ Succeeded(h, s)
  <2>1. \A n \in S : n \in Nodes /\ n \notin C /\ g[n] = "Success"
    BY <1>2
  <2>2. S \in SUBSET {n \in Nodes : g[n] = "Success"}
    BY <2>1
  <2>3. PICK n \in S : \E e \in E : /\ n \in e.targets /\ e.sources # {}
                                    /\ \A s \in e.sources : s \notin S /\ Succeeded(g, s)
    BY <1>5, <2>2 DEF Executed
  <2> QED BY <1>3, <2>1, <2>3
<1> QED BY <1>4, <1>5 DEF Executed, h

(* So does a Task that had its turn. *)
LEMMA ExecutedTask ==
  ASSUME NEW E \in EdgeSet, NEW g \in [Nodes -> Grounds], Executed(E, g), NEW n \in Nodes,
         g[n] = "Pending", has_all_success_incident_edge(E, g, n), NEW v \in {"Success", "Failed"}
  PROVE  Executed(E, [g EXCEPT ![n] = v])
<1> DEFINE h == [g EXCEPT ![n] = v]
<1>1. h[n] = v /\ \A m \in Nodes : m # n => h[m] = g[m]
  OBVIOUS
<1> HIDE DEF h
<1>2. ASSUME NEW e \in E, NEW s \in e.sources, Succeeded(g, s) PROVE Succeeded(h, s) /\ s # n
  <2>1. s = Start \/ s \in Nodes
    BY DEF EdgeSet
  <2> QED BY <1>1, <1>2, <2>1, ReplayAssumption DEF Succeeded
<1>3. ASSUME NEW m \in Nodes, h[m] = "Failed" PROVE has_all_success_incident_edge(E, h, m)
  <2>1. has_all_success_incident_edge(E, g, m)
    BY <1>1, <1>3 DEF Executed
  <2> QED BY <1>2, <2>1 DEF has_all_success_incident_edge
<1>4. ASSUME NEW S \in SUBSET {m \in Nodes : h[m] = "Success"}, S # {}
      PROVE  \E m \in S : \E e \in E : /\ m \in e.targets /\ e.sources # {}
                                       /\ \A s \in e.sources : s \notin S /\ Succeeded(h, s)
  <2> DEFINE T == S \ {n}
  <2>1. T \in SUBSET {m \in Nodes : g[m] = "Success"}
    BY <1>1
  <2>2. CASE T = {}
    <3>1. S = {n}
      BY <1>4, <2>2
    <3> QED BY <1>2, <3>1 DEF has_all_success_incident_edge
  <2>3. CASE T # {}
    <3> HIDE DEF T
    <3>1. PICK m \in T : \E e \in E : /\ m \in e.targets /\ e.sources # {}
                                      /\ \A s \in e.sources : s \notin T /\ Succeeded(g, s)
      BY <2>1, <2>3 DEF Executed
    <3> QED BY <1>2, <3>1 DEF T
  <2> QED BY <2>2, <2>3
<1> QED BY <1>3, <1>4 DEF Executed, h

(* So does the end of the run. *)
LEMMA ExecutedEnd ==
  ASSUME NEW E \in EdgeSet, NEW g \in [Nodes -> Grounds], Executed(E, g)
  PROVE  Executed(E, [n \in Nodes |-> IF g[n] = "Pending" THEN "Cancelled" ELSE g[n]])
<1> DEFINE h == [n \in Nodes |-> IF g[n] = "Pending" THEN "Cancelled" ELSE g[n]]
<1>1. \A m \in Nodes : (h[m] = "Success" <=> g[m] = "Success") /\ (h[m] = "Failed" <=> g[m] = "Failed")
  OBVIOUS
<1> HIDE DEF h
<1>2. \A e \in E : \A s \in e.sources : s = Start \/ s \in Nodes
  BY DEF EdgeSet
<1>3. \A e \in E : \A s \in e.sources : Succeeded(h, s) <=> Succeeded(g, s)
  BY <1>1, <1>2 DEF Succeeded
<1>4. {n \in Nodes : h[n] = "Success"} = {n \in Nodes : g[n] = "Success"}
  BY <1>1
<1>5. \A n \in Nodes : h[n] = "Failed" => has_all_success_incident_edge(E, h, n)
  BY <1>1, <1>3 DEF Executed, has_all_success_incident_edge
<1>6. ASSUME NEW S \in SUBSET {n \in Nodes : h[n] = "Success"}, S # {}
      PROVE  \E n \in S : \E e \in E : /\ n \in e.targets /\ e.sources # {}
                                       /\ \A s \in e.sources : s \notin S /\ Succeeded(h, s)
  <2>1. \E n \in S : \E e \in E : /\ n \in e.targets /\ e.sources # {}
                                  /\ \A s \in e.sources : s \notin S /\ Succeeded(g, s)
    BY <1>4, <1>6 DEF Executed
  <2> QED BY <1>3, <2>1
<1> QED BY <1>5, <1>6 DEF Executed, h

RanSound(r) ==
  instances[r].phase # "absent" =>
    \A n \in Nodes :
      /\ n \notin Closure(r) => instances[r].ground[n] = archive[replays[r].source].ground[n]
      /\ n \in Closure(r) => \/ instances[r].ground[n] = "Pending"
                             \/ n \in Fireable(r) /\ instances[r].ground[n] \in {"Success", "Failed"}

(* A run whose instance is left alone. *)
LEMMA RanKept ==
  ASSUME Typed, ReplayInv, Kept, NEW r \in Requests,
         instances'[r].ground = instances[r].ground,
         instances'[r].phase # "absent" => instances[r].phase # "absent"
  PROVE  RanSound(r)'
<1> SUFFICES ASSUME instances'[r].phase # "absent"
    PROVE  \A n \in Nodes :
      /\ n \notin Closure(r)' => instances'[r].ground[n] = archive'[replays'[r].source].ground[n]
      /\ n \in Closure(r)' => \/ instances'[r].ground[n] = "Pending"
                              \/ n \in Fireable(r)' /\ instances'[r].ground[n] \in {"Success", "Failed"}
  BY DEF RanSound
<1>1. instances[r].phase # "absent" /\ Active(r)
  BY DEF ReplayInv, InstancesSound
<1>2. /\ replays'[r].source = replays[r].source
      /\ archive'[replays[r].source] = archive[replays[r].source]
      /\ Closure(r)' = Closure(r) /\ Fireable(r)' = Fireable(r)
  BY <1>1, ClosureKept
<1> QED BY <1>1, <1>2 DEF ReplayInv, RunsTheSeed

LEMMA GraphKept ==
  ASSUME Typed, ReplayInv, Kept, UNCHANGED <<archive, instances>>
  PROVE  GraphSound' /\ RunsTheSeed'
<1>1. GraphSound'
  BY DEF ReplayInv, GraphSound, Present, Kept
<1>2. \A r \in Requests : RanSound(r)'
  BY RanKept
<1> QED BY <1>1, <1>2 DEF RunsTheSeed, RanSound

LEMMA GroundTypes ==
  ASSUME Typed, ReplayInv
  PROVE  /\ edges \in EdgeSet /\ IsFiniteSet(edges)
         /\ \A s \in Runs : archive[s].ground \in [Nodes -> Grounds]
         /\ \A r \in Requests : instances[r].ground \in [Nodes -> Grounds]
BY DEF Typed, EdgeSet, ArchiveRec, InstanceRec, ReplayInv, GraphSound

LEMMA TriggerGraph ==
  ASSUME Typed, ReplayInv, NEW i \in Requests, ArriveTrigger(i)
  PROVE  GraphSound' /\ RunsTheSeed'
<1>1. RowsStill /\ archive' = archive /\ Kept /\ edges' = edges
  BY ArriveStill, StillKept DEF RowsStill
<1>2. /\ Active(i)
      /\ \A r \in Requests : r # i => instances'[r] = instances[r]
      /\ IF instances[i].phase = "absent" THEN instances'[i] = Started(i)
         ELSE instances'[i] = instances[i]
  BY TriggerEffect
<1> DEFINE s == replays[i].source
           h == seeded_ground(edges, archive[s].ground, replays[i].roots)
<1>3. s \in Runs /\ Present(s)
  BY <1>2, SourceSound
<1>4. Started(i).ground = h
  BY DEF Started
<1>5. Executed(edges, h)
  BY <1>3, GroundTypes, ExecutedSeed DEF ReplayInv, GraphSound
<1>6. \A n \in Nodes : h[n] = IF n \in Closure(i) THEN "Pending" ELSE archive[s].ground[n]
  BY DEF seeded_ground, Closure
<1> HIDE DEF h
<1>7. \A r \in Requests : instances'[r].phase # "absent" => Executed(edges, instances'[r].ground)
  BY <1>2, <1>4, <1>5 DEF ReplayInv, GraphSound
<1>8. GraphSound'
  BY <1>1, <1>7 DEF ReplayInv, GraphSound, Present
<1>9. ASSUME NEW r \in Requests PROVE RanSound(r)'
  <2>1. CASE instances'[r] = instances[r]
    BY <1>1, <2>1, RanKept
  <2>2. CASE instances'[r] # instances[r]
    <3>1. r = i /\ instances'[r].ground = h
      BY <1>2, <1>4, <2>2
    <3>2. /\ replays'[r].source = s /\ archive'[s] = archive[s] /\ Closure(r)' = Closure(i)
      BY <1>1, <1>2, <3>1, ClosureKept
    <3> QED BY <1>6, <3>1, <3>2 DEF RanSound
  <2> QED BY <2>1, <2>2
<1> QED BY <1>8, <1>9 DEF RunsTheSeed, RanSound

LEMMA ResumeGraph ==
  ASSUME Typed, ReplayInv, NEW i \in Requests, ArriveResume(i)
  PROVE  GraphSound' /\ RunsTheSeed'
<1>1. RowsStill /\ archive' = archive /\ Kept /\ edges' = edges
  BY ArriveStill, StillKept DEF RowsStill
<1>2. \A r \in Requests : /\ instances'[r].ground = instances[r].ground
                          /\ instances'[r].phase # "absent" => instances[r].phase # "absent"
  BY ResumeEffect
<1>3. GraphSound'
  BY <1>1, <1>2 DEF ReplayInv, GraphSound, Present
<1>4. \A r \in Requests : RanSound(r)'
  BY <1>1, <1>2, RanKept
<1> QED BY <1>3, <1>4 DEF RunsTheSeed, RanSound

(* A Task that fires was pending in the seed and can fire. *)
LEMMA FiresFireable ==
  ASSUME Typed, ReplayInv, NEW r \in Requests, NEW n \in Nodes, Fires(r, n)
  PROVE  /\ Active(r) /\ n \in Closure(r) /\ n \notin replays[r].pre /\ n \in Fireable(r)
         /\ Executed(edges, instances[r].ground)
<1> DEFINE s == replays[r].source
           g == archive[s].ground
           C == Closure(r)
           F == Fireable(r)
<1>1. instances[r].phase = "running" /\ instances[r].ground[n] = "Pending" /\ Active(r)
      /\ Executed(edges, instances[r].ground)
  BY DEF Fires, ReplayInv, InstancesSound, GraphSound
<1>2. s \in Runs /\ Present(s) /\ replays[r].pre = Nodes \ C
  BY <1>1, SourceSound
<1>3. \A m \in Nodes : /\ m \notin C => instances[r].ground[m] = g[m]
                       /\ m \in C => instances[r].ground[m] = "Pending" \/ m \in F
  BY <1>1 DEF ReplayInv, RunsTheSeed
<1>4. g[n] # "Pending"
  BY <1>2 DEF ReplayInv, GraphSound
<1>5. n \in C
  BY <1>1, <1>3, <1>4
<1>6. PICK e \in edges : /\ n \in e.targets /\ e.sources # {}
                         /\ \A x \in e.sources : Succeeded(instances[r].ground, x)
  BY DEF Fires, has_all_success_incident_edge
<1>7. ASSUME NEW x \in e.sources PROVE x \in F \/ Succeeded(g, x)
  <2>1. x = Start \/ x \in Nodes
    BY GroundTypes DEF EdgeSet
  <2> QED BY <1>3, <1>6, <2>1 DEF Succeeded
<1>8. C = forward_closure(edges, replays[r].roots) /\ F = fireable(edges, g, replays[r].roots)
  BY DEF Closure, Fireable
<1>9. n \in Ready(edges, g, replays[r].roots, F)
  BY <1>5, <1>6, <1>7, <1>8 DEF Ready
<1>10. IsFiniteSet(edges) /\ IsFiniteSet(Nodes) /\ (\A d \in edges : d.targets \subseteq Nodes)
       /\ replays[r].roots \in SUBSET Nodes
  BY GroundTypes, ReplayAssumption DEF EdgeSet, Typed, ReplayRec
<1>11. Ready(edges, g, replays[r].roots, F) \subseteq F
  BY <1>8, <1>10, FireableFixpoint
<1> QED BY <1>1, <1>2, <1>5, <1>9, <1>11

LEMMA TaskGraph ==
  ASSUME Typed, ReplayInv, NEW r \in Requests, NEW n \in Nodes,
         TaskSucceeds(r, n) \/ TaskFails(r, n) \/ LaunchRefused(r, n)
  PROVE  GraphSound' /\ RunsTheSeed'
<1>1. RowsStill /\ archive' = archive /\ Kept /\ edges' = edges
  BY TaskStill, StillKept DEF RowsStill
<1>2. /\ Fires(r, n) /\ instances[r].phase = "running"
      /\ \A x \in Requests : x # r => instances'[x] = instances[x]
  BY TaskEffect
<1>3. PICK v \in {"Success", "Failed"} : instances'[r].ground = [instances[r].ground EXCEPT ![n] = v]
  BY TaskEffect
<1>4. Active(r) /\ n \in Closure(r) /\ n \in Fireable(r) /\ Executed(edges, instances[r].ground)
  BY <1>2, FiresFireable
<1>5. Executed(edges, instances'[r].ground)
  <2> DEFINE g == instances[r].ground
  <2>1. g \in [Nodes -> Grounds] /\ edges \in EdgeSet
    BY GroundTypes
  <2>2. g[n] = "Pending" /\ has_all_success_incident_edge(edges, g, n) /\ Executed(edges, g)
    BY <1>2, <1>4 DEF Fires
  <2>3. instances'[r].ground = [g EXCEPT ![n] = v]
    BY <1>3
  <2> HIDE DEF g
  <2>4. Executed(edges, [g EXCEPT ![n] = v])
    BY <2>1, <2>2, ExecutedTask
  <2> QED BY <2>3, <2>4
<1>6. GraphSound'
  BY <1>1, <1>2, <1>5 DEF ReplayInv, GraphSound, Present
<1>7. ASSUME NEW x \in Requests PROVE RanSound(x)'
  <2>1. CASE x # r
    BY <1>1, <1>2, <2>1, RanKept
  <2>2. CASE x = r
    <3>1. /\ replays'[r].source = replays[r].source
          /\ archive'[replays[r].source] = archive[replays[r].source]
          /\ Closure(r)' = Closure(r) /\ Fireable(r)' = Fireable(r)
      BY <1>1, <1>4, ClosureKept
    <3>2. instances'[r].ground[n] = v /\ \A m \in Nodes : m # n => instances'[r].ground[m] = instances[r].ground[m]
      BY <1>3, GroundTypes
    <3>3. ASSUME NEW m \in Nodes
          PROVE  /\ m \notin Closure(r) => instances[r].ground[m] = archive[replays[r].source].ground[m]
                 /\ m \in Closure(r) => \/ instances[r].ground[m] = "Pending"
                                        \/ m \in Fireable(r) /\ instances[r].ground[m] \in {"Success", "Failed"}
      BY <1>2 DEF ReplayInv, RunsTheSeed
    <3> QED BY <1>4, <2>2, <3>1, <3>2, <3>3 DEF RanSound
  <2> QED BY <2>1, <2>2
<1> QED BY <1>6, <1>7 DEF RunsTheSeed, RanSound

LEMMA EndGraph ==
  ASSUME Typed, ReplayInv, NEW r \in Requests, RunEnds(r)
  PROVE  GraphSound' /\ RunsTheSeed'
<1>1. /\ RowsStill /\ Kept /\ edges' = edges
      /\ \A s \in Runs : s # r => archive'[s] = archive[s]
  BY EndStill DEF RowsStill
<1>2. /\ instances[r].phase \in {"stalled", "running"} /\ instances'[r].phase = "ended"
      /\ \A x \in Requests : x # r => instances'[x] = instances[x]
      /\ \A x \in Requests : instances'[x].ground = instances[x].ground
      /\ archive'[r] \in {archive[r], Closed(r)}
  BY EndEffect
<1>3. Executed(edges, instances[r].ground)
  BY <1>2 DEF ReplayInv, GraphSound
<1>4. Executed(edges, Closed(r).ground) /\ \A n \in Nodes : Closed(r).ground[n] # "Pending"
  BY <1>3, GroundTypes, ExecutedEnd DEF Closed
<1>5. GraphSound'
  <2>1. \A x \in Requests : instances'[x].phase # "absent" => Executed(edges, instances'[x].ground)
    BY <1>2 DEF ReplayInv, GraphSound
  <2>2. ASSUME NEW s \in Runs, archive'[s].present
        PROVE  Executed(edges, archive'[s].ground) /\ \A n \in Nodes : archive'[s].ground[n] # "Pending"
    <3>1. CASE archive'[s] = archive[s]
      BY <2>2, <3>1 DEF ReplayInv, GraphSound, Present
    <3>2. CASE archive'[s] # archive[s]
      <4>1. archive'[s] = Closed(r)
        BY <1>1, <1>2, <3>2
      <4> QED BY <1>4, <4>1
    <3> QED BY <3>1, <3>2
  <2> QED BY <1>1, <2>1, <2>2 DEF ReplayInv, GraphSound, Present
<1>6. \A x \in Requests : RanSound(x)'
  BY <1>1, <1>2, RanKept
<1> QED BY <1>5, <1>6 DEF RunsTheSeed, RanSound

-----------------------------------------------------------------------------
(* The scopes and what archives hold of them *)

ScopeOK(r) ==
  /\ scopes[r].sentinel => Active(r) /\ Carried(r)
  /\ scopes[r].namespace = "replay" => scopes[r].sentinel
  /\ instances[r].phase = "running" /\ born_stalled(r) => scopes[r].sentinel \/ r \in rejected
  /\ <<"resume", r>> \in sent => scopes[r].sentinel \/ r \in rejected
  /\ \A n \in Nodes \ replays[r].pre :
       instances[r].phase # "absent" /\ instances[r].ground[n] = "Success" =>
         scopes[r].keys[n] = r /\ scopes[r].namespace = "default"

HydrationOK(d) ==
  /\ d.at \in {"hydrate", "sentinel"} =>
       /\ d.todo \subseteq Plan(d.id)
       /\ formation = "lite" => d.todo = Plan(d.id)
       /\ formation = "distributed" => \A n \in Plan(d.id) \ d.todo :
            scopes[d.id].keys[n] = archive[replays[d.id].source].dump[n]
  /\ d.at = "sentinel" => formation = "distributed" /\ d.todo = {}
  /\ d.at = "resume" => scopes[d.id].sentinel \/ d.id \in rejected

(* A value the source carries may be written again, nothing else may be      *)
(* written over what was carried.                                             *)
LEMMA CarriedKept ==
  ASSUME Typed, ReplayInv, Kept, RowsSound', NoCycle', NEW r \in Requests, Active(r), Carried(r),
         \A n \in replays[r].pre : \/ scopes'[r].keys[n] = scopes[r].keys[n]
                                   \/ scopes'[r].keys[n] = archive[replays[r].source].dump[n]
  PROVE  Carried(r)'
<1>1. /\ replays'[r].source = replays[r].source /\ replays'[r].pre = replays[r].pre
      /\ archive'[replays[r].source] = archive[replays[r].source]
  BY ClosureKept
<1>2. SUFFICES ASSUME NEW n \in replays[r].pre, archive[replays[r].source].ground[n] = "Success"
      PROVE  scopes'[r].keys[n] = LastRan(r, n)'
  BY <1>1 DEF Carried
<1>3. LastRan(r, n)' = LastRan(r, n)
  BY LastKept DEF Active, Rowed
<1>4. archive[replays[r].source].dump[n] = LastRan(r, n)
  BY <1>2, PlanCovers
<1>5. scopes[r].keys[n] = LastRan(r, n)
  BY <1>2 DEF Carried
<1> QED BY <1>3, <1>4, <1>5

(* The scope of r is as it was and so is the run, but for its release.        *)
LEMMA ScopeKept ==
  ASSUME Typed, ReplayInv, Kept, RowsSound', NoCycle', NEW r \in Requests,
         scopes'[r] = scopes[r], instances'[r].ground = instances[r].ground,
         instances'[r].phase # "absent" => instances[r].phase # "absent",
         \/ instances'[r].phase = "running" /\ instances[r].phase # "running"
         \/ <<"resume", r>> \in sent' /\ <<"resume", r>> \notin sent
         => scopes[r].sentinel \/ r \in rejected
  PROVE  ScopeOK(r)'
<1>1. ScopeOK(r)
  BY DEF ReplayInv, ScopesSound, ScopeOK
<1>2. CASE Active(r)
  <2>1. Active(r)' /\ born_stalled(r)' = born_stalled(r) /\ replays'[r].pre = replays[r].pre
    BY <1>2, ActiveKept DEF SameSeed
  <2>2. scopes[r].sentinel => Carried(r)'
    BY <1>1, <1>2, CarriedKept DEF ScopeOK
  <2> QED BY <1>1, <2>1, <2>2 DEF ScopeOK, Kept
<1>3. CASE ~Active(r)
  <2>1. ~scopes[r].sentinel /\ instances[r].phase = "absent"
    BY <1>1, <1>3 DEF ScopeOK, ReplayInv, InstancesSound
  <2> QED BY <1>1, <2>1 DEF ScopeOK, Kept
<1> QED BY <1>2, <1>3

(* What a drive has put stays put. *)
LEMMA HydrationKept ==
  ASSUME Typed, Typed', ReplayInv, Kept, NEW d \in drives,
         scopes[d.id].sentinel => scopes'[d.id].sentinel,
         formation = "distributed" =>
           \A n \in replays[d.id].pre : \/ scopes'[d.id].keys[n] = scopes[d.id].keys[n]
                                        \/ scopes'[d.id].keys[n] = archive[replays[d.id].source].dump[n]
  PROVE  HydrationOK(d)'
<1>1. d.id \in Requests /\ Active(d.id) /\ HydrationOK(d)
  BY DriveSound DEF ReplayInv, HydrationSound, HydrationOK
<1>2. /\ replays'[d.id].source = replays[d.id].source
      /\ archive'[replays[d.id].source] = archive[replays[d.id].source]
      /\ Plan(d.id)' = Plan(d.id) /\ formation' = formation /\ rejected \subseteq rejected'
  BY <1>1, ClosureKept, PlanKept DEF Kept
<1>3. Plan(d.id) \subseteq replays[d.id].pre
  BY DEF Plan, plan_rehydration
<1> QED BY <1>1, <1>2, <1>3 DEF HydrationOK

(* What an archive holds stays what it was. *)
DumpOK(s) ==
  Present(s) /\ (s = Origin \/ archive[s].sentinel) =>
    \A n \in Nodes : archive[s].ground[n] = "Success" =>
      archive[s].dump[n] = IF s # Origin /\ n \in replays[s].pre THEN LastRan(s, n) ELSE s

LEMMA DumpKept ==
  ASSUME Typed, ReplayInv, Kept, RowsSound', NoCycle', NEW s \in Runs, Present(s) \/ ~Present(s)'
  PROVE  DumpOK(s)'
<1>1. SUFFICES ASSUME Present(s) PROVE DumpOK(s)'
  BY DEF DumpOK
<1>2. archive'[s] = archive[s] /\ DumpOK(s)
  BY <1>1 DEF Kept, ReplayInv, DumpsSound, DumpOK
<1>3. CASE s = Origin
  BY <1>2, <1>3 DEF DumpOK, Present
<1>4. CASE s # Origin
  <2>1. s \in Requests
    BY <1>4 DEF Runs
  <2>2. Active(s) /\ Rowed(s)
    BY <1>1, <2>1, ArchiveClosed DEF Active, Rowed
  <2>3. replays'[s].pre = replays[s].pre /\ \A n : LastRan(s, n)' = LastRan(s, n)
    BY <2>1, <2>2, LastKept, ActiveKept DEF SameSeed
  <2> QED BY <1>2, <2>3 DEF DumpOK, Present
<1> QED BY <1>3, <1>4

DataSound == ScopesSound /\ HydrationSound /\ DumpsSound

LEMMA DataParts ==
  ASSUME \A r \in Requests : ScopeOK(r)', \A d \in drives' : HydrationOK(d)', \A s \in Runs : DumpOK(s)'
  PROVE  DataSound'
BY DEF DataSound, ScopesSound, ScopeOK, HydrationSound, HydrationOK, DumpsSound, DumpOK

LEMMA PacedData ==
  ASSUME Typed, Typed', ReplayInv, Kept, RowsSound', NoCycle',
         UNCHANGED <<scopes, instances, archive>>, sent' \subseteq sent,
         \A e \in drives' : e \in drives \/ e.at \in {"load", "trigger"}
  PROVE  DataSound'
<1>1. \A r \in Requests : ScopeOK(r)'
  BY ScopeKept
<1>2. ASSUME NEW e \in drives' PROVE HydrationOK(e)'
  <2>1. CASE e \in drives
    BY <2>1, HydrationKept
  <2>2. CASE e \notin drives
    BY <2>2 DEF HydrationOK
  <2> QED BY <2>1, <2>2
<1>3. \A s \in Runs : DumpOK(s)'
  BY DumpKept DEF Present
<1> QED BY <1>1, <1>2, <1>3, DataParts

LEMMA SendData ==
  ASSUME Typed, Typed', ReplayInv, NEW d \in drives, SendTrigger(d) \/ SendResume(d), RowsSound', NoCycle'
  PROVE  DataSound'
<1>1. RowsStill /\ archive' = archive /\ Kept
  BY DriveStill, StillKept
<1>2. UNCHANGED <<scopes, instances>>
  BY DEF SendTrigger, SendResume
<1>3. d \in Drive /\ d.id \in Requests /\ Active(d.id)
  BY DriveSound
<1>4. ASSUME NEW r \in Requests, <<"resume", r>> \in sent', <<"resume", r>> \notin sent
      PROVE  scopes[r].sentinel \/ r \in rejected
  <2>1. r = d.id /\ d.at = "resume"
    BY <1>4 DEF SendTrigger, SendResume, Send
  <2> QED BY <2>1 DEF ReplayInv, HydrationSound
<1>5. \A r \in Requests : ScopeOK(r)'
  BY <1>1, <1>2, <1>4, ScopeKept
<1>6. ASSUME NEW e \in drives' PROVE HydrationOK(e)'
  <2>1. CASE e \in drives
    BY <1>1, <1>2, <2>1, HydrationKept
  <2>2. CASE e \notin drives /\ SendTrigger(d)
    <3>1. e = AfterTrigger(d)
      BY <2>2 DEF SendTrigger, Advance
    <3>2. e.id = d.id /\ e.at \in {"hydrate", "settle"} /\ (e.at = "hydrate" => e.todo = Plan(d.id))
      BY <1>3, <3>1 DEF AfterTrigger, Drive
    <3>3. Plan(d.id)' = Plan(d.id)
      BY <1>1, <1>3, PlanKept
    <3> QED BY <3>2, <3>3 DEF HydrationOK
  <2>3. CASE e \notin drives /\ SendResume(d)
    <3>1. e = [d EXCEPT !.at = "settle"]
      BY <2>3 DEF SendResume, Advance
    <3>2. e.at = "settle"
      BY <1>3, <3>1 DEF Drive
    <3> QED BY <3>2 DEF HydrationOK
  <2> QED BY <2>1, <2>2, <2>3
<1>7. \A s \in Runs : DumpOK(s)'
  BY <1>1, DumpKept DEF Present
<1> QED BY <1>5, <1>6, <1>7, DataParts

(* The drive of a rejected scope goes on as if it were there. *)
LEMMA RejectedData ==
  ASSUME Typed, Typed', ReplayInv, NEW d \in drives, CreateScopeRejected(d), RowsSound', NoCycle'
  PROVE  DataSound'
<1>1. RowsStill /\ archive' = archive /\ Kept
  BY DriveStill, StillKept
<1>2. UNCHANGED <<scopes, instances, sent>> /\ d.id \in rejected'
  BY DEF CreateScopeRejected
<1>3. \A r \in Requests : ScopeOK(r)'
  BY <1>1, <1>2, ScopeKept
<1>4. ASSUME NEW e \in drives' PROVE HydrationOK(e)'
  <2>1. CASE e \in drives
    BY <1>1, <1>2, <2>1, HydrationKept
  <2>2. CASE e \notin drives
    <3>1. d \in Drive /\ e = [AfterHydration(d) EXCEPT !.todo = {}]
      BY <2>2, DriveSound DEF CreateScopeRejected, Advance
    <3>2. e.id = d.id /\ e.at \in {"resume", "settle"}
      BY <3>1, AfterHydrationIs
    <3> QED BY <1>2, <3>2 DEF HydrationOK
  <2> QED BY <2>1, <2>2
<1>5. \A s \in Runs : DumpOK(s)'
  BY <1>1, DumpKept DEF Present
<1> QED BY <1>3, <1>4, <1>5, DataParts

LEMMA TriggerData ==
  ASSUME Typed, Typed', ReplayInv, NEW i \in Requests, ArriveTrigger(i), RowsSound', NoCycle'
  PROVE  DataSound'
<1>1. RowsStill /\ archive' = archive /\ Kept /\ UNCHANGED <<scopes, drives, rejected>>
  BY ArriveStill, StillKept
<1>2. /\ Active(i)
      /\ \A r \in Requests : r # i => instances'[r] = instances[r]
      /\ IF instances[i].phase = "absent" THEN instances'[i] = Started(i)
         ELSE instances'[i] = instances[i]
  BY TriggerEffect
<1>3. \A r \in Requests : <<"resume", r>> \in sent' => <<"resume", r>> \in sent
  BY DEF ArriveTrigger
<1>4. ASSUME NEW r \in Requests PROVE ScopeOK(r)'
  <2>1. CASE instances'[r] = instances[r]
    BY <1>1, <1>3, <2>1, ScopeKept
  <2>2. CASE instances'[r] # instances[r]
    <3>1. r = i /\ instances'[r] = Started(r) /\ Active(r)
      BY <1>2, <2>2
    <3>2. ScopeOK(r)
      BY DEF ReplayInv, ScopesSound, ScopeOK
    <3>3. Active(r)' /\ born_stalled(r)' = born_stalled(r) /\ replays'[r].pre = replays[r].pre
      BY <1>1, <3>1, ActiveKept DEF SameSeed
    <3>4. scopes'[r].sentinel => Carried(r)'
      BY <1>1, <3>1, <3>2, CarriedKept DEF ScopeOK
    <3>5. instances'[r].phase = "running" => ~born_stalled(r)
      BY <3>1 DEF Started
    <3>6. \A n \in Nodes \ replays[r].pre : instances'[r].ground[n] = "Pending"
      <4>1. replays[r].pre = Nodes \ Closure(r)
        BY <3>1, SourceSound
      <4> QED BY <3>1, <4>1 DEF Started, seeded_ground, Closure
    <3> QED BY <1>1, <1>3, <3>2, <3>3, <3>4, <3>5, <3>6 DEF ScopeOK
  <2> QED BY <2>1, <2>2
<1>5. \A e \in drives' : HydrationOK(e)'
  BY <1>1, HydrationKept
<1>6. \A s \in Runs : DumpOK(s)'
  BY <1>1, DumpKept DEF Present
<1> QED BY <1>4, <1>5, <1>6, DataParts

LEMMA ResumeData ==
  ASSUME Typed, Typed', ReplayInv, NEW i \in Requests, ArriveResume(i), RowsSound', NoCycle'
  PROVE  DataSound'
<1>1. RowsStill /\ archive' = archive /\ Kept /\ UNCHANGED <<scopes, drives>>
  BY ArriveStill, StillKept
<1>2. /\ \A r \in Requests : instances'[r].ground = instances[r].ground
      /\ \A r \in Requests : r # i => instances'[r] = instances[r]
      /\ instances'[i].phase = IF instances[i].phase = "stalled" THEN "running" ELSE instances[i].phase
  BY ResumeEffect
<1>3. scopes[i].sentinel \/ i \in rejected
  BY DEF ArriveResume, ReplayInv, ScopesSound
<1>4. sent' \subseteq sent
  BY DEF ArriveResume
<1>5. ASSUME NEW r \in Requests PROVE ScopeOK(r)'
  BY <1>1, <1>2, <1>3, <1>4, ScopeKept
<1>6. \A e \in drives' : HydrationOK(e)'
  BY <1>1, HydrationKept
<1>7. \A s \in Runs : DumpOK(s)'
  BY <1>1, DumpKept DEF Present
<1> QED BY <1>5, <1>6, <1>7, DataParts

(* What a put does to the scopes. *)
OthersAlone(i) == \A r \in Requests : r # i => scopes'[r] = scopes[r]

LEMMA PutCarriedEffect ==
  ASSUME Typed, ReplayInv, NEW d \in drives, NEW n \in d.todo, PutCarried(d, n)
  PROVE  /\ OthersAlone(d.id) /\ n \in Nodes
         /\ scopes'[d.id].sentinel = scopes[d.id].sentinel
         /\ scopes'[d.id].namespace = "default"
         /\ scopes'[d.id].keys = [scopes[d.id].keys EXCEPT
              ![n] = archive[replays[d.id].source].dump[n]]
<1>1. d.id \in Requests /\ scopes[d.id] \in ScopeRec /\ d \in Drive
  BY DriveSound
<1> DEFINE k == [scopes[d.id].keys EXCEPT ![n] = archive[replays[d.id].source].dump[n]]
           new == [scopes[d.id] EXCEPT !.namespace = "default", !.keys = k]
<1>2. scopes' = [scopes EXCEPT ![d.id] = new]
  BY <1>1 DEF PutCarried, Typed, ScopeRec
<1>3. n \in Nodes
  BY <1>1 DEF Drive
<1> HIDE DEF k
<1>4. new.sentinel = scopes[d.id].sentinel /\ new.namespace = "default" /\ new.keys = k
  BY <1>1 DEF ScopeRec
<1> HIDE DEF new
<1>5. scopes'[d.id] = new /\ OthersAlone(d.id)
  BY <1>1, <1>2 DEF Typed, OthersAlone
<1> QED BY <1>3, <1>4, <1>5 DEF k

LEMMA PutShadowEffect ==
  ASSUME Typed, ReplayInv, NEW d \in drives, PutShadow(d)
  PROVE  /\ OthersAlone(d.id) /\ scopes'[d.id].sentinel = scopes[d.id].sentinel
         /\ scopes'[d.id].namespace = "default" /\ scopes'[d.id].keys = scopes[d.id].keys
<1>1. d.id \in Requests /\ scopes[d.id] \in ScopeRec
  BY DriveSound
<1> DEFINE new == [scopes[d.id] EXCEPT !.namespace = "default", !.shadow = TRUE]
<1>2. scopes' = [scopes EXCEPT ![d.id] = new]
  BY <1>1 DEF PutShadow, Typed, ScopeRec
<1>3. new.sentinel = scopes[d.id].sentinel /\ new.namespace = "default" /\ new.keys = scopes[d.id].keys
  BY <1>1 DEF ScopeRec
<1> HIDE DEF new
<1>4. scopes'[d.id] = new /\ OthersAlone(d.id)
  BY <1>1, <1>2 DEF Typed, OthersAlone
<1> QED BY <1>3, <1>4

LEMMA PutSentinelEffect ==
  ASSUME Typed, ReplayInv, NEW d \in drives, PutSentinel(d)
  PROVE  /\ OthersAlone(d.id) /\ scopes'[d.id].sentinel = TRUE
         /\ scopes'[d.id].namespace = "default" /\ scopes'[d.id].keys = scopes[d.id].keys
<1>1. d.id \in Requests /\ scopes[d.id] \in ScopeRec
  BY DriveSound
<1> DEFINE new == [scopes[d.id] EXCEPT !.namespace = "default", !.sentinel = TRUE]
<1>2. scopes' = [scopes EXCEPT ![d.id] = new]
  BY <1>1 DEF PutSentinel, Typed, ScopeRec
<1>3. new.sentinel = TRUE /\ new.namespace = "default" /\ new.keys = scopes[d.id].keys
  BY <1>1 DEF ScopeRec
<1> HIDE DEF new
<1>4. scopes'[d.id] = new /\ OthersAlone(d.id)
  BY <1>1, <1>2 DEF Typed, OthersAlone
<1> QED BY <1>3, <1>4

LEMMA CreateScopeEffect ==
  ASSUME Typed, ReplayInv, NEW d \in drives, CreateScope(d)
  PROVE  /\ OthersAlone(d.id)
         /\ \/ scopes'[d.id] = scopes[d.id] /\ scopes[d.id].namespace = "replay"
            \/ /\ scopes'[d.id].sentinel = TRUE /\ scopes'[d.id].namespace = "replay"
               /\ scopes[d.id].namespace # "default"
               /\ \A m \in Nodes : scopes'[d.id].keys[m] =
                    IF m \in d.todo THEN archive[replays[d.id].source].dump[m] ELSE 0
<1>1. d.id \in Requests
  BY DriveSound
<1>2. CASE scopes[d.id].namespace = "replay"
  BY <1>2 DEF CreateScope, OthersAlone
<1>3. CASE scopes[d.id].namespace # "replay"
  <2> DEFINE k == [m \in Nodes |-> IF m \in d.todo THEN archive[replays[d.id].source].dump[m] ELSE 0]
             new == [namespace |-> "replay", shadow |-> d.shadow, sentinel |-> TRUE, keys |-> k]
  <2>1. scopes' = [scopes EXCEPT ![d.id] = new] /\ scopes[d.id].namespace # "default"
    BY <1>3 DEF CreateScope
  <2>2. \A m \in Nodes : k[m] = IF m \in d.todo THEN archive[replays[d.id].source].dump[m] ELSE 0
    OBVIOUS
  <2> HIDE DEF k
  <2>3. new.sentinel = TRUE /\ new.namespace = "replay" /\ new.keys = k
    OBVIOUS
  <2> HIDE DEF new
  <2>4. scopes'[d.id] = new /\ OthersAlone(d.id)
    BY <1>1, <2>1 DEF Typed, OthersAlone
  <2> QED BY <2>1, <2>2, <2>3, <2>4
<1> QED BY <1>2, <1>3

(* A put is sound where it leaves the scope of its own run sound. *)
LEMMA PutData ==
  ASSUME Typed, Typed', ReplayInv, NEW d \in drives, NEW n,
         PutCarried(d, n) \/ PutShadow(d) \/ PutSentinel(d) \/ CreateScope(d),
         RowsSound', NoCycle', OthersAlone(d.id), ScopeOK(d.id)',
         scopes[d.id].sentinel => scopes'[d.id].sentinel,
         formation = "distributed" =>
           \A m \in replays[d.id].pre : \/ scopes'[d.id].keys[m] = scopes[d.id].keys[m]
                                        \/ scopes'[d.id].keys[m] = archive[replays[d.id].source].dump[m],
         \A e \in drives' : e \notin drives => HydrationOK(e)'
  PROVE  DataSound'
<1>1. RowsStill /\ archive' = archive /\ Kept
  BY DriveStill, StillKept
<1>2. UNCHANGED <<instances, sent>>
  BY DEF PutCarried, PutShadow, PutSentinel, CreateScope
<1>3. ASSUME NEW r \in Requests, r # d.id PROVE ScopeOK(r)'
  BY <1>1, <1>2, <1>3, ScopeKept DEF OthersAlone
<1>4. ASSUME NEW e \in drives PROVE HydrationOK(e)'
  <2>1. e.id \in Requests
    BY DriveSound
  <2>2. CASE e.id = d.id
    BY <1>1, <2>2, HydrationKept
  <2>3. CASE e.id # d.id
    BY <1>1, <2>1, <2>3, HydrationKept DEF OthersAlone
  <2> QED BY <2>2, <2>3
<1>5. \A s \in Runs : DumpOK(s)'
  BY <1>1, DumpKept DEF Present
<1> QED BY <1>3, <1>4, <1>5, DataParts

LEMMA PutFacts ==
  ASSUME Typed, Typed', ReplayInv, NEW d \in drives, NEW n,
         PutCarried(d, n) \/ PutShadow(d) \/ PutSentinel(d) \/ CreateScope(d)
  PROVE  /\ RowsStill /\ archive' = archive /\ Kept /\ instances' = instances /\ UNCHANGED <<sent, rejected>>
         /\ d.id \in Requests /\ Active(d.id) /\ Active(d.id)' /\ born_stalled(d.id)' = born_stalled(d.id)
         /\ Plan(d.id)' = Plan(d.id) /\ Plan(d.id) \subseteq replays[d.id].pre
         /\ replays[d.id].pre \subseteq Nodes /\ replays' = replays
         /\ ScopeOK(d.id) /\ HydrationOK(d) /\ d.at \in {"hydrate", "sentinel"}
         /\ scopes[d.id].keys \in [Nodes -> Runs \cup {0}]
<1>1. RowsStill /\ archive' = archive /\ Kept /\ replays' = replays
  BY DriveStill, StillKept DEF RowsStill
<1>2. UNCHANGED <<instances, sent, rejected>> /\ d.at \in {"hydrate", "sentinel"}
  BY DEF PutCarried, PutShadow, PutSentinel, CreateScope
<1>3. d.id \in Requests /\ Active(d.id)
  BY DriveSound
<1>4. Active(d.id)' /\ born_stalled(d.id)' = born_stalled(d.id) /\ Plan(d.id)' = Plan(d.id)
  BY <1>1, <1>3, ActiveKept, PlanKept
<1>5. Plan(d.id) \subseteq replays[d.id].pre /\ replays[d.id].pre \subseteq Nodes
  BY <1>3, SourceSound DEF Plan, plan_rehydration
<1>6. ScopeOK(d.id) /\ HydrationOK(d)
  BY <1>3 DEF ReplayInv, ScopesSound, ScopeOK, HydrationSound, HydrationOK
<1>7. scopes[d.id].keys \in [Nodes -> Runs \cup {0}]
  BY <1>3 DEF Typed, ScopeRec
<1> QED BY <1>1, <1>2, <1>3, <1>4, <1>5, <1>6, <1>7

LEMMA PutCarriedData ==
  ASSUME Typed, Typed', ReplayInv, NEW d \in drives, NEW n \in d.todo, PutCarried(d, n), RowsSound', NoCycle'
  PROVE  DataSound'
<1> DEFINE i == d.id
           v == archive[replays[i].source].dump
<1>1. /\ OthersAlone(i) /\ n \in Nodes
      /\ scopes'[i].sentinel = scopes[i].sentinel /\ scopes'[i].namespace = "default"
      /\ scopes'[i].keys = [scopes[i].keys EXCEPT ![n] = v[n]]
  BY PutCarriedEffect
<1>2. /\ archive' = archive /\ Kept /\ instances' = instances /\ replays' = replays
      /\ UNCHANGED <<sent, rejected>>
      /\ i \in Requests /\ Active(i) /\ Active(i)' /\ born_stalled(i)' = born_stalled(i)
      /\ Plan(i)' = Plan(i) /\ Plan(i) \subseteq replays[i].pre /\ replays[i].pre \subseteq Nodes
      /\ ScopeOK(i) /\ HydrationOK(d) /\ d.at \in {"hydrate", "sentinel"}
      /\ scopes[i].keys \in [Nodes -> Runs \cup {0}]
  BY PutFacts
<1>3. n \in Plan(i) /\ n \in replays[i].pre /\ formation = "distributed"
  BY <1>2 DEF HydrationOK, PutCarried
<1>4. scopes'[i].keys[n] = v[n] /\ \A m \in Nodes : m # n => scopes'[i].keys[m] = scopes[i].keys[m]
  BY <1>1, <1>2
<1>5. \A m \in replays[i].pre : scopes'[i].keys[m] = scopes[i].keys[m] \/ scopes'[i].keys[m] = v[m]
  BY <1>2, <1>4
<1>6. scopes'[i].sentinel => Carried(i)'
  BY <1>1, <1>2, <1>5, CarriedKept DEF ScopeOK
<1>7. ScopeOK(i)'
  BY <1>1, <1>2, <1>3, <1>4, <1>6 DEF ScopeOK
<1>8. ASSUME NEW e \in drives', e \notin drives PROVE HydrationOK(e)'
  <2>1. e.id = i /\ e.at = "hydrate" /\ e.todo = d.todo \ {n}
    <3>1. d \in Drive /\ e = [d EXCEPT !.todo = @ \ {n}] /\ d.at = "hydrate"
      BY <1>8, DriveSound DEF PutCarried, Advance
    <3> QED BY <3>1 DEF Drive
  <2>2. d.todo \subseteq Plan(i) /\ \A m \in Plan(i) \ d.todo : scopes[i].keys[m] = v[m]
    BY <1>2, <1>3 DEF HydrationOK
  <2>3. \A m \in Plan(i) \ e.todo : scopes'[i].keys[m] = v[m]
    BY <1>2, <1>4, <2>1, <2>2
  <2>4. formation' = "distributed" /\ e.todo \subseteq Plan(i)
    BY <1>2, <1>3, <2>1, <2>2 DEF Kept
  <2> QED BY <1>2, <2>1, <2>3, <2>4 DEF HydrationOK
<1> QED BY <1>1, <1>5, <1>7, <1>8, PutData

LEMMA PutShadowData ==
  ASSUME Typed, Typed', ReplayInv, NEW d \in drives, PutShadow(d), RowsSound', NoCycle'
  PROVE  DataSound'
<1> DEFINE i == d.id
<1>1. /\ OthersAlone(i) /\ scopes'[i].sentinel = scopes[i].sentinel
      /\ scopes'[i].namespace = "default" /\ scopes'[i].keys = scopes[i].keys
  BY PutShadowEffect
<1>2. /\ archive' = archive /\ Kept /\ instances' = instances /\ replays' = replays
      /\ UNCHANGED <<sent, rejected>>
      /\ i \in Requests /\ Active(i) /\ Active(i)' /\ born_stalled(i)' = born_stalled(i)
      /\ Plan(i)' = Plan(i) /\ ScopeOK(i) /\ HydrationOK(d)
  BY PutFacts
<1>3. scopes'[i].sentinel => Carried(i)'
  BY <1>1, <1>2, CarriedKept DEF ScopeOK
<1>4. ScopeOK(i)'
  BY <1>1, <1>2, <1>3 DEF ScopeOK
<1>5. formation = "distributed" /\ formation' = "distributed" /\ d.at = "hydrate" /\ d.todo = {}
  BY DEF PutShadow
<1>6. ASSUME NEW e \in drives', e \notin drives PROVE HydrationOK(e)'
  <2>1. d \in Drive /\ e = [d EXCEPT !.at = "sentinel"]
    BY <1>6, DriveSound DEF PutShadow, Advance
  <2>2. e.id = i /\ e.at = "sentinel" /\ e.todo = {}
    BY <1>5, <2>1 DEF Drive
  <2> QED BY <1>1, <1>2, <1>5, <2>2 DEF HydrationOK
<1> QED BY <1>1, <1>4, <1>6, PutData

LEMMA PutSentinelData ==
  ASSUME Typed, Typed', ReplayInv, NEW d \in drives, PutSentinel(d), RowsSound', NoCycle'
  PROVE  DataSound'
<1> DEFINE i == d.id
<1>1. /\ OthersAlone(i) /\ scopes'[i].sentinel = TRUE
      /\ scopes'[i].namespace = "default" /\ scopes'[i].keys = scopes[i].keys
  BY PutSentinelEffect
<1>2. /\ archive' = archive /\ Kept /\ instances' = instances /\ replays' = replays
      /\ UNCHANGED <<sent, rejected>>
      /\ i \in Requests /\ Active(i) /\ Active(i)' /\ born_stalled(i)' = born_stalled(i)
      /\ Plan(i)' = Plan(i) /\ ScopeOK(i) /\ HydrationOK(d) /\ d.at \in {"hydrate", "sentinel"}
  BY PutFacts
<1>3. formation = "distributed" /\ d.todo = {}
  BY DEF PutSentinel
<1>4. Carried(i)
  <2> SUFFICES ASSUME NEW n \in replays[i].pre, archive[replays[i].source].ground[n] = "Success"
      PROVE  scopes[i].keys[n] = LastRan(i, n)
    BY DEF Carried
  <2>1. n \in Plan(i) /\ archive[replays[i].source].dump[n] = LastRan(i, n)
    BY <1>2, PlanCovers
  <2> QED BY <1>2, <1>3, <2>1 DEF HydrationOK
<1>5. Carried(i)'
  BY <1>1, <1>2, <1>4, CarriedKept
<1>6. ScopeOK(i)'
  BY <1>1, <1>2, <1>5 DEF ScopeOK
<1>7. ASSUME NEW e \in drives', e \notin drives PROVE HydrationOK(e)'
  <2>1. d \in Drive /\ e = AfterHydration(d)
    BY <1>7, DriveSound DEF PutSentinel, Advance
  <2>2. e.id = i /\ e.at \in {"resume", "settle"}
    BY <2>1, AfterHydrationIs
  <2> QED BY <1>1, <2>2 DEF HydrationOK
<1> QED BY <1>1, <1>6, <1>7, PutData

LEMMA CreateScopeData ==
  ASSUME Typed, Typed', ReplayInv, NEW d \in drives, CreateScope(d), RowsSound', NoCycle'
  PROVE  DataSound'
<1> DEFINE i == d.id
<1>1. /\ archive' = archive /\ Kept /\ instances' = instances /\ replays' = replays
      /\ UNCHANGED <<sent, rejected>>
      /\ i \in Requests /\ Active(i) /\ Active(i)' /\ born_stalled(i)' = born_stalled(i)
      /\ Plan(i)' = Plan(i) /\ Plan(i) \subseteq replays[i].pre /\ replays[i].pre \subseteq Nodes
      /\ ScopeOK(i) /\ HydrationOK(d)
  BY PutFacts
<1>2. formation = "lite" /\ d.at = "hydrate"
  BY DEF CreateScope
<1>3. d.todo = Plan(i)
  BY <1>1, <1>2 DEF HydrationOK
<1>4. OthersAlone(i)
  BY CreateScopeEffect
<1>5. ScopeOK(i)' /\ scopes'[i].sentinel
  <2>1. CASE scopes'[i] = scopes[i] /\ scopes[i].namespace = "replay"
    BY <1>1, <2>1, ScopeKept DEF ScopeOK
  <2>2. CASE /\ scopes'[i].sentinel = TRUE /\ scopes'[i].namespace = "replay"
             /\ scopes[i].namespace # "default"
             /\ \A m \in Nodes : scopes'[i].keys[m] =
                  IF m \in d.todo THEN archive[replays[i].source].dump[m] ELSE 0
    <3>1. Carried(i)'
      <4> SUFFICES ASSUME NEW n \in replays[i].pre, archive[replays[i].source].ground[n] = "Success"
          PROVE  scopes'[i].keys[n] = LastRan(i, n)'
        BY <1>1 DEF Carried
      <4>1. n \in Plan(i) /\ archive[replays[i].source].dump[n] = LastRan(i, n)
        BY <1>1, PlanCovers
      <4>2. LastRan(i, n)' = LastRan(i, n)
        BY <1>1, LastKept DEF Active, Rowed
      <4> QED BY <1>1, <1>3, <2>2, <4>1, <4>2
    <3>2. \A n \in Nodes \ replays[i].pre : ~(instances[i].phase # "absent" /\ instances[i].ground[n] = "Success")
      BY <1>1, <2>2 DEF ScopeOK
    <3> QED BY <1>1, <2>2, <3>1, <3>2 DEF ScopeOK
  <2> QED BY <2>1, <2>2, CreateScopeEffect
<1>6. ASSUME NEW e \in drives', e \notin drives PROVE HydrationOK(e)'
  <2>1. d \in Drive /\ e = [AfterHydration(d) EXCEPT !.todo = {}]
    BY <1>6, DriveSound DEF CreateScope, Advance
  <2>2. e.id = i /\ e.at \in {"resume", "settle"}
    BY <2>1, AfterHydrationIs
  <2> QED BY <1>5, <2>2 DEF HydrationOK
<1> QED BY <1>2, <1>4, <1>5, <1>6, PutData

LEMMA TaskScope ==
  ASSUME Typed, NEW r \in Requests, NEW n \in Nodes,
         TaskSucceeds(r, n) \/ TaskFails(r, n) \/ LaunchRefused(r, n)
  PROVE  /\ OthersAlone(r) /\ scopes'[r].sentinel = scopes[r].sentinel
         /\ scopes'[r].namespace \in {scopes[r].namespace, "default"}
         /\ \A m \in Nodes : m # n => scopes'[r].keys[m] = scopes[r].keys[m]
         /\ TaskSucceeds(r, n) => scopes'[r].keys[n] = r /\ scopes'[r].namespace = "default"
<1>1. scopes[r] \in ScopeRec
  BY DEF Typed
<1>2. CASE TaskSucceeds(r, n)
  <2> DEFINE k == [scopes[r].keys EXCEPT ![n] = r]
             new == [scopes[r] EXCEPT !.namespace = "default", !.keys = k]
  <2>1. scopes' = [scopes EXCEPT ![r] = new]
    BY <1>1, <1>2 DEF TaskSucceeds, Typed, ScopeRec, Opened
  <2>2. k[n] = r /\ \A m \in Nodes : m # n => k[m] = scopes[r].keys[m]
    BY <1>1 DEF ScopeRec
  <2> HIDE DEF k
  <2>3. new.sentinel = scopes[r].sentinel /\ new.namespace = "default" /\ new.keys = k
    BY <1>1 DEF ScopeRec
  <2> HIDE DEF new
  <2>4. scopes'[r] = new /\ OthersAlone(r)
    BY <2>1 DEF Typed, OthersAlone
  <2> QED BY <2>2, <2>3, <2>4
<1>3. CASE ~TaskSucceeds(r, n) /\ TaskFails(r, n)
  <2> DEFINE new == [scopes[r] EXCEPT !.namespace = "default"]
  <2>1. scopes' = [scopes EXCEPT ![r] = new]
    BY <1>3 DEF TaskFails, Opened
  <2>2. new.sentinel = scopes[r].sentinel /\ new.namespace = "default" /\ new.keys = scopes[r].keys
    BY <1>1 DEF ScopeRec
  <2> HIDE DEF new
  <2>3. scopes'[r] = new /\ OthersAlone(r)
    BY <2>1 DEF Typed, OthersAlone
  <2> QED BY <1>3, <2>2, <2>3
<1>4. CASE ~TaskSucceeds(r, n) /\ LaunchRefused(r, n)
  BY <1>4 DEF LaunchRefused, OthersAlone
<1> QED BY <1>2, <1>3, <1>4

LEMMA TaskData ==
  ASSUME Typed, Typed', ReplayInv, NEW r \in Requests, NEW n \in Nodes,
         TaskSucceeds(r, n) \/ TaskFails(r, n) \/ LaunchRefused(r, n), RowsSound', NoCycle'
  PROVE  DataSound'
<1>1. RowsStill /\ archive' = archive /\ Kept /\ replays' = replays
  BY TaskStill, StillKept DEF RowsStill
<1>2. UNCHANGED <<drives, sent, rejected>>
  BY DEF TaskSucceeds, TaskFails, LaunchRefused
<1>3. /\ Fires(r, n) /\ instances'[r].phase = instances[r].phase /\ instances[r].phase = "running"
      /\ \A x \in Requests : x # r => instances'[x] = instances[x]
  BY TaskEffect
<1>4. PICK v \in {"Success", "Failed"} :
        /\ v = "Success" <=> TaskSucceeds(r, n)
        /\ instances'[r].ground = [instances[r].ground EXCEPT ![n] = v]
  BY TaskEffect
<1>5. instances'[r].ground[n] = v /\ \A m \in Nodes : m # n => instances'[r].ground[m] = instances[r].ground[m]
  BY <1>4, GroundTypes
<1>6. Active(r) /\ n \notin replays[r].pre /\ replays[r].pre \subseteq Nodes
  BY <1>3, FiresFireable, SourceSound
<1>7. /\ OthersAlone(r) /\ scopes'[r].sentinel = scopes[r].sentinel
      /\ scopes'[r].namespace \in {scopes[r].namespace, "default"}
      /\ \A m \in Nodes : m # n => scopes'[r].keys[m] = scopes[r].keys[m]
      /\ TaskSucceeds(r, n) => scopes'[r].keys[n] = r /\ scopes'[r].namespace = "default"
  BY TaskScope
<1>8. \A m \in replays[r].pre : scopes'[r].keys[m] = scopes[r].keys[m]
  BY <1>6, <1>7
<1>9. ASSUME NEW x \in Requests PROVE ScopeOK(x)'
  <2>1. CASE x # r
    BY <1>1, <1>2, <1>3, <1>7, <2>1, ScopeKept DEF OthersAlone
  <2>2. CASE x = r
    <3>1. ScopeOK(r)
      BY DEF ReplayInv, ScopesSound, ScopeOK
    <3>2. scopes'[r].sentinel => Carried(r)'
      BY <1>1, <1>6, <1>7, <1>8, <3>1, CarriedKept DEF ScopeOK
    <3>3. Active(r)' /\ born_stalled(r)' = born_stalled(r)
      BY <1>1, <1>6, ActiveKept
    <3>4. ASSUME NEW m \in Nodes \ replays'[r].pre, instances'[r].ground[m] = "Success"
          PROVE  scopes'[r].keys[m] = r /\ scopes'[r].namespace = "default"
      <4>1. CASE m = n
        BY <1>4, <1>5, <1>7, <3>4, <4>1
      <4>2. CASE m # n
        BY <1>1, <1>3, <1>5, <1>7, <3>1, <3>4, <4>2 DEF ScopeOK
      <4> QED BY <4>1, <4>2
    <3> QED BY <1>2, <1>3, <1>7, <2>2, <3>1, <3>2, <3>3, <3>4 DEF ScopeOK
  <2> QED BY <2>1, <2>2
<1>10. ASSUME NEW d \in drives PROVE HydrationOK(d)'
  <2>1. d.id \in Requests
    BY DriveSound
  <2>2. CASE d.id = r
    BY <1>1, <1>7, <1>8, <2>2, HydrationKept
  <2>3. CASE d.id # r
    BY <1>1, <1>7, <2>1, <2>3, HydrationKept DEF OthersAlone
  <2> QED BY <2>2, <2>3
<1>11. \A s \in Runs : DumpOK(s)'
  BY <1>1, DumpKept DEF Present
<1> QED BY <1>2, <1>9, <1>10, <1>11, DataParts

LEMMA EndScope ==
  ASSUME Typed, NEW r \in Requests, RunEnds(r)
  PROVE  /\ OthersAlone(r) /\ scopes'[r].sentinel = scopes[r].sentinel
         /\ scopes'[r].namespace \in {scopes[r].namespace, "default"}
         /\ scopes'[r].keys = scopes[r].keys
<1>1. scopes[r] \in ScopeRec
  BY DEF Typed
<1> DEFINE new == [scopes[r] EXCEPT !.namespace = "default"]
<1>2. scopes' = [scopes EXCEPT ![r] = new] \/ scopes' = scopes
  BY DEF RunEnds, Opened
<1>3. new.sentinel = scopes[r].sentinel /\ new.namespace = "default" /\ new.keys = scopes[r].keys
  BY <1>1 DEF ScopeRec
<1> HIDE DEF new
<1> QED BY <1>2, <1>3 DEF Typed, OthersAlone

LEMMA EndData ==
  ASSUME Typed, Typed', ReplayInv, NEW r \in Requests, RunEnds(r), RowsSound', NoCycle'
  PROVE  DataSound'
<1>1. /\ RowsStill /\ Kept /\ ~Present(r) /\ replays' = replays
      /\ \A s \in Runs : s # r => archive'[s] = archive[s]
  BY EndStill DEF RowsStill
<1>2. /\ instances[r].phase \in {"stalled", "running"} /\ instances'[r].phase = "ended"
      /\ \A x \in Requests : x # r => instances'[x] = instances[x]
      /\ \A x \in Requests : instances'[x].ground = instances[x].ground
      /\ archive'[r] \in {archive[r], Closed(r)}
      /\ UNCHANGED <<drives, sent, rejected>>
  BY EndEffect
<1>3. /\ OthersAlone(r) /\ scopes'[r].sentinel = scopes[r].sentinel
      /\ scopes'[r].namespace \in {scopes[r].namespace, "default"}
      /\ scopes'[r].keys = scopes[r].keys
  BY EndScope
<1>4. Active(r) /\ ScopeOK(r)
  BY <1>2 DEF ReplayInv, InstancesSound, ScopesSound, ScopeOK
<1>5. Active(r)' /\ born_stalled(r)' = born_stalled(r)
  BY <1>1, <1>4, ActiveKept
<1>6. scopes'[r].sentinel => Carried(r)'
  BY <1>1, <1>3, <1>4, CarriedKept DEF ScopeOK
<1>7. ScopeOK(r)'
  BY <1>1, <1>2, <1>3, <1>4, <1>5, <1>6 DEF ScopeOK
<1>8. ASSUME NEW x \in Requests, x # r PROVE ScopeOK(x)'
  BY <1>1, <1>2, <1>3, <1>8, ScopeKept DEF OthersAlone
<1>9. ASSUME NEW d \in drives PROVE HydrationOK(d)'
  <2>1. d.id \in Requests
    BY DriveSound
  <2>2. CASE d.id = r
    BY <1>1, <1>3, <2>2, HydrationKept
  <2>3. CASE d.id # r
    BY <1>1, <1>3, <2>1, <2>3, HydrationKept DEF OthersAlone
  <2> QED BY <2>2, <2>3
<1>10. ASSUME NEW s \in Runs PROVE DumpOK(s)'
  <2>1. CASE archive'[s] = archive[s]
    BY <1>1, <2>1, DumpKept DEF Present
  <2>2. CASE archive'[s] # archive[s]
    <3>1. s = r /\ archive'[r] = Closed(r)
      BY <1>1, <1>2, <2>2
    <3>2. r # Origin
      BY ReplayAssumption
    <3> SUFFICES ASSUME scopes[r].sentinel, NEW n \in Nodes, Closed(r).ground[n] = "Success"
        PROVE  scopes[r].keys[n] = IF n \in replays'[r].pre THEN LastRan(r, n)' ELSE r
      BY <3>1, <3>2 DEF DumpOK, Closed
    <3>3. instances[r].ground[n] = "Success"
      BY DEF Closed
    <3>4. CASE n \in replays[r].pre
      <4>1. replays[r].pre = Nodes \ Closure(r)
        BY <1>4, SourceSound
      <4>2. archive[replays[r].source].ground[n] = "Success"
        BY <1>2, <3>3, <3>4, <4>1 DEF ReplayInv, RunsTheSeed
      <4>3. scopes[r].keys[n] = LastRan(r, n)
        BY <1>4, <3>4, <4>2 DEF ScopeOK, Carried
      <4>4. LastRan(r, n)' = LastRan(r, n)
        BY <1>1, <1>4, LastKept DEF Active, Rowed
      <4> QED BY <1>1, <3>4, <4>3, <4>4
    <3>5. CASE n \notin replays[r].pre
      BY <1>1, <1>2, <1>4, <3>3, <3>5 DEF ScopeOK
    <3> QED BY <3>4, <3>5
  <2> QED BY <2>1, <2>2
<1> QED BY <1>2, <1>7, <1>8, <1>9, <1>10, DataParts

-----------------------------------------------------------------------------
(* The invariant *)

LEMMA StepKinds ==
  ASSUME Typed, ReplayInv, [Next]_vars
  PROVE  \/ Paced
         \/ \E c : Reading(c)
         \/ \E c : Inserting(c)
         \/ \E d \in drives : \/ SendTrigger(d) \/ SendResume(d) \/ CreateScopeRejected(d)
                              \/ PutShadow(d) \/ PutSentinel(d) \/ CreateScope(d)
                              \/ \E n \in d.todo : PutCarried(d, n)
         \/ \E r \in Requests : \/ RunEnds(r) \/ ArriveTrigger(r) \/ ArriveResume(r)
                                \/ \E n \in Nodes : TaskSucceeds(r, n) \/ TaskFails(r, n) \/ LaunchRefused(r, n)
<1>1. CASE UNCHANGED vars
  BY <1>1, StandingPaced
<1>2. ASSUME NEW r \in Requests, Request(r) PROVE \E c : Reading(c)
  BY <1>2, RequestReads
<1>3. ASSUME NEW r \in Requests, Redrive(r) \/ LeaseExpires(r) PROVE Paced
  BY <1>3, RedrivePaced, ExpiryPaced
<1>4. ASSUME NEW c \in calls, insert_replay_lifecycle(c) PROVE Paced \/ \E x : Inserting(x)
  BY <1>4, ConflictPaced, InsertInserts
<1>5. ASSUME NEW d \in drives, DriveStep(d) \/ DriveFails(d)
      PROVE  \/ Paced
             \/ \/ SendTrigger(d) \/ SendResume(d) \/ CreateScopeRejected(d)
                \/ PutShadow(d) \/ PutSentinel(d) \/ CreateScope(d)
                \/ \E n \in d.todo : PutCarried(d, n)
  BY <1>5, DrivePaced DEF DriveStep
<1>6. CASE lease_replays
  BY <1>6, LeasePaced
<1>7. CASE Crash
  BY <1>7, CrashPaced
<1>8. ASSUME NEW s \in sent, SignalLost(s) PROVE Paced
  BY <1>8, LossPaced
<1> QED BY <1>1, <1>2, <1>3, <1>4, <1>5, <1>6, <1>7, <1>8 DEF Next

LEMMA InvIs == ReplayInv <=> ControlSound /\ GraphSound /\ RunsTheSeed /\ DataSound
BY DEF ReplayInv, ControlSound, DataSound

LEMMA ControlHasRows == ControlSound' => RowsSound' /\ NoCycle' /\ InstancesSound'
BY DEF ControlSound

LEMMA InvPreserved ==
  ASSUME Typed, Typed', ReplayInv, [Next]_vars
  PROVE  ReplayInv'
<1> SUFFICES ControlSound' /\ GraphSound' /\ RunsTheSeed' /\ DataSound'
  BY DEF ReplayInv, ControlSound, DataSound
<1>1. CASE Paced
  <2>1. Kept /\ ControlSound'
    BY <1>1, PacedKept, PacedControl
  <2>2. GraphSound' /\ RunsTheSeed'
    BY <1>1, <2>1, GraphKept DEF Paced
  <2>3. DataSound'
    BY <1>1, <2>1, ControlHasRows, PacedData DEF Paced
  <2> QED BY <2>1, <2>2, <2>3
<1>2. ASSUME NEW c, Reading(c) PROVE ControlSound' /\ GraphSound' /\ RunsTheSeed' /\ DataSound'
  <2>1. Kept /\ ControlSound'
    BY <1>2, ReadingKept, ReadingControl
  <2>2. GraphSound' /\ RunsTheSeed'
    BY <1>2, <2>1, GraphKept DEF Reading
  <2>3. DataSound'
    BY <1>2, <2>1, ControlHasRows, PacedData DEF Reading
  <2> QED BY <2>1, <2>2, <2>3
<1>3. ASSUME NEW c, Inserting(c) PROVE ControlSound' /\ GraphSound' /\ RunsTheSeed' /\ DataSound'
  <2>1. Kept /\ ControlSound'
    BY <1>3, InsertingKept, InsertingControl
  <2>2. GraphSound' /\ RunsTheSeed'
    BY <1>3, <2>1, GraphKept DEF Inserting
  <2>3. \A e \in drives' : e \in drives \/ e.at \in {"load", "trigger"}
    BY <1>3 DEF Inserting, NewDrive
  <2>4. DataSound'
    BY <1>3, <2>1, <2>3, ControlHasRows, PacedData DEF Inserting
  <2> QED BY <2>1, <2>2, <2>4
<1>4. ASSUME NEW d \in drives, SendTrigger(d) \/ SendResume(d) \/ CreateScopeRejected(d)
      PROVE  ControlSound' /\ GraphSound' /\ RunsTheSeed' /\ DataSound'
  <2>1. Kept /\ archive' = archive /\ instances' = instances
    BY <1>4, DriveStill, StillKept DEF SendTrigger, SendResume, CreateScopeRejected
  <2>2. ControlSound'
    BY <1>4, SendControl, PutControl
  <2> QED BY <1>4, <2>1, <2>2, GraphKept, SendData, RejectedData, ControlHasRows
<1>5. ASSUME NEW r \in Requests, ArriveTrigger(r) \/ ArriveResume(r)
      PROVE  ControlSound' /\ GraphSound' /\ RunsTheSeed' /\ DataSound'
  BY <1>5, TriggerControl, TriggerGraph, TriggerData, ResumeControl, ResumeGraph, ResumeData,
     ControlHasRows
<1>6. ASSUME NEW d \in drives, NEW n,
             PutCarried(d, n) \/ PutShadow(d) \/ PutSentinel(d) \/ CreateScope(d)
      PROVE  ControlSound' /\ GraphSound' /\ RunsTheSeed'
  <2>1. Kept /\ archive' = archive /\ instances' = instances
    BY <1>6, PutFacts
  <2> QED BY <1>6, <2>1, PutControl, GraphKept
<1>7. ASSUME NEW d \in drives, PutShadow(d) \/ PutSentinel(d) \/ CreateScope(d) PROVE DataSound'
  BY <1>6, <1>7, PutShadowData, PutSentinelData, CreateScopeData, ControlHasRows
<1>8. ASSUME NEW d \in drives, NEW n \in d.todo, PutCarried(d, n) PROVE DataSound'
  BY <1>6, <1>8, PutCarriedData, ControlHasRows
<1>9. ASSUME NEW r \in Requests, RunEnds(r)
      PROVE  ControlSound' /\ GraphSound' /\ RunsTheSeed' /\ DataSound'
  BY <1>9, EndControl, EndGraph, EndData, ControlHasRows
<1>10. ASSUME NEW r \in Requests, NEW n \in Nodes,
              TaskSucceeds(r, n) \/ TaskFails(r, n) \/ LaunchRefused(r, n)
       PROVE  ControlSound' /\ GraphSound' /\ RunsTheSeed' /\ DataSound'
  BY <1>10, TaskControl, TaskGraph, TaskData, ControlHasRows
<1> QED
  BY <1>1, <1>2, <1>3, <1>4, <1>5, <1>6, <1>7, <1>8, <1>9, <1>10, StepKinds

LEMMA InitInv == Init => ReplayInv
<1> SUFFICES ASSUME Init PROVE ReplayInv
  OBVIOUS
<1>1. PICK a \in Archives, found \in BOOLEAN :
        /\ edges = a.edges
        /\ archive = [r \in Runs |->
            IF r = Origin /\ found
            THEN [NoArchive EXCEPT !.present = TRUE, !.ground = a.ground,
                    !.dump = [n \in Nodes |-> IF a.ground[n] = "Success" THEN Origin ELSE 0]]
            ELSE NoArchive]
  BY DEF Init
<1> DEFINE dump == [n \in Nodes |-> IF a.ground[n] = "Success" THEN Origin ELSE 0]
           full == [NoArchive EXCEPT !.present = TRUE, !.ground = a.ground, !.dump = dump]
<1>2. full.present = TRUE /\ full.ground = a.ground /\ full.dump = dump /\ full.parent = 0
  BY DEF NoArchive
<1>3. NoArchive.present = FALSE /\ NoArchive.parent = 0
  BY DEF NoArchive
<1>4. archive = [r \in Runs |-> IF r = Origin /\ found THEN full ELSE NoArchive]
  BY <1>1
<1>5. /\ IsFiniteSet(a.edges) /\ Executed(a.edges, a.ground)
      /\ \A n \in Nodes : a.ground[n] # "Pending"
  BY ArchiveAssumption
<1>6. \A n \in Nodes : a.ground[n] = "Success" => dump[n] = Origin
  OBVIOUS
<1> HIDE DEF full, dump
<1>7. ASSUME NEW s \in Runs
      PROVE  /\ archive[s].parent = 0
             /\ Present(s) => s = Origin /\ archive[s].ground = a.ground /\ archive[s].dump = dump
  BY <1>2, <1>3, <1>4 DEF Present
<1>8. \A r \in Requests : replays[r] = NoReplay /\ scopes[r] = NoScope /\ instances[r].phase = "absent"
  BY DEF Init
<1>9. \A r \in Requests : /\ replays[r].status = "none" /\ replays[r].lease = "none"
                          /\ ~scopes[r].sentinel /\ scopes[r].namespace = "none"
  BY <1>8 DEF NoReplay, NoScope
<1>10. calls = {} /\ drives = {} /\ sent = {}
  BY DEF Init
<1>11. Requests \subseteq Runs /\ Origin \in Runs /\ Origin \notin Requests
  BY ReplayAssumption DEF Runs
<1>12. RowsSound /\ CallsSound /\ NoCycle /\ DrivesSound /\ HydrationSound
  BY <1>9, <1>10 DEF RowsSound, CallsSound, NoCycle, DrivesSound, HydrationSound, Rowed, Active
<1>13. InstancesSound /\ OriginSound /\ RunsTheSeed
  BY <1>7, <1>8, <1>9, <1>10, <1>11 DEF InstancesSound, OriginSound, RunsTheSeed, Active
<1>14. GraphSound
  BY <1>1, <1>5, <1>7, <1>8 DEF GraphSound
<1>15. ScopesSound
  BY <1>8, <1>9, <1>10 DEF ScopesSound
<1>16. DumpsSound
  BY <1>6, <1>7 DEF DumpsSound
<1> QED BY <1>12, <1>13, <1>14, <1>15, <1>16 DEF ReplayInv

(* The inductive invariant. *)
THEOREM InvariantHolds == Spec => [](Typed /\ ReplayInv)
<1>1. Init => Typed /\ ReplayInv
  BY InitTyped, InitInv
<1>2. Typed /\ ReplayInv /\ [Next]_vars => Typed' /\ ReplayInv'
  BY NextTyped, InvPreserved
<1> QED BY <1>1, <1>2, PTL DEF Spec

-----------------------------------------------------------------------------
(* Theorems *)

(* The rows, drives, scopes and runs hold values of their types. *)
THEOREM TypeCorrect == Spec => []TypeOK
BY InvariantHolds, TypedIs, PTL

(* insert_replay_lifecycle: the unique index keeps a key single although the  *)
(* lookup of every request may come before the insert of every other.         *)
THEOREM KeyIsSingle == Spec => []OneReplayPerKey
<1>1. Init => OneReplayPerKey
  <2>1. Init => \A r \in Requests : replays[r] = NoReplay
    BY DEF Init
  <2>2. NoReplay.status = "none"
    BY DEF NoReplay
  <2> QED BY <2>1, <2>2 DEF OneReplayPerKey
<1>2. ASSUME Typed, ReplayInv, OneReplayPerKey, [Next]_vars PROVE OneReplayPerKey'
  <2>1. ASSUME \A r \in Requests : /\ replays'[r].key = replays[r].key
                                   /\ replays'[r].source = replays[r].source
                                   /\ Rowed(r)' => Rowed(r)
        PROVE  OneReplayPerKey'
    BY <1>2, <2>1 DEF OneReplayPerKey, Rowed
  <2>2. CASE Paced
    BY <2>1, <2>2 DEF Paced, RowsPaced, SameSeed, Rowed
  <2>3. CASE replays' = replays
    BY <2>1, <2>3 DEF Rowed
  <2>4. ASSUME NEW c, Inserting(c) PROVE OneReplayPerKey'
    <3>1. /\ c.id \in Requests /\ replays'[c.id] = NewRow(c)
          /\ \A r \in Requests : r # c.id => replays'[r] = replays[r]
      BY <1>2, <2>4, NewRowIs
    <3>2. replays'[c.id].source = c.source /\ replays'[c.id].key = c.key
      BY <3>1 DEF NewRow
    <3>3. ASSUME NEW r \in Requests, replays[r].status # "none", replays[r].source = c.source,
                 replays[r].key = c.key, c.key # NoKey
          PROVE  FALSE
      BY <2>4, <3>3 DEF Inserting, Conflict, replay_by_idempotency
    <3> QED BY <1>2, <3>1, <3>2, <3>3 DEF OneReplayPerKey
  <2>5. ASSUME NEW c, Reading(c) PROVE OneReplayPerKey'
    BY <2>3, <2>5 DEF Reading
  <2>6. ASSUME NEW d \in drives, NEW n, SendTrigger(d) \/ SendResume(d) \/ PutCarried(d, n)
                                        \/ PutShadow(d) \/ PutSentinel(d) \/ CreateScope(d)
                                        \/ CreateScopeRejected(d)
        PROVE  OneReplayPerKey'
    BY <2>3, <2>6, DriveStill DEF RowsStill
  <2>7. ASSUME NEW r \in Requests, NEW n \in Nodes,
               TaskSucceeds(r, n) \/ TaskFails(r, n) \/ LaunchRefused(r, n)
        PROVE  OneReplayPerKey'
    BY <2>3, <2>7, TaskStill DEF RowsStill
  <2>8. ASSUME NEW r \in Requests, RunEnds(r) PROVE OneReplayPerKey'
    BY <1>2, <2>3, <2>8, EndStill DEF RowsStill
  <2>9. ASSUME NEW r \in Requests, ArriveTrigger(r) \/ ArriveResume(r) PROVE OneReplayPerKey'
    BY <2>3, <2>9, ArriveStill DEF RowsStill
  <2> QED BY <1>2, <2>2, <2>4, <2>5, <2>6, <2>7, <2>8, <2>9, StepKinds
<1> QED BY <1>1, <1>2, InvariantHolds, PTL DEF Spec

(* perform_drive_effects: unless the store rejected its scope, a born-Stalled *)
(* run executes only with its sentinel written and every carried output the   *)
(* one of the run that last executed the Task, however the drives, re-drives, *)
(* lost signals, crashes and replays of replays mix.                          *)
THEOREM ScopeBeforeRun == Spec => []ScopeReadyBeforeRun
<1>1. ASSUME Typed, ReplayInv PROVE ScopeReadyBeforeRun
  <2> SUFFICES ASSUME NEW r \in Requests, instances[r].phase = "running", born_stalled(r),
                      r \notin rejected
      PROVE  /\ scopes[r].sentinel
             /\ \A n \in replays[r].pre :
                  instances[r].ground[n] = "Success" => scopes[r].keys[n] = LastRan(r, n)
    BY DEF ScopeReadyBeforeRun
  <2>1. scopes[r].sentinel /\ Active(r) /\ Carried(r)
    BY <1>1 DEF ReplayInv, ScopesSound
  <2>2. replays[r].pre = Nodes \ Closure(r)
    BY <1>1, <2>1, SourceSound
  <2>3. \A n \in replays[r].pre : instances[r].ground[n] = archive[replays[r].source].ground[n]
    BY <1>1, <2>2 DEF ReplayInv, RunsTheSeed
  <2> QED BY <2>1, <2>3 DEF Carried
<1> QED BY <1>1, InvariantHolds, PTL

(* default_resume_from: the default frontier fires, in the replay of a replay *)
(* as in the first one.                                                       *)
THEOREM DefaultFires == Spec => []DefaultResumeFires
<1>1. ASSUME ReplayInv PROVE DefaultResumeFires
  BY <1>1 DEF ReplayInv, GraphSound, Present, Executed, DefaultResumeFires, Fireability,
              default_resume_from
<1> QED BY <1>1, InvariantHolds, PTL

(* A run without failures in which nothing fires has run what can fire. *)
LEMMA QuietRunsAll ==
  ASSUME Typed, ReplayInv, NEW r \in Requests, Quiet(r),
         \A n \in Nodes \ replays[r].pre : instances[r].ground[n] # "Failed"
  PROVE  \A n \in Fireable(r) : instances[r].ground[n] # "Pending"
<1> DEFINE s == replays[r].source
           g == archive[s].ground
           h == instances[r].ground
           C == Closure(r)
           F == Fireable(r)
           roots == replays[r].roots
           D == {n \in C : h[n] # "Pending"}
           X == {n \in C : h[n] = "Pending" /\ g[n] = "Success"}
<1>1. instances[r].phase = "running" /\ Active(r)
  BY DEF Quiet, ReplayInv, InstancesSound
<1>2. /\ s \in Runs /\ Present(s) /\ replays[r].pre = Nodes \ C /\ C \subseteq Nodes
      /\ roots \subseteq C
  BY <1>1, SourceSound
<1>3. \A n \in Nodes : /\ n \notin C => h[n] = g[n]
                       /\ n \in C => h[n] \in {"Pending", "Success", "Failed"}
  BY <1>1 DEF ReplayInv, RunsTheSeed
<1>4. \A n \in C : h[n] \in {"Pending", "Success"}
  BY <1>2, <1>3
<1>5. edges \in EdgeSet /\ Executed(edges, g)
  BY <1>2, GroundTypes DEF ReplayInv, GraphSound
<1>6. \A n \in roots : has_all_success_incident_edge(edges, g, n)
  <2>1. Seeded(s, roots, replays[r].pre)
    BY <1>1 DEF ReplayInv, RowsSound
  <2>2. Fireability(edges, g, roots) = "ok"
    BY <2>1 DEF Seeded
  <2> QED BY <2>2 DEF Fireability
<1>7. \A n \in Nodes : h[n] = "Pending" => ~has_all_success_incident_edge(edges, h, n)
  BY <1>1 DEF Quiet, Fires
<1>8. C = forward_closure(edges, roots) /\ F = fireable(edges, g, roots)
  BY DEF Closure, Fireable
<1>9. IsFiniteSet(edges) /\ IsFiniteSet(Nodes) /\ (\A d \in edges : d.targets \subseteq Nodes)
      /\ roots \in SUBSET Nodes
  BY GroundTypes, ReplayAssumption DEF EdgeSet, Typed, ReplayRec
<1> HIDE DEF s, g, h, C, F, roots
<1>10. ASSUME NEW e \in edges, e.sources # {}, NEW n \in e.targets, n \in C, h[n] = "Pending",
              \A x \in e.sources : x \in D \/ (x \notin X /\ Succeeded(g, x))
       PROVE  FALSE
  <2>1. ASSUME NEW x \in e.sources PROVE Succeeded(h, x)
    <3>1. x = Start \/ x \in Nodes
      BY <1>5 DEF EdgeSet
    <3>2. x \in D \/ (x \notin X /\ Succeeded(g, x))
      BY <1>10
    <3> QED BY <1>3, <1>4, <3>1, <3>2 DEF Succeeded
  <2> QED BY <1>2, <1>7, <1>10, <2>1 DEF has_all_success_incident_edge
<1>11. X = {}
  <2>1. SUFFICES ASSUME X # {} PROVE FALSE
    OBVIOUS
  <2>2. X \in SUBSET {n \in Nodes : g[n] = "Success"}
    BY <1>2
  <2>3. PICK n \in X : \E e \in edges : /\ n \in e.targets /\ e.sources # {}
                                        /\ \A x \in e.sources : x \notin X /\ Succeeded(g, x)
    <3> HIDE DEF X
    <3> QED BY <1>5, <2>1, <2>2 DEF Executed
  <2> QED BY <1>10, <2>3
<1>12. roots \subseteq D
  <2> SUFFICES ASSUME NEW n \in roots, n \notin D PROVE FALSE
    OBVIOUS
  <2>1. n \in C /\ h[n] = "Pending"
    BY <1>2
  <2> QED BY <1>6, <1>10, <1>11, <2>1 DEF has_all_success_incident_edge
<1>13. Ready(edges, g, roots, D) \subseteq D
  <2> SUFFICES ASSUME NEW n \in Ready(edges, g, roots, D), n \notin D PROVE FALSE
    OBVIOUS
  <2>1. n \in C /\ h[n] = "Pending"
    BY <1>8 DEF Ready
  <2>2. PICK e \in edges : /\ n \in e.targets /\ e.sources # {}
                           /\ \A x \in e.sources : x \in D \/ Succeeded(g, x)
    BY DEF Ready
  <2> QED BY <1>10, <1>11, <2>1, <2>2
<1>14. F \subseteq D
  <2> HIDE DEF D
  <2> QED BY <1>8, <1>9, <1>12, <1>13, FireableFixpoint
<1> QED BY <1>14 DEF F, h

(* validate_fireability: the doom enumeration names exactly the nodes a       *)
(* replay without failures leaves waiting, in every graph.                    *)
THEOREM DoomExact == Spec => []DoomedExactly
<1>1. ASSUME Typed, ReplayInv PROVE DoomedExactly
  <2> SUFFICES ASSUME NEW r \in Requests, instances[r].phase = "running"
      PROVE  LET blocked == doomed(edges, archive[replays[r].source].ground, replays[r].roots)
                 waiting == {n \in Nodes : instances[r].ground[n] = "Pending"}
             IN  /\ blocked \subseteq waiting
                 /\ Quiet(r) /\ (\A n \in Nodes \ replays[r].pre : instances[r].ground[n] # "Failed")
                    => waiting = blocked
    BY DEF DoomedExactly
  <2> DEFINE blocked == doomed(edges, archive[replays[r].source].ground, replays[r].roots)
             waiting == {n \in Nodes : instances[r].ground[n] = "Pending"}
  <2>1. blocked = Closure(r) \ Fireable(r)
    BY DEF doomed, Closure, Fireable
  <2>2. Active(r)
    BY <1>1 DEF ReplayInv, InstancesSound
  <2>3. Closure(r) \subseteq Nodes /\ replays[r].source \in Runs /\ Present(replays[r].source)
    BY <1>1, <2>2, SourceSound
  <2>4. \A n \in Nodes :
          /\ n \notin Closure(r) => instances[r].ground[n] = archive[replays[r].source].ground[n]
          /\ n \in Closure(r) => instances[r].ground[n] = "Pending" \/ n \in Fireable(r)
    BY <1>1 DEF ReplayInv, RunsTheSeed
  <2>5. \A n \in Nodes : archive[replays[r].source].ground[n] # "Pending"
    BY <1>1, <2>3 DEF ReplayInv, GraphSound
  <2>6. blocked \subseteq waiting
    BY <2>1, <2>3, <2>4
  <2>7. ASSUME Quiet(r), \A n \in Nodes \ replays[r].pre : instances[r].ground[n] # "Failed"
        PROVE  waiting \subseteq blocked
    <3>1. \A n \in Fireable(r) : instances[r].ground[n] # "Pending"
      BY <1>1, <2>7, QuietRunsAll
    <3> QED BY <2>1, <2>4, <2>5, <3>1
  <2> QED BY <2>6, <2>7
<1> QED BY <1>1, InvariantHolds, PTL

(* settle_replay_released: no late drive reopens a settled row, and a row     *)
(* tells Released only of a run that left its birth-time stall or whose last  *)
(* signal was sent and is under way or lost.                                  *)
THEOREM ReleaseIsFinal == Spec => ReleasedIsFinal
<1> DEFINE A == \A r \in Requests :
       /\ replays[r].status \in {"Released", "VersionUnresolvable"} => replays'[r] = replays[r]
       /\ replays'[r].status = "Released" => Outbound(r)'
<1>1. ASSUME Typed, ReplayInv, ReplayInv', [Next]_vars PROVE A
  <2>1. \A r \in Requests : replays'[r].status = "Released" => Outbound(r)'
    BY <1>1 DEF ReplayInv, InstancesSound
  <2>2. CASE Paced
    BY <2>1, <2>2 DEF Paced, RowsPaced
  <2>3. CASE replays' = replays
    BY <2>1, <2>3
  <2>4. ASSUME NEW c, Inserting(c) PROVE A
    <3>1. ~Rowed(c.id) /\ \A r \in Requests : r # c.id => replays'[r] = replays[r]
      BY <1>1, <2>4, NewRowIs
    <3> QED BY <2>1, <3>1 DEF Rowed
  <2>5. ASSUME NEW c, Reading(c) PROVE replays' = replays
    BY <2>5 DEF Reading
  <2>6. ASSUME NEW d \in drives, NEW n, SendTrigger(d) \/ SendResume(d) \/ PutCarried(d, n)
                                        \/ PutShadow(d) \/ PutSentinel(d) \/ CreateScope(d)
                                        \/ CreateScopeRejected(d)
        PROVE  replays' = replays
    BY <2>6, DriveStill DEF RowsStill
  <2>7. ASSUME NEW r \in Requests, NEW n \in Nodes,
               TaskSucceeds(r, n) \/ TaskFails(r, n) \/ LaunchRefused(r, n)
        PROVE  replays' = replays
    BY <2>7, TaskStill DEF RowsStill
  <2>8. ASSUME NEW r \in Requests, RunEnds(r) PROVE replays' = replays
    BY <1>1, <2>8, EndStill DEF RowsStill
  <2>9. ASSUME NEW r \in Requests, ArriveTrigger(r) \/ ArriveResume(r) PROVE replays' = replays
    BY <2>9, ArriveStill DEF RowsStill
  <2> HIDE DEF A
  <2> QED BY <1>1, <2>2, <2>3, <2>4, <2>5, <2>6, <2>7, <2>8, <2>9, StepKinds
<1>2. Typed /\ ReplayInv /\ (Typed /\ ReplayInv)' /\ [Next]_vars => [A]_vars
  BY <1>1
<1> HIDE DEF A
<1>3. Spec => [][A]_vars
  BY <1>2, InvariantHolds, PTL DEF Spec
<1> QED BY <1>3 DEF ReleasedIsFinal, A
=============================================================================
