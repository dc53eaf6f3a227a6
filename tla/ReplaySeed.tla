----------------------------- MODULE ReplaySeed -----------------------------
(***************************************************************************)
(* What a replay takes from the run it repeats: which Tasks run again,     *)
(* which keep their outcome, which can never run, and which tickr-ctx keys *)
(* are carried over.  Pure functions of the archived run.                  *)
(*                                                                         *)
(* A graph is a set of hyperedges [sources, targets] over the Tasks and    *)
(* the synthetic start node; ground gives each Task's outcome.             *)
(***************************************************************************)
EXTENDS Naturals, FiniteSets

CONSTANT Nodes   \* the Task nodes of the Workflow

Start == "start"

(* The outcome of a node in an archived graph; start is always grounded. *)
Succeeded(ground, n) == IF n = Start THEN TRUE ELSE ground[n] = "Success"

(* Mutant: cancelled nodes count as failed. *)
default_resume_from_ungrounded(ground) == {n \in Nodes : ground[n] # "Success"}

(* default_resume_from: every failed node. *)
default_resume_from(ground) == {n \in Nodes : ground[n] = "Failed"}

(* The roots and everything downstream of them.  Every round before the      *)
(* last follows an edge not followed before.                                 *)
forward_closure(edges, roots) ==
  LET reached[k \in Nat] ==
        IF k = 0 THEN roots
        ELSE LET near == reached[k - 1]
             IN  near \cup UNION {e.targets : e \in {d \in edges : d.sources \cap near # {}}}
  IN  reached[Cardinality(edges)]

(* Some incident edge has only successful sources. *)
has_all_success_incident_edge(edges, ground, n) ==
  \E e \in edges : /\ n \in e.targets /\ e.sources # {}
                   /\ \A s \in e.sources : Succeeded(ground, s)

(* What the Control plane leaves of a run it executed (external): a failed    *)
(* Task had been fired, and no set of successful Tasks waited for itself.     *)
Executed(edges, ground) ==
  /\ \A n \in Nodes : ground[n] = "Failed" => has_all_success_incident_edge(edges, ground, n)
  /\ \A S \in SUBSET {n \in Nodes : ground[n] = "Success"} : S # {} =>
       \E n \in S : \E e \in edges : /\ n \in e.targets /\ e.sources # {}
                                     /\ \A s \in e.sources : s \notin S /\ Succeeded(ground, s)

(* The typed rejections of validate_fireability, or "ok". *)
Fireability(edges, ground, roots) ==
  IF roots = {} THEN "NoFailedNodes"
  ELSE IF \E n \in roots : ~has_all_success_incident_edge(edges, ground, n)
  THEN "RootUnfireable" ELSE "ok"

(* Mutant: a join counts as fireable when one of its sources is. *)
fireable_by_any(edges, ground, roots) ==
  LET grown[k \in Nat] ==
        IF k = 0 THEN roots
        ELSE LET known == grown[k - 1]
             IN  known \cup {n \in forward_closure(edges, roots) :
                               \E e \in edges : n \in e.targets /\ e.sources \cap known # {}}
  IN  grown[Cardinality(Nodes)]

(* The fixpoint of the doom enumeration: the nodes that run again if         *)
(* everything before them succeeds.                                          *)
fireable(edges, ground, roots) ==
  LET grown[k \in Nat] ==
        IF k = 0 THEN roots
        ELSE LET known == grown[k - 1]
             IN  known \cup {n \in forward_closure(edges, roots) :
                    \E e \in edges : /\ n \in e.targets /\ e.sources # {}
                                     /\ \A s \in e.sources : s \in known \/ Succeeded(ground, s)}
  IN  grown[Cardinality(Nodes)]

(* The nodes the response names as blocked for good. *)
doomed(edges, ground, roots) == forward_closure(edges, roots) \ fireable(edges, ground, roots)

(* Mutant: nodes are reset the way gates are. *)
seeded_ground_idle(edges, ground, roots) ==
  [n \in Nodes |-> IF n \in forward_closure(edges, roots) THEN "Idle" ELSE ground[n]]

(* build_seeded_graph: the closure is pending again, the rest keeps its       *)
(* outcome and, where it has one, is pre-grounded.                            *)
seeded_ground(edges, ground, roots) ==
  [n \in Nodes |-> IF n \in forward_closure(edges, roots) THEN "Pending" ELSE ground[n]]
pre_grounded(edges, ground, roots) ==
  {n \in Nodes : seeded_ground(edges, ground, roots)[n] # "Pending"}

(* A Task writes one key, named for its node.  dump maps a key to the run     *)
(* whose Task instance wrote it (0 where there is none); the chain is the     *)
(* replayed run and the ancestors whose archives can be read.                 *)
(* Mutant: producers are looked up in the replayed run only. *)
plan_rehydration_shallow(dump, chain, source, grounded) ==
  {n \in grounded : dump[n] = source}

plan_rehydration(dump, chain, source, grounded) ==
  {n \in grounded : dump[n] \in chain}
=============================================================================
