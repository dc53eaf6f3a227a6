------------------------- MODULE MCReplayLifecycle -------------------------
(* Archived runs of two Workflows of three Tasks.                             *)
EXTENDS ReplayLifecycle, TLC

CONSTANTS a, b, c

Edge(from, to) == [sources |-> from, targets |-> to]

(* c waits for both arms, or either arm fires it. *)
Join   == {Edge({Start}, {a, b}), Edge({a, b}, {c})}
Either == {Edge({Start}, {a}), Edge({a}, {b}), Edge({a}, {c}), Edge({b}, {c})}

MCArchive(es, ofA, ofB, ofC) ==
  [edges |-> es, ground |-> (a :> ofA @@ b :> ofB @@ c :> ofC)]

(* One arm failed and the other succeeded or was cancelled; the join failed;  *)
(* a Task failed behind the branch.                                           *)
MCArchives == {MCArchive(Join, "Success", "Failed", "Cancelled"),
               MCArchive(Join, "Failed", "Cancelled", "Cancelled"),
               MCArchive(Join, "Success", "Success", "Failed"),
               MCArchive(Either, "Success", "Failed", "Success")}

(* The default frontier under a key, with shadowed inputs. *)
MCInputs == {[resume_from |-> {}, key |-> "k", shadow |-> TRUE]}
=============================================================================
