------------------------ MODULE MCDefinitionLifecycle -----------------------
(* Processes and hashes for the model-checked instances. *)
EXTENDS DefinitionLifecycle, TLC

CONSTANTS p, q, x, y

(* Processes are interchangeable, and so are content hashes. *)
MCSymmetry == Permutations(Processes) \cup Permutations(Contents)
=============================================================================
