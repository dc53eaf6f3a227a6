-------------------------- MODULE MCPatchLifecycle --------------------------
(* Two Patches of one instance: the first adds two Tasks, the second none.   *)
EXTENDS PatchLifecycle, TLC

CONSTANTS p, q, i, t, u

MCInstanceOf == [x \in Patches |-> i]
MCTasksOf    == [x \in Patches |-> IF x = 1 THEN {t, u} ELSE {}]
MCSymmetry   == Permutations({p, q}) \cup Permutations({t, u})
=============================================================================
