---------------------------- MODULE MCTaskPickup ----------------------------
(* Task identities for the model-checked instances. *)
EXTENDS TaskPickupContract, TLC

CONSTANTS a, b

(* Tasks are interchangeable unless one of them is poison. *)
MCSymmetry == Permutations(Tasks)
=============================================================================
