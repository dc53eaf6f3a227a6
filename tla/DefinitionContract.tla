------------------------- MODULE DefinitionContract -------------------------
(***************************************************************************)
(* What the build and submission pipelines promise about the versions of   *)
(* one Workflow definition, whatever the leases, workers and processes do. *)
(***************************************************************************)
EXTENDS Naturals, Sequences

VARIABLES status,     \* the lifecycle status of every stored version, in order
          forwarded   \* the versions handed to the relay at least once

Init == status = <<>> /\ forwarded = {}

Become(v, from, to) ==
  status[v] = from /\ status' = [status EXCEPT ![v] = to]

(* A registration stores the next version and asks for its builds. *)
Store == status' = Append(status, "Building") /\ UNCHANGED forwarded

(* The builds of a version settle it, once. *)
Settle(v) ==
  /\ \/ Become(v, "Building", "Ready")
     \/ Become(v, "Building", "BuildFailed")
  /\ UNCHANGED forwarded

(* Only a registration reopens a failed version, and only the newest one. *)
Reopen ==
  /\ status # <<>> /\ Become(Len(status), "BuildFailed", "Building")
  /\ UNCHANGED forwarded

(* A built version is forwarded, perhaps more than once. *)
Forward(v) ==
  /\ status[v] \in {"Ready", "Submitted"}
  /\ forwarded' = forwarded \cup {v} /\ UNCHANGED status

(* A version is submitted only after it was forwarded, and stays so. *)
Submit(v) ==
  /\ v \in forwarded /\ Become(v, "Ready", "Submitted")
  /\ UNCHANGED forwarded

Next == \/ Store \/ Reopen
        \/ \E v \in DOMAIN status : Settle(v) \/ Forward(v) \/ Submit(v)

Spec == Init /\ [][Next]_<<status, forwarded>>
=============================================================================
