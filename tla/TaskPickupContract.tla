------------------------- MODULE TaskPickupContract -------------------------
(***************************************************************************)
(* Sentences of docs/contracts about cancellation and liveness recovery of *)
(* Tickr Lite, stated over the model of the code.                          *)
(***************************************************************************)
EXTENDS TaskPickup

(* task-liveness-watchdog.md: "Once the deadline is due, the scan submits     *)
(* that exact dispatch key ... as LivenessExpired".  A claim left by an       *)
(* earlier incarnation is resolved once its deadline is due.                  *)
DueClaimSettles ==
  \A t \in Tasks : (Due(t) /\ row[t].owner # epoch)
                      ~> (~Unresolved(t) \/ phase = "down")

(* task-cancellation.md: "Restart scans unresolved fences".  A fence without  *)
(* an owner, left open by an earlier incarnation, is settled.                 *)
OpenFenceSettles ==
  \A t \in Tasks :
     (fence[t].state # "none" /\ fence[t].owner = NoOwner /\ fence[t].recon = "open")
        ~> (fence[t].recon # "open" \/ phase = "down")

(* relay.md: "The inbound published CancelTaskRequest commits a stable        *)
(* task-identity fence in the local writer".                                  *)
RequestCommitsFence ==
  \A t \in Tasks : t \in requested => fence[t].state # "none"

(* task-cancellation.md: "either the fence commits before proof and spawn is  *)
(* denied, or the task handler registers the process before the fence         *)
(* commits".  No process is spawned behind a committed fence.                 *)
FenceOrRegistration ==
  [][\A t \in Tasks : launches'[t] # launches[t] => fence[t].state = "none"]_vars
=============================================================================
