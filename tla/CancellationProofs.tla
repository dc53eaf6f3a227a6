------------------------ MODULE CancellationProofs ------------------------
(* Theorems about what a cancellation acknowledgement and the relay drain of  *)
(* TaskPickup tell, for every set of tasks and of faults.                     *)
EXTENDS TaskPickupProofs

(***************************************************************************)
(* The invariant.                                                          *)
(***************************************************************************)

(* The outbox holds events of the claimed generation only. *)
EventsMatchClaim == \A e \in outbox : row[e[1]].state = "claimed" /\ e[2] = row[e[1]].gen

(* The drain sends what the outbox holds, and marks what it has sent. *)
DrainSound ==
  /\ \A e \in delivered : e[3] \in Kinds => e \in outbox
  /\ fwd.pc \in {"event", "ack"} => fwd.item \in delivered

(* An owner is a past or the present incarnation; the present one owns        *)
(* nothing before its recovery scan is done.                                  *)
OwnersPast == \A t \in Tasks : /\ row[t].owner <= epoch
                               /\ phase = "recovering" => row[t].owner < epoch

(* An owned fence stands against the claim of its owner, and only a fence is  *)
(* acknowledged.                                                              *)
FencesSound == \A t \in Tasks :
  /\ fence[t].owner # NoOwner => /\ fence[t].state = "bound" /\ row[t].state = "claimed"
                                 /\ row[t].gen = fence[t].gen /\ row[t].owner = fence[t].owner
  /\ ack[t] # "none" => fence[t].state # "none"

(* A Task process of this incarnation. *)
AliveHere(t) == proc[t] = "alive" /\ row[t].owner = epoch

(* What run_one and its completion channel say of a process is true of it,    *)
(* and a generation is not settled while its process lives.                   *)
ProcessesSound ==
  /\ \A t \in Tasks : /\ launches[t] = 0 => proc[t] # "alive"
                      /\ completion[t] \in Recons => proc[t] # "alive"
                      /\ AliveHere(t) => Unresolved(t)
  /\ exec.pc \in {"exited", "exitedStop", "removing"} => exec.task \in Tasks /\ proc[exec.task] # "alive"

(* A kill outcome is the fence's, and the process is gone. *)
KillsSound == \A t \in Tasks, g \in Nat :
  <<t, g, "CancelKilled">> \in outcomes =>
     fence[t].state = "bound" /\ fence[t].gen = g /\ proc[t] # "alive"

(* A cancellation that told the owner keeps the others from electing. *)
Waiting(t) == /\ fence[t].state = "bound" /\ fence[t].owner # NoOwner
              /\ t \in token /\ ~Terminal(t, fence[t].gen)

(* What the cancellation future carries across its awaits. *)
CancelSound ==
  /\ phase \in {"down", "recovering"} => cancel.pc = "idle"
  /\ cancel.pc # "idle" => cancel.task \in Tasks /\ fence[cancel.task].state # "none"
  /\ cancel.pc = "wait" => cancel.recon = "open"
  /\ cancel.pc # "idle" /\ cancel.recon = "open" => Waiting(cancel.task)
  /\ cancel.pc # "idle" /\ cancel.recon # "open" => ~AliveHere(cancel.task)
  /\ cancel.pc # "idle" /\ cancel.recon = "Killed" =>
       /\ proc[cancel.task] # "alive"
       /\ \/ <<cancel.task, fence[cancel.task].gen, "CancelKilled">> \in outcomes
          \/ Waiting(cancel.task)

(* A proved claim the handler does not know to be fenced is unsettled and no  *)
(* cancellation that got that far is about it: at most a missed one was.      *)
ProvedFree ==
  exec.pc = "proved" /\ exec.task \notin fenced =>
    /\ Unresolved(exec.task) /\ ack[exec.task] = "none"
    /\ cancel.pc # "idle" => cancel.task # exec.task

(* Together with the types, the claim and the election they are inductive. *)
AckInv == /\ EventsMatchClaim /\ DrainSound /\ OwnersPast /\ FencesSound /\ ProcessesSound
          /\ KillsSound /\ CancelSound /\ ProvedFree
          /\ AckTellsOutcome /\ NoProcessBehindAck /\ DeliveredInOrder

(***************************************************************************)
(* Who changes what: one lemma for each piece of state.                    *)
(***************************************************************************)

(* A row keeps its claim; at most its lease changes. *)
RowKept(u) == /\ row'[u].state = row[u].state /\ row'[u].gen = row[u].gen
              /\ row'[u].owner = row[u].owner

(* The ways a row moves on: staged, rejected or claimed. *)
RowStep(u) ==
  \/ RowKept(u)
  \/ /\ row[u].state = "absent" /\ row'[u].state = "pending" /\ cancel.pc = "idle"
     /\ row'[u].gen = row[u].gen /\ row'[u].owner = row[u].owner
  \/ /\ row[u].state = "pending" /\ row'[u].state = "rejected"
     /\ row'[u].gen = row[u].gen /\ row'[u].owner = row[u].owner
  \/ /\ ClaimPickup(u) /\ Claimable(u) /\ row[u].state = "pending"
     /\ row'[u].state = "claimed" /\ row'[u].gen = row[u].gen + 1 /\ row'[u].owner = epoch

(* A new event row belongs to the claimed generation: Assigned comes with the *)
(* claim, the others only before the generation is settled.                   *)
EventAdded(e) ==
  /\ e[1] \in Tasks /\ row'[e[1]].state = "claimed" /\ e[2] = row'[e[1]].gen
  /\ \/ e[3] = "Assigned" /\ row[e[1]].state = "pending"
     \/ /\ e[3] \in TerminalKinds \cup {"Started"}
        /\ row[e[1]].state = "claimed" /\ RowKept(e[1]) /\ Unresolved(e[1])

(* A new outcome is elected by the executor for a claim it holds, by the      *)
(* recovery scan, or by the settlement of a cancellation.                     *)
OutcomeAdded(x) ==
  /\ x[1] \in Tasks
  /\ \/ /\ LaunchFails(x[1]) \/ ElectExit(x[1])
        /\ row[x[1]].state = "claimed" /\ x[2] = row[x[1]].gen /\ x[3] \in ExitOutcomes
     \/ /\ ReconcileDue(x[1])
        /\ row[x[1]].state = "claimed" /\ x[2] = row[x[1]].gen /\ x[3] \in ExitOutcomes
     \/ /\ CancelSettle(x[1]) /\ x[2] = fence[x[1]].gen
        /\ x[3] = TerminalOutcome(cancel.recon)

(* A fence is bound to the dispatch it waited for, committed, or settled. *)
FenceStep(u) ==
  \/ fence'[u] = fence[u]
  \/ /\ fence[u].state = "unmatched" /\ fence'[u].state = "bound"
     /\ fence'[u].owner = fence[u].owner /\ row[u].state = "absent" /\ cancel.pc = "idle"
  \/ /\ CancelCommit(u) \/ CancelUnconfirmed(u)
     /\ fence[u].state = "none" /\ fence'[u] = FenceFor(u)
  \/ /\ CancelSettle(u) /\ fence'[u].state = fence[u].state
     /\ fence'[u].gen = fence[u].gen /\ fence'[u].owner = fence[u].owner

(* The claim of a row is written once, from pending. *)
LEMMA RowSteps ==
  ASSUME TypeOK, [Next]_vars
  PROVE  \A u \in Tasks : RowStep(u)
<1> DEFINE C == \A u \in Tasks : RowStep(u)
<1> SUFFICES C
  OBVIOUS
<1> USE DEF durable, handler, world, relay
<1>r. row \in [Tasks -> Row] /\ (ClaimsKept => C)
  BY DEF TypeOK, ClaimsKept, RowStep, RowKept
<1>a. UNCHANGED row => C
  BY DEF RowStep, RowKept
<1>1. ASSUME NEW t \in Tasks, StageDispatch(t) PROVE C
  <2>1. \A u \in Tasks : u # t => row'[u] = row[u]
    BY <1>1, <1>r DEF StageDispatch
  <2>2. /\ row[t].state = "absent" /\ row'[t].state = "pending" /\ cancel.pc = "idle"
        /\ row'[t].gen = row[t].gen /\ row'[t].owner = row[t].owner
    BY <1>1, <1>r DEF StageDispatch, RelayFree, Row
  <2> QED
    BY <2>1, <2>2 DEF RowStep, RowKept
<1>2. ASSUME NEW t \in Tasks, RejectPoison(t) PROVE C
  <2>1. \A u \in Tasks : u # t => row'[u] = row[u]
    BY <1>2, <1>r DEF RejectPoison
  <2>2. row[t].state = "pending" =>
          /\ row'[t].state = "rejected" /\ row'[t].gen = row[t].gen
          /\ row'[t].owner = row[t].owner
    BY <1>2, <1>r DEF RejectPoison, Row
  <2>3. row[t].state # "pending" => row'[t] = row[t]
    BY <1>2 DEF RejectPoison
  <2> QED
    BY <2>1, <2>2, <2>3 DEF RowStep, RowKept
<1>3. ASSUME NEW t \in Tasks, ClaimPickup(t) PROVE C
  <2>1. \A u \in Tasks : u # t => row'[u] = row[u]
    BY <1>3, <1>r DEF ClaimPickup
  <2>2. Claimable(t) => /\ row[t].state = "pending" /\ row'[t].state = "claimed"
                        /\ row'[t].gen = row[t].gen + 1 /\ row'[t].owner = epoch
    BY <1>3, <1>r DEF ClaimPickup, Claimable
  <2>3. ~Claimable(t) => row'[t] = row[t]
    BY <1>3 DEF ClaimPickup
  <2> QED
    BY <1>3, <2>1, <2>2, <2>3 DEF RowStep, RowKept
<1>4. ASSUME NEW t \in Tasks, ArmLiveness(t) \/ RenewLiveness(t) \/ DeadlinePasses(t)
       PROVE  C
  <2>1. \/ row' = row
        \/ \E l \in Leases : row' = [row EXCEPT ![t].lease = l]
    BY <1>4 DEF ArmLiveness, RenewLiveness, DeadlinePasses, Leases
  <2>2. ClaimsKept
    BY <1>r, <2>1, LeaseEdit DEF ClaimsKept
  <2> QED
    BY <1>r, <2>2
<1>5. ASSUME NEW t \in Tasks, RegisterExitedStop(t) \/ RegisterFormationStop(t) \/
                              ErrRenewing(t)
       PROVE  C
  <2>1. Registered(t) \/ UNCHANGED row
    BY <1>5 DEF RegisterExitedStop, RegisterFormationStop, ErrRenewing
  <2>2. ClaimsKept
    BY <1>r, <2>1, RegisteredKept
  <2> QED
    BY <1>r, <2>2
<1>6. ASSUME NEW t \in Tasks, SelectPending(t) \/ ProveReady(t) \/
                              LaunchRefused(t) \/ Launch(t) \/ LaunchFails(t) \/
                              StageStarted(t)
       PROVE  C
  BY <1>6, <1>a DEF SelectPending, ProveReady, LaunchRefused, Launch, LaunchFails, StageStarted
<1>7. ASSUME NEW t \in Tasks, ObserveExit(t) \/ ElectExit(t) \/ ExitAfterCancel(t) \/
                              ObserveToken(t) \/ Teardown(t) \/ Deregister(t)
       PROVE  C
  BY <1>7, <1>a DEF ObserveExit, ElectExit, ExitAfterCancel, ObserveToken, Teardown, Deregister
<1>8. ASSUME NEW t \in Tasks, ErrBeforeSpawn(t) \/ ErrWhileRegistered(t) \/
                              ErrElectingExit(t) \/ CancelCommit(t) \/
                              CancelRefused(t) \/
                              CancelUnconfirmed(t) \/ CancelNotify(t) \/ CancelWait(t) \/
                              CancelSettle(t) \/ ReconcileDue(t) \/
                              ProcessExits(t) \/ GuardianKills(t) \/ SendAck(t)
       PROVE  C
  BY <1>8, <1>a DEF ErrBeforeSpawn, ErrWhileRegistered, ErrElectingExit, CancelCommit,
     CancelRefused, CancelUnconfirmed, CancelNotify, CancelWait, CancelSettle, ReconcileDue,
     ProcessExits, GuardianKills, SendAck
<1>9. ASSUME NEW e \in outbox, SendEvent(e) PROVE C
  BY <1>9, <1>a DEF SendEvent
<1>10. CASE CancelAborted \/ RelayConnected \/ RelayLost \/ DrainFails \/
          MarkEventForwarded \/ MarkAckForwarded \/ RecoveryDone \/ Shutdown \/
          StopAll \/ HaltIdle \/ ShutdownDone \/ ShutdownTimedOut \/ Crash \/
          Restart \/ UNCHANGED vars
  BY <1>10, <1>a DEF CancelAborted, RelayConnected, RelayLost, DrainFails, MarkEventForwarded,
     MarkAckForwarded, RecoveryDone, Shutdown, StopAll, HaltIdle, ShutdownDone,
     ShutdownTimedOut, Crash, Restart, ProcessGone, vars
<1> HIDE DEF C
<1> QED
  BY <1>1, <1>2, <1>3, <1>4, <1>5, <1>6, <1>7, <1>8, <1>9, <1>10
     DEF Next, Prepare, Supervise, ExecErr, CancelStep, Drain, Formation

(* An event row is added to an unsettled claim, Assigned with the claim itself. *)
LEMMA EventSteps ==
  ASSUME TypeOK, [Next]_vars
  PROVE  /\ outbox \subseteq outbox'
         /\ \A e \in outbox' : e \in outbox \/ EventAdded(e)
<1> DEFINE C == /\ outbox \subseteq outbox'
                /\ \A e \in outbox' : e \in outbox \/ EventAdded(e)
<1> SUFFICES C
  OBVIOUS
<1> USE DEF durable, handler, world, relay
<1>a. UNCHANGED outbox => C
  OBVIOUS
<1>1. ASSUME NEW t \in Tasks, ClaimPickup(t) PROVE C
  <2>1. CASE ~Claimable(t)
    BY <1>1, <1>a, <2>1 DEF ClaimPickup
  <2>2. CASE Claimable(t)
    <3>1. row[t].state = "pending" /\ row'[t].state = "claimed" /\ row'[t].gen = row[t].gen + 1
      BY <1>1, <2>2 DEF ClaimPickup, Claimable, TypeOK
    <3>2. outbox' = outbox \cup {<<t, row[t].gen + 1, "Assigned">>}
      BY <1>1, <2>2 DEF ClaimPickup
    <3> QED
      BY <3>1, <3>2 DEF EventAdded
  <2> QED
    BY <2>1, <2>2
<1>2. ASSUME NEW t \in Tasks, StageStarted(t) PROVE C
  BY <1>2, <1>a DEF StageStarted, EventAdded, HoldsClaim, RowKept
<1>3. ASSUME NEW t \in Tasks, LaunchFails(t) \/ ElectExit(t)
       PROVE  C
  <2>1. PICK o \in ExitOutcomes : Elected(t, o)
    BY <1>3 DEF LaunchFails, ElectExit, ExitOutcomes
  <2>2. UNCHANGED row /\ EventKind(o) \in TerminalKinds
    BY <1>3 DEF LaunchFails, ElectExit, EventKind, TerminalKinds, ExitOutcomes
  <2> QED
    BY <1>a, <2>1, <2>2 DEF Elected, EventAdded, HoldsClaim, RowKept
<1>4. ASSUME NEW t \in Tasks, ReconcileDue(t) PROVE C
  BY <1>4 DEF ReconcileDue, Due, EventAdded, RowKept, TerminalKinds
<1>5. ASSUME NEW t \in Tasks, StageDispatch(t) \/ SelectPending(t) \/
                              RejectPoison(t) \/ ArmLiveness(t) \/ ProveReady(t) \/
                              LaunchRefused(t) \/ Launch(t) \/ RenewLiveness(t)
       PROVE  C
  BY <1>5, <1>a DEF StageDispatch, SelectPending, RejectPoison, ArmLiveness, ProveReady,
     LaunchRefused, Launch, RenewLiveness
<1>6. ASSUME NEW t \in Tasks, ObserveExit(t) \/ ExitAfterCancel(t) \/
                              RegisterExitedStop(t) \/ ObserveToken(t) \/
                              Teardown(t) \/ Deregister(t) \/ RegisterFormationStop(t)
       PROVE  C
  BY <1>6, <1>a DEF ObserveExit, ExitAfterCancel, RegisterExitedStop, ObserveToken, Teardown,
     Deregister, RegisterFormationStop
<1>7. ASSUME NEW t \in Tasks, ErrBeforeSpawn(t) \/ ErrWhileRegistered(t) \/
                              ErrElectingExit(t) \/ ErrRenewing(t) \/
                              CancelCommit(t) \/ CancelRefused(t) \/ CancelUnconfirmed(t) \/
                              CancelNotify(t) \/ CancelWait(t) \/ CancelSettle(t) \/
                              ProcessExits(t) \/ DeadlinePasses(t) \/
                              GuardianKills(t) \/ SendAck(t)
       PROVE  C
  BY <1>7, <1>a DEF ErrBeforeSpawn, ErrWhileRegistered, ErrElectingExit, ErrRenewing, CancelCommit,
     CancelRefused, CancelUnconfirmed, CancelNotify, CancelWait, CancelSettle, ProcessExits,
     DeadlinePasses, GuardianKills, SendAck
<1>8. ASSUME NEW e \in outbox, SendEvent(e) PROVE C
  BY <1>8, <1>a DEF SendEvent
<1>9. CASE CancelAborted \/ RelayConnected \/ RelayLost \/ DrainFails \/
          MarkEventForwarded \/ MarkAckForwarded \/ RecoveryDone \/ Shutdown \/
          StopAll \/ HaltIdle \/ ShutdownDone \/ ShutdownTimedOut \/ Crash \/
          Restart \/ UNCHANGED vars
  BY <1>9, <1>a DEF CancelAborted, RelayConnected, RelayLost, DrainFails, MarkEventForwarded,
     MarkAckForwarded, RecoveryDone, Shutdown, StopAll, HaltIdle, ShutdownDone,
     ShutdownTimedOut, Crash, Restart, ProcessGone, vars
<1> HIDE DEF C
<1> QED
  BY <1>1, <1>2, <1>3, <1>4, <1>5, <1>6, <1>7, <1>8, <1>9
     DEF Next, Prepare, Supervise, ExecErr, CancelStep, Drain, Formation

(* Who elects an outcome. *)
LEMMA OutcomeSteps ==
  ASSUME TypeOK, [Next]_vars
  PROVE  /\ outcomes \subseteq outcomes'
         /\ \A x \in outcomes' : x \in outcomes \/ OutcomeAdded(x)
<1> DEFINE C == /\ outcomes \subseteq outcomes'
                /\ \A x \in outcomes' : x \in outcomes \/ OutcomeAdded(x)
<1> SUFFICES C
  OBVIOUS
<1> USE DEF durable, handler, world, relay
<1>a. UNCHANGED outcomes => C
  OBVIOUS
<1>1. ASSUME NEW t \in Tasks, LaunchFails(t) \/ ElectExit(t)
       PROVE  C
  BY <1>1 DEF LaunchFails, ElectExit, Elected, OutcomeAdded, HoldsClaim, ExitOutcomes
<1>2. ASSUME NEW t \in Tasks, ReconcileDue(t) PROVE C
  BY <1>2 DEF ReconcileDue, OutcomeAdded, Due, ExitOutcomes
<1>3. ASSUME NEW t \in Tasks, CancelSettle(t) PROVE C
  <2> DEFINE o == TerminalOutcome(cancel.recon)
  <2>1. outcomes' = outcomes \/ outcomes' = outcomes \cup {<<t, fence[t].gen, o>>}
    BY <1>3 DEF CancelSettle, Contended
  <2>2. OutcomeAdded(<<t, fence[t].gen, o>>)
    BY <1>3 DEF OutcomeAdded
  <2> HIDE DEF o
  <2> QED
    BY <2>1, <2>2
<1>4. ASSUME NEW t \in Tasks, StageDispatch(t) \/ SelectPending(t) \/
                              RejectPoison(t) \/ ClaimPickup(t) \/ ArmLiveness(t) \/
                              ProveReady(t) \/ LaunchRefused(t) \/ Launch(t) \/
                              StageStarted(t) \/ RenewLiveness(t)
       PROVE  C
  BY <1>4, <1>a DEF StageDispatch, SelectPending, RejectPoison, ClaimPickup, ArmLiveness,
     ProveReady, LaunchRefused, Launch, StageStarted, RenewLiveness
<1>5. ASSUME NEW t \in Tasks, ObserveExit(t) \/ ExitAfterCancel(t) \/
                              RegisterExitedStop(t) \/ ObserveToken(t) \/
                              Teardown(t) \/ Deregister(t) \/ RegisterFormationStop(t)
       PROVE  C
  BY <1>5, <1>a DEF ObserveExit, ExitAfterCancel, RegisterExitedStop, ObserveToken, Teardown,
     Deregister, RegisterFormationStop
<1>6. ASSUME NEW t \in Tasks, ErrBeforeSpawn(t) \/ ErrWhileRegistered(t) \/
                              ErrElectingExit(t) \/ ErrRenewing(t) \/
                              CancelCommit(t) \/ CancelRefused(t) \/ CancelUnconfirmed(t) \/
                              CancelNotify(t) \/ CancelWait(t) \/ ProcessExits(t) \/
                              DeadlinePasses(t) \/ GuardianKills(t) \/ SendAck(t)
       PROVE  C
  BY <1>6, <1>a DEF ErrBeforeSpawn, ErrWhileRegistered, ErrElectingExit, ErrRenewing, CancelCommit,
     CancelRefused, CancelUnconfirmed, CancelNotify, CancelWait, ProcessExits, DeadlinePasses,
     GuardianKills, SendAck
<1>7. ASSUME NEW e \in outbox, SendEvent(e) PROVE C
  BY <1>7, <1>a DEF SendEvent
<1>8. CASE CancelAborted \/ RelayConnected \/ RelayLost \/ DrainFails \/
          MarkEventForwarded \/ MarkAckForwarded \/ RecoveryDone \/ Shutdown \/
          StopAll \/ HaltIdle \/ ShutdownDone \/ ShutdownTimedOut \/ Crash \/
          Restart \/ UNCHANGED vars
  BY <1>8, <1>a DEF CancelAborted, RelayConnected, RelayLost, DrainFails, MarkEventForwarded,
     MarkAckForwarded, RecoveryDone, Shutdown, StopAll, HaltIdle, ShutdownDone,
     ShutdownTimedOut, Crash, Restart, ProcessGone, vars
<1> HIDE DEF C
<1> QED
  BY <1>1, <1>2, <1>3, <1>4, <1>5, <1>6, <1>7, <1>8
     DEF Next, Prepare, Supervise, ExecErr, CancelStep, Drain, Formation

(* How a fence changes. *)
LEMMA FenceSteps ==
  ASSUME TypeOK, [Next]_vars
  PROVE  \A u \in Tasks : FenceStep(u)
<1> DEFINE C == \A u \in Tasks : FenceStep(u)
<1> SUFFICES C
  OBVIOUS
<1> USE DEF durable, handler, world, relay
<1>f. fence \in [Tasks -> Fence]
  BY DEF TypeOK
<1>a. UNCHANGED fence => C
  BY DEF FenceStep
<1>1. ASSUME NEW t \in Tasks, StageDispatch(t) PROVE C
  <2>1. \A u \in Tasks : u # t => fence'[u] = fence[u]
    BY <1>1, <1>f DEF StageDispatch
  <2>2. \/ fence'[t] = fence[t]
        \/ /\ fence[t].state = "unmatched" /\ fence'[t].state = "bound"
           /\ fence'[t].owner = fence[t].owner
    BY <1>1, <1>f DEF StageDispatch, Fence
  <2>3. row[t].state = "absent" /\ cancel.pc = "idle"
    BY <1>1 DEF StageDispatch, RelayFree
  <2> QED
    BY <2>1, <2>2, <2>3 DEF FenceStep
<1>2. ASSUME NEW t \in Tasks, CancelCommit(t) PROVE C
  <2>1. fence'[t] = FenceFor(t) /\ \A u \in Tasks : u # t => fence'[u] = fence[u]
    BY <1>2, <1>f DEF CancelCommit
  <2>2. fence[t].state # "none" => FenceFor(t) = fence[t]
    BY DEF FenceFor
  <2> QED
    BY <1>2, <2>1, <2>2 DEF FenceStep
<1>9. ASSUME NEW t \in Tasks, CancelUnconfirmed(t) PROVE C
  <2>1. CASE fence' = [fence EXCEPT ![t] = FenceFor(t)]
    <3>1. fence'[t] = FenceFor(t) /\ \A u \in Tasks : u # t => fence'[u] = fence[u]
      BY <2>1, <1>f
    <3>2. fence[t].state # "none" => FenceFor(t) = fence[t]
      BY DEF FenceFor
    <3> QED
      BY <1>9, <3>1, <3>2 DEF FenceStep
  <2> QED
    BY <1>9, <1>a, <2>1 DEF CancelUnconfirmed
<1>3. ASSUME NEW t \in Tasks, CancelSettle(t) PROVE C
  <2>1. \A u \in Tasks : u # t => fence'[u] = fence[u]
    BY <1>3, <1>f DEF CancelSettle
  <2>2. /\ fence'[t].state = fence[t].state /\ fence'[t].gen = fence[t].gen
        /\ fence'[t].owner = fence[t].owner
    BY <1>3, <1>f DEF CancelSettle, Fence
  <2> QED
    BY <1>3, <2>1, <2>2 DEF FenceStep
<1>4. ASSUME NEW t \in Tasks, SelectPending(t) \/ RejectPoison(t) \/
                              ClaimPickup(t) \/ ArmLiveness(t) \/ ProveReady(t) \/
                              LaunchRefused(t) \/ Launch(t) \/ LaunchFails(t) \/
                              StageStarted(t) \/ RenewLiveness(t)
       PROVE  C
  BY <1>4, <1>a DEF SelectPending, RejectPoison, ClaimPickup, ArmLiveness, ProveReady,
     LaunchRefused, Launch, LaunchFails, StageStarted, RenewLiveness
<1>5. ASSUME NEW t \in Tasks, ObserveExit(t) \/ ElectExit(t) \/ ExitAfterCancel(t) \/
                              RegisterExitedStop(t) \/ ObserveToken(t) \/
                              Teardown(t) \/ Deregister(t) \/ RegisterFormationStop(t)
       PROVE  C
  BY <1>5, <1>a DEF ObserveExit, ElectExit, ExitAfterCancel, RegisterExitedStop, ObserveToken,
     Teardown, Deregister, RegisterFormationStop
<1>6. ASSUME NEW t \in Tasks, ErrBeforeSpawn(t) \/ ErrWhileRegistered(t) \/
                              ErrElectingExit(t) \/ ErrRenewing(t) \/
                              CancelRefused(t) \/ CancelNotify(t) \/ CancelWait(t) \/
                              ReconcileDue(t) \/ ProcessExits(t) \/
                              DeadlinePasses(t) \/ GuardianKills(t) \/ SendAck(t)
       PROVE  C
  BY <1>6, <1>a DEF ErrBeforeSpawn, ErrWhileRegistered, ErrElectingExit, ErrRenewing, CancelRefused,
     CancelNotify, CancelWait, ReconcileDue, ProcessExits, DeadlinePasses,
     GuardianKills, SendAck
<1>7. ASSUME NEW e \in outbox, SendEvent(e) PROVE C
  BY <1>7, <1>a DEF SendEvent
<1>8. CASE CancelAborted \/ RelayConnected \/ RelayLost \/ DrainFails \/
          MarkEventForwarded \/ MarkAckForwarded \/ RecoveryDone \/ Shutdown \/
          StopAll \/ HaltIdle \/ ShutdownDone \/ ShutdownTimedOut \/ Crash \/
          Restart \/ UNCHANGED vars
  BY <1>8, <1>a DEF CancelAborted, RelayConnected, RelayLost, DrainFails, MarkEventForwarded,
     MarkAckForwarded, RecoveryDone, Shutdown, StopAll, HaltIdle, ShutdownDone,
     ShutdownTimedOut, Crash, Restart, ProcessGone, vars
<1> HIDE DEF C
<1> QED
  BY <1>1, <1>2, <1>3, <1>4, <1>5, <1>6, <1>7, <1>8, <1>9
     DEF Next, Prepare, Supervise, ExecErr, CancelStep, Drain, Formation

(* Only a settlement acknowledges, and the first one stays. *)
LEMMA AckSteps ==
  ASSUME TypeOK, [Next]_vars
  PROVE  \A u \in Tasks :
            \/ ack'[u] = ack[u]
            \/ /\ CancelSettle(u) /\ ack[u] = "none" /\ ack'[u] = KillOutcome(cancel.recon)
<1> DEFINE C == \A u \in Tasks :
                   \/ ack'[u] = ack[u]
                   \/ /\ CancelSettle(u) /\ ack[u] = "none" /\ ack'[u] = KillOutcome(cancel.recon)
<1> SUFFICES C
  OBVIOUS
<1> USE DEF durable, handler, world, relay
<1>a. UNCHANGED ack => C
  OBVIOUS
<1>1. ASSUME NEW t \in Tasks, CancelSettle(t) PROVE C
  BY <1>1 DEF CancelSettle, TypeOK
<1>2. ASSUME NEW t \in Tasks, StageDispatch(t) \/ SelectPending(t) \/
                              RejectPoison(t) \/ ClaimPickup(t) \/ ArmLiveness(t) \/
                              ProveReady(t) \/ LaunchRefused(t) \/ Launch(t) \/
                              LaunchFails(t) \/ StageStarted(t) \/ RenewLiveness(t)
       PROVE  C
  BY <1>2, <1>a DEF StageDispatch, SelectPending, RejectPoison, ClaimPickup, ArmLiveness,
     ProveReady, LaunchRefused, Launch, LaunchFails, StageStarted, RenewLiveness
<1>3. ASSUME NEW t \in Tasks, ObserveExit(t) \/ ElectExit(t) \/ ExitAfterCancel(t) \/
                              RegisterExitedStop(t) \/ ObserveToken(t) \/
                              Teardown(t) \/ Deregister(t) \/ RegisterFormationStop(t)
       PROVE  C
  BY <1>3, <1>a DEF ObserveExit, ElectExit, ExitAfterCancel, RegisterExitedStop, ObserveToken,
     Teardown, Deregister, RegisterFormationStop
<1>4. ASSUME NEW t \in Tasks, ErrBeforeSpawn(t) \/ ErrWhileRegistered(t) \/
                              ErrElectingExit(t) \/ ErrRenewing(t) \/
                              CancelCommit(t) \/ CancelRefused(t) \/ CancelUnconfirmed(t) \/
                              CancelNotify(t) \/ CancelWait(t) \/ ReconcileDue(t) \/
                              ProcessExits(t) \/ DeadlinePasses(t) \/
                              GuardianKills(t) \/ SendAck(t)
       PROVE  C
  BY <1>4, <1>a DEF ErrBeforeSpawn, ErrWhileRegistered, ErrElectingExit, ErrRenewing, CancelCommit,
     CancelRefused, CancelUnconfirmed, CancelNotify, CancelWait, ReconcileDue, ProcessExits,
     DeadlinePasses, GuardianKills, SendAck
<1>5. ASSUME NEW e \in outbox, SendEvent(e) PROVE C
  BY <1>5, <1>a DEF SendEvent
<1>6. CASE CancelAborted \/ RelayConnected \/ RelayLost \/ DrainFails \/
          MarkEventForwarded \/ MarkAckForwarded \/ RecoveryDone \/ Shutdown \/
          StopAll \/ HaltIdle \/ ShutdownDone \/ ShutdownTimedOut \/ Crash \/
          Restart \/ UNCHANGED vars
  BY <1>6, <1>a DEF CancelAborted, RelayConnected, RelayLost, DrainFails, MarkEventForwarded,
     MarkAckForwarded, RecoveryDone, Shutdown, StopAll, HaltIdle, ShutdownDone,
     ShutdownTimedOut, Crash, Restart, ProcessGone, vars
<1> HIDE DEF C
<1> QED
  BY <1>1, <1>2, <1>3, <1>4, <1>5, <1>6
     DEF Next, Prepare, Supervise, ExecErr, CancelStep, Drain, Formation

(* Only a launch brings a process to life, and counts. *)
LEMMA ProcSteps ==
  ASSUME TypeOK, [Next]_vars
  PROVE  \A u \in Tasks : /\ proc'[u] = "alive" => proc[u] = "alive" \/ Launch(u)
                          /\ launches'[u] = launches[u] \/ Launch(u)
<1> DEFINE C == \A u \in Tasks : /\ proc'[u] = "alive" => proc[u] = "alive" \/ Launch(u)
                                 /\ launches'[u] = launches[u] \/ Launch(u)
<1> SUFFICES C
  OBVIOUS
<1> USE DEF durable, handler, world, relay
<1>a. UNCHANGED <<proc, launches>> => C
  OBVIOUS
<1>1. ASSUME NEW t \in Tasks, Launch(t) PROVE C
  BY <1>1 DEF Launch, TypeOK
<1>2. ASSUME NEW t \in Tasks, ProcessExits(t) PROVE C
  BY <1>2 DEF ProcessExits, TypeOK
<1>3. ASSUME NEW t \in Tasks, GuardianKills(t) PROVE C
  BY <1>3 DEF GuardianKills, TypeOK
<1>4. ASSUME NEW t \in Tasks, Teardown(t) PROVE C
  BY <1>4 DEF Teardown, TypeOK
<1>5. ASSUME NEW t \in Tasks, StageDispatch(t) \/ SelectPending(t) \/
                              RejectPoison(t) \/ ClaimPickup(t) \/ ArmLiveness(t) \/
                              ProveReady(t) \/ LaunchRefused(t) \/ LaunchFails(t) \/
                              StageStarted(t) \/ RenewLiveness(t)
       PROVE  C
  BY <1>5, <1>a DEF StageDispatch, SelectPending, RejectPoison, ClaimPickup, ArmLiveness,
     ProveReady, LaunchRefused, LaunchFails, StageStarted, RenewLiveness
<1>6. ASSUME NEW t \in Tasks, ObserveExit(t) \/ ElectExit(t) \/ ExitAfterCancel(t) \/
                              RegisterExitedStop(t) \/ ObserveToken(t) \/
                              Deregister(t) \/ RegisterFormationStop(t)
       PROVE  C
  BY <1>6, <1>a DEF ObserveExit, ElectExit, ExitAfterCancel, RegisterExitedStop, ObserveToken,
     Deregister, RegisterFormationStop
<1>7. ASSUME NEW t \in Tasks, ErrBeforeSpawn(t) \/ ErrWhileRegistered(t) \/
                              ErrElectingExit(t) \/ ErrRenewing(t) \/
                              CancelCommit(t) \/ CancelRefused(t) \/ CancelUnconfirmed(t) \/
                              CancelNotify(t) \/ CancelWait(t) \/ CancelSettle(t) \/
                              ReconcileDue(t) \/ DeadlinePasses(t) \/ SendAck(t)
       PROVE  C
  BY <1>7, <1>a DEF ErrBeforeSpawn, ErrWhileRegistered, ErrElectingExit, ErrRenewing, CancelCommit,
     CancelRefused, CancelUnconfirmed, CancelNotify, CancelWait, CancelSettle, ReconcileDue,
     DeadlinePasses, SendAck
<1>8. ASSUME NEW e \in outbox, SendEvent(e) PROVE C
  BY <1>8, <1>a DEF SendEvent
<1>9. CASE CancelAborted \/ RelayConnected \/ RelayLost \/ DrainFails \/
          MarkEventForwarded \/ MarkAckForwarded \/ RecoveryDone \/ Shutdown \/
          StopAll \/ HaltIdle \/ ShutdownDone \/ ShutdownTimedOut \/ Crash \/
          Restart \/ UNCHANGED vars
  BY <1>9, <1>a DEF CancelAborted, RelayConnected, RelayLost, DrainFails, MarkEventForwarded,
     MarkAckForwarded, RecoveryDone, Shutdown, StopAll, HaltIdle, ShutdownDone,
     ShutdownTimedOut, Crash, Restart, ProcessGone, vars
<1> HIDE DEF C
<1> QED
  BY <1>1, <1>2, <1>3, <1>4, <1>5, <1>6, <1>7, <1>8, <1>9
     DEF Next, Prepare, Supervise, ExecErr, CancelStep, Drain, Formation

(* A token that was cancelled stays cancelled until the process is gone. *)
LEMMA TokenSteps ==
  ASSUME TypeOK, [Next]_vars
  PROVE  \A u \in token : u \in token' \/ Launch(u) \/ ProcessGone
<1> DEFINE C == \A u \in token : u \in token' \/ Launch(u) \/ ProcessGone
<1> SUFFICES C
  OBVIOUS
<1> USE DEF durable, handler, world, relay
<1>a. UNCHANGED token => C
  OBVIOUS
<1>1. ASSUME NEW t \in Tasks, Launch(t) PROVE C
  BY <1>1 DEF Launch
<1>2. ASSUME NEW t \in Tasks, CancelCommit(t) PROVE C
  BY <1>2 DEF CancelCommit
<1>3. CASE StopAll
  BY <1>3 DEF StopAll
<1>4. CASE ShutdownDone \/ ShutdownTimedOut \/ Crash
  BY <1>4 DEF ShutdownDone, ShutdownTimedOut, Crash
<1>5. ASSUME NEW t \in Tasks, StageDispatch(t) \/ SelectPending(t) \/
                              RejectPoison(t) \/ ClaimPickup(t) \/ ArmLiveness(t) \/
                              ProveReady(t) \/ LaunchRefused(t) \/ LaunchFails(t) \/
                              StageStarted(t) \/ RenewLiveness(t)
       PROVE  C
  BY <1>5, <1>a DEF StageDispatch, SelectPending, RejectPoison, ClaimPickup, ArmLiveness,
     ProveReady, LaunchRefused, LaunchFails, StageStarted, RenewLiveness
<1>6. ASSUME NEW t \in Tasks, ObserveExit(t) \/ ElectExit(t) \/ ExitAfterCancel(t) \/
                              RegisterExitedStop(t) \/ ObserveToken(t) \/
                              Teardown(t) \/ Deregister(t) \/ RegisterFormationStop(t)
       PROVE  C
  BY <1>6, <1>a DEF ObserveExit, ElectExit, ExitAfterCancel, RegisterExitedStop, ObserveToken,
     Teardown, Deregister, RegisterFormationStop
<1>7. ASSUME NEW t \in Tasks, ErrBeforeSpawn(t) \/ ErrWhileRegistered(t) \/
                              ErrElectingExit(t) \/ ErrRenewing(t) \/
                              CancelRefused(t) \/
                              CancelUnconfirmed(t) \/ CancelNotify(t) \/ CancelWait(t) \/
                              CancelSettle(t) \/ ReconcileDue(t) \/
                              ProcessExits(t) \/ DeadlinePasses(t) \/
                              GuardianKills(t) \/ SendAck(t)
       PROVE  C
  BY <1>7, <1>a DEF ErrBeforeSpawn, ErrWhileRegistered, ErrElectingExit, ErrRenewing, CancelRefused,
     CancelUnconfirmed,
     CancelNotify, CancelWait, CancelSettle, ReconcileDue, ProcessExits,
     DeadlinePasses, GuardianKills, SendAck
<1>8. ASSUME NEW e \in outbox, SendEvent(e) PROVE C
  BY <1>8, <1>a DEF SendEvent
<1>9. CASE CancelAborted \/ RelayConnected \/ RelayLost \/ DrainFails \/
          MarkEventForwarded \/ MarkAckForwarded \/ RecoveryDone \/ Shutdown \/
          HaltIdle \/ Restart \/ UNCHANGED vars
  BY <1>9, <1>a DEF CancelAborted, RelayConnected, RelayLost, DrainFails, MarkEventForwarded,
     MarkAckForwarded, RecoveryDone, Shutdown, HaltIdle, Restart, vars
<1> HIDE DEF C
<1> QED
  BY <1>1, <1>2, <1>3, <1>4, <1>5, <1>6, <1>7, <1>8, <1>9
     DEF Next, Prepare, Supervise, ExecErr, CancelStep, Drain, Formation

(* Who reports how a process ended. *)
LEMMA CompletionSteps ==
  ASSUME TypeOK, [Next]_vars
  PROVE  \A u \in Tasks :
            \/ completion'[u] = completion[u] \/ completion'[u] \in {"pending", "dropped"}
            \/ Teardown(u) \/ ExitAfterCancel(u) \/ RegisterExitedStop(u)
<1> DEFINE C == \A u \in Tasks :
                   \/ completion'[u] = completion[u] \/ completion'[u] \in {"pending", "dropped"}
                   \/ Teardown(u) \/ ExitAfterCancel(u) \/ RegisterExitedStop(u)
<1> SUFFICES C
  OBVIOUS
<1> USE DEF durable, handler, world, relay
<1>a. UNCHANGED completion => C
  OBVIOUS
<1>1. ASSUME NEW t \in Tasks, Launch(t) PROVE C
  BY <1>1 DEF Launch, TypeOK
<1>2. ASSUME NEW t \in Tasks, Teardown(t) PROVE C
  BY <1>2 DEF Teardown, TypeOK
<1>3. ASSUME NEW t \in Tasks, ExitAfterCancel(t) PROVE C
  BY <1>3 DEF ExitAfterCancel, TypeOK
<1>4. ASSUME NEW t \in Tasks, RegisterExitedStop(t) PROVE C
  BY <1>4 DEF RegisterExitedStop, TypeOK
<1>5. ASSUME NEW t \in Tasks, ErrWhileRegistered(t) \/ ErrElectingExit(t)
       PROVE  C
  BY <1>5 DEF ErrWhileRegistered, ErrElectingExit, TypeOK
<1>6. CASE ShutdownDone \/ ShutdownTimedOut \/ Crash
  BY <1>6 DEF ShutdownDone, ShutdownTimedOut, Crash, ProcessGone
<1>7. ASSUME NEW t \in Tasks, StageDispatch(t) \/ SelectPending(t) \/
                              RejectPoison(t) \/ ClaimPickup(t) \/ ArmLiveness(t) \/
                              ProveReady(t) \/ LaunchRefused(t) \/ LaunchFails(t) \/
                              StageStarted(t) \/ RenewLiveness(t)
       PROVE  C
  BY <1>7, <1>a DEF StageDispatch, SelectPending, RejectPoison, ClaimPickup, ArmLiveness,
     ProveReady, LaunchRefused, LaunchFails, StageStarted, RenewLiveness
<1>8. ASSUME NEW t \in Tasks, ObserveExit(t) \/ ElectExit(t) \/ ObserveToken(t) \/
                              Deregister(t) \/ RegisterFormationStop(t)
       PROVE  C
  BY <1>8, <1>a DEF ObserveExit, ElectExit, ObserveToken, Deregister, RegisterFormationStop
<1>9. ASSUME NEW t \in Tasks, ErrBeforeSpawn(t) \/ ErrRenewing(t) \/
                              CancelCommit(t) \/ CancelRefused(t) \/ CancelUnconfirmed(t) \/
                              CancelNotify(t) \/ CancelWait(t) \/ CancelSettle(t) \/
                              ReconcileDue(t) \/ ProcessExits(t) \/
                              DeadlinePasses(t) \/ GuardianKills(t) \/ SendAck(t)
       PROVE  C
  BY <1>9, <1>a DEF ErrBeforeSpawn, ErrRenewing, CancelCommit, CancelRefused,
     CancelUnconfirmed, CancelNotify,
     CancelWait, CancelSettle, ReconcileDue, ProcessExits, DeadlinePasses,
     GuardianKills, SendAck
<1>10. ASSUME NEW e \in outbox, SendEvent(e) PROVE C
  BY <1>10, <1>a DEF SendEvent
<1>11. CASE CancelAborted \/ RelayConnected \/ RelayLost \/ DrainFails \/
          MarkEventForwarded \/ MarkAckForwarded \/ RecoveryDone \/ Shutdown \/
          StopAll \/ HaltIdle \/ Restart \/ UNCHANGED vars
  BY <1>11, <1>a DEF CancelAborted, RelayConnected, RelayLost, DrainFails, MarkEventForwarded,
     MarkAckForwarded, RecoveryDone, Shutdown, StopAll, HaltIdle, Restart, vars
<1> HIDE DEF C
<1> QED
  BY <1>1, <1>2, <1>3, <1>4, <1>5, <1>6, <1>7, <1>8, <1>9, <1>10, <1>11
     DEF Next, Prepare, Supervise, ExecErr, CancelStep, Drain, Formation

(* Who takes a process off the registry. *)
LEMMA RunningSteps ==
  ASSUME TypeOK, [Next]_vars
  PROVE  \A u \in running : \/ u \in running' \/ ElectExit(u) \/ ExitAfterCancel(u)
                            \/ Deregister(u) \/ ErrElectingExit(u) \/ ProcessGone
<1> DEFINE C == \A u \in running : \/ u \in running' \/ ElectExit(u) \/ ExitAfterCancel(u)
                                   \/ Deregister(u) \/ ErrElectingExit(u) \/ ProcessGone
<1> SUFFICES C
  OBVIOUS
<1> USE DEF durable, handler, world, relay
<1>a. UNCHANGED running => C
  OBVIOUS
<1>1. ASSUME NEW t \in Tasks, Launch(t) PROVE C
  BY <1>1 DEF Launch
<1>2. ASSUME NEW t \in Tasks, ElectExit(t) \/ ExitAfterCancel(t) \/ Deregister(t) \/
                              ErrElectingExit(t)
       PROVE  C
  BY <1>2 DEF ElectExit, ExitAfterCancel, Deregister, ErrElectingExit
<1>3. CASE ShutdownDone \/ ShutdownTimedOut \/ Crash
  BY <1>3 DEF ShutdownDone, ShutdownTimedOut, Crash
<1>4. ASSUME NEW t \in Tasks, StageDispatch(t) \/ SelectPending(t) \/
                              RejectPoison(t) \/ ClaimPickup(t) \/ ArmLiveness(t) \/
                              ProveReady(t) \/ LaunchRefused(t) \/ LaunchFails(t) \/
                              StageStarted(t) \/ RenewLiveness(t)
       PROVE  C
  BY <1>4, <1>a DEF StageDispatch, SelectPending, RejectPoison, ClaimPickup, ArmLiveness,
     ProveReady, LaunchRefused, LaunchFails, StageStarted, RenewLiveness
<1>5. ASSUME NEW t \in Tasks, ObserveExit(t) \/ RegisterExitedStop(t) \/
                              ObserveToken(t) \/ Teardown(t) \/
                              RegisterFormationStop(t)
       PROVE  C
  BY <1>5, <1>a DEF ObserveExit, RegisterExitedStop, ObserveToken, Teardown, RegisterFormationStop
<1>6. ASSUME NEW t \in Tasks, ErrBeforeSpawn(t) \/ ErrWhileRegistered(t) \/
                              ErrRenewing(t) \/ CancelCommit(t) \/
                              CancelRefused(t) \/
                              CancelUnconfirmed(t) \/ CancelNotify(t) \/ CancelWait(t) \/
                              CancelSettle(t) \/ ReconcileDue(t) \/
                              ProcessExits(t) \/ DeadlinePasses(t) \/
                              GuardianKills(t) \/ SendAck(t)
       PROVE  C
  BY <1>6, <1>a DEF ErrBeforeSpawn, ErrWhileRegistered, ErrRenewing, CancelCommit, CancelRefused,
     CancelUnconfirmed,
     CancelNotify, CancelWait, CancelSettle, ReconcileDue, ProcessExits,
     DeadlinePasses, GuardianKills, SendAck
<1>7. ASSUME NEW e \in outbox, SendEvent(e) PROVE C
  BY <1>7, <1>a DEF SendEvent
<1>8. CASE CancelAborted \/ RelayConnected \/ RelayLost \/ DrainFails \/
          MarkEventForwarded \/ MarkAckForwarded \/ RecoveryDone \/ Shutdown \/
          StopAll \/ HaltIdle \/ Restart \/ UNCHANGED vars
  BY <1>8, <1>a DEF CancelAborted, RelayConnected, RelayLost, DrainFails, MarkEventForwarded,
     MarkAckForwarded, RecoveryDone, Shutdown, StopAll, HaltIdle, Restart, vars
<1> HIDE DEF C
<1> QED
  BY <1>1, <1>2, <1>3, <1>4, <1>5, <1>6, <1>7, <1>8
     DEF Next, Prepare, Supervise, ExecErr, CancelStep, Drain, Formation

(* How run_one comes to the points behind the end of a process. *)
LEMMA ExecSteps ==
  ASSUME TypeOK, [Next]_vars
  PROVE  \/ exec' = exec \/ exec'.pc \notin {"exited", "exitedStop", "removing"}
         \/ \E u \in Tasks : ObserveExit(u) \/ ExitAfterCancel(u) \/ Teardown(u)
<1> DEFINE C == \/ exec' = exec \/ exec'.pc \notin {"exited", "exitedStop", "removing"}
                \/ \E u \in Tasks : ObserveExit(u) \/ ExitAfterCancel(u) \/ Teardown(u)
<1> SUFFICES C
  OBVIOUS
<1> USE DEF durable, handler, world, relay
<1>m. /\ ReturnOk => exec'.pc \in {"idle", "halted"}
      /\ ReturnErr => exec'.pc = "halted"
      /\ \A pc, a : /\ [exec EXCEPT !.pc = pc].pc = pc
                    /\ [exec EXCEPT !.pc = pc, !.after = a].pc = pc
                    /\ Goto(pc) => exec'.pc = pc
  BY ExecMoves DEF TypeOK, Goto
<1>a. UNCHANGED exec => C
  OBVIOUS
<1>1. ASSUME NEW t \in Tasks, SelectPending(t) PROVE C
  BY <1>1 DEF SelectPending
<1>2. ASSUME NEW t \in Tasks, RejectPoison(t) \/ ClaimPickup(t) \/ ArmLiveness(t)
       PROVE  C
  BY <1>2, <1>m DEF RejectPoison, ClaimPickup, ArmLiveness
<1>3. ASSUME NEW t \in Tasks, ProveReady(t) \/ LaunchRefused(t) \/ LaunchFails(t)
       PROVE  C
  BY <1>3, <1>m DEF ProveReady, LaunchRefused, LaunchFails
<1>4. ASSUME NEW t \in Tasks, Launch(t) \/ StageStarted(t) \/ RenewLiveness(t)
       PROVE  C
  BY <1>4, <1>m DEF Launch, StageStarted, RenewLiveness
<1>5. ASSUME NEW t \in Tasks, ObserveExit(t) \/ ExitAfterCancel(t) \/ Teardown(t)
       PROVE  C
  BY <1>5
<1>6. ASSUME NEW t \in Tasks, ElectExit(t) \/ RegisterExitedStop(t) \/
                              RegisterFormationStop(t)
       PROVE  C
  BY <1>6, <1>m DEF ElectExit, RegisterExitedStop, RegisterFormationStop
<1>7. ASSUME NEW t \in Tasks, ObserveToken(t) PROVE C
  <2>1. exec' = [exec EXCEPT !.pc = "teardown", !.after = IF stopping THEN "register" ELSE "ok"]
    BY <1>7 DEF ObserveToken
  <2>2. exec'.pc = "teardown"
    BY <2>1, <1>m
  <2> QED
    BY <2>2
<1>8. ASSUME NEW t \in Tasks, Deregister(t) PROVE C
  <2>1. exec.after \in ExecAfter
    BY DEF TypeOK, ExecType
  <2> QED
    BY <1>8, <1>m, <2>1 DEF Deregister, ExecAfter
<1>9. ASSUME NEW t \in Tasks, ErrBeforeSpawn(t) \/ ErrWhileRegistered(t) \/
                              ErrElectingExit(t) \/ ErrRenewing(t)
       PROVE  C
  BY <1>9, <1>m DEF ErrBeforeSpawn, ErrWhileRegistered, ErrElectingExit, ErrRenewing
<1>10. CASE HaltIdle
  BY <1>10, <1>m DEF HaltIdle
<1>11. CASE ShutdownDone \/ ShutdownTimedOut \/ Crash
  BY <1>11 DEF ShutdownDone, ShutdownTimedOut, Crash, ProcessGone
<1>12. ASSUME NEW t \in Tasks, StageDispatch(t)
        PROVE  C
  BY <1>12, <1>a DEF StageDispatch
<1>13. ASSUME NEW t \in Tasks, CancelCommit(t) \/ CancelRefused(t) \/ CancelUnconfirmed(t) \/
                               CancelNotify(t) \/ CancelWait(t) \/ CancelSettle(t) \/
                               ReconcileDue(t) \/ ProcessExits(t) \/
                               DeadlinePasses(t) \/ GuardianKills(t) \/ SendAck(t)
        PROVE  C
  BY <1>13, <1>a DEF CancelCommit, CancelRefused,
     CancelUnconfirmed, CancelNotify, CancelWait, CancelSettle,
     ReconcileDue, ProcessExits, DeadlinePasses, GuardianKills, SendAck
<1>14. ASSUME NEW e \in outbox, SendEvent(e) PROVE C
  BY <1>14, <1>a DEF SendEvent
<1>15. CASE CancelAborted \/ RelayConnected \/ RelayLost \/ DrainFails \/
          MarkEventForwarded \/ MarkAckForwarded \/ RecoveryDone \/ Shutdown \/
          StopAll \/ Restart \/ UNCHANGED vars
  BY <1>15, <1>a DEF CancelAborted, RelayConnected, RelayLost, DrainFails, MarkEventForwarded,
     MarkAckForwarded, RecoveryDone, Shutdown, StopAll, Restart, vars
<1> HIDE DEF C
<1> QED
  BY <1>1, <1>2, <1>3, <1>4, <1>5, <1>6, <1>7, <1>8, <1>9, <1>10, <1>11, <1>12,
     <1>13, <1>14, <1>15
     DEF Next, Prepare, Supervise, ExecErr, CancelStep, Drain, Formation

(* How the cancellation future moves on. *)
LEMMA CancelSteps ==
  ASSUME TypeOK, [Next]_vars
  PROVE  \/ cancel' = cancel \/ cancel'.pc = "idle"
         \/ \E u \in Tasks : CancelCommit(u) \/ CancelNotify(u) \/ CancelWait(u)
<1> DEFINE C == \/ cancel' = cancel \/ cancel'.pc = "idle"
                \/ \E u \in Tasks : CancelCommit(u) \/ CancelNotify(u) \/ CancelWait(u)
<1> SUFFICES C
  OBVIOUS
<1> USE DEF durable, handler, world, relay
<1>a. UNCHANGED cancel => C
  OBVIOUS
<1>1. ASSUME NEW t \in Tasks, CancelCommit(t) \/ CancelNotify(t) \/ CancelWait(t)
       PROVE  C
  BY <1>1
<1>2. ASSUME NEW t \in Tasks, CancelSettle(t) PROVE C
  BY <1>2 DEF CancelSettle, CancelIdle
<1>3. CASE CancelAborted
  BY <1>3 DEF CancelAborted, CancelIdle
<1>4. CASE ShutdownDone \/ ShutdownTimedOut \/ Crash
  BY <1>4 DEF ShutdownDone, ShutdownTimedOut, Crash, ProcessGone, CancelIdle
<1>5. ASSUME NEW t \in Tasks, StageDispatch(t) \/ SelectPending(t) \/
                              RejectPoison(t) \/ ClaimPickup(t) \/ ArmLiveness(t) \/
                              ProveReady(t) \/ LaunchRefused(t) \/ Launch(t) \/
                              LaunchFails(t) \/ StageStarted(t) \/ RenewLiveness(t)
       PROVE  C
  BY <1>5, <1>a DEF StageDispatch, SelectPending, RejectPoison, ClaimPickup, ArmLiveness,
     ProveReady, LaunchRefused, Launch, LaunchFails, StageStarted, RenewLiveness
<1>6. ASSUME NEW t \in Tasks, ObserveExit(t) \/ ElectExit(t) \/ ExitAfterCancel(t) \/
                              RegisterExitedStop(t) \/ ObserveToken(t) \/
                              Teardown(t) \/ Deregister(t) \/ RegisterFormationStop(t)
       PROVE  C
  BY <1>6, <1>a DEF ObserveExit, ElectExit, ExitAfterCancel, RegisterExitedStop, ObserveToken,
     Teardown, Deregister, RegisterFormationStop
<1>7. ASSUME NEW t \in Tasks, ErrBeforeSpawn(t) \/ ErrWhileRegistered(t) \/
                              ErrElectingExit(t) \/ ErrRenewing(t) \/
                              CancelRefused(t) \/ CancelUnconfirmed(t) \/ ReconcileDue(t) \/
                              ProcessExits(t) \/ DeadlinePasses(t) \/
                              GuardianKills(t) \/ SendAck(t)
       PROVE  C
  BY <1>7, <1>a DEF ErrBeforeSpawn, ErrWhileRegistered, ErrElectingExit, ErrRenewing, CancelRefused,
     CancelUnconfirmed,
     ReconcileDue, ProcessExits, DeadlinePasses, GuardianKills, SendAck
<1>8. ASSUME NEW e \in outbox, SendEvent(e) PROVE C
  BY <1>8, <1>a DEF SendEvent
<1>9. CASE RelayConnected \/ RelayLost \/ DrainFails \/ MarkEventForwarded \/
          MarkAckForwarded \/ RecoveryDone \/ Shutdown \/ StopAll \/ HaltIdle \/
          Restart \/ UNCHANGED vars
  BY <1>9, <1>a DEF RelayConnected, RelayLost, DrainFails, MarkEventForwarded, MarkAckForwarded,
     RecoveryDone, Shutdown, StopAll, HaltIdle, Restart, vars
<1> HIDE DEF C
<1> QED
  BY <1>1, <1>2, <1>3, <1>4, <1>5, <1>6, <1>7, <1>8, <1>9
     DEF Next, Prepare, Supervise, ExecErr, CancelStep, Drain, Formation

(* How one incarnation follows another. *)
LEMMA PhaseSteps ==
  ASSUME TypeOK, PickupInv, [Next]_vars
  PROVE  \/ ProcessGone /\ phase' = "down"
         \/ Restart
         \/ RecoveryDone
         \/ phase' = phase /\ epoch' = epoch
         \/ Working /\ Working' /\ epoch' = epoch
<1> DEFINE C == \/ ProcessGone /\ phase' = "down"
                \/ Restart
                \/ RecoveryDone
                \/ phase' = phase /\ epoch' = epoch
                \/ Working /\ Working' /\ epoch' = epoch
<1> SUFFICES C
  OBVIOUS
<1> USE DEF durable, handler, world, relay
<1>p. (exec.pc # "idle" => Working) /\ (phase' = "stopping" => Working')
  BY DEF PickupInv, RegistryMatchesExec, Working, TypeOK
<1>a. UNCHANGED <<phase, epoch>> => C
  OBVIOUS
<1>1. ASSUME NEW t \in Tasks, RejectPoison(t) \/ ArmLiveness(t) \/ ProveReady(t) \/
                              LaunchRefused(t) \/ ClaimPickup(t)
       PROVE  C
  BY <1>1, <1>p DEF RejectPoison, ArmLiveness, ProveReady, LaunchRefused, ClaimPickup, ReturnOk, ReturnErr, ExecAt, Goto
<1>2. ASSUME NEW t \in Tasks, LaunchFails(t) \/ ElectExit(t) \/ ExitAfterCancel(t) \/
                              RegisterExitedStop(t) \/ RegisterFormationStop(t)
       PROVE  C
  BY <1>2, <1>p DEF LaunchFails, ElectExit, ExitAfterCancel, RegisterExitedStop,
     RegisterFormationStop, ReturnOk
<1>3. ASSUME NEW t \in Tasks, Deregister(t) PROVE C
  <2>1. exec.after \in ExecAfter
    BY DEF TypeOK, ExecType
  <2> QED
    BY <1>3, <1>p, <2>1 DEF Deregister, ExecAfter, ExecAt, ReturnOk, ReturnErr
<1>4. ASSUME NEW t \in Tasks, ErrBeforeSpawn(t) \/ ErrWhileRegistered(t) \/
                              ErrElectingExit(t)
       PROVE  C
  BY <1>4, <1>p DEF ErrBeforeSpawn, ErrWhileRegistered, ErrElectingExit, ReturnErr, ExecAt
<1>5. CASE RecoveryDone
  BY <1>5
<1>6. CASE Shutdown
  BY <1>6 DEF Shutdown, Working
<1>7. CASE Restart
  BY <1>7
<1>8. CASE ShutdownDone \/ ShutdownTimedOut \/ Crash
  BY <1>8 DEF ShutdownDone, ShutdownTimedOut, Crash, ProcessGone
<1>9. ASSUME NEW t \in Tasks, StageDispatch(t) \/ SelectPending(t) \/ Launch(t) \/
                              StageStarted(t) \/ RenewLiveness(t)
       PROVE  C
  BY <1>9, <1>a DEF StageDispatch, SelectPending, Launch, StageStarted, RenewLiveness
<1>10. ASSUME NEW t \in Tasks, ObserveExit(t) \/ ObserveToken(t) \/ Teardown(t)
        PROVE  C
  BY <1>10, <1>a DEF ObserveExit, ObserveToken, Teardown
<1>11. ASSUME NEW t \in Tasks, ErrRenewing(t) \/ CancelCommit(t) \/
                               CancelRefused(t) \/ CancelUnconfirmed(t) \/ CancelNotify(t) \/
                               CancelWait(t) \/ CancelSettle(t) \/ ReconcileDue(t) \/
                               ProcessExits(t) \/ DeadlinePasses(t) \/
                               GuardianKills(t) \/ SendAck(t)
        PROVE  C
  BY <1>11, <1>a DEF ErrRenewing, CancelCommit, CancelRefused,
     CancelUnconfirmed, CancelNotify, CancelWait,
     CancelSettle, ReconcileDue, ProcessExits, DeadlinePasses, GuardianKills, SendAck
<1>12. ASSUME NEW e \in outbox, SendEvent(e) PROVE C
  BY <1>12, <1>a DEF SendEvent
<1>13. CASE CancelAborted \/ RelayConnected \/ RelayLost \/ DrainFails \/
          MarkEventForwarded \/ MarkAckForwarded \/ StopAll \/ HaltIdle \/
          UNCHANGED vars
  BY <1>13, <1>a DEF CancelAborted, RelayConnected, RelayLost, DrainFails, MarkEventForwarded,
     MarkAckForwarded, StopAll, HaltIdle, vars
<1> HIDE DEF C
<1> QED
  BY <1>1, <1>2, <1>3, <1>4, <1>5, <1>6, <1>7, <1>8, <1>9, <1>10, <1>11, <1>12, <1>13
     DEF Next, Prepare, Supervise, ExecErr, CancelStep, Drain, Formation

(* What the drain does with the outbox. *)
LEMMA DrainSteps ==
  ASSUME TypeOK, [Next]_vars
  PROVE  /\ \/ delivered' = delivered /\ (fwd' = fwd \/ fwd'.pc \notin {"event", "ack"})
            \/ \E e \in outbox : SendEvent(e)
            \/ \E u \in Tasks : SendAck(u)
         /\ forwarded' = forwarded \/ MarkEventForwarded
         /\ ackForwarded' = ackForwarded \/ MarkAckForwarded
<1> DEFINE C == /\ \/ delivered' = delivered /\ (fwd' = fwd \/ fwd'.pc \notin {"event", "ack"})
                   \/ \E e \in outbox : SendEvent(e)
                   \/ \E u \in Tasks : SendAck(u)
                /\ forwarded' = forwarded \/ MarkEventForwarded
                /\ ackForwarded' = ackForwarded \/ MarkAckForwarded
<1> SUFFICES C
  OBVIOUS
<1> USE DEF durable, handler, world, relay
<1>a. UNCHANGED <<delivered, fwd, forwarded, ackForwarded>> => C
  OBVIOUS
<1>1. ASSUME NEW t \in Tasks, SendAck(t) PROVE C
  BY <1>1 DEF SendAck
<1>2. ASSUME NEW t \in Tasks, CancelRefused(t) \/
                              CancelUnconfirmed(t) \/ CancelNotify(t) \/ CancelWait(t)
       PROVE  C
  BY <1>2 DEF CancelRefused, CancelUnconfirmed, CancelNotify, CancelWait, DrainOff
<1>3. ASSUME NEW e \in outbox, SendEvent(e) PROVE C
  BY <1>3 DEF SendEvent
<1>4. CASE CancelAborted \/ RelayConnected \/ RelayLost \/ DrainFails
  BY <1>4 DEF CancelAborted, RelayConnected, RelayLost, DrainFails, DrainOff, DrainIdle, DrainDead
<1>5. CASE MarkEventForwarded \/ MarkAckForwarded
  BY <1>5 DEF MarkEventForwarded, MarkAckForwarded, DrainIdle
<1>6. CASE ShutdownDone \/ ShutdownTimedOut \/ Crash
  BY <1>6 DEF ShutdownDone, ShutdownTimedOut, Crash, ProcessGone, DrainOff
<1>7. ASSUME NEW t \in Tasks, StageDispatch(t) \/ SelectPending(t) \/
                              RejectPoison(t) \/ ClaimPickup(t) \/ ArmLiveness(t) \/
                              ProveReady(t) \/ LaunchRefused(t) \/ Launch(t) \/
                              LaunchFails(t) \/ StageStarted(t) \/ RenewLiveness(t)
       PROVE  C
  BY <1>7, <1>a DEF StageDispatch, SelectPending, RejectPoison, ClaimPickup, ArmLiveness,
     ProveReady, LaunchRefused, Launch, LaunchFails, StageStarted, RenewLiveness
<1>8. ASSUME NEW t \in Tasks, ObserveExit(t) \/ ElectExit(t) \/ ExitAfterCancel(t) \/
                              RegisterExitedStop(t) \/ ObserveToken(t) \/
                              Teardown(t) \/ Deregister(t) \/ RegisterFormationStop(t)
       PROVE  C
  BY <1>8, <1>a DEF ObserveExit, ElectExit, ExitAfterCancel, RegisterExitedStop, ObserveToken,
     Teardown, Deregister, RegisterFormationStop
<1>9. ASSUME NEW t \in Tasks, ErrBeforeSpawn(t) \/ ErrWhileRegistered(t) \/
                              ErrElectingExit(t) \/ ErrRenewing(t) \/
                              CancelCommit(t) \/ CancelSettle(t) \/
                              ReconcileDue(t) \/ ProcessExits(t) \/
                              DeadlinePasses(t) \/ GuardianKills(t)
       PROVE  C
  BY <1>9, <1>a DEF ErrBeforeSpawn, ErrWhileRegistered, ErrElectingExit, ErrRenewing, CancelCommit,
     CancelSettle, ReconcileDue, ProcessExits, DeadlinePasses, GuardianKills
<1>10. CASE RecoveryDone \/ Shutdown \/ StopAll \/ HaltIdle \/ Restart \/ UNCHANGED vars
  BY <1>10, <1>a DEF RecoveryDone, Shutdown, StopAll, HaltIdle, Restart, vars
<1> HIDE DEF C
<1> QED
  BY <1>1, <1>2, <1>3, <1>4, <1>5, <1>6, <1>7, <1>8, <1>9, <1>10
     DEF Next, Prepare, Supervise, ExecErr, CancelStep, Drain, Formation

(***************************************************************************)
(* Every step preserves the invariant, part by part.                       *)
(***************************************************************************)

(* The state the parts are proved from. *)
Held == TypeOK /\ PickupInv /\ OneTerminalOutcome /\ AckInv

(* Only an unsettled, never launched claim of this incarnation is launched,   *)
(* and neither an acknowledgement nor a cancellation is about it.             *)
LEMMA LaunchIsFree ==
  ASSUME TypeOK, PickupInv, ProvedFree, NEW u \in Tasks, Launch(u) \/ LaunchFails(u)
  PROVE  /\ row[u].state = "claimed" /\ row[u].owner = epoch
         /\ Unresolved(u) /\ launches[u] = 0 /\ ack[u] = "none"
         /\ cancel.pc # "idle" => cancel.task # u
<1>1. exec.pc = "proved" /\ exec.task = u /\ u \notin fenced
  BY DEF Launch, LaunchFails, ExecAt, MayLaunch
<1> QED
  BY <1>1 DEF PickupInv, ClaimIsFresh, Unlaunched, ProvedFree

(* A claim is never taken back. *)
LEMMA ClaimStays ==
  ASSUME TypeOK, [Next]_vars, NEW u \in Tasks, row[u].state = "claimed"
  PROVE  row'[u].state = "claimed" /\ RowKept(u)
BY RowSteps DEF RowStep, RowKept

(* A fence is never taken back, and a bound one keeps its generation. *)
LEMMA FenceStays ==
  ASSUME TypeOK, [Next]_vars, NEW u \in Tasks, fence[u].state # "none"
  PROVE  /\ fence'[u].state # "none" /\ fence'[u].owner = fence[u].owner
         /\ fence[u].state = "bound" => fence'[u].state = "bound" /\ fence'[u].gen = fence[u].gen
BY FenceSteps DEF FenceStep

(* A process of a task whose fence is settled or being settled is not brought *)
(* to life.                                                                   *)
LEMMA SettledStaysDead ==
  ASSUME TypeOK, PickupInv, ProvedFree, [Next]_vars, NEW u \in Tasks, proc[u] # "alive",
         \/ fence[u].state = "bound" /\ Terminal(u, fence[u].gen)
         \/ cancel.pc # "idle" /\ cancel.task = u
  PROVE  proc'[u] # "alive"
<1>1. ASSUME Launch(u) PROVE FALSE
  <2>1. row[u].state = "claimed" /\ Unresolved(u) /\ (cancel.pc # "idle" => cancel.task # u)
    BY <1>1, LaunchIsFree
  <2>2. fence[u].state = "bound" => fence[u].gen = row[u].gen
    BY <2>1 DEF PickupInv, FenceMatchesRow
  <2> QED
    BY <2>1, <2>2 DEF Unresolved
<1> QED
  BY <1>1, ProcSteps

(* A live process of this incarnation was launched in this step, or lived     *)
(* before it in the same incarnation.                                         *)
LEMMA AliveBefore ==
  ASSUME Held, [Next]_vars, NEW u \in Tasks, AliveHere(u)', ~Launch(u)
  PROVE  /\ AliveHere(u) /\ epoch' = epoch /\ row[u].state = "claimed" /\ launches[u] # 0
         /\ ~Restart /\ ~RecoveryDone
<1>0. TypeOK /\ PickupInv /\ AckInv
  BY DEF Held
<1>1. proc[u] = "alive"
  BY <1>0, ProcSteps DEF AliveHere
<1>2. launches[u] # 0
  BY <1>0, <1>1 DEF AckInv, ProcessesSound
<1>3. row[u].state = "claimed"
  BY <1>0, <1>2 DEF PickupInv, ClaimIsFresh
<1>4. row'[u].owner = row[u].owner
  BY <1>0, <1>3, ClaimStays DEF RowKept
<1>5. row[u].owner <= epoch /\ (phase = "recovering" => row[u].owner < epoch)
  BY <1>0 DEF AckInv, OwnersPast
<1>6. row[u].owner \in Nat /\ epoch \in Nat
  BY <1>0, RowUpdateType DEF TypeOK
<1>7. ~Restart
  BY <1>4, <1>5, <1>6 DEF Restart, AliveHere
<1>8. epoch' = epoch
  BY <1>0, <1>7, PhaseSteps DEF ProcessGone, RecoveryDone
<1>9. ~RecoveryDone
  BY <1>4, <1>5, <1>6, <1>8 DEF RecoveryDone, AliveHere
<1> QED
  BY <1>1, <1>2, <1>3, <1>4, <1>7, <1>8, <1>9 DEF AliveHere

(* The outbox follows the claims. *)
LEMMA EventsStep == ASSUME Held, [Next]_vars PROVE EventsMatchClaim'
<1>0. TypeOK /\ EventsMatchClaim
  BY DEF Held, AckInv
<1> SUFFICES ASSUME NEW e \in outbox' PROVE row'[e[1]].state = "claimed" /\ e[2] = row'[e[1]].gen
  BY DEF EventsMatchClaim
<1>1. CASE e \in outbox
  <2>1. e[1] \in Tasks
    BY <1>0, <1>1 DEF TypeOK, EventRows
  <2> QED
    BY <1>0, <1>1, <2>1, ClaimStays DEF EventsMatchClaim, RowKept
<1>2. CASE EventAdded(e)
  BY <1>2 DEF EventAdded
<1> QED
  BY <1>0, <1>1, <1>2, EventSteps

(* The drain sends nothing else. *)
LEMMA DrainStep == ASSUME Held, [Next]_vars PROVE DrainSound'
<1>0. TypeOK /\ DrainSound /\ outbox \subseteq outbox'
  BY EventSteps DEF Held, AckInv
<1>1. CASE delivered' = delivered /\ (fwd' = fwd \/ fwd'.pc \notin {"event", "ack"})
  BY <1>0, <1>1 DEF DrainSound
<1>2. ASSUME NEW e \in outbox, SendEvent(e) PROVE DrainSound'
  <2>1. delivered' = delivered \cup {e} /\ fwd'.item = e
    BY <1>2 DEF SendEvent
  <2> QED
    BY <1>0, <1>2, <2>1 DEF DrainSound
<1>3. ASSUME NEW u \in Tasks, SendAck(u) PROVE DrainSound'
  <2>1. delivered' = delivered \cup {AckItem(u)} /\ fwd'.item = AckItem(u)
    BY <1>3 DEF SendAck
  <2>2. AckItem(u)[3] \notin Kinds
    BY DEF AckItem, Kinds
  <2> QED
    BY <1>0, <2>1, <2>2 DEF DrainSound
<1> QED
  BY <1>0, <1>1, <1>2, <1>3, DrainSteps

(* No incarnation claims before its recovery is done. *)
LEMMA OwnersStep == ASSUME Held, TypeOK', [Next]_vars PROVE OwnersPast'
<1>0. TypeOK /\ PickupInv /\ OwnersPast
  BY DEF Held, AckInv
<1> SUFFICES ASSUME NEW u \in Tasks
             PROVE  row'[u].owner <= epoch' /\ (phase' = "recovering" => row'[u].owner < epoch')
  BY DEF OwnersPast
<1>1. row[u].owner \in Nat /\ epoch \in Nat
  BY <1>0, RowUpdateType DEF TypeOK
<1>2. row[u].owner <= epoch /\ (phase = "recovering" => row[u].owner < epoch)
  BY <1>0 DEF OwnersPast
<1>3. CASE ClaimPickup(u) /\ Claimable(u) /\ row'[u].owner = epoch
  <2>1. epoch' = epoch /\ phase' = phase /\ exec.pc = "selected"
    BY <1>3 DEF ClaimPickup, ExecAt
  <2>2. phase # "recovering"
    BY <1>0, <2>1 DEF PickupInv, RegistryMatchesExec
  <2> QED
    BY <1>1, <1>3, <2>1, <2>2
<1>4. CASE row'[u].owner = row[u].owner
  <2>1. CASE Restart
    BY <1>1, <1>2, <1>4, <2>1 DEF Restart
  <2>2. CASE ~Restart
    <3>1. epoch' = epoch /\ (phase' = "recovering" => phase = "recovering")
      BY <1>0, <2>2, PhaseSteps DEF ProcessGone, RecoveryDone, Working
    <3> QED
      BY <1>2, <1>4, <3>1
  <2> QED
    BY <2>1, <2>2
<1> QED
  BY <1>0, <1>3, <1>4, RowSteps DEF RowStep, RowKept

(* What the fence a first request commits says of the row. *)
LEMMA FreshFence ==
  ASSUME TypeOK, NEW u \in Tasks, FenceInsertable(u), fence[u].state = "none"
  PROVE  /\ FenceFor(u).state \in {"unmatched", "bound"} /\ FenceFor(u).recon = "open"
         /\ FenceFor(u).owner # NoOwner =>
              /\ FenceFor(u).state = "bound" /\ row[u].state = "claimed"
              /\ FenceFor(u).gen = row[u].gen /\ FenceFor(u).owner = row[u].owner
<1>1. row[u].state \in {"absent", "pending", "claimed", "rejected"}
  BY DEF TypeOK, Row, RowStates
<1> QED
  BY <1>1 DEF FenceInsertable, FenceFor, NoFence

(* Fences keep standing against the claim of their owner. *)
LEMMA FencesStep == ASSUME Held, [Next]_vars PROVE FencesSound'
<1>0. TypeOK /\ FencesSound /\ CancelSound
  BY DEF Held, AckInv
<1> SUFFICES ASSUME NEW u \in Tasks
             PROVE  /\ fence'[u].owner # NoOwner =>
                         /\ fence'[u].state = "bound" /\ row'[u].state = "claimed"
                         /\ row'[u].gen = fence'[u].gen /\ row'[u].owner = fence'[u].owner
                    /\ ack'[u] # "none" => fence'[u].state # "none"
  BY DEF FencesSound
<1>1. ASSUME fence'[u].owner # NoOwner
      PROVE  /\ fence'[u].state = "bound" /\ row'[u].state = "claimed"
             /\ row'[u].gen = fence'[u].gen /\ row'[u].owner = fence'[u].owner
  <2>1. CASE /\ fence'[u].state = fence[u].state /\ fence'[u].gen = fence[u].gen
             /\ fence'[u].owner = fence[u].owner
    <3>1. /\ fence[u].state = "bound" /\ row[u].state = "claimed"
          /\ row[u].gen = fence[u].gen /\ row[u].owner = fence[u].owner
      BY <1>0, <1>1, <2>1 DEF FencesSound
    <3> QED
      BY <1>0, <2>1, <3>1, ClaimStays DEF RowKept
  <2>2. CASE fence[u].state = "unmatched" /\ fence'[u].owner = fence[u].owner
    BY <1>0, <1>1, <2>2 DEF FencesSound
  <2>3. CASE /\ CancelCommit(u) \/ CancelUnconfirmed(u)
             /\ fence[u].state = "none" /\ fence'[u] = FenceFor(u)
    <3>1. FenceInsertable(u) /\ row' = row
      BY <2>3 DEF CancelCommit, CancelUnconfirmed
    <3> QED
      BY <1>0, <1>1, <2>3, <3>1, FreshFence
  <2> QED
    BY <1>0, <2>1, <2>2, <2>3, FenceSteps DEF FenceStep
<1>2. ASSUME ack'[u] # "none" PROVE fence'[u].state # "none"
  <2>1. fence[u].state # "none"
    <3>1. CASE ack'[u] = ack[u]
      BY <1>0, <1>2, <3>1 DEF FencesSound
    <3>2. CASE CancelSettle(u)
      BY <1>0, <3>2 DEF CancelSettle, CancelSound
    <3> QED
      BY <1>0, <3>1, <3>2, AckSteps
  <2> QED
    BY <1>0, <2>1, FenceStays
<1> QED
  BY <1>1, <1>2

(* What is known of a process stays true: it ends before run_one says so, and *)
(* nobody settles the generation of a live one.                               *)
LEMMA ProcessesStep == ASSUME Held, TypeOK', [Next]_vars PROVE ProcessesSound'
<1>0. TypeOK /\ PickupInv /\ ProcessesSound /\ OwnersPast /\ CancelSound /\ ProvedFree
  BY DEF Held, AckInv
<1>a. \A u \in Tasks : Launch(u) => /\ exec.pc = "proved" /\ completion'[u] = "pending"
                                    /\ launches'[u] # 0
  BY <1>0 DEF Launch, ExecAt, TypeOK
<1>b. \A u \in Tasks : launches'[u] = 0 => proc'[u] # "alive"
  BY <1>0, <1>a, ProcSteps DEF ProcessesSound
<1>c. ASSUME NEW u \in Tasks, completion'[u] \in Recons PROVE proc'[u] # "alive"
  <2>1. CASE completion'[u] = completion[u]
    <3>1. ~Launch(u)
      BY <1>a, <1>c DEF Recons
    <3> QED
      BY <1>0, <1>c, <2>1, <3>1, ProcSteps DEF ProcessesSound
  <2>2. CASE completion'[u] \in {"pending", "dropped"}
    BY <1>c, <2>2 DEF Recons
  <2>3. CASE Teardown(u)
    BY <1>0, <2>3 DEF Teardown, TypeOK
  <2>4. CASE ExitAfterCancel(u) \/ RegisterExitedStop(u)
    <3>1. exec.pc \in {"exited", "exitedStop"} /\ exec.task = u /\ proc' = proc
      BY <2>4 DEF ExitAfterCancel, RegisterExitedStop, ExecAt, world
    <3> QED
      BY <1>0, <3>1 DEF ProcessesSound
  <2> QED
    BY <1>0, <2>1, <2>2, <2>3, <2>4, CompletionSteps
<1>d. ASSUME NEW u \in Tasks, AliveHere(u)' PROVE Unresolved(u)'
  <2>1. CASE Launch(u)
    <3>1. Unresolved(u) /\ row' = row /\ outcomes' = outcomes
      BY <1>0, <2>1, LaunchIsFree DEF Launch, durable
    <3> QED
      BY <3>1 DEF Unresolved, Terminal
  <2>2. CASE ~Launch(u)
    <3>1. AliveHere(u) /\ row[u].state = "claimed" /\ launches[u] # 0
      BY <1>d, <2>2, AliveBefore
    <3>2. row'[u].gen = row[u].gen /\ Unresolved(u)
      BY <1>0, <3>1, ClaimStays DEF RowKept, ProcessesSound
    <3>3. ASSUME NEW x \in outcomes', x[1] = u, OutcomeAdded(x) PROVE FALSE
      <4>1. ~LaunchFails(u)
        BY <1>0, <3>1, LaunchIsFree
      <4>2. ~ElectExit(u)
        BY <1>0, <3>1 DEF ElectExit, ExecAt, ProcessesSound, AliveHere
      <4>3. ~ReconcileDue(u)
        <5>1. row[u].owner \in Nat /\ epoch \in Nat
          BY <1>0, RowUpdateType DEF TypeOK
        <5> QED
          BY <1>0, <3>1, <5>1 DEF ReconcileDue, OwnersPast, AliveHere
      <4>4. ~CancelSettle(u)
        BY <1>0, <3>1 DEF CancelSettle, CancelSound, TypeOK, Recons
      <4> QED
        BY <3>3, <4>1, <4>2, <4>3, <4>4 DEF OutcomeAdded
    <3>4. ASSUME NEW o \in Outcomes, <<u, row[u].gen, o>> \in outcomes' PROVE FALSE
      <4>1. <<u, row[u].gen, o>> \notin outcomes
        BY <3>2, <3>4 DEF Unresolved, Terminal
      <4> QED
        BY <1>0, <3>3, <3>4, <4>1, OutcomeSteps
    <3> QED
      BY <3>2, <3>4 DEF Unresolved, Terminal
  <2> QED
    BY <2>1, <2>2
<1>e. ASSUME exec'.pc \in {"exited", "exitedStop", "removing"}
      PROVE  exec'.task \in Tasks /\ proc'[exec'.task] # "alive"
  <2>1. CASE exec' = exec
    <3>1. exec.task \in Tasks /\ proc[exec.task] # "alive"
      BY <1>0, <1>e, <2>1 DEF ProcessesSound
    <3>2. ~Launch(exec.task)
      BY <1>a, <1>e, <2>1, <3>1
    <3> QED
      BY <1>0, <2>1, <3>1, <3>2, ProcSteps
  <2>2. ASSUME NEW u \in Tasks, ObserveExit(u)
        PROVE  exec'.task \in Tasks /\ proc'[exec'.task] # "alive"
    <3>1. exec'.task = u /\ proc'[u] # "alive"
      BY <1>0, <2>2, ExecMoves DEF ObserveExit, ExecAt, Goto, world, TypeOK
    <3> QED
      BY <3>1
  <2>3. ASSUME NEW u \in Tasks, ExitAfterCancel(u)
        PROVE  exec'.task \in Tasks /\ proc'[exec'.task] # "alive"
    <3>1. exec.pc = "exited" /\ exec.task = u /\ proc' = proc
      BY <2>3 DEF ExitAfterCancel, ExecAt, world
    <3>2. exec'.task = u
      BY <1>0, <1>e, <2>3, <3>1, ExecMoves DEF ExitAfterCancel, Goto, TypeOK
    <3> QED
      BY <1>0, <3>1, <3>2 DEF ProcessesSound
  <2>4. ASSUME NEW u \in Tasks, Teardown(u)
        PROVE  exec'.task \in Tasks /\ proc'[exec'.task] # "alive"
    <3>1. exec'.task = u /\ proc'[u] # "alive"
      BY <1>0, <2>4, ExecMoves DEF Teardown, ExecAt, Goto, TypeOK
    <3> QED
      BY <3>1
  <2> QED
    BY <1>0, <1>e, <2>1, <2>2, <2>3, <2>4, ExecSteps
<1> QED
  BY <1>b, <1>c, <1>d, <1>e DEF ProcessesSound

(* A settlement that reports a kill finds a reaped process and a bound fence. *)
LEMMA KilledIsReaped ==
  ASSUME Held, NEW u \in Tasks, CancelSettle(u), cancel.recon = "Killed"
  PROVE  fence[u].state = "bound" /\ proc[u] # "alive"
         /\ <<u, fence[u].gen, "CancelKilled">> \in outcomes'
<1>0. TypeOK /\ CancelSound /\ KillsSound /\ FencesSound
  BY DEF Held, AckInv
<1>1. cancel.pc = "settle" /\ cancel.task = u /\ outcomes' = Contended(u)
  BY DEF CancelSettle
<1>2. fence[u].gen \in Nat
  BY <1>0 DEF TypeOK, Fence
<1>3. proc[u] # "alive" /\ (<<u, fence[u].gen, "CancelKilled">> \in outcomes \/ Waiting(u))
  BY <1>0, <1>1 DEF CancelSound
<1>4. CASE <<u, fence[u].gen, "CancelKilled">> \in outcomes
  BY <1>0, <1>1, <1>2, <1>3, <1>4 DEF KillsSound, Contended
<1>5. CASE Waiting(u)
  <2>1. fence[u].state = "bound" /\ Contends(u) /\ ~Terminal(u, fence[u].gen)
    BY <1>0, <1>5 DEF Waiting, Contends, FencesSound
  <2>2. TerminalOutcome(cancel.recon) = "CancelKilled"
    BY DEF TerminalOutcome
  <2> QED
    BY <1>1, <1>3, <2>1, <2>2 DEF Contended
<1> QED
  BY <1>3, <1>4, <1>5

(* Only such a settlement elects a kill. *)
LEMMA KillsStep == ASSUME Held, [Next]_vars PROVE KillsSound'
<1>0. TypeOK /\ PickupInv /\ KillsSound /\ ProvedFree
  BY DEF Held, AckInv
<1> SUFFICES ASSUME NEW u \in Tasks, NEW g \in Nat, <<u, g, "CancelKilled">> \in outcomes'
             PROVE  fence'[u].state = "bound" /\ fence'[u].gen = g /\ proc'[u] # "alive"
  BY DEF KillsSound
<1>1. /\ fence[u].state = "bound" /\ fence[u].gen = g /\ proc[u] # "alive"
      /\ Terminal(u, g) \/ (cancel.pc # "idle" /\ cancel.task = u)
  <2>1. CASE <<u, g, "CancelKilled">> \in outcomes
    BY <1>0, <2>1 DEF KillsSound, Terminal, Outcomes, CancelOutcomes
  <2>2. CASE OutcomeAdded(<<u, g, "CancelKilled">>)
    <3>1. CancelSettle(u) /\ g = fence[u].gen /\ "CancelKilled" = TerminalOutcome(cancel.recon)
      BY <2>2 DEF OutcomeAdded, ExitOutcomes
    <3>2. cancel.recon \in Recons
      BY <1>0, <3>1 DEF CancelSettle, TypeOK
    <3>3. cancel.recon = "Killed"
      BY <3>1, <3>2 DEF TerminalOutcome, Recons
    <3> QED
      BY <3>1, <3>3, KilledIsReaped DEF CancelSettle
  <2> QED
    BY <1>0, <2>1, <2>2, OutcomeSteps
<1> QED
  BY <1>0, <1>1, FenceStays, SettledStaysDead

(* An acknowledgement stays true, and so does a settled fence. *)
LEMMA AckStep == ASSUME Held, [Next]_vars PROVE AckTellsOutcome'
<1>0. TypeOK /\ PickupInv /\ KillsSound /\ FencesSound /\ AckTellsOutcome /\ ProvedFree
  BY DEF Held, AckInv
<1>a. outcomes \subseteq outcomes'
  BY <1>0, OutcomeSteps
<1> SUFFICES ASSUME NEW u \in Tasks
             PROVE  /\ ack'[u] = "Killed" =>
                         /\ <<u, fence'[u].gen, "CancelKilled">> \in outcomes'
                         /\ proc'[u] # "alive"
                    /\ fence'[u].recon # "open" /\ fence'[u].owner # NoOwner
                         => Terminal(u, fence[u].gen)' 
  BY DEF AckTellsOutcome
<1>1. ASSUME ack'[u] = "Killed"
      PROVE  <<u, fence'[u].gen, "CancelKilled">> \in outcomes' /\ proc'[u] # "alive"
  <2>1. /\ fence[u].state = "bound" /\ proc[u] # "alive"
        /\ <<u, fence[u].gen, "CancelKilled">> \in outcomes'
        /\ Terminal(u, fence[u].gen) \/ (cancel.pc # "idle" /\ cancel.task = u)
    <3>1. CASE ack'[u] = ack[u]
      <4>1. fence[u].gen \in Nat
        BY <1>0 DEF TypeOK, Fence
      <4>2. <<u, fence[u].gen, "CancelKilled">> \in outcomes
        BY <1>0, <1>1, <3>1 DEF AckTellsOutcome
      <4> QED
        BY <1>0, <1>a, <4>1, <4>2 DEF KillsSound, Terminal, Outcomes, CancelOutcomes
    <3>2. CASE CancelSettle(u) /\ ack'[u] = KillOutcome(cancel.recon)
      <4>1. cancel.recon = "Killed"
        BY <1>1, <3>2 DEF KillOutcome
      <4> QED
        BY <3>2, <4>1, KilledIsReaped DEF CancelSettle
    <3> QED
      BY <1>0, <3>1, <3>2, AckSteps
  <2> QED
    BY <1>0, <2>1, FenceStays, SettledStaysDead
<1>2. ASSUME fence'[u].recon # "open", fence'[u].owner # NoOwner
      PROVE  \E o \in Outcomes : <<u, fence'[u].gen, o>> \in outcomes'
  <2>1. CASE fence'[u] = fence[u]
    BY <1>0, <1>2, <1>a, <2>1 DEF AckTellsOutcome, Terminal
  <2>2. CASE fence[u].state = "unmatched" /\ fence'[u].owner = fence[u].owner
    BY <1>0, <1>2, <2>2 DEF FencesSound
  <2>3. CASE /\ CancelCommit(u) \/ CancelUnconfirmed(u)
             /\ fence[u].state = "none" /\ fence'[u] = FenceFor(u)
    BY <1>0, <1>2, <2>3, FreshFence DEF CancelCommit, CancelUnconfirmed
  <2>4. CASE /\ CancelSettle(u) /\ fence'[u].gen = fence[u].gen
             /\ fence'[u].owner = fence[u].owner
    <3>1. Contends(u)
      BY <1>0, <1>2, <2>4 DEF Contends, FencesSound
    <3>2. TerminalOutcome(cancel.recon) \in Outcomes
      <4>1. cancel.recon \in Recons
        BY <1>0, <2>4 DEF CancelSettle, TypeOK
      <4> QED
        BY <4>1 DEF TerminalOutcome, Recons, Outcomes, CancelOutcomes
    <3>3. outcomes' = Contended(u)
      BY <2>4 DEF CancelSettle
    <3> QED
      BY <1>a, <2>4, <3>1, <3>2, <3>3 DEF Contended, Terminal
  <2> QED
    BY <1>0, <2>1, <2>2, <2>3, <2>4, FenceSteps DEF FenceStep
<1> QED
  BY <1>1, <1>2 DEF Terminal

(* Nobody elects over a cancellation that waits for the owner. *)
LEMMA WaitingStays ==
  ASSUME Held, [Next]_vars, NEW u \in Tasks, Waiting(u), cancel.pc # "idle",
         cancel.task = u, cancel' = cancel
  PROVE  Waiting(u)'
<1>0. TypeOK /\ PickupInv /\ CancelSound /\ ProvedFree
  BY DEF Held, AckInv
<1>1. fence[u].state = "bound" /\ fence[u].owner # NoOwner /\ u \in token
  BY DEF Waiting
<1>2. fence'[u].state = "bound" /\ fence'[u].owner # NoOwner /\ fence'[u].gen = fence[u].gen
  BY <1>0, <1>1, FenceStays
<1>3. ~ProcessGone /\ ~CancelSettle(u)
  BY DEF ProcessGone, CancelSettle, CancelIdle
<1>4. ~Launch(u) /\ ~LaunchFails(u)
  BY <1>0, <1>1, LaunchIsFree
<1>5. u \in token'
  BY <1>0, <1>1, <1>3, <1>4, TokenSteps
<1>6. ~ElectExit(u) /\ ~ReconcileDue(u)
  BY <1>0, <1>1 DEF ElectExit, ReconcileDue, CancelSound
<1>7. ASSUME NEW o \in Outcomes, <<u, fence[u].gen, o>> \in outcomes' PROVE FALSE
  <2>1. <<u, fence[u].gen, o>> \notin outcomes
    BY <1>7 DEF Waiting, Terminal
  <2>2. OutcomeAdded(<<u, fence[u].gen, o>>)
    BY <1>0, <1>7, <2>1, OutcomeSteps
  <2> QED
    BY <1>3, <1>4, <1>6, <2>2 DEF OutcomeAdded
<1> QED
  BY <1>2, <1>5, <1>7 DEF Waiting, Terminal

(* What a request finds when it commits its fence with the mutex held: a      *)
(* process it tells, or none.                                                 *)
LEMMA CommitStep ==
  ASSUME Held, TypeOK', [Next]_vars, NEW u \in Tasks, CancelCommit(u)
  PROVE  CancelSound'
<1>0. TypeOK /\ PickupInv /\ OneTerminalOutcome /\ AckInv
  BY DEF Held
<1> DEFINE f == FenceFor(u)
           settled == f.state = "bound" /\ Terminal(u, f.gen)
           owned == f.state = "bound" /\ f.owner # NoOwner /\ ~settled
<1>1. /\ fence'[u] = f /\ UNCHANGED <<row, outcomes, epoch, proc, phase, running>>
      /\ phase = "up" /\ FenceInsertable(u)
  BY <1>0 DEF CancelCommit, RelayFree, TypeOK
<1>2. /\ token' = (IF owned /\ u \in running THEN token \cup {u} ELSE token)
      /\ cancel'.pc = (IF owned THEN "notify" ELSE "settle") /\ cancel'.task = u
  BY DEF CancelCommit
<1>3. cancel'.recon = (CASE settled -> ReconciliationFromTerminal(WinnerOf(u, f.gen))
                         [] owned /\ u \in running -> "open"
                         [] OTHER -> "NoProcess")
  BY DEF CancelCommit
<1>4. f.state # "none"
  BY <1>0, <1>1, FreshFence DEF FenceFor
<1>5. f.owner # NoOwner => /\ row[u].state = "claimed" /\ row[u].gen = f.gen
                           /\ row[u].owner = f.owner
  BY <1>0, <1>1, FreshFence DEF FenceFor, AckInv, FencesSound
<1>6. f.gen \in Nat
  BY <1>0, FenceForType DEF TypeOK, Fence
<1>7. AliveHere(u) => u \in running /\ Unresolved(u) /\ row[u].state = "claimed"
  <2>1. AliveHere(u) => u \in running /\ Unresolved(u)
    BY <1>0, <1>1 DEF AckInv, NoProcessBehindAck, ProcessesSound, AliveHere, Working
  <2>2. AliveHere(u) => launches[u] # 0
    BY <1>0 DEF AckInv, ProcessesSound, AliveHere
  <2> QED
    BY <1>0, <2>1, <2>2 DEF PickupInv, ClaimIsFresh
<1>8. row[u].state = "claimed" => f.state = "bound" /\ f.gen = row[u].gen
  <2>1. CASE fence[u].state = "none"
    BY <2>1 DEF FenceFor, NoFence
  <2>2. CASE fence[u].state # "none"
    <3>1. fence[u].state \in {"unmatched", "bound"} /\ f = fence[u]
      BY <1>0, <2>2 DEF TypeOK, Fence, FenceFor
    <3> QED
      BY <1>0, <3>1 DEF PickupInv, FenceMatchesRow
  <2> QED
    BY <2>1, <2>2
<1>9. row[u].state = "claimed" /\ row[u].owner = epoch => f.owner # NoOwner
  <2>1. CASE fence[u].state = "none"
    BY <1>0, <2>1 DEF FenceFor, NoFence, TypeOK, NoOwner
  <2>2. CASE fence[u].state # "none"
    <3>1. fence[u].state \in {"unmatched", "bound"} /\ f = fence[u]
      BY <1>0, <2>2 DEF TypeOK, Fence, FenceFor
    <3> QED
      BY <1>0, <3>1 DEF PickupInv, FenceMatchesRow, TypeOK, NoOwner
  <2> QED
    BY <2>1, <2>2
<1>10. settled => WinnerOf(u, f.gen) \in Outcomes /\ <<u, f.gen, WinnerOf(u, f.gen)>> \in outcomes
  BY DEF WinnerOf, Terminal
<1>11. cancel'.recon # "open" => ~AliveHere(u)
  <2>1. CASE settled
    BY <1>7, <1>8, <2>1 DEF Unresolved
  <2>2. CASE ~settled
    <3>1. AliveHere(u) => owned /\ u \in running
      BY <1>7, <1>8, <1>9, <2>2 DEF AliveHere
    <3> QED
      BY <1>3, <2>2, <3>1
  <2> QED
    BY <2>1, <2>2
<1>12. cancel'.recon = "open" => owned /\ u \in running
  BY <1>3 DEF ReconciliationFromTerminal
<1>13. cancel'.recon = "open" => Waiting(u)'
  <2>1. owned => ~Terminal(u, f.gen)
    OBVIOUS
  <2> HIDE DEF f
  <2> QED
    BY <1>1, <1>2, <1>12, <2>1 DEF Waiting, Terminal
<1>14. cancel'.recon = "Killed" => <<u, f.gen, "CancelKilled">> \in outcomes
  BY <1>3, <1>10 DEF ReconciliationFromTerminal
<1> HIDE DEF f, settled, owned
<1>15. cancel'.recon = "Killed" => proc[u] # "alive"
  BY <1>0, <1>6, <1>14 DEF AckInv, KillsSound
<1>16. ~AliveHere(u)' <=> ~AliveHere(u)
  BY <1>1 DEF AliveHere
<1>17. cancel'.pc # "idle" /\ cancel'.pc # "wait" /\ phase' = "up"
  BY <1>1, <1>2
<1> QED
  BY <1>1, <1>2, <1>4, <1>11, <1>13, <1>14, <1>15, <1>16, <1>17 DEF CancelSound

(* What the future carries stays true while other actors move. *)
LEMMA CancelStays ==
  ASSUME Held, TypeOK', [Next]_vars, cancel' = cancel, cancel.pc # "idle"
  PROVE  CancelSound'
<1>0. TypeOK /\ PickupInv /\ AckInv /\ CancelSound /\ ProvedFree
  BY DEF Held, AckInv
<1>p. PICK u \in Tasks : u = cancel.task
  BY <1>0 DEF CancelSound
<1>1. fence[u].state # "none" /\ Working
  BY <1>0, <1>p DEF CancelSound, Working, TypeOK
<1>2. ~Launch(u)
  BY <1>0, <1>p, LaunchIsFree
<1>3. Working'
  <2>1. ~ProcessGone
    BY DEF ProcessGone, CancelIdle
  <2>2. ~Restart /\ ~RecoveryDone
    BY <1>1 DEF Restart, RecoveryDone, Working
  <2>3. Working' \/ phase' = phase
    BY <1>0, <2>1, <2>2, PhaseSteps
  <2> QED
    BY <1>1, <2>3 DEF Working
<1>4. fence'[u].state # "none"
  BY <1>0, <1>1, FenceStays
<1>5. Waiting(u) => Waiting(u)'
  BY <1>1, <1>p, WaitingStays
<1>6. AliveHere(u)' => AliveHere(u)
  BY <1>1, <1>2, AliveBefore
<1>7. proc[u] # "alive" => proc'[u] # "alive"
  BY <1>0, <1>p, SettledStaysDead
<1>8. <<u, fence[u].gen, "CancelKilled">> \in outcomes
        => <<u, fence'[u].gen, "CancelKilled">> \in outcomes'
  <2>1. fence[u].gen \in Nat
    BY <1>0, <1>1 DEF TypeOK, Fence
  <2>2. <<u, fence[u].gen, "CancelKilled">> \in outcomes => fence[u].state = "bound"
    BY <1>0, <1>1, <2>1 DEF AckInv, KillsSound
  <2> QED
    BY <1>0, <1>1, <2>2, FenceStays, OutcomeSteps
<1>9. phase' \notin {"down", "recovering"}
  BY <1>3 DEF Working
<1>10. cancel'.task = u /\ cancel.task = u
  BY <1>p
<1> QED
  BY <1>0, <1>1, <1>4, <1>5, <1>6, <1>7, <1>8, <1>9, <1>10 DEF CancelSound

(* Every step of the cancellation and of the others around it. *)
LEMMA CancelStepKeeps == ASSUME Held, TypeOK', [Next]_vars PROVE CancelSound'
<1>0. TypeOK /\ PickupInv /\ CancelSound /\ ProcessesSound
  BY DEF Held, AckInv
<1>1. CASE cancel'.pc = "idle"
  BY <1>1 DEF CancelSound
<1>2. CASE cancel' = cancel /\ cancel.pc # "idle"
  BY <1>2, CancelStays
<1>3. ASSUME NEW u \in Tasks, CancelCommit(u) PROVE CancelSound'
  BY <1>3, CommitStep
<1>4. ASSUME NEW u \in Tasks, CancelNotify(u) PROVE CancelSound'
  <2>1. UNCHANGED <<phase, fence, outcomes, token, row, epoch, proc>>
    BY <1>4 DEF CancelNotify, durable, handler, world
  <2>2. \/ cancel'.pc = "idle"
        \/ /\ cancel.pc = "notify" /\ cancel'.task = cancel.task /\ cancel'.recon = cancel.recon
           /\ cancel'.pc = "wait" => cancel.recon = "open"
    BY <1>0, <1>4 DEF CancelNotify, CancelIdle, TypeOK, CancelType
  <2>4. CASE cancel'.task = cancel.task /\ cancel'.recon = cancel.recon /\ cancel.pc = "notify"
             /\ (cancel'.pc = "wait" => cancel.recon = "open")
    BY <1>0, <2>1, <2>4 DEF CancelSound, Waiting, AliveHere, Terminal
  <2> QED
    BY <1>1, <2>2, <2>4
<1>5. ASSUME NEW u \in Tasks, CancelWait(u) PROVE CancelSound'
  <2>1. UNCHANGED <<phase, fence, outcomes, token, row, epoch, proc>>
    BY <1>5 DEF CancelWait, durable, handler, world
  <2>2. cancel.pc = "wait" /\ cancel.task = u
    BY <1>5 DEF CancelWait
  <2>3. \/ cancel'.pc = "idle"
        \/ /\ cancel'.pc = "settle" /\ cancel'.task = u /\ cancel'.recon = completion[u]
           /\ completion[u] \in Recons
    <3>1. completion[u] \in Recons \cup {"dropped"} /\ cancel \in CancelType
      BY <1>0, <1>5 DEF CancelWait, TypeOK, Completions
    <3>2. CASE completion[u] = "dropped"
      BY <1>5, <3>2 DEF CancelWait, CancelIdle
    <3>3. CASE completion[u] # "dropped"
      <4>1. cancel' = [cancel EXCEPT !.pc = "settle", !.recon = completion[u]]
        BY <1>5, <3>3 DEF CancelWait
      <4> QED
        BY <2>2, <3>1, <3>3, <4>1 DEF CancelType
    <3> QED
      BY <3>2, <3>3
  <2>4. CASE /\ cancel'.pc = "settle" /\ cancel'.task = u /\ cancel'.recon = completion[u]
             /\ completion[u] \in Recons
    <3>1. proc[u] # "alive" /\ Waiting(u) /\ cancel'.recon # "open"
      BY <1>0, <2>2, <2>4 DEF ProcessesSound, CancelSound, Recons
    <3> QED
      BY <1>0, <2>1, <2>2, <2>4, <3>1 DEF CancelSound, Waiting, AliveHere, Terminal
  <2> QED
    BY <1>1, <2>3, <2>4
<1> QED
  BY <1>0, <1>1, <1>2, <1>3, <1>4, <1>5, CancelSteps

(* A live process stays registered and is not acknowledged. *)
LEMMA BehindAckStep == ASSUME Held, [Next]_vars PROVE NoProcessBehindAck'
<1>0. TypeOK /\ PickupInv /\ AckInv /\ CancelSound /\ ProcessesSound /\ ProvedFree
  BY DEF Held, AckInv
<1> SUFFICES ASSUME NEW u \in Tasks, AliveHere(u)'
             PROVE  ack'[u] = "none" /\ (Working' => u \in running')
  BY DEF NoProcessBehindAck, AliveHere
<1>1. CASE Launch(u)
  <2>1. ack[u] = "none"
    BY <1>0, <1>1, LaunchIsFree
  <2>2. ack' = ack /\ u \in running'
    BY <1>1 DEF Launch, durable
  <2> QED
    BY <2>1, <2>2
<1>2. CASE ~Launch(u)
  <2>1. AliveHere(u) /\ ~Restart /\ ~RecoveryDone
    BY <1>2, AliveBefore
  <2>2. ack[u] = "none" /\ (Working => u \in running)
    BY <1>0, <2>1 DEF AckInv, NoProcessBehindAck, AliveHere
  <2>3. ~CancelSettle(u)
    BY <1>0, <2>1 DEF CancelSettle, CancelSound, TypeOK, Recons
  <2>4. ack'[u] = "none"
    BY <1>0, <2>2, <2>3, AckSteps
  <2>5. ASSUME Working' PROVE u \in running'
    <3>1. ~ProcessGone
      BY <2>5 DEF ProcessGone, Working
    <3>2. Working
      BY <1>0, <2>1, <2>5, <3>1, PhaseSteps DEF Working
    <3>3. exec.pc \in {"exited", "removing"} => exec.task # u
      BY <1>0, <2>1 DEF ProcessesSound, AliveHere
    <3>4. ~ElectExit(u) /\ ~ExitAfterCancel(u) /\ ~Deregister(u) /\ ~ErrElectingExit(u)
      BY <3>3 DEF ElectExit, ExitAfterCancel, Deregister, ErrElectingExit, ExecAt
    <3> QED
      BY <1>0, <2>2, <3>1, <3>2, <3>4, RunningSteps
  <2> QED
    BY <2>4, <2>5
<1> QED
  BY <1>1, <1>2

(* Deliveries stay in order: an event is staged before any later one of its   *)
(* task is sent, and sent before any later one.                               *)
LEMMA OrderStep == ASSUME Held, [Next]_vars PROVE DeliveredInOrder'
<1>0. TypeOK /\ OneTerminalOutcome /\ EventsMatchClaim /\ DrainSound /\ DeliveredInOrder
  BY DEF Held, AckInv
<1>a. outbox \subseteq outbox' /\ \A e \in outbox' : e \in outbox \/ EventAdded(e)
  BY <1>0, EventSteps
<1>b. \/ delivered' = delivered
      \/ \E e \in outbox : SendEvent(e)
      \/ \E u \in Tasks : SendAck(u)
  BY <1>0, DrainSteps
<1>c. delivered \subseteq delivered'
  BY <1>b DEF SendEvent, SendAck
<1>1. forwarded' \subseteq delivered'
  <2>1. CASE forwarded' = forwarded
    BY <1>0, <1>c, <2>1 DEF DeliveredInOrder
  <2>2. CASE MarkEventForwarded
    BY <1>0, <1>c, <2>2 DEF MarkEventForwarded, DeliveredInOrder, DrainSound
  <2> QED
    BY <1>0, <2>1, <2>2, DrainSteps
<1>2. \A u \in ackForwarded' : AckItem(u) \in delivered'
  <2>1. CASE ackForwarded' = ackForwarded
    BY <1>0, <1>c, <2>1 DEF DeliveredInOrder
  <2>2. CASE MarkAckForwarded
    <3>1. fwd.pc = "ack" /\ ackForwarded' = ackForwarded \cup {fwd.item[1]}
      BY <2>2 DEF MarkAckForwarded
    <3>2. fwd.item \in delivered /\ fwd.item \in AckItems
      BY <1>0, <3>1 DEF DrainSound, TypeOK
    <3>3. AckItem(fwd.item[1]) = fwd.item
      BY <3>2 DEF AckItems, AckItem
    <3> QED
      BY <1>0, <1>c, <3>1, <3>2, <3>3 DEF DeliveredInOrder
  <2> QED
    BY <1>0, <2>1, <2>2, DrainSteps
<1>3. ASSUME NEW e \in delivered', NEW d \in outbox', d[1] = e[1], e[3] \in Kinds,
             Rank(d[3]) < Rank(e[3])
      PROVE  d \in delivered'
  <2>1. CASE e \in delivered /\ d \in outbox
    BY <1>0, <1>3, <1>c, <2>1 DEF DeliveredInOrder
  <2>2. CASE e \in delivered /\ EventAdded(d)
    <3>1. e \in outbox
      BY <1>0, <1>3, <2>2 DEF DrainSound
    <3>2. row[e[1]].state = "claimed" /\ e[2] = row[e[1]].gen
      BY <1>0, <3>1 DEF EventsMatchClaim
    <3>3. d[3] \in TerminalKinds \cup {"Started"} /\ Unresolved(e[1])
      BY <1>3, <2>2, <3>2 DEF EventAdded
    <3>4. e[3] \in TerminalKinds
      BY <1>3, <3>3 DEF Rank, Kinds, TerminalKinds
    <3>5. PICK x \in outcomes : x[1] = e[1] /\ x[2] = e[2]
      BY <1>0, <3>1, <3>4 DEF OneTerminalOutcome
    <3>6. x[3] \in Outcomes /\ x = <<x[1], x[2], x[3]>>
      BY <1>0 DEF TypeOK
    <3> QED
      BY <3>2, <3>3, <3>5, <3>6 DEF Unresolved, Terminal
  <2>3. CASE e \notin delivered
    <3>1. PICK s \in outbox : SendEvent(s) /\ e = s
      <4>1. ASSUME NEW u \in Tasks, SendAck(u) PROVE FALSE
        <5>1. e = AckItem(u)
          BY <1>3, <2>3, <4>1 DEF SendAck
        <5> QED
          BY <1>3, <5>1 DEF AckItem, Kinds
      <4> QED
        BY <1>3, <1>b, <2>3, <4>1 DEF SendEvent
    <3>2. d \in outbox
      BY <3>1 DEF SendEvent, durable
    <3>3. d \notin PendingEvents
      <4>1. Rank(d[3]) \in 0..2 /\ Rank(e[3]) \in 0..2
        BY DEF Rank
      <4>2. d \in PendingEvents => Rank(e[3]) <= Rank(d[3])
        BY <1>3, <3>1 DEF SendEvent
      <4> QED
        BY <1>3, <4>1, <4>2
    <3>4. d \in forwarded
      BY <3>2, <3>3 DEF PendingEvents
    <3> QED
      BY <1>0, <1>c, <3>4 DEF DeliveredInOrder
  <2> QED
    BY <1>3, <1>a, <2>1, <2>2, <2>3
<1> QED
  BY <1>1, <1>2, <1>3 DEF DeliveredInOrder

(* A claim becomes proved in ProveReady, and while it is proved the handler   *)
(* forgets no fence.                                                          *)
LEMMA ProvedSteps ==
  ASSUME TypeOK, PickupInv, [Next]_vars, exec'.pc = "proved"
  PROVE  (exec' = exec /\ fenced \subseteq fenced') \/ \E u \in Tasks : ProveReady(u)
<1> DEFINE C == (exec' = exec /\ fenced \subseteq fenced') \/ \E u \in Tasks : ProveReady(u)
<1> SUFFICES C
  OBVIOUS
<1> USE DEF durable, handler, world, relay
<1>m. /\ ReturnOk => exec'.pc \in {"idle", "halted"}
      /\ ReturnErr => exec'.pc = "halted"
      /\ \A pc, x : /\ [exec EXCEPT !.pc = pc].pc = pc
                    /\ [exec EXCEPT !.pc = pc, !.after = x].pc = pc
                    /\ Goto(pc) => exec'.pc = pc
  BY ExecMoves DEF TypeOK, Goto
<1>a. UNCHANGED <<exec, fenced>> => C
  OBVIOUS
<1>b. ASSUME NEW t \in Tasks, SelectPending(t) \/ RejectPoison(t) \/ ClaimPickup(t) PROVE C
  BY <1>b, <1>m DEF SelectPending, RejectPoison, ClaimPickup
<1>c. ASSUME NEW t \in Tasks, ArmLiveness(t) \/ ProveReady(t) \/ LaunchFails(t) PROVE C
  BY <1>c, <1>m DEF ArmLiveness, LaunchFails
<1>d. ASSUME NEW t \in Tasks, LaunchRefused(t) PROVE C
  BY <1>d, <1>m DEF LaunchRefused
<1>e. ASSUME NEW t \in Tasks, Launch(t) \/ StageStarted(t) \/ RenewLiveness(t) PROVE C
  BY <1>e, <1>m DEF Launch, StageStarted, RenewLiveness
<1>1. ASSUME NEW t \in Tasks, ObserveExit(t) \/ ElectExit(t) \/ ExitAfterCancel(t) PROVE C
  BY <1>1, <1>m DEF ObserveExit, ElectExit, ExitAfterCancel
<1>2. ASSUME NEW t \in Tasks, \/ RegisterExitedStop(t) \/ Teardown(t) \/ RegisterFormationStop(t)
      PROVE  C
  BY <1>2, <1>m DEF RegisterExitedStop, Teardown, RegisterFormationStop
<1>f. ASSUME NEW t \in Tasks, ObserveToken(t) PROVE C
  <2>1. exec' = [exec EXCEPT !.pc = "teardown", !.after = IF stopping THEN "register" ELSE "ok"]
    BY <1>f DEF ObserveToken
  <2>2. exec'.pc = "teardown"
    BY <2>1, <1>m
  <2> QED
    BY <2>2
<1>g. ASSUME NEW t \in Tasks, Deregister(t) PROVE C
  <2>1. exec.after \in ExecAfter
    BY DEF TypeOK, ExecType
  <2> QED
    BY <1>g, <1>m, <2>1 DEF Deregister, ExecAfter
<1>3. ASSUME NEW t \in Tasks, \/ ErrBeforeSpawn(t) \/ ErrWhileRegistered(t)
                              \/ ErrElectingExit(t) \/ ErrRenewing(t)
      PROVE  C
  BY <1>3, <1>m DEF ErrBeforeSpawn, ErrWhileRegistered, ErrElectingExit, ErrRenewing
<1>4. ASSUME NEW t \in Tasks, \/ StageDispatch(t) \/ CancelCommit(t) \/ CancelRefused(t)
                              \/ CancelUnconfirmed(t) \/ CancelNotify(t) \/ CancelWait(t)
                              \/ CancelSettle(t) \/ ReconcileDue(t) \/ ProcessExits(t)
                              \/ DeadlinePasses(t) \/ GuardianKills(t) \/ SendAck(t)
      PROVE  C
  BY <1>4, <1>a DEF StageDispatch, CancelCommit, CancelRefused, CancelUnconfirmed, CancelNotify,
     CancelWait, CancelSettle, ReconcileDue, ProcessExits, DeadlinePasses, GuardianKills, SendAck
<1>5. ASSUME NEW e \in outbox, SendEvent(e) PROVE C
  BY <1>5, <1>a DEF SendEvent
<1>6. CASE \/ CancelAborted \/ RelayConnected \/ RelayLost \/ DrainFails \/ MarkEventForwarded
           \/ MarkAckForwarded \/ RecoveryDone \/ Shutdown \/ UNCHANGED vars
  BY <1>6, <1>a DEF CancelAborted, RelayConnected, RelayLost, DrainFails, MarkEventForwarded,
     MarkAckForwarded, RecoveryDone, Shutdown, vars
<1>7. CASE StopAll \/ HaltIdle \/ Restart
  BY <1>7, <1>a, <1>m DEF StopAll, HaltIdle, Restart
<1>8. CASE ShutdownDone \/ ShutdownTimedOut \/ Crash
  BY <1>8 DEF ShutdownDone, ShutdownTimedOut, Crash, ProcessGone
<1> HIDE DEF C
<1> QED
  BY <1>b, <1>c, <1>d, <1>e, <1>f, <1>g, <1>1, <1>2, <1>3, <1>4, <1>5, <1>6, <1>7, <1>8
     DEF Next, Prepare, Supervise, ExecErr, CancelStep, Drain, Formation

(* A request that gets as far as the handler fences a proved claim there. *)
LEMMA ProvedStep == ASSUME Held, TypeOK', [Next]_vars PROVE ProvedFree'
<1>0. TypeOK /\ PickupInv /\ FencesSound /\ CancelSound /\ ProvedFree
  BY DEF Held, AckInv
<1> SUFFICES ASSUME exec'.pc = "proved", exec'.task \notin fenced'
             PROVE  /\ Unresolved(exec.task)' /\ ack'[exec'.task] = "none"
                    /\ cancel'.pc # "idle" => cancel'.task # exec'.task
  BY DEF ProvedFree
<1>1. ASSUME NEW u \in Tasks, ProveReady(u)
      PROVE  /\ Unresolved(exec.task)' /\ ack'[exec'.task] = "none"
             /\ cancel'.pc # "idle" => cancel'.task # exec'.task
  <2>1. exec'.task = u /\ UNCHANGED <<row, outcomes, fence, ack, cancel>>
    BY <1>0, <1>1 DEF ProveReady, ExecAt, Goto, ReturnErr, durable, TypeOK, ExecType
  <2>2. HoldsClaim(u, epoch) /\ Unresolved(u) /\ ~FencedFor(u, row[u].gen)
    BY <1>0, <1>1 DEF ProveReady, ReturnErr, TypeOK, ExecType
  <2>3. fence[u].state = "none"
    BY <1>0, <2>2 DEF HoldsClaim, FencedFor, PickupInv, FenceMatchesRow, TypeOK, Fence
  <2> QED
    BY <1>0, <2>1, <2>2, <2>3 DEF FencesSound, CancelSound, Unresolved, Terminal
<1>2. CASE exec' = exec /\ fenced \subseteq fenced'
  <2>p. PICK u \in Tasks : u = exec.task
    BY <1>0, <1>2 DEF PickupInv, ClaimIsFresh, Unlaunched
  <2>1. row[u].state = "claimed" /\ row[u].owner = epoch /\ RowKept(u)
    <3>1. row[u].state = "claimed" /\ row[u].owner = epoch
      BY <1>0, <1>2, <2>p DEF PickupInv, ClaimIsFresh, Unlaunched
    <3> QED
      BY <1>0, <3>1, ClaimStays
  <2>2. Unresolved(u) /\ ack[u] = "none" /\ (cancel.pc # "idle" => cancel.task # u)
    BY <1>0, <1>2, <2>p DEF ProvedFree
  <2>3. ~CancelSettle(u)
    BY <2>2 DEF CancelSettle
  <2>4. ASSUME NEW o \in Outcomes, <<u, row[u].gen, o>> \in outcomes' PROVE FALSE
    <3>1. OutcomeAdded(<<u, row[u].gen, o>>)
      BY <1>0, <2>2, <2>4, OutcomeSteps DEF Unresolved, Terminal
    <3>2. ~LaunchFails(u)
      BY <1>0, <1>2 DEF LaunchFails, ReturnOk, ExecAt
    <3>3. ~ElectExit(u) /\ ~ReconcileDue(u)
      BY <1>0, <1>2 DEF ElectExit, ExecAt, ReconcileDue, PickupInv, RegistryMatchesExec
    <3> QED
      BY <2>3, <3>1, <3>2, <3>3 DEF OutcomeAdded
  <2>5. Unresolved(exec.task)'
    BY <1>2, <2>1, <2>4, <2>p DEF Unresolved, Terminal, RowKept
  <2>6. ack'[u] = "none"
    BY <1>0, <2>2, <2>3, AckSteps
  <2>7. ~CancelCommit(u)
    <3>1. FenceFor(u).state = "bound" /\ FenceFor(u).gen = row[u].gen /\ FenceFor(u).owner = epoch
      BY <1>0, <2>1 DEF FenceFor, NoFence, PickupInv, FenceMatchesRow, TypeOK, Fence
    <3>2. u \notin running /\ epoch # NoOwner /\ ~Terminal(u, FenceFor(u).gen)
      BY <1>0, <1>2, <2>2, <3>1 DEF PickupInv, RegistryMatchesExec, Deregistered, Unlaunched,
         TypeOK, NoOwner, Unresolved
    <3> QED
      BY <1>2, <2>p, <3>1, <3>2 DEF CancelCommit
  <2>8. cancel'.pc # "idle" => cancel'.task # u
    <3>1. ASSUME NEW v \in Tasks, CancelCommit(v) \/ CancelNotify(v) \/ CancelWait(v)
          PROVE  cancel'.pc # "idle" => cancel'.task # u
      <4>1. CASE CancelCommit(v)
        <5>1. cancel'.task = v
          BY <4>1 DEF CancelCommit
        <5> QED
          BY <2>7, <4>1, <5>1
      <4>2. CASE CancelNotify(v) \/ CancelWait(v)
        <5>1. cancel \in CancelType /\ cancel.pc # "idle"
          BY <1>0, <4>2 DEF CancelNotify, CancelWait, TypeOK
        <5>2. cancel'.pc = "idle" \/ cancel'.task = cancel.task
          <6>1. CASE CancelNotify(v)
            BY <5>1, <6>1 DEF CancelNotify, CancelIdle, CancelType
          <6>2. CASE CancelWait(v)
            <7>1. \/ cancel' = CancelIdle
                  \/ cancel' = [cancel EXCEPT !.pc = "settle", !.recon = completion[v]]
              BY <6>2 DEF CancelWait
            <7>2. cancel' = CancelIdle => cancel'.pc = "idle"
              BY DEF CancelIdle
            <7>3. \A r : [cancel EXCEPT !.pc = "settle", !.recon = r].task = cancel.task
              BY <5>1 DEF CancelType
            <7> QED
              BY <7>1, <7>2, <7>3
          <6> QED
            BY <4>2, <6>1, <6>2
        <5> QED
          BY <2>2, <5>1, <5>2
      <4> QED
        BY <3>1, <4>1, <4>2
    <3> QED
      BY <1>0, <2>2, <3>1, CancelSteps
  <2> QED
    BY <1>2, <2>p, <2>5, <2>6, <2>8
<1> QED
  BY <1>0, <1>1, <1>2, ProvedSteps

(***************************************************************************)
(* The theorems.                                                           *)
(***************************************************************************)

(* Every step preserves all of it. *)
LEMMA AckInvStep == Held /\ TypeOK' /\ [Next]_vars => AckInv'
BY EventsStep, DrainStep, OwnersStep, FencesStep, ProcessesStep, KillsStep, CancelStepKeeps,
   ProvedStep, AckStep, BehindAckStep, OrderStep DEF AckInv

(* It holds of an empty database and a first incarnation. *)
LEMMA AckInvInit == Init => AckInv
<1> SUFFICES ASSUME Init PROVE AckInv
  OBVIOUS
<1>1. EventsMatchClaim /\ DrainSound /\ DeliveredInOrder
  BY DEF Init, EventsMatchClaim, DrainSound, DeliveredInOrder, DrainOff
<1>2. OwnersPast /\ FencesSound /\ AckTellsOutcome /\ NoProcessBehindAck
  BY DEF Init, OwnersPast, FencesSound, AckTellsOutcome, NoProcessBehindAck, NoRow, NoFence,
         NoOwner
<1>3. ProcessesSound /\ KillsSound /\ CancelSound /\ ProvedFree
  BY DEF Init, ProcessesSound, KillsSound, CancelSound, AliveHere, Recons, ProvedFree
<1> QED
  BY <1>1, <1>2, <1>3 DEF AckInv

(* The invariant behind acknowledgements and deliveries holds in every state  *)
(* of the formation, whatever crashes, restarts and lost futures.             *)
THEOREM AckInvariant == Spec => []AckInv
<1>1. Held /\ TypeOK' /\ [Next]_vars => AckInv'
  BY AckInvStep
<1>2. TypeOK /\ PickupInv /\ OneTerminalOutcome /\ AckInv => Held
  BY DEF Held
<1>3. Spec => []TypeOK /\ []PickupInv /\ []OneTerminalOutcome
  BY TypeCorrect, PickupCorrect, ElectionCorrect
<1> QED
  BY <1>1, <1>2, <1>3, AckInvInit, PTL DEF Spec

(* An acknowledgement that says Killed is backed by the elected cancellation  *)
(* outcome and a reaped process, and a settled fence of a claim by a terminal *)
(* outcome (cancel_request, settle_cancellation).                             *)
THEOREM AckIsTrue == Spec => []AckTellsOutcome
<1>1. AckInv => AckTellsOutcome
  BY DEF AckInv
<1> QED
  BY <1>1, AckInvariant, PTL

(* A process this incarnation spawned stays registered while it lives, and no *)
(* acknowledged cancellation leaves one behind.                               *)
THEOREM AckedIsDead == Spec => []NoProcessBehindAck
<1>1. AckInv => NoProcessBehindAck
  BY DEF AckInv
<1> QED
  BY <1>1, AckInvariant, PTL

(* A row is marked only after it entered the relay channel, and no event of a *)
(* task overtakes an earlier one, across redeliveries and restarts.           *)
THEOREM DeliveryKeepsOrder == Spec => []DeliveredInOrder
<1>1. AckInv => DeliveredInOrder
  BY DEF AckInv
<1> QED
  BY <1>1, AckInvariant, PTL

(* A deadline is put off only for a claim that is not settled. *)
LEMMA LeaseSteps ==
  ASSUME TypeOK, [Next]_vars
  PROVE  \A u \in Tasks : row'[u].lease = "ahead"
                            => row[u].lease = "ahead" \/ row[u].state # "claimed" \/ Unresolved(u)
<1> DEFINE C == \A u \in Tasks : row'[u].lease = "ahead"
                                   => row[u].lease = "ahead" \/ row[u].state # "claimed" \/ Unresolved(u)
<1> SUFFICES C
  OBVIOUS
<1> USE DEF durable, handler, world, relay
<1>r. row \in [Tasks -> Row]
  BY DEF TypeOK
<1>a. UNCHANGED row => C
  OBVIOUS
<1>1. ASSUME NEW t \in Tasks, StageDispatch(t) \/ ClaimPickup(t)
       PROVE  C
  <2>1. \A u \in Tasks : u # t => row'[u] = row[u]
    BY <1>1, <1>r DEF StageDispatch, ClaimPickup
  <2>2. row[t].state # "claimed" \/ row' = row
    BY <1>1 DEF StageDispatch, ClaimPickup, Claimable
  <2> QED
    BY <2>1, <2>2
<1>2. ASSUME NEW t \in Tasks, RejectPoison(t) PROVE C
  <2>1. \A u \in Tasks : u # t => row'[u] = row[u]
    BY <1>2, <1>r DEF RejectPoison
  <2>2. row'[t].lease = row[t].lease
    BY <1>2, <1>r DEF RejectPoison, Row
  <2> QED
    BY <2>1, <2>2
<1>3. ASSUME NEW t \in Tasks, ArmLiveness(t) \/ RenewLiveness(t)
       PROVE  C
  <2>1. \A u \in Tasks : u # t => row'[u] = row[u]
    BY <1>3, <1>r DEF ArmLiveness, RenewLiveness
  <2>2. row' = row \/ Unresolved(t)
    BY <1>3 DEF ArmLiveness, RenewLiveness, MayArm, MayRenew
  <2> QED
    BY <2>1, <2>2
<1>4. ASSUME NEW t \in Tasks, RegisterExitedStop(t) \/ RegisterFormationStop(t) \/
                              ErrRenewing(t) \/ DeadlinePasses(t)
       PROVE  C
  <2>1. row' = row \/ row' = [row EXCEPT ![t].lease = "due"]
    BY <1>4 DEF RegisterExitedStop, RegisterFormationStop, ErrRenewing, DeadlinePasses,
       Registered
  <2> QED
    BY <1>r, <2>1 DEF Row
<1>5. ASSUME NEW t \in Tasks, SelectPending(t) \/ ProveReady(t) \/
                              LaunchRefused(t) \/ Launch(t) \/ LaunchFails(t) \/
                              StageStarted(t)
       PROVE  C
  BY <1>5, <1>a DEF SelectPending, ProveReady, LaunchRefused, Launch, LaunchFails, StageStarted
<1>6. ASSUME NEW t \in Tasks, ObserveExit(t) \/ ElectExit(t) \/ ExitAfterCancel(t) \/
                              ObserveToken(t) \/ Teardown(t) \/ Deregister(t)
       PROVE  C
  BY <1>6, <1>a DEF ObserveExit, ElectExit, ExitAfterCancel, ObserveToken, Teardown, Deregister
<1>7. ASSUME NEW t \in Tasks, ErrBeforeSpawn(t) \/ ErrWhileRegistered(t) \/
                              ErrElectingExit(t) \/ CancelCommit(t) \/
                              CancelRefused(t) \/
                              CancelUnconfirmed(t) \/ CancelNotify(t) \/ CancelWait(t) \/
                              CancelSettle(t) \/ ReconcileDue(t) \/
                              ProcessExits(t) \/ GuardianKills(t) \/ SendAck(t)
       PROVE  C
  BY <1>7, <1>a DEF ErrBeforeSpawn, ErrWhileRegistered, ErrElectingExit, CancelCommit,
     CancelRefused, CancelUnconfirmed, CancelNotify, CancelWait, CancelSettle, ReconcileDue,
     ProcessExits, GuardianKills, SendAck
<1>8. ASSUME NEW e \in outbox, SendEvent(e) PROVE C
  BY <1>8, <1>a DEF SendEvent
<1>9. CASE CancelAborted \/ RelayConnected \/ RelayLost \/ DrainFails \/
          MarkEventForwarded \/ MarkAckForwarded \/ RecoveryDone \/ Shutdown \/
          StopAll \/ HaltIdle \/ ShutdownDone \/ ShutdownTimedOut \/ Crash \/
          Restart \/ UNCHANGED vars
  BY <1>9, <1>a DEF CancelAborted, RelayConnected, RelayLost, DrainFails, MarkEventForwarded,
     MarkAckForwarded, RecoveryDone, Shutdown, StopAll, HaltIdle, ShutdownDone,
     ShutdownTimedOut, Crash, Restart, ProcessGone, vars
<1> HIDE DEF C
<1> QED
  BY <1>1, <1>2, <1>3, <1>4, <1>5, <1>6, <1>7, <1>8, <1>9
     DEF Next, Prepare, Supervise, ExecErr, CancelStep, Drain, Formation

(* A settled generation is frozen: no step stages an event for it, renews its *)
(* deadline or changes its owner (arm, stage_started, renew and the elections *)
(* all test for a terminal outcome in their transaction).                     *)
THEOREM SettlementIsFinal == Spec => SettledIsFinal
<1> DEFINE Frozen(t) == /\ \A k \in Kinds : <<t, row[t].gen, k>> \in outbox'
                                               => <<t, row[t].gen, k>> \in outbox
                        /\ row'[t].owner = row[t].owner /\ row'[t].gen = row[t].gen
                        /\ row'[t].lease = "ahead" => row[t].lease = "ahead"
           A == \A t \in Tasks : (row[t].state = "claimed" /\ ~Unresolved(t)) => Frozen(t)
<1>1. ASSUME TypeOK, [Next]_vars PROVE [A]_vars
  <2> SUFFICES ASSUME NEW t \in Tasks, row[t].state = "claimed", ~Unresolved(t) PROVE Frozen(t)
    OBVIOUS
  <2>1. row'[t].owner = row[t].owner /\ row'[t].gen = row[t].gen
    BY <1>1, ClaimStays DEF RowKept
  <2>2. row'[t].lease = "ahead" => row[t].lease = "ahead"
    BY <1>1, LeaseSteps
  <2>3. ASSUME NEW k \in Kinds, <<t, row[t].gen, k>> \in outbox' PROVE <<t, row[t].gen, k>> \in outbox
    <3>1. ~EventAdded(<<t, row[t].gen, k>>)
      BY DEF EventAdded
    <3> QED
      BY <1>1, <2>3, <3>1, EventSteps
  <2> QED
    BY <2>1, <2>2, <2>3
<1> HIDE DEF A
<1>2. Spec => [][A]_vars
  BY <1>1, TypeCorrect, PTL DEF Spec
<1> QED
  BY <1>2 DEF SettledIsFinal, A, Frozen

=============================================================================
