-------------------------- MODULE TaskPickupProofs --------------------------
(* Theorems about TaskPickup, for every set of tasks and of faults. *)
EXTENDS TaskPickup, TLAPS

(***************************************************************************)
(* The updates the actions are made of keep the type of what they update.  *)
(***************************************************************************)

(* Returning from run_one leaves a well-formed executor. *)
LEMMA ReturnOkType == ReturnOk => exec' \in ExecType /\ phase' = phase
BY DEF ReturnOk, ExecType, ExecPcs, ExecAfter

(* So does returning an error, which stops the formation. *)
LEMMA ReturnErrType == ReturnErr => exec' \in ExecType /\ phase' = "stopping"
BY DEF ReturnErr, ExecType, ExecPcs, ExecAfter

(* Moving the executor to a program point, with or without a continuation. *)
LEMMA ExecMoveType ==
  ASSUME exec \in ExecType, NEW pc \in ExecPcs, NEW after \in ExecAfter
  PROVE  /\ [exec EXCEPT !.pc = pc] \in ExecType
         /\ [exec EXCEPT !.pc = pc, !.after = after] \in ExecType
BY DEF ExecType

(* Updates of one dispatch row. *)
LEMMA RowUpdateType ==
  ASSUME row \in [Tasks -> Row], NEW t \in Tasks
  PROVE  /\ \A l \in Leases : [row EXCEPT ![t].lease = l] \in [Tasks -> Row]
         /\ \A s \in RowStates : [row EXCEPT ![t].state = s] \in [Tasks -> Row]
         /\ \A r \in Row : [row EXCEPT ![t] = r] \in [Tasks -> Row]
         /\ row[t].gen \in Nat /\ row[t].owner \in Nat
BY DEF Row

(* Updates of a drain state. *)
LEMMA DrainStateType ==
  DrainOff \in DrainType /\ DrainIdle \in DrainType /\ DrainDead \in DrainType
BY DEF DrainOff, DrainIdle, DrainDead, DrainType

(* An idle cancellation future. *)
LEMMA CancelIdleType == CancelIdle \in CancelType
BY DEF CancelIdle, CancelType, CancelPcs

(* An elected outcome adds one well-formed outcome and one event row. *)
LEMMA ElectedType ==
  ASSUME TypeOK, NEW t \in Tasks, NEW o \in ExitOutcomes, Elected(t, o)
  PROVE  /\ outcomes' \subseteq Tasks \X Nat \X Outcomes
         /\ outbox' \subseteq EventRows /\ outbox \subseteq outbox'
<1>1. row[t].gen \in Nat
  BY RowUpdateType DEF TypeOK
<1>2. EventKind(o) \in Kinds
  BY DEF EventKind, Kinds, ExitOutcomes
<1> QED
  BY <1>1, <1>2 DEF TypeOK, Elected, EventRows, Outcomes

(* The fence a request commits, or finds. *)
LEMMA FenceForType ==
  ASSUME row \in [Tasks -> Row], fence \in [Tasks -> Fence], NEW t \in Tasks
  PROVE  FenceFor(t) \in Fence
<1>1. row[t].gen \in Nat /\ row[t].owner \in Nat
  BY RowUpdateType
<1>2. CASE fence[t].state # "none"
  BY <1>2 DEF FenceFor
<1>3. CASE fence[t].state = "none"
  <2> DEFINE Bound(g, o) == [state |-> "bound", gen |-> g, owner |-> o, recon |-> "open"]
  <2>1. FenceFor(t) \in {[NoFence EXCEPT !.state = "unmatched"],
                         Bound(row[t].gen + 1, NoOwner), Bound(row[t].gen, row[t].owner)}
    BY <1>3 DEF FenceFor, NoFence
  <2> QED
    BY <1>1, <2>1 DEF Fence, NoFence, NoOwner
<1> QED
  BY <1>2, <1>3

(* Registering a liveness failure touches only the lease. *)
LEMMA RegisteredType ==
  ASSUME TypeOK, NEW t \in Tasks, Registered(t) PROVE row' \in [Tasks -> Row]
BY RowUpdateType DEF TypeOK, Registered, Leases

(* Every step of the formation keeps the types. *)
LEMMA TypeStep == TypeOK /\ [Next]_vars => TypeOK'
<1> SUFFICES ASSUME TypeOK, [Next]_vars PROVE TypeOK'
  OBVIOUS
<1> USE DEF TypeOK, durable, handler, world, relay
<1>1. ASSUME NEW t \in Tasks, StageDispatch(t) PROVE TypeOK'
  <2>1. row' \in [Tasks -> Row]
    BY <1>1, RowUpdateType DEF StageDispatch, RowStates
  <2>2. fence' \in [Tasks -> Fence]
    BY <1>1 DEF StageDispatch, Fence
  <2> QED
    BY <1>1, <2>1, <2>2 DEF StageDispatch
<1>2. ASSUME NEW t \in Tasks, SelectPending(t) PROVE TypeOK'
  BY <1>2 DEF SelectPending, ExecType, ExecPcs, ExecAfter
<1>3. ASSUME NEW t \in Tasks, RejectPoison(t) PROVE TypeOK'
  BY <1>3, RowUpdateType, ReturnOkType, ReturnErrType DEF RejectPoison, RowStates
<1>4. ASSUME NEW t \in Tasks, ClaimPickup(t) PROVE TypeOK'
  <2>0. row[t].gen \in Nat
    BY RowUpdateType
  <2>1. [state |-> "claimed", gen |-> row[t].gen + 1, owner |-> epoch, lease |-> "ahead"] \in Row
    BY <2>0 DEF Row, RowStates, Leases
  <2>2. <<t, row[t].gen + 1, "Assigned">> \in EventRows
    BY RowUpdateType DEF EventRows, Kinds
  <2>3. row' \in [Tasks -> Row] /\ outbox' \subseteq EventRows /\ outbox \subseteq outbox'
    BY <1>4, <2>1, <2>2 DEF ClaimPickup
  <2>4. exec' \in ExecType /\ phase' = phase
    BY <1>4, ExecMoveType, ReturnOkType DEF ClaimPickup, Goto, ExecPcs, ExecAfter
  <2> QED
    BY <1>4, <2>3, <2>4 DEF ClaimPickup
<1>5. ASSUME NEW t \in Tasks, ArmLiveness(t) PROVE TypeOK'
  <2>1. row' \in [Tasks -> Row]
    <3>1. \/ row' = [row EXCEPT ![t].lease = "ahead"]
          \/ row' = row
      BY <1>5 DEF ArmLiveness
    <3>2. "ahead" \in Leases
      BY DEF Leases
    <3>3. [row EXCEPT ![t].lease = "ahead"] \in [Tasks -> Row]
      BY <3>2, RowUpdateType
    <3> QED
      BY <3>1, <3>3
  <2>2. exec' \in ExecType /\ phase' \in {phase, "stopping"}
    BY <1>5, ExecMoveType, ReturnErrType DEF ArmLiveness, Goto, ExecPcs, ExecAfter
  <2> QED
    BY <1>5, <2>1, <2>2 DEF ArmLiveness
<1>6. ASSUME NEW t \in Tasks, ProveReady(t) PROVE TypeOK'
  BY <1>6, ExecMoveType, ReturnErrType DEF ProveReady, Goto, ExecPcs, ExecAfter
<1>7. ASSUME NEW t \in Tasks, LaunchRefused(t) PROVE TypeOK'
  BY <1>7, ReturnOkType, ReturnErrType DEF LaunchRefused
<1>8. ASSUME NEW t \in Tasks, Launch(t) PROVE TypeOK'
  BY <1>8, ExecMoveType DEF Launch, Goto, ExecPcs, ExecAfter, Processes, Completions
<1>9. ASSUME NEW t \in Tasks, LaunchFails(t) PROVE TypeOK'
  BY <1>9, ElectedType, ReturnOkType DEF LaunchFails, ExitOutcomes
<1>10. ASSUME NEW t \in Tasks, StageStarted(t) PROVE TypeOK'
  <2>1. <<t, row[t].gen, "Started">> \in EventRows
    BY RowUpdateType DEF EventRows, Kinds
  <2>2. exec' \in ExecType
    BY <1>10, ExecMoveType DEF StageStarted, Goto, ExecPcs, ExecAfter
  <2> QED
    BY <1>10, <2>1, <2>2 DEF StageStarted
<1>11. ASSUME NEW t \in Tasks, RenewLiveness(t) PROVE TypeOK'
  <2>1. row' \in [Tasks -> Row]
    <3>1. \/ row' = [row EXCEPT ![t].lease = "ahead"]
          \/ row' = row
      BY <1>11 DEF RenewLiveness
    <3>2. "ahead" \in Leases
      BY DEF Leases
    <3>3. [row EXCEPT ![t].lease = "ahead"] \in [Tasks -> Row]
      BY <3>2, RowUpdateType
    <3> QED
      BY <3>1, <3>3
  <2>2. exec' \in ExecType
    BY <1>11, ExecMoveType DEF RenewLiveness, Goto, ExecPcs, ExecAfter
  <2> QED
    BY <1>11, <2>1, <2>2 DEF RenewLiveness
<1>12. ASSUME NEW t \in Tasks, ObserveExit(t) PROVE TypeOK'
  BY <1>12, ExecMoveType DEF ObserveExit, Goto, ExecPcs, ExecAfter
<1>13. ASSUME NEW t \in Tasks, ElectExit(t) PROVE TypeOK'
  BY <1>13, ElectedType, ReturnOkType DEF ElectExit, ExitOutcomes
<1>14. ASSUME NEW t \in Tasks, ExitAfterCancel(t) PROVE TypeOK'
  BY <1>14, ExecMoveType, ReturnOkType DEF ExitAfterCancel, Goto, ExecPcs, ExecAfter, Completions, Recons
<1>15. ASSUME NEW t \in Tasks, RegisterExitedStop(t) PROVE TypeOK'
  BY <1>15, RegisteredType, ReturnOkType DEF RegisterExitedStop, Completions, Recons
<1>16. ASSUME NEW t \in Tasks, ObserveToken(t) PROVE TypeOK'
  BY <1>16, ExecMoveType DEF ObserveToken, ExecPcs, ExecAfter
<1>17. ASSUME NEW t \in Tasks, Teardown(t) PROVE TypeOK'
  BY <1>17, ExecMoveType DEF Teardown, Goto, ExecPcs, ExecAfter, Processes, Completions, Recons
<1>18. ASSUME NEW t \in Tasks, Deregister(t) PROVE TypeOK'
  <2>1. exec.after \in ExecAfter
    BY DEF ExecType
  <2>2. exec' \in ExecType /\ phase' \in {phase, "stopping"}
    BY <1>18, <2>1, ExecMoveType, ReturnOkType, ReturnErrType
       DEF Deregister, Goto, ExecPcs, ExecAfter
  <2> QED
    BY <1>18, <2>2 DEF Deregister
<1>19. ASSUME NEW t \in Tasks, RegisterFormationStop(t) PROVE TypeOK'
  BY <1>19, RegisteredType, ReturnOkType DEF RegisterFormationStop
<1>20. ASSUME NEW t \in Tasks, ErrBeforeSpawn(t) PROVE TypeOK'
  BY <1>20, ReturnErrType DEF ErrBeforeSpawn
<1>21. ASSUME NEW t \in Tasks, ErrWhileRegistered(t) PROVE TypeOK'
  BY <1>21, ReturnErrType DEF ErrWhileRegistered, Completions
<1>22. ASSUME NEW t \in Tasks, ErrElectingExit(t) PROVE TypeOK'
  BY <1>22, ReturnErrType DEF ErrElectingExit, Completions
<1>23. ASSUME NEW t \in Tasks, ErrRenewing(t) PROVE TypeOK'
  BY <1>23, RegisteredType, ExecMoveType DEF ErrRenewing, ExecPcs, ExecAfter
<1>24. ASSUME NEW t \in Tasks, CancelCommit(t) PROVE TypeOK'
  <2>1. FenceFor(t) \in Fence
    BY FenceForType
  <2>2. fence' \in [Tasks -> Fence]
    BY <1>24, <2>1 DEF CancelCommit
  <2>3. \A o : ReconciliationFromTerminal(o) \in Recons
    BY DEF ReconciliationFromTerminal, Recons
  <2>4. cancel' \in CancelType /\ (cancel'.pc = "settle" => cancel'.recon \in Recons)
    BY <1>24, <2>3 DEF CancelCommit, CancelType, CancelPcs, Recons
  <2>5. token' \subseteq Tasks /\ fenced' \subseteq Tasks /\ lock' \in {"free", "cancel"}
    BY <1>24 DEF CancelCommit
  <2>6. requested' \subseteq Tasks /\ missed' \subseteq Tasks
    BY <1>24 DEF CancelCommit
  <2> QED
    BY <1>24, <2>2, <2>4, <2>5, <2>6 DEF CancelCommit
<1>25. ASSUME NEW t \in Tasks, CancelRefused(t) PROVE TypeOK'
  BY <1>25, DrainStateType DEF CancelRefused, DrainOff
<1>51. ASSUME NEW t \in Tasks, CancelUnconfirmed(t) PROVE TypeOK'
  <2>1. FenceFor(t) \in Fence
    BY FenceForType
  <2>2. fence' \in [Tasks -> Fence] /\ missed' \subseteq Tasks
    BY <1>51, <2>1 DEF CancelUnconfirmed
  <2> QED
    BY <1>51, <2>2, DrainStateType DEF CancelUnconfirmed, DrainOff
<1>26. ASSUME NEW t \in Tasks, CancelNotify(t) PROVE TypeOK'
  <2>1. cancel' \in CancelType /\ (cancel'.pc = "settle" => cancel'.recon \in Recons)
    BY <1>26 DEF CancelNotify, CancelIdle, CancelType, CancelPcs
  <2>2. fwd' \in DrainType /\ (fwd' = fwd \/ fwd'.pc = "off")
    BY <1>26, DrainStateType DEF CancelNotify, DrainOff
  <2> QED
    BY <1>26, <2>1, <2>2 DEF CancelNotify
<1>27. ASSUME NEW t \in Tasks, CancelWait(t) PROVE TypeOK'
  <2>1. cancel' \in CancelType /\ (cancel'.pc = "settle" => cancel'.recon \in Recons)
    <3>1. CASE completion[t] = "dropped"
      BY <1>27, <3>1, CancelIdleType DEF CancelWait, CancelIdle
    <3>2. CASE completion[t] # "dropped"
      <4>1. completion[t] \in Recons
        BY <1>27, <3>2 DEF CancelWait, Completions
      <4> QED
        BY <1>27, <3>2, <4>1 DEF CancelWait, CancelType, CancelPcs
    <3> QED
      BY <3>1, <3>2
  <2>2. fwd' \in DrainType /\ (fwd' = fwd \/ fwd'.pc = "off")
    BY <1>27, DrainStateType DEF CancelWait, DrainOff
  <2> QED
    BY <1>27, <2>1, <2>2 DEF CancelWait
<1>28. ASSUME NEW t \in Tasks, CancelSettle(t) PROVE TypeOK'
  <2>1. cancel.recon \in Recons
    BY <1>28 DEF CancelSettle
  <2>2. TerminalOutcome(cancel.recon) \in Outcomes /\ KillOutcome(cancel.recon) \in Acks
    BY <2>1 DEF TerminalOutcome, KillOutcome, Recons, Outcomes, CancelOutcomes, Acks
  <2>3. fence[t].gen \in Nat /\ fence' \in [Tasks -> Fence]
    <3>1. PICK r \in Recons \cup {"open"} : fence' = [fence EXCEPT ![t].recon = r]
      <4>1. fence[t].recon \in Recons \cup {"open"}
        BY DEF Fence
      <4>2. fence' = [fence EXCEPT ![t].recon = IF fence[t].recon = "open" THEN cancel.recon
                                                ELSE fence[t].recon]
        BY <1>28 DEF CancelSettle
      <4> QED
        BY <2>1, <4>1, <4>2
    <3>2. [fence[t] EXCEPT !.recon = r] \in Fence /\ fence[t].gen \in Nat
      BY DEF Fence
    <3>3. fence' = [fence EXCEPT ![t] = [fence[t] EXCEPT !.recon = r]]
      BY <3>1
    <3> QED
      BY <3>2, <3>3
  <2>4. outcomes' \subseteq Tasks \X Nat \X Outcomes
    BY <1>28, <2>2, <2>3 DEF CancelSettle, Contended
  <2>5. ack' \in [Tasks -> Acks]
    BY <1>28, <2>2 DEF CancelSettle, Contended
  <2> QED
    BY <1>28, <2>3, <2>4, <2>5, CancelIdleType DEF CancelSettle, CancelIdle
<1>29. ASSUME NEW t \in Tasks, ReconcileDue(t) PROVE TypeOK'
  <2>1. row[t].gen \in Nat
    BY RowUpdateType
  <2>2. outcomes' \subseteq Tasks \X Nat \X Outcomes /\ outbox' \subseteq EventRows
        /\ outbox \subseteq outbox'
    BY <1>29, <2>1 DEF ReconcileDue, EventRows, Kinds, Outcomes, ExitOutcomes
  <2> QED
    BY <1>29, <2>2 DEF ReconcileDue
<1>30. ASSUME NEW t \in Tasks, ProcessExits(t) PROVE TypeOK'
  BY <1>30 DEF ProcessExits, Processes
<1>31. ASSUME NEW t \in Tasks, DeadlinePasses(t) PROVE TypeOK'
  BY <1>31, RowUpdateType DEF DeadlinePasses, Leases
<1>32. ASSUME NEW t \in Tasks, GuardianKills(t) PROVE TypeOK'
  BY <1>32 DEF GuardianKills, Processes
<1>33. ASSUME NEW t \in Tasks, SendAck(t) PROVE TypeOK'
  BY <1>33 DEF SendAck, AckItems, DrainType
<1>34. ASSUME NEW e \in outbox, SendEvent(e) PROVE TypeOK'
  BY <1>34 DEF SendEvent, PendingEvents, DrainType
<1>35. CASE CancelAborted
  BY <1>35, CancelIdleType, DrainStateType DEF CancelAborted, CancelIdle, DrainOff
<1>36. CASE RelayConnected
  BY <1>36, DrainStateType DEF RelayConnected, DrainIdle
<1>37. CASE RelayLost
  BY <1>37, DrainStateType DEF RelayLost, DrainOff
<1>50. CASE DrainFails
  BY <1>50, DrainStateType DEF DrainFails, DrainDead
<1>38. CASE MarkEventForwarded
  BY <1>38, DrainStateType DEF MarkEventForwarded, DrainIdle
<1>39. CASE MarkAckForwarded
  BY <1>39, DrainStateType DEF MarkAckForwarded, DrainIdle, AckItems, AckItem
<1>40. CASE RecoveryDone
  BY <1>40 DEF RecoveryDone
<1>41. CASE Shutdown
  BY <1>41 DEF Shutdown
<1>42. CASE StopAll
  BY <1>42 DEF StopAll
<1>43. CASE HaltIdle
  BY <1>43, ExecMoveType DEF HaltIdle, Goto, ExecPcs, ExecAfter
<1>44. CASE ShutdownDone
  BY <1>44, CancelIdleType, DrainStateType DEF ShutdownDone, ProcessGone, ExecType, ExecPcs, ExecAfter, Completions, DrainOff, CancelIdle
<1>45. CASE ShutdownTimedOut
  BY <1>45, CancelIdleType, DrainStateType DEF ShutdownTimedOut, ProcessGone, ExecType, ExecPcs, ExecAfter, Completions, DrainOff, CancelIdle
<1>46. CASE Crash
  BY <1>46, CancelIdleType, DrainStateType DEF Crash, ProcessGone, ExecType, ExecPcs, ExecAfter, Completions, DrainOff, CancelIdle
<1>47. CASE Restart
  BY <1>47 DEF Restart
<1>48. CASE UNCHANGED vars
  BY <1>48 DEF vars
<1>49. QED
  BY <1>1, <1>2, <1>3, <1>4, <1>5, <1>6, <1>7, <1>8, <1>9, <1>10, <1>11, <1>12,
     <1>13, <1>14, <1>15, <1>16, <1>17, <1>18, <1>19, <1>20, <1>21, <1>22,
     <1>23, <1>24, <1>25, <1>26, <1>27, <1>28, <1>29, <1>30, <1>31, <1>32,
     <1>33, <1>34, <1>35, <1>36, <1>37, <1>38, <1>39, <1>40, <1>41, <1>42,
     <1>43, <1>44, <1>45, <1>46, <1>47, <1>48, <1>50, <1>51
     DEF Next, Prepare, Supervise, ExecErr, CancelStep, Drain, Formation

(* The exact claim of every row survives: at most a lease changed. *)
ClaimsKept == \A u \in Tasks : /\ row'[u].state = row[u].state /\ row'[u].gen = row[u].gen
                               /\ row'[u].owner = row[u].owner

(* A lease edit keeps every claim. *)
LEMMA LeaseEdit ==
  ASSUME row \in [Tasks -> Row], NEW t \in Tasks, NEW l \in Leases,
         row' = [row EXCEPT ![t].lease = l]
  PROVE  ClaimsKept
BY DEF Row, ClaimsKept

(* Registering a liveness failure keeps every claim, whether it succeeds or not. *)
LEMMA RegisteredKept ==
  ASSUME row \in [Tasks -> Row], NEW t \in Tasks, Registered(t) \/ UNCHANGED row
  PROVE  ClaimsKept
<1>1. CASE UNCHANGED row
  BY <1>1 DEF ClaimsKept
<1>2. CASE row' = [row EXCEPT ![t].lease = "due"]
  BY <1>2, LeaseEdit DEF Leases
<1> QED
  BY <1>1, <1>2 DEF Registered

(* Where each kind of executor move leads. *)
LEMMA ExecMoves ==
  ASSUME exec \in ExecType
  PROVE /\ ReturnOk => exec'.pc = (IF stopping THEN "halted" ELSE "idle") /\ phase' = phase
        /\ ReturnErr => exec'.pc = "halted" /\ phase' = "stopping"
        /\ \A pc, a : /\ [exec EXCEPT !.pc = pc].pc = pc
                      /\ [exec EXCEPT !.pc = pc].task = exec.task
                      /\ [exec EXCEPT !.pc = pc, !.after = a].pc = pc
                      /\ [exec EXCEPT !.pc = pc, !.after = a].task = exec.task
BY DEF ReturnOk, ReturnErr, ExecType

(* An executor step that keeps claims, fences and outcomes preserves the      *)
(* invariant if it deregisters before it leaves the supervised loop and       *)
(* enters the proved state only without a fence.                              *)
LEMMA ExecStepKeeps ==
  ASSUME TypeOK, PickupInv, ClaimsKept,
         UNCHANGED <<fence, outcomes, launches, epoch, stopping, missed>>, fenced \subseteq fenced' \/ exec'.pc # "proved",
         phase' \in {phase, "stopping"}, running' \subseteq running,
         phase \in {"down", "recovering"} => exec'.pc = "idle",
         exec'.pc \in Unlaunched \cup Supervising => exec'.task = exec.task,
         exec'.pc \in Unlaunched => exec.pc \in Unlaunched,
         exec'.pc \in Deregistered => running' = {},
         exec'.pc \in Supervising => exec.pc \in Supervising,
         exec'.pc = "proved" /\ exec.pc # "proved" => fence[exec.task].state = "none"
  PROVE  PickupInv'
<1> USE DEF PickupInv
<1>0. exec.pc \in Unlaunched => exec.task \in Tasks
  BY DEF ClaimIsFresh
<1>1. FenceMatchesRow'
  BY DEF FenceMatchesRow, ClaimsKept
<1>2. OutcomesHaveCause'
  <2>1. \A x \in outcomes : x[1] \in Tasks
    BY DEF TypeOK
  <2> QED
    BY <2>1 DEF OutcomesHaveCause, ClaimsKept
<1>3. RegistryMatchesExec'
  BY DEF RegistryMatchesExec, Supervising, Deregistered
<1>4. ClaimIsFresh'
  BY <1>0 DEF ClaimIsFresh, ClaimsKept, Unlaunched, Unresolved, Terminal
<1> QED
  BY <1>1, <1>2, <1>3, <1>4

(* Committing a fence preserves the invariant if the task run_one is about to *)
(* spawn is then fenced in memory or missed.                                  *)
LEMMA FenceCommitKeeps ==
  ASSUME TypeOK, PickupInv, NEW t \in Tasks, FenceInsertable(t),
         fence'[t] = FenceFor(t), \A u \in Tasks : u # t => fence'[u] = fence[u],
         UNCHANGED <<row, outcomes, launches, phase, epoch, exec, running, stopping>>,
         fenced \cup missed \subseteq fenced' \cup missed',
         exec.pc = "proved" /\ exec.task = t /\ fence[t].state = "none"
           => t \in fenced' \cup missed'
  PROVE  PickupInv'
<1>1. \A x \in outcomes : x[1] \in Tasks /\ x[2] \in Nat
  BY DEF TypeOK
<1>2. /\ fence[t].state # "none" => FenceFor(t) = fence[t]
      /\ fence[t].state = "none" =>
           \/ /\ row[t].state = "absent" /\ FenceFor(t).state = "unmatched"
              /\ FenceFor(t).owner = NoOwner
           \/ /\ row[t].state = "pending" /\ FenceFor(t).state = "bound"
              /\ FenceFor(t).gen = row[t].gen + 1 /\ FenceFor(t).owner = NoOwner
           \/ /\ row[t].state = "claimed" /\ FenceFor(t).state = "bound"
              /\ FenceFor(t).gen = row[t].gen /\ FenceFor(t).owner = row[t].owner
  <2>1. row[t].state \in {"absent", "pending", "claimed", "rejected"}
    BY DEF TypeOK, Row, RowStates
  <2> QED
    BY <2>1 DEF FenceInsertable, FenceFor, NoFence
<1>3. FenceMatchesRow'
  BY <1>2 DEF PickupInv, FenceMatchesRow
<1>4. OutcomesHaveCause'
  BY <1>1, <1>2 DEF PickupInv, OutcomesHaveCause
<1>5. RegistryMatchesExec'
  BY DEF PickupInv, RegistryMatchesExec
<1>6. ClaimIsFresh'
  <2>1. (exec.pc = "proved" /\ fence[exec.task].state # "none"
           => exec.task \in fenced \cup missed)'
    BY DEF PickupInv, ClaimIsFresh, Unlaunched
  <2>2. (exec.pc \in Unlaunched /\ fence[exec.task].state = "none" => Unresolved(exec.task))'
    BY <1>2 DEF PickupInv, ClaimIsFresh, Unresolved, Terminal
  <2> QED
    BY <2>1, <2>2 DEF PickupInv, ClaimIsFresh
<1> QED
  BY <1>3, <1>4, <1>5, <1>6 DEF PickupInv

(* Every step preserves the inductive invariant. *)
LEMMA PickupStep == TypeOK /\ TypeOK' /\ PickupInv /\ [Next]_vars => PickupInv'
<1> SUFFICES ASSUME TypeOK, TypeOK', PickupInv, [Next]_vars PROVE PickupInv'
  OBVIOUS
<1> USE DEF durable, handler, world, relay
<1>a. row \in [Tasks -> Row] /\ exec \in ExecType
  BY DEF TypeOK
<1>b. exec.pc \in Deregistered => running = {}
  BY DEF PickupInv, RegistryMatchesExec
<1>c. phase \in {"down", "recovering"} => exec.pc = "idle"
  BY DEF PickupInv, RegistryMatchesExec
<1>d. row' = row => ClaimsKept
  BY DEF ClaimsKept
<1>e. exec.pc \in Supervising => running \subseteq {exec.task}
  BY DEF PickupInv, RegistryMatchesExec
<1>f. \A x \in outcomes : x[1] \in Tasks /\ x[2] \in Nat
  BY DEF TypeOK
<1>g. UNCHANGED <<row, fence, outcomes, exec, phase, running, stopping, launches, epoch, fenced,
                  missed>> => PickupInv'
  BY <1>b, <1>c, <1>d, ExecStepKeeps
<1>h. ProcessGone => PickupInv'
  BY DEF ProcessGone, PickupInv, FenceMatchesRow, OutcomesHaveCause, RegistryMatchesExec,
         ClaimIsFresh, Unlaunched, Supervising
<1>1. ASSUME NEW t \in Tasks, StageDispatch(t) PROVE PickupInv'
  <2>1. \A u \in Tasks : /\ row'[u].gen = row[u].gen /\ row'[u].owner = row[u].owner
                         /\ row'[u].state = IF u = t THEN "pending" ELSE row[u].state
    BY <1>a, <1>1 DEF StageDispatch, Row
  <2>2. row[t].state = "absent" /\ row[t].gen = 0
    BY <1>1 DEF StageDispatch, PickupInv, OutcomesHaveCause
  <2>3. fence[t].state # "none" => fence[t].state = "unmatched" /\ fence[t].owner = NoOwner
    BY <2>2 DEF PickupInv, FenceMatchesRow, TypeOK, Fence
  <2>4. \A u \in Tasks : u # t => fence'[u] = fence[u]
    BY <1>1 DEF StageDispatch, TypeOK
  <2>5. /\ fence[t].state = "none" => fence'[t].state = "none"
        /\ fence[t].state # "none" => /\ fence'[t].state = "bound" /\ fence'[t].gen = 1
                                      /\ fence'[t].owner = fence[t].owner
    BY <1>1, <2>3 DEF StageDispatch, TypeOK, Fence
  <2>6. FenceMatchesRow'
    <3>1. fence'[t].state = "none" \/ (fence'[t].state = "bound" /\ row'[t].state = "pending"
            /\ fence'[t].gen = row'[t].gen + 1 /\ fence'[t].owner = NoOwner)
      BY <2>1, <2>2, <2>3, <2>5
    <3>2. \A u \in Tasks : u # t => /\ fence'[u] = fence[u] /\ row'[u].state = row[u].state
                                    /\ row'[u].gen = row[u].gen /\ row'[u].owner = row[u].owner
      BY <2>1, <2>4
    <3> QED
      BY <3>1, <3>2 DEF PickupInv, FenceMatchesRow
  <2>7. OutcomesHaveCause'
    <3>1. \A u \in Tasks : row'[u].state \in {"absent", "pending"} => row'[u].gen = 0
      BY <2>1, <2>2 DEF PickupInv, OutcomesHaveCause
    <3>2. \A x \in outcomes : \/ row'[x[1]].state = "claimed" /\ x[2] = row'[x[1]].gen
                              \/ fence'[x[1]].state # "none"
      <4> TAKE x \in outcomes
      <4>1. CASE x[1] = t
        BY <4>1, <2>2, <2>5 DEF PickupInv, OutcomesHaveCause
      <4>2. CASE x[1] # t
        BY <4>2, <1>f, <2>1, <2>4 DEF PickupInv, OutcomesHaveCause
      <4> QED
        BY <4>1, <4>2
    <3> QED
      BY <1>1, <3>1, <3>2 DEF StageDispatch, OutcomesHaveCause
  <2>8. RegistryMatchesExec'
    BY <1>1 DEF StageDispatch, PickupInv, RegistryMatchesExec
  <2>9. exec.pc \in Unlaunched => exec.task \in Tasks /\ exec.task # t
    BY <2>2 DEF PickupInv, ClaimIsFresh
  <2>10. ClaimIsFresh'
    <3>2. \A u \in Tasks : launches[u] # 0 => u # t
      BY <2>2 DEF PickupInv, ClaimIsFresh
    <3> QED
      <4>0. UNCHANGED <<launches, exec, epoch, fenced, outcomes, missed>>
        BY <1>1 DEF StageDispatch
      <4>1. (\A u \in Tasks : launches[u] # 0 => row[u].state = "claimed" /\ launches[u] = 1)'
        BY <4>0, <2>1, <3>2 DEF PickupInv, ClaimIsFresh
      <4>2. exec.pc \in Unlaunched => /\ fence'[exec.task] = fence[exec.task]
                                      /\ row'[exec.task].state = row[exec.task].state
                                      /\ row'[exec.task].owner = row[exec.task].owner
                                      /\ row'[exec.task].gen = row[exec.task].gen
        BY <2>1, <2>4, <2>9
      <4> QED
        BY <4>0, <4>1, <4>2 DEF PickupInv, ClaimIsFresh, Unlaunched, Unresolved, Terminal
  <2> QED
    BY <2>6, <2>7, <2>8, <2>10 DEF PickupInv
<1>2. ASSUME NEW t \in Tasks, SelectPending(t) PROVE PickupInv'
  <2>1. exec'.pc = "selected"
    BY <1>2 DEF SelectPending
  <2> QED
    BY <1>2, <2>1, <1>b, <1>c, <1>d, ExecStepKeeps
       DEF SelectPending, Working, Deregistered, Unlaunched, Supervising
<1>3. ASSUME NEW t \in Tasks, RejectPoison(t) PROVE PickupInv'
  <2>1. \/ row' = row /\ exec'.pc = "halted" /\ phase' = "stopping"
        \/ /\ row[t].state = "pending" /\ row' = [row EXCEPT ![t].state = "rejected"]
           /\ exec'.pc = (IF stopping THEN "halted" ELSE "idle") /\ phase' = phase
    BY <1>a, <1>3, ExecMoves DEF RejectPoison
  <2>2. running = {} /\ phase \notin {"down", "recovering"}
    BY <1>3, <1>b, <1>c DEF RejectPoison, ExecAt, Deregistered
  <2>3. CASE row' = row /\ exec'.pc = "halted" /\ phase' = "stopping"
    BY <1>3, <1>d, <2>2, <2>3, ExecStepKeeps
       DEF RejectPoison, Deregistered, Unlaunched, Supervising
  <2>4. CASE /\ row[t].state = "pending" /\ row' = [row EXCEPT ![t].state = "rejected"]
             /\ exec'.pc = (IF stopping THEN "halted" ELSE "idle") /\ phase' = phase
    <3>1. \A u \in Tasks : /\ row'[u].gen = row[u].gen /\ row'[u].owner = row[u].owner
                           /\ row'[u].state = IF u = t THEN "rejected" ELSE row[u].state
      BY <1>a, <2>4 DEF Row
    <3>2. FenceMatchesRow'
      BY <1>3, <2>4, <3>1 DEF RejectPoison, PickupInv, FenceMatchesRow
    <3>3. OutcomesHaveCause'
      BY <1>3, <1>f, <2>4, <3>1 DEF RejectPoison, PickupInv, OutcomesHaveCause
    <3>4. RegistryMatchesExec'
      BY <1>3, <2>2, <2>4 DEF RejectPoison, PickupInv, RegistryMatchesExec, Supervising
    <3>5. ClaimIsFresh'
      BY <1>3, <2>4, <3>1 DEF RejectPoison, PickupInv, ClaimIsFresh, Unlaunched
    <3> QED
      BY <3>2, <3>3, <3>4, <3>5 DEF PickupInv
  <2> QED
    BY <2>1, <2>3, <2>4
<1>4. ASSUME NEW t \in Tasks, ClaimPickup(t) PROVE PickupInv'
  <2>1. running = {} /\ phase \notin {"down", "recovering"} /\ exec.pc = "selected"
        /\ exec.task = t
    BY <1>4, <1>b, <1>c DEF ClaimPickup, ExecAt, Deregistered
  <2>2. CASE ~Claimable(t)
    <3>1. exec'.pc \in {"idle", "halted"} /\ phase' = phase /\ row' = row
      BY <1>a, <1>4, <2>2, ExecMoves DEF ClaimPickup
    <3> QED
      BY <1>4, <1>d, <2>1, <3>1, ExecStepKeeps DEF ClaimPickup, Unlaunched, Supervising
  <2>3. CASE Claimable(t)
    <3>1. /\ row'[t].state = "claimed" /\ row'[t].owner = epoch
          /\ row'[t].gen = row[t].gen + 1
          /\ \A u \in Tasks : u # t => row'[u] = row[u]
      BY <1>a, <1>4, <2>3 DEF ClaimPickup
    <3>2. exec'.pc = "claimed" /\ exec'.task = t /\ phase' = phase
      BY <1>a, <1>4, <2>1, <2>3 DEF ClaimPickup, Goto, ExecType
    <3>3. fence[t].state = "none"
      BY <2>3 DEF PickupInv, FenceMatchesRow, Claimable, FencedFor, TypeOK, Fence
    <3>4. FenceMatchesRow'
      BY <1>4, <3>1, <3>3 DEF ClaimPickup, PickupInv, FenceMatchesRow
    <3>5. \A o : <<t, row[t].gen + 1, o>> \notin outcomes
      BY <2>3, <3>3 DEF PickupInv, OutcomesHaveCause, Claimable
    <3>6. \A x \in outcomes : x[1] # t
      BY <2>3, <3>3 DEF PickupInv, OutcomesHaveCause, Claimable
    <3>7. OutcomesHaveCause'
      BY <1>4, <1>f, <3>1, <3>6 DEF ClaimPickup, PickupInv, OutcomesHaveCause
    <3>8. RegistryMatchesExec'
      BY <1>4, <2>1, <3>2 DEF ClaimPickup, PickupInv, RegistryMatchesExec, Supervising
    <3>9. launches[t] = 0
      BY <2>3 DEF PickupInv, ClaimIsFresh, Claimable
    <3>10. Unresolved(t)'
      BY <1>4, <3>1, <3>5 DEF ClaimPickup, Unresolved, Terminal
    <3>11. ClaimIsFresh'
      BY <1>4, <3>1, <3>2, <3>9, <3>10 DEF ClaimPickup, PickupInv, ClaimIsFresh, Unlaunched
    <3> QED
      BY <3>4, <3>7, <3>8, <3>11 DEF PickupInv
  <2> QED
    BY <2>2, <2>3
<1>5. ASSUME NEW t \in Tasks, ArmLiveness(t) PROVE PickupInv'
  <2>1. ClaimsKept
    BY <1>a, <1>5, <1>d, LeaseEdit DEF ArmLiveness, Leases
  <2>2. \/ exec'.pc = "armed" /\ exec'.task = exec.task /\ phase' = phase
        \/ exec'.pc = "halted" /\ phase' = "stopping"
    BY <1>a, <1>5, ExecMoves DEF ArmLiveness, Goto
  <2> QED
    BY <1>5, <2>1, <2>2, <1>b, <1>c, ExecStepKeeps
       DEF ArmLiveness, ExecAt, Deregistered, Unlaunched, Supervising
<1>6. ASSUME NEW t \in Tasks, ProveReady(t) PROVE PickupInv'
  <2>1. \/ exec'.pc = "proved" /\ exec'.task = exec.task /\ phase' = phase /\ ~FencedFor(t, row[t].gen)
        \/ exec'.pc = "halted" /\ phase' = "stopping"
    BY <1>a, <1>6, ExecMoves DEF ProveReady, Goto
  <2>2. ~FencedFor(t, row[t].gen) /\ HoldsClaim(t, epoch) => fence[t].state = "none"
    BY DEF PickupInv, FenceMatchesRow, FencedFor, HoldsClaim, TypeOK, Fence
  <2>3. row[t].state = "claimed" /\ row[t].owner = epoch
    BY <1>6 DEF ProveReady, ExecAt, PickupInv, ClaimIsFresh, Unlaunched
  <2> QED
    BY <1>6, <2>1, <2>2, <2>3, <1>b, <1>c, <1>d, ExecStepKeeps
       DEF ProveReady, ExecAt, HoldsClaim, Deregistered, Unlaunched, Supervising
<1>7. ASSUME NEW t \in Tasks, LaunchRefused(t) PROVE PickupInv'
  <2>1. \/ exec'.pc \in {"idle", "halted"} /\ phase' = phase
        \/ exec'.pc = "halted" /\ phase' = "stopping"
    BY <1>a, <1>7, ExecMoves DEF LaunchRefused
  <2> QED
    BY <1>7, <2>1, <1>b, <1>c, <1>d, ExecStepKeeps
       DEF LaunchRefused, ExecAt, Deregistered, Unlaunched, Supervising
<1>8. ASSUME NEW t \in Tasks, Launch(t) PROVE PickupInv'
  <2>1. exec'.pc = "spawned" /\ exec'.task = t /\ exec.pc = "proved" /\ exec.task = t
    BY <1>a, <1>8 DEF Launch, ExecAt, Goto, ExecType
  <2>2. running' = {t} /\ phase \notin {"down", "recovering"}
    BY <1>8, <1>b, <1>c, <2>1 DEF Launch, Deregistered, Unlaunched
  <2>3. launches[t] = 0 /\ row[t].state = "claimed"
    BY <2>1 DEF PickupInv, ClaimIsFresh, Unlaunched
  <2>4. \A u \in Tasks : launches'[u] = IF u = t THEN 1 ELSE launches[u]
    BY <1>8, <2>3 DEF Launch, TypeOK
  <2> QED
    BY <1>8, <2>1, <2>2, <2>3, <2>4
       DEF Launch, PickupInv, FenceMatchesRow, OutcomesHaveCause, RegistryMatchesExec,
           ClaimIsFresh, Deregistered, Unlaunched
<1>9. ASSUME NEW t \in Tasks, LaunchFails(t) PROVE PickupInv'
  <2>1. exec'.pc \in {"idle", "halted"} /\ phase' = phase
    BY <1>a, <1>9, ExecMoves DEF LaunchFails
  <2>2. running = {} /\ phase \notin {"down", "recovering"}
    BY <1>9, <1>b, <1>c DEF LaunchFails, ExecAt, Deregistered, Unlaunched
  <2>3. OutcomesHaveCause'
    BY <1>9, <1>f DEF LaunchFails, Elected, HoldsClaim, PickupInv, OutcomesHaveCause
  <2> QED
    BY <1>9, <2>1, <2>2, <2>3
       DEF LaunchFails, PickupInv, FenceMatchesRow, RegistryMatchesExec, ClaimIsFresh,
           Supervising, Unlaunched
<1>10. ASSUME NEW t \in Tasks, StageStarted(t) PROVE PickupInv'
  <2>1. exec'.pc \in {"started", "teardown"} /\ exec'.task = exec.task
    BY <1>a, <1>10 DEF StageStarted, Goto, ExecType
  <2> QED
    BY <1>10, <2>1, <1>c, <1>d, <1>e, ExecStepKeeps
       DEF StageStarted, ExecAt, Deregistered, Unlaunched, Supervising
<1>11. ASSUME NEW t \in Tasks, RenewLiveness(t) PROVE PickupInv'
  <2>1. ClaimsKept
    BY <1>a, <1>11, <1>d, LeaseEdit DEF RenewLiveness, Leases
  <2>2. exec'.pc \in {"running", "teardown"} /\ exec'.task = exec.task
    BY <1>a, <1>11 DEF RenewLiveness, Goto, ExecType
  <2> QED
    BY <1>11, <2>1, <2>2, <1>c, <1>e, ExecStepKeeps
       DEF RenewLiveness, ExecAt, Deregistered, Unlaunched, Supervising
<1>12. ASSUME NEW t \in Tasks, ObserveExit(t) PROVE PickupInv'
  <2>1. exec'.pc = "exited" /\ exec'.task = exec.task
    BY <1>a, <1>12 DEF ObserveExit, Goto, ExecType
  <2> QED
    BY <1>12, <2>1, <1>c, <1>d, ExecStepKeeps
       DEF ObserveExit, ExecAt, Deregistered, Unlaunched, Supervising
<1>13. ASSUME NEW t \in Tasks, ElectExit(t) PROVE PickupInv'
  <2>1. exec'.pc \in {"idle", "halted"} /\ phase' = phase
    BY <1>a, <1>13, ExecMoves DEF ElectExit
  <2>2. running' = {} /\ phase \notin {"down", "recovering"}
    BY <1>13, <1>e, <1>c DEF ElectExit, ExecAt, Supervising
  <2>3. OutcomesHaveCause'
    BY <1>13, <1>f DEF ElectExit, Elected, HoldsClaim, PickupInv, OutcomesHaveCause
  <2> QED
    BY <1>13, <2>1, <2>2, <2>3
       DEF ElectExit, PickupInv, FenceMatchesRow, RegistryMatchesExec, ClaimIsFresh,
           Supervising, Unlaunched
<1>14. ASSUME NEW t \in Tasks, ExitAfterCancel(t) PROVE PickupInv'
  <2>1. exec'.pc \in {"idle", "halted", "exitedStop"} /\ phase' = phase
    BY <1>a, <1>14, ExecMoves DEF ExitAfterCancel, Goto
  <2>2. running' = {}
    BY <1>14, <1>e DEF ExitAfterCancel, ExecAt, Supervising
  <2> QED
    BY <1>14, <2>1, <2>2, <1>c, <1>d, ExecStepKeeps
       DEF ExitAfterCancel, ExecAt, Unlaunched, Supervising
<1>15. ASSUME NEW t \in Tasks, RegisterExitedStop(t) PROVE PickupInv'
  <2>1. ClaimsKept
    BY <1>a, <1>15, RegisteredKept DEF RegisterExitedStop
  <2>2. exec'.pc \in {"idle", "halted"} /\ phase' = phase
    BY <1>a, <1>15, ExecMoves DEF RegisterExitedStop
  <2> QED
    BY <1>15, <2>1, <2>2, <1>b, <1>c, ExecStepKeeps
       DEF RegisterExitedStop, ExecAt, Deregistered, Unlaunched, Supervising
<1>16. ASSUME NEW t \in Tasks, ObserveToken(t) PROVE PickupInv'
  <2>1. exec'.pc = "teardown" /\ exec'.task = exec.task
    BY <1>a, <1>16 DEF ObserveToken, ExecType
  <2> QED
    BY <1>16, <2>1, <1>c, <1>d, ExecStepKeeps
       DEF ObserveToken, ExecAt, Deregistered, Unlaunched, Supervising
<1>17. ASSUME NEW t \in Tasks, Teardown(t) PROVE PickupInv'
  <2>1. exec'.pc = "removing" /\ exec'.task = exec.task
    BY <1>a, <1>17 DEF Teardown, Goto, ExecType
  <2> QED
    BY <1>17, <2>1, <1>c, <1>d, ExecStepKeeps
       DEF Teardown, ExecAt, Deregistered, Unlaunched, Supervising
<1>18. ASSUME NEW t \in Tasks, Deregister(t) PROVE PickupInv'
  <2>1. exec.after \in {"ok", "err", "register"}
    BY <1>a DEF ExecType, ExecAfter
  <2>2. \/ exec'.pc \in {"idle", "halted", "registering"} /\ phase' = phase
        \/ exec'.pc = "halted" /\ phase' = "stopping"
    BY <1>a, <1>18, <2>1, ExecMoves DEF Deregister, Goto
  <2>3. running' = {}
    BY <1>18, <1>e DEF Deregister, ExecAt, Supervising
  <2> QED
    BY <1>18, <2>2, <2>3, <1>c, <1>d, ExecStepKeeps
       DEF Deregister, ExecAt, Deregistered, Unlaunched, Supervising
<1>19. ASSUME NEW t \in Tasks, RegisterFormationStop(t) PROVE PickupInv'
  <2>1. ClaimsKept
    BY <1>a, <1>19, RegisteredKept DEF RegisterFormationStop
  <2>2. exec'.pc \in {"idle", "halted"} /\ phase' = phase
    BY <1>a, <1>19, ExecMoves DEF RegisterFormationStop
  <2> QED
    BY <1>19, <2>1, <2>2, <1>b, <1>c, ExecStepKeeps
       DEF RegisterFormationStop, ExecAt, Deregistered, Unlaunched, Supervising
<1>20. ASSUME NEW t \in Tasks, ErrBeforeSpawn(t) PROVE PickupInv'
  <2>1. exec'.pc = "halted" /\ phase' = "stopping"
    BY <1>a, <1>20, ExecMoves DEF ErrBeforeSpawn
  <2> QED
    BY <1>20, <2>1, <1>b, <1>c, <1>d, ExecStepKeeps
       DEF ErrBeforeSpawn, ExecAt, Deregistered, Unlaunched, Supervising
<1>21. ASSUME NEW t \in Tasks, ErrWhileRegistered(t) PROVE PickupInv'
  <2>1. exec'.pc = "halted" /\ phase' = "stopping"
    BY <1>a, <1>21, ExecMoves DEF ErrWhileRegistered
  <2> QED
    BY <1>21, <2>1, <1>c, <1>d, ExecStepKeeps
       DEF ErrWhileRegistered, ExecAt, Deregistered, Unlaunched, Supervising
<1>22. ASSUME NEW t \in Tasks, ErrElectingExit(t) PROVE PickupInv'
  <2>1. exec'.pc = "halted" /\ phase' = "stopping"
    BY <1>a, <1>22, ExecMoves DEF ErrElectingExit
  <2> QED
    BY <1>22, <2>1, <1>c, <1>d, ExecStepKeeps
       DEF ErrElectingExit, ExecAt, Deregistered, Unlaunched, Supervising
<1>23. ASSUME NEW t \in Tasks, ErrRenewing(t) PROVE PickupInv'
  <2>1. ClaimsKept
    BY <1>a, <1>23, RegisteredKept DEF ErrRenewing
  <2>2. exec'.pc = "teardown" /\ exec'.task = exec.task
    BY <1>a, <1>23, ExecMoves DEF ErrRenewing
  <2> QED
    BY <1>23, <2>1, <2>2, <1>c, ExecStepKeeps
       DEF ErrRenewing, ExecAt, Deregistered, Unlaunched, Supervising
<1>24. ASSUME NEW t \in Tasks, CancelCommit(t) PROVE PickupInv'
  <2>1. fence'[t] = FenceFor(t) /\ \A u \in Tasks : u # t => fence'[u] = fence[u]
    BY <1>24 DEF CancelCommit, TypeOK
  <2>2. /\ UNCHANGED <<row, outcomes, launches, phase, epoch, exec, running, stopping>>
        /\ fenced \cup missed \subseteq fenced' \cup missed' /\ FenceInsertable(t)
    BY <1>24 DEF CancelCommit
  <2>3. ASSUME exec.pc = "proved", exec.task = t, fence[t].state = "none"
        PROVE  t \in fenced'
    <3>1. row[t].state = "claimed" /\ row[t].owner = epoch /\ Unresolved(t)
      BY <2>3 DEF PickupInv, ClaimIsFresh, Unlaunched
    <3>2. FenceFor(t).state = "bound" /\ FenceFor(t).gen = row[t].gen /\ FenceFor(t).owner = epoch
      BY <2>3, <3>1 DEF FenceFor, NoFence
    <3>3. t \notin running /\ FenceFor(t).owner # NoOwner /\ ~Terminal(t, FenceFor(t).gen)
      BY <2>3, <3>1, <3>2, <1>b DEF Deregistered, Unlaunched, TypeOK, NoOwner, Unresolved
    <3> QED
      BY <1>24, <3>2, <3>3 DEF CancelCommit
  <2> QED
    BY <2>1, <2>2, <2>3, FenceCommitKeeps
<1>25. ASSUME NEW t \in Tasks, CancelRefused(t) PROVE PickupInv'
  BY <1>25, <1>g DEF CancelRefused
<1>51. ASSUME NEW t \in Tasks, CancelUnconfirmed(t) PROVE PickupInv'
  <2>1. CASE UNCHANGED <<fence, missed>>
    BY <1>51, <2>1, <1>g DEF CancelUnconfirmed
  <2>2. CASE /\ fence' = [fence EXCEPT ![t] = FenceFor(t)]
             /\ missed' = IF ExecAt("proved", t) /\ t \notin fenced THEN missed \cup {t} ELSE missed
    <3>1. fence'[t] = FenceFor(t) /\ \A u \in Tasks : u # t => fence'[u] = fence[u]
      BY <2>2 DEF TypeOK
    <3>2. /\ UNCHANGED <<row, outcomes, launches, phase, epoch, exec, running, stopping>>
          /\ fenced \cup missed \subseteq fenced' \cup missed' /\ FenceInsertable(t)
      BY <1>51, <2>2 DEF CancelUnconfirmed
    <3>3. exec.pc = "proved" /\ exec.task = t => t \in fenced' \cup missed'
      BY <1>51, <2>2 DEF CancelUnconfirmed, ExecAt
    <3> QED
      BY <3>1, <3>2, <3>3, FenceCommitKeeps
  <2> QED
    BY <1>51, <2>1, <2>2 DEF CancelUnconfirmed
<1>26. ASSUME NEW t \in Tasks, CancelNotify(t) PROVE PickupInv'
  BY <1>26, <1>g DEF CancelNotify
<1>27. ASSUME NEW t \in Tasks, CancelWait(t) PROVE PickupInv'
  BY <1>27, <1>g DEF CancelWait
<1>28. ASSUME NEW t \in Tasks, CancelSettle(t) PROVE PickupInv'
  <2>1. UNCHANGED <<row, launches, phase, epoch, exec, running, stopping, fenced, missed>>
    BY <1>28 DEF CancelSettle
  <2>2. \A u \in Tasks : /\ fence'[u].state = fence[u].state /\ fence'[u].gen = fence[u].gen
                         /\ fence'[u].owner = fence[u].owner
    BY <1>28 DEF CancelSettle, TypeOK, Fence
  <2>3. \A x \in outcomes' : x \in outcomes \/ (x[1] = t /\ fence[t].state = "bound")
    BY <1>28 DEF CancelSettle, Contended, Contends
  <2>4. FenceMatchesRow'
    BY <2>1, <2>2 DEF PickupInv, FenceMatchesRow
  <2>5. OutcomesHaveCause'
    BY <1>f, <2>1, <2>2, <2>3 DEF PickupInv, OutcomesHaveCause
  <2>6. RegistryMatchesExec'
    BY <2>1 DEF PickupInv, RegistryMatchesExec
  <2>7. ClaimIsFresh'
    <3>1. \A u, g, o : <<u, g, o>> \in outcomes' =>
            <<u, g, o>> \in outcomes \/ (u = t /\ fence[t].state = "bound")
      BY <2>3
    <3>2. \A u \in Tasks : fence[u].state = "none" /\ Unresolved(u) => Unresolved(u)'
      BY <2>1, <3>1 DEF Unresolved, Terminal
    <3> QED
      BY <2>1, <2>2, <3>2 DEF PickupInv, ClaimIsFresh, Unlaunched, Unresolved, Terminal
  <2> QED
    BY <2>4, <2>5, <2>6, <2>7 DEF PickupInv
<1>29. ASSUME NEW t \in Tasks, ReconcileDue(t) PROVE PickupInv'
  <2>1. exec.pc = "idle"
    BY <1>29, <1>c DEF ReconcileDue
  <2>2. OutcomesHaveCause'
    BY <1>29, <1>f DEF ReconcileDue, Due, PickupInv, OutcomesHaveCause
  <2> QED
    BY <1>29, <2>1, <2>2 DEF ReconcileDue, PickupInv, FenceMatchesRow, RegistryMatchesExec,
                             ClaimIsFresh, Unlaunched
<1>30. ASSUME NEW t \in Tasks, ProcessExits(t) PROVE PickupInv'
  BY <1>30, <1>g DEF ProcessExits
<1>31. ASSUME NEW t \in Tasks, DeadlinePasses(t) PROVE PickupInv'
  <2>1. ClaimsKept
    BY <1>a, <1>31, LeaseEdit DEF DeadlinePasses, Leases
  <2> QED
    BY <1>31, <2>1, <1>b, <1>c, ExecStepKeeps DEF DeadlinePasses
<1>32. ASSUME NEW t \in Tasks, GuardianKills(t) PROVE PickupInv'
  BY <1>32, <1>g DEF GuardianKills
<1>33. ASSUME NEW t \in Tasks, SendAck(t) PROVE PickupInv'
  BY <1>33, <1>g DEF SendAck
<1>34. ASSUME NEW e \in outbox, SendEvent(e) PROVE PickupInv'
  BY <1>34, <1>g DEF SendEvent
<1>35. CASE CancelAborted
  BY <1>35, <1>g DEF CancelAborted
<1>36. CASE RelayConnected
  BY <1>36, <1>g DEF RelayConnected
<1>37. CASE RelayLost
  BY <1>37, <1>g DEF RelayLost
<1>50. CASE DrainFails
  BY <1>50, <1>g DEF DrainFails
<1>38. CASE MarkEventForwarded
  BY <1>38, <1>g DEF MarkEventForwarded
<1>39. CASE MarkAckForwarded
  BY <1>39, <1>g DEF MarkAckForwarded
<1>40. CASE RecoveryDone
  BY <1>40 DEF RecoveryDone, PickupInv, FenceMatchesRow, OutcomesHaveCause,
               RegistryMatchesExec, ClaimIsFresh, Unresolved, Terminal
<1>41. CASE Shutdown
  BY <1>41, <1>b, <1>c, <1>d, ExecStepKeeps DEF Shutdown
<1>42. CASE StopAll
  BY <1>42 DEF StopAll, PickupInv, FenceMatchesRow, OutcomesHaveCause,
               RegistryMatchesExec, ClaimIsFresh, Unresolved, Terminal
<1>43. CASE HaltIdle
  <2>1. exec'.pc = "halted"
    BY <1>a, <1>43, ExecMoves DEF HaltIdle, Goto
  <2>2. phase \notin {"down", "recovering"}
    BY <1>43 DEF HaltIdle, PickupInv, RegistryMatchesExec
  <2> QED
    BY <1>43, <2>1, <2>2, <1>b, <1>d, ExecStepKeeps
       DEF HaltIdle, Deregistered, Unlaunched, Supervising
<1>44. CASE ShutdownDone
  BY <1>44, <1>h DEF ShutdownDone
<1>45. CASE ShutdownTimedOut
  BY <1>45, <1>h DEF ShutdownTimedOut
<1>46. CASE Crash
  BY <1>46, <1>h DEF Crash
<1>47. CASE Restart
  <2>1. exec.pc = "idle"
    BY <1>47, <1>c DEF Restart
  <2>2. stopping = FALSE
    BY <1>47 DEF Restart, PickupInv, RegistryMatchesExec, TypeOK
  <2> QED
    BY <1>47, <2>1, <2>2 DEF Restart, PickupInv, FenceMatchesRow, OutcomesHaveCause,
                             RegistryMatchesExec, ClaimIsFresh, Unlaunched
<1>48. CASE UNCHANGED vars
  BY <1>48, <1>g DEF vars
<1>49. QED
  BY <1>1, <1>2, <1>3, <1>4, <1>5, <1>6, <1>7, <1>8, <1>9, <1>10, <1>11, <1>12,
     <1>13, <1>14, <1>15, <1>16, <1>17, <1>18, <1>19, <1>20, <1>21, <1>22,
     <1>23, <1>24, <1>25, <1>26, <1>27, <1>28, <1>29, <1>30, <1>31, <1>32,
     <1>33, <1>34, <1>35, <1>36, <1>37, <1>38, <1>39, <1>40, <1>41, <1>42,
     <1>43, <1>44, <1>45, <1>46, <1>47, <1>48, <1>50, <1>51
     DEF Next, Prepare, Supervise, ExecErr, CancelStep, Drain, Formation

(* An outcome added for an unresolved generation is the only one of it. *)
LEMMA AddedOutcomeIsUnique ==
  ASSUME TypeOK, OneTerminalOutcome, NEW t \in Tasks, NEW g \in Nat, NEW o \in Outcomes,
         ~Terminal(t, g), outcomes' = outcomes \cup {<<t, g, o>>}
  PROVE  \A x, y \in outcomes' : x[1] = y[1] /\ x[2] = y[2] => x = y
<1>1. \A y \in outcomes : ~(y[1] = t /\ y[2] = g)
  <2> SUFFICES ASSUME NEW y \in outcomes, y[1] = t, y[2] = g PROVE FALSE
    OBVIOUS
  <2>1. y[3] \in Outcomes /\ y = <<y[1], y[2], y[3]>>
    BY DEF TypeOK
  <2> QED
    BY <2>1 DEF Terminal
<1> QED
  BY <1>1 DEF OneTerminalOutcome

(* Electing an exit outcome together with its event keeps the correspondence. *)
LEMMA ElectionKeeps ==
  ASSUME TypeOK, OneTerminalOutcome, NEW t \in Tasks, NEW g \in Nat, NEW o \in ExitOutcomes,
         ~Terminal(t, g), outcomes' = outcomes \cup {<<t, g, o>>},
         outbox' = outbox \cup {<<t, g, EventKind(o)>>}
  PROVE  OneTerminalOutcome'
<1>0. o \in Outcomes
  BY DEF Outcomes
<1>1. \A x, y \in outcomes' : x[1] = y[1] /\ x[2] = y[2] => x = y
  BY <1>0, AddedOutcomeIsUnique
<1>2. \A x \in outcomes' : x[3] \in ExitOutcomes => <<x[1], x[2], EventKind(x[3])>> \in outbox'
  BY DEF OneTerminalOutcome
<1>3. \A e \in outbox' : e[3] \in TerminalKinds =>
        \E x \in outcomes' : /\ x[1] = e[1] /\ x[2] = e[2]
                             /\ x[3] \in ExitOutcomes /\ EventKind(x[3]) = e[3]
  <2> TAKE e \in outbox'
  <2>1. CASE e \in outbox
    BY <2>1 DEF OneTerminalOutcome
  <2>2. CASE e = <<t, g, EventKind(o)>>
    <3> DEFINE w == <<t, g, o>>
    <3>1. w \in outcomes' /\ w[1] = e[1] /\ w[2] = e[2] /\ w[3] \in ExitOutcomes
          /\ EventKind(w[3]) = e[3]
      BY <2>2
    <3> QED
      BY <3>1
  <2> QED
    BY <2>1, <2>2
<1> QED
  BY <1>1, <1>2, <1>3 DEF OneTerminalOutcome

(* Staging Assigned or Started, or nothing, keeps it too. *)
LEMMA ProgressEventKeeps ==
  ASSUME OneTerminalOutcome, UNCHANGED outcomes,
         \A e \in outbox' : e \in outbox \/ e[3] \notin TerminalKinds, outbox \subseteq outbox'
  PROVE  OneTerminalOutcome'
BY DEF OneTerminalOutcome

(* The executor's conditional election. *)
LEMMA ElectedKeeps ==
  ASSUME TypeOK, OneTerminalOutcome, NEW t \in Tasks, NEW o \in ExitOutcomes, Elected(t, o)
  PROVE  OneTerminalOutcome'
<1>0. row[t].gen \in Nat
  BY RowUpdateType DEF TypeOK
<1>1. CASE HoldsClaim(t, epoch) /\ Unresolved(t)
  BY <1>0, <1>1, ElectionKeeps DEF Elected, Unresolved
<1>2. CASE ~(HoldsClaim(t, epoch) /\ Unresolved(t))
  BY <1>2, ProgressEventKeeps DEF Elected
<1> QED
  BY <1>1, <1>2

(* Every step keeps one terminal outcome per generation. *)
LEMMA OutcomeStep == TypeOK /\ OneTerminalOutcome /\ [Next]_vars => OneTerminalOutcome'
<1> SUFFICES ASSUME TypeOK, OneTerminalOutcome, [Next]_vars PROVE OneTerminalOutcome'
  OBVIOUS
<1> USE DEF durable
<1>a. UNCHANGED <<outcomes, outbox>> => OneTerminalOutcome'
  BY ProgressEventKeeps
<1>1. ASSUME NEW t \in Tasks, ClaimPickup(t) PROVE OneTerminalOutcome'
  BY <1>1, ProgressEventKeeps DEF ClaimPickup, TerminalKinds
<1>2. ASSUME NEW t \in Tasks, StageStarted(t) PROVE OneTerminalOutcome'
  BY <1>2, ProgressEventKeeps DEF StageStarted, TerminalKinds
<1>3. ASSUME NEW t \in Tasks, LaunchFails(t) PROVE OneTerminalOutcome'
  BY <1>3, ElectedKeeps DEF LaunchFails, ExitOutcomes
<1>4. ASSUME NEW t \in Tasks, ElectExit(t) PROVE OneTerminalOutcome'
  BY <1>4, ElectedKeeps DEF ElectExit, ExitOutcomes
<1>5. ASSUME NEW t \in Tasks, ReconcileDue(t) PROVE OneTerminalOutcome'
  <2>1. row[t].gen \in Nat
    BY RowUpdateType DEF TypeOK
  <2>2. "LivenessExpired" \in ExitOutcomes /\ EventKind("LivenessExpired") = "Unhealthy"
    BY DEF ExitOutcomes, EventKind
  <2> QED
    BY <1>5, <2>1, <2>2, ElectionKeeps DEF ReconcileDue, Due, Unresolved
<1>6. ASSUME NEW t \in Tasks, CancelSettle(t) PROVE OneTerminalOutcome'
  <2> DEFINE o == TerminalOutcome(cancel.recon)
  <2>1. cancel.recon \in Recons
    BY <1>6 DEF CancelSettle, TypeOK
  <2>2. o \in Outcomes /\ o \notin ExitOutcomes
    BY <2>1 DEF TerminalOutcome, Recons, Outcomes, CancelOutcomes, ExitOutcomes
  <2>3. fence[t].gen \in Nat
    BY DEF TypeOK, Fence
  <2> HIDE DEF o
  <2>4. CASE outcomes' = outcomes
    BY <1>6, <2>4, <1>a DEF CancelSettle, Contended
  <2>5. CASE ~Terminal(t, fence[t].gen) /\ outcomes' = outcomes \cup {<<t, fence[t].gen, o>>}
    <3>1. \A x, y \in outcomes' : x[1] = y[1] /\ x[2] = y[2] => x = y
      BY <2>2, <2>3, <2>5, AddedOutcomeIsUnique
    <3> QED
      BY <1>6, <2>2, <2>5, <3>1 DEF CancelSettle, Contended, OneTerminalOutcome
  <2> QED
    BY <1>6, <2>4, <2>5 DEF CancelSettle, Contended, o
<1>7. ASSUME NEW t \in Tasks, \/ StageDispatch(t) \/ SelectPending(t) \/ RejectPoison(t)
                              \/ ArmLiveness(t) \/ ProveReady(t) \/ LaunchRefused(t)
                              \/ Launch(t) \/ RenewLiveness(t) \/ ObserveExit(t)
                              \/ ExitAfterCancel(t) \/ RegisterExitedStop(t)
                              \/ ObserveToken(t) \/ Teardown(t) \/ Deregister(t)
                              \/ RegisterFormationStop(t)
      PROVE  OneTerminalOutcome'
  BY <1>7, <1>a DEF StageDispatch, SelectPending, RejectPoison, ArmLiveness, ProveReady,
     LaunchRefused, Launch, RenewLiveness, ObserveExit, ExitAfterCancel, RegisterExitedStop,
     ObserveToken, Teardown, Deregister, RegisterFormationStop
<1>8. ASSUME NEW t \in Tasks, \/ ExecErr(t) \/ CancelCommit(t) \/ CancelRefused(t)
                              \/ CancelUnconfirmed(t)
                              \/ CancelNotify(t) \/ CancelWait(t) \/ ProcessExits(t)
                              \/ DeadlinePasses(t) \/ GuardianKills(t) \/ SendAck(t)
      PROVE  OneTerminalOutcome'
  BY <1>8, <1>a DEF ExecErr, ErrBeforeSpawn, ErrWhileRegistered, ErrElectingExit, ErrRenewing,
     CancelCommit, CancelRefused, CancelUnconfirmed, CancelNotify, CancelWait, ProcessExits, DeadlinePasses,
     GuardianKills, SendAck
<1>9. ASSUME NEW e \in outbox, SendEvent(e) PROVE OneTerminalOutcome'
  BY <1>9, <1>a DEF SendEvent
<1>10. CASE \/ CancelAborted \/ RelayConnected \/ RelayLost \/ DrainFails \/ MarkEventForwarded
            \/ MarkAckForwarded \/ Formation \/ Shutdown \/ ShutdownTimedOut \/ Crash
            \/ UNCHANGED vars
  BY <1>10, <1>a DEF CancelAborted, RelayConnected, RelayLost, DrainFails, MarkEventForwarded,
     MarkAckForwarded, Formation, RecoveryDone, StopAll, HaltIdle, ShutdownDone, Restart,
     Shutdown, ShutdownTimedOut, Crash, ProcessGone, vars
<1> QED
  BY <1>1, <1>2, <1>3, <1>4, <1>5, <1>6, <1>7, <1>8, <1>9, <1>10
     DEF Next, Prepare, Supervise, CancelStep, Drain

(***************************************************************************)
(* The theorems.                                                           *)
(***************************************************************************)

(* The initial state: an empty database and a first incarnation. *)
LEMMA InitHolds == Init => TypeOK /\ PickupInv /\ OneTerminalOutcome
<1> SUFFICES ASSUME Init PROVE TypeOK /\ PickupInv /\ OneTerminalOutcome
  OBVIOUS
<1>1. NoRow \in Row /\ NoFence \in Fence
  BY DEF NoRow, Row, RowStates, Leases, NoOwner, NoFence, Fence
<1>2. exec \in ExecType /\ cancel \in CancelType
  BY DEF Init, ExecType, ExecPcs, ExecAfter, CancelType, CancelPcs
<1>3. TypeOK
  <2>1. row \in [Tasks -> Row] /\ fence \in [Tasks -> Fence] /\ ack \in [Tasks -> Acks]
    BY <1>1 DEF Init, Acks
  <2>2. /\ completion \in [Tasks -> Completions] /\ proc \in [Tasks -> Processes]
        /\ launches \in [Tasks -> Nat]
    BY DEF Init, Completions, Processes
  <2>3. fwd \in DrainType /\ fwd.pc = "off" /\ cancel.pc = "idle"
    BY DrainStateType DEF Init, DrainOff
  <2>4. /\ armed = {} /\ outbox = {} /\ forwarded = {} /\ outcomes = {} /\ ackForwarded = {}
        /\ running = {} /\ fenced = {} /\ token = {} /\ delivered = {} /\ requested = {}
        /\ missed = {}
    BY DEF Init
  <2>5. phase = "recovering" /\ lock = "free" /\ stopping \in BOOLEAN
    BY DEF Init
  <2>6. epoch \in Nat \ {0}
    BY DEF Init
  <2> QED
    BY <1>2, <2>1, <2>2, <2>3, <2>4, <2>5, <2>6 DEF TypeOK
<1>4. FenceMatchesRow
  BY DEF Init, FenceMatchesRow, NoFence
<1>5. OutcomesHaveCause
  BY DEF Init, OutcomesHaveCause, NoRow
<1>6. RegistryMatchesExec /\ ClaimIsFresh
  BY DEF Init, RegistryMatchesExec, ClaimIsFresh, Unlaunched, Supervising
<1>7. OneTerminalOutcome
  BY DEF Init, OneTerminalOutcome
<1> QED
  BY <1>3, <1>4, <1>5, <1>6, <1>7 DEF PickupInv

(* Every variable keeps its type, for any tasks, faults and restarts. *)
THEOREM TypeCorrect == Spec => []TypeOK
BY InitHolds, TypeStep, PTL DEF Spec

(* The relation between fence, row, registry and the claim run_one carries    *)
(* holds in every state.                                                      *)
THEOREM PickupCorrect == Spec => []PickupInv
<1>1. Spec => []TypeOK
  BY TypeCorrect
<1> QED
  BY <1>1, InitHolds, PickupStep, PTL DEF Spec

(* No dispatch is ever launched twice: claim, spawn, crash and restart in any *)
(* order.                                                                     *)
THEOREM LaunchedOnce == Spec => []AtMostOneLaunch
<1>1. TypeOK /\ PickupInv => AtMostOneLaunch
  BY DEF TypeOK, PickupInv, ClaimIsFresh, AtMostOneLaunch
<1> QED
  BY <1>1, TypeCorrect, PickupCorrect, PTL

(* No step spawns a Task process after a cancellation fence of its task has   *)
(* committed, although prove_ready_to_launch runs outside the handler mutex,  *)
(* unless the fence was committed after the proof by a request that failed    *)
(* before it told the handler.                                                *)
THEOREM FencedIsNotLaunched == Spec => FenceStopsLaunch
<1> DEFINE A == \A t \in Tasks : launches'[t] # launches[t] =>
                   fence[t].state = "none" \/ t \in missed
<1>1. ASSUME TypeOK, PickupInv, [Next]_vars PROVE [A]_vars
  <2> USE DEF durable, handler, world, relay
  <2>a. launches' = launches => A
    OBVIOUS
  <2>1. ASSUME NEW t \in Tasks, Launch(t) PROVE A
    <3>1. \A u \in Tasks : u # t => launches'[u] = launches[u]
      BY <1>1, <2>1 DEF Launch, TypeOK
    <3>2. exec.pc = "proved" /\ exec.task = t /\ t \notin fenced
      BY <2>1 DEF Launch, MayLaunch, ExecAt
    <3>3. fence[t].state = "none" \/ t \in missed
      BY <1>1, <3>2 DEF PickupInv, ClaimIsFresh
    <3> QED
      BY <3>1, <3>3
  <2>2. ASSUME NEW t \in Tasks, \/ StageDispatch(t) \/ SelectPending(t) \/ RejectPoison(t)
                                \/ ClaimPickup(t) \/ ArmLiveness(t) \/ ProveReady(t)
                                \/ LaunchRefused(t) \/ LaunchFails(t) \/ StageStarted(t)
                                \/ RenewLiveness(t) \/ Supervise(t)
        PROVE  A
    BY <2>2, <2>a DEF StageDispatch, SelectPending, RejectPoison, ClaimPickup, ArmLiveness,
       ProveReady, LaunchRefused, LaunchFails, StageStarted, RenewLiveness, Supervise,
       ObserveExit, ElectExit, ExitAfterCancel, RegisterExitedStop, ObserveToken, Teardown,
       Deregister, RegisterFormationStop
  <2>3. ASSUME NEW t \in Tasks, \/ ExecErr(t) \/ CancelCommit(t) \/ CancelRefused(t)
                                \/ CancelUnconfirmed(t)
                                \/ CancelStep(t) \/ ReconcileDue(t) \/ ProcessExits(t)
                                \/ DeadlinePasses(t) \/ GuardianKills(t) \/ SendAck(t)
        PROVE  A
    BY <2>3, <2>a DEF ExecErr, ErrBeforeSpawn, ErrWhileRegistered, ErrElectingExit,
       ErrRenewing, CancelCommit, CancelRefused, CancelUnconfirmed, CancelStep, CancelNotify, CancelWait,
       CancelSettle, ReconcileDue, ProcessExits, DeadlinePasses, GuardianKills, SendAck
  <2>4. ASSUME NEW e \in outbox, SendEvent(e) PROVE A
    BY <2>4, <2>a DEF SendEvent
  <2>5. CASE \/ CancelAborted \/ RelayConnected \/ RelayLost \/ DrainFails \/ MarkEventForwarded
             \/ MarkAckForwarded \/ Formation \/ Shutdown \/ ShutdownTimedOut \/ Crash
             \/ UNCHANGED vars
    BY <2>5, <2>a DEF CancelAborted, RelayConnected, RelayLost, DrainFails, MarkEventForwarded,
       MarkAckForwarded, Formation, RecoveryDone, StopAll, HaltIdle, ShutdownDone, Restart,
       Shutdown, ShutdownTimedOut, Crash, ProcessGone, vars
  <2> HIDE DEF A
  <2> QED
    BY <1>1, <2>1, <2>2, <2>3, <2>4, <2>5 DEF Next, Prepare, Drain
<1> HIDE DEF A
<1>2. Spec => [][A]_vars
  BY <1>1, TypeCorrect, PickupCorrect, PTL DEF Spec
<1> QED
  BY <1>2 DEF FenceStopsLaunch, A

(* Exit, setup failure, liveness expiry and cancellation never both win, and  *)
(* the terminal event in the outbox is the winner's.                          *)
THEOREM ElectionCorrect == Spec => []OneTerminalOutcome
BY InitHolds, TypeCorrect, OutcomeStep, PTL DEF Spec

=============================================================================
