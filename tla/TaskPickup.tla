----------------------------- MODULE TaskPickup -----------------------------
(***************************************************************************)
(* Safe task pickup of a Tickr Lite formation.                             *)
(*                                                                         *)
(* The durable half is the set of SQLite rows the sole writer              *)
(* (LocalTaskPickupWriter) mutates one transaction at a time: dispatches,  *)
(* the TaskEvent outbox, terminal outcomes, cancellation fences and the    *)
(* acknowledgement outbox.  The volatile half is one process incarnation:  *)
(* the executor's run_one future, the task handler's registry behind its   *)
(* mutex, the cancellation future the relay awaits, and the relay drain.   *)
(* A crash drops the volatile half at any step.                            *)
(*                                                                         *)
(* A dispatch key is the digest of its payload and a task identity has one *)
(* dispatch row (unique index), so rows are indexed by task.  Time is      *)
(* abstracted to whether a liveness deadline lies ahead or has passed.     *)
(***************************************************************************)
EXTENDS Integers, FiniteSets

CONSTANTS Tasks,     \* task identities (workflow instance, task instance)
          Poison,    \* tasks whose decoded dispatch fails validate_dispatch
          Faults,    \* the environment faults a run allows
          MaxEpoch   \* bound on the number of process incarnations

ASSUME TaskAssumption  == Poison \subseteq Tasks
ASSUME FaultAssumption == Faults \subseteq {"crash", "writer", "shutdown", "relay"}
ASSUME EpochAssumption == MaxEpoch \in Nat \ {0}

VARIABLES
  \* durable rows
  row,         \* local_task_dispatches: state, pickup generation, owner, lease
  armed,       \* tasks whose liveness_armed_at is set
  outbox,      \* local_task_event_outbox: <<task, generation, kind>>
  forwarded,   \* outbox rows with forwarded_at set
  outcomes,    \* local_task_terminal_outcomes: <<task, generation, outcome>>
  fence,       \* local_task_cancellation_fences, one per task identity
  ack,         \* local_task_cancellation_ack_outbox
  ackForwarded,
  \* formation process
  phase, epoch,
  exec,        \* the run_one future of the sequential executor loop
  running, fenced, stopping,   \* LocalTaskHandlerState
  token, completion,           \* RunningCancellation of each registered task
  cancel,      \* the cancellation future of the sequential relay loop
  lock,        \* who holds the task handler mutex across an await
  fwd,         \* the relay drain
  \* the world outside, and history
  proc,        \* the Task process of each task
  launches,    \* how often a Task process was spawned for the task
  delivered,   \* rows handed to the relay channel
  requested,   \* tasks a cancellation request was handled for
  missed       \* tasks whose fence committed between proof and spawn, unknown to
               \* the handler because the request failed

durable  == <<row, armed, outbox, forwarded, outcomes, fence, ack, ackForwarded>>
handler  == <<running, fenced, stopping, token, completion>>
world    == <<proc, launches, requested, missed>>
relay    == <<fwd, delivered>>
vars     == <<durable, phase, epoch, exec, handler, cancel, lock, relay, world>>

NoOwner == 0
NoTask  == "none"

RowStates    == {"absent", "pending", "claimed", "rejected"}
Kinds        == {"Assigned", "Started", "Completed", "Failed", "Unhealthy"}
TerminalKinds == {"Completed", "Failed", "Unhealthy"}
Recons       == {"Killed", "AlreadyExited", "NoProcess"}
ExitOutcomes == {"ExitedSuccess", "ExitedFailure", "SetupFailed", "LivenessExpired"}
CancelOutcomes == {"CancelKilled", "CancelAlreadyExited", "CancelNoProcess"}
Outcomes     == ExitOutcomes \cup CancelOutcomes

Leases == {"unset", "ahead", "due"}
Row   == [state : RowStates, gen : Nat, owner : Nat, lease : Leases]
Fence == [state : {"none", "unmatched", "bound"}, gen : Nat, owner : Nat,
          recon : Recons \cup {"open"}]

ExecPcs   == {"idle", "selected", "claimed", "armed", "proved", "spawned", "started",
              "running", "exited", "exitedStop", "teardown", "removing", "registering",
              "halted"}
(* What run_one does once the process it stopped is gone. *)
ExecAfter == {"ok", "register", "err"}
CancelPcs == {"idle", "notify", "wait", "settle"}
ExecType    == [pc : ExecPcs, task : Tasks \cup {NoTask}, after : ExecAfter]
CancelType  == [pc : CancelPcs, task : Tasks \cup {NoTask}, recon : Recons \cup {"open"}]
Completions == Recons \cup {"pending", "dropped"}
Processes   == {"none", "alive", "succeeded", "failed", "killed"}
Acks        == {"none", "Killed", "NoSuchTask"}

NoRow    == [state |-> "absent", gen |-> 0, owner |-> NoOwner, lease |-> "unset"]
DrainOff  == [pc |-> "off", item |-> <<>>]
DrainIdle == [pc |-> "idle", item |-> <<>>]
DrainDead == [pc |-> "dead", item |-> <<>>]
NoFence  == [state |-> "none", gen |-> 0, owner |-> NoOwner, recon |-> "open"]

(* The TaskEvent a terminal outcome projects to. *)
EventKind(o) == CASE o = "ExitedSuccess"   -> "Completed"
                  [] o \in {"ExitedFailure", "SetupFailed"} -> "Failed"
                  [] o = "LivenessExpired" -> "Unhealthy"

(* A reconciliation as a terminal outcome, and as the published kill outcome. *)
TerminalOutcome(r) == CASE r = "Killed"        -> "CancelKilled"
                        [] r = "AlreadyExited" -> "CancelAlreadyExited"
                        [] r = "NoProcess"     -> "CancelNoProcess"
KillOutcomeRaw(r) == r   \* mutant: the internal reconciliation is published
KillOutcome(r) == IF r = "Killed" THEN "Killed" ELSE "NoSuchTask"

(* reconciliation_from_terminal: what a cancellation reports of a winner. *)
ReconciliationTooBold(o) ==   \* mutant: every winner reported as a kill
  IF o = "CancelNoProcess" THEN "NoProcess" ELSE "Killed"
ReconciliationFromTerminal(o) == CASE o = "CancelKilled"    -> "Killed"
                                   [] o = "CancelNoProcess" -> "NoProcess"
                                   [] OTHER                 -> "AlreadyExited"

-----------------------------------------------------------------------------
(* Conditions the writer's SQL statements test. *)

Terminal(t, g) == \E o \in Outcomes : <<t, g, o>> \in outcomes
WinnerOf(t, g) == CHOOSE o \in Outcomes : <<t, g, o>> \in outcomes

(* A fence on the generation, or one committed before any dispatch existed. *)
FencedFor(t, g) == \/ fence[t].state = "unmatched"
                   \/ fence[t].state = "bound" /\ fence[t].gen = g

(* The exact claim: state, generation and owner of the committed row. *)
HoldsClaim(t, o) == row[t].state = "claimed" /\ row[t].owner = o
Unresolved(t) == ~Terminal(t, row[t].gen)

Due(t) == row[t].state = "claimed" /\ row[t].lease = "due" /\ Unresolved(t)

(* What select_pending offers and the claim tests again in its transaction. *)
ClaimableAgain(t) == row[t].state \in {"pending", "claimed"}   \* mutant: reclaims
ClaimableFenced(t) == row[t].state = "pending"                 \* mutant: ignores fences
Claimable(t) == row[t].state = "pending" /\ ~FencedFor(t, row[t].gen + 1)

(* Any writer request may fail: SQLite errors, and in shutdown the writer    *)
(* task itself may already have observed the cancellation and stopped.       *)
WriterMayFail == "writer" \in Faults \/ phase = "stopping"

(* The conditional election of a non-cancellation outcome. *)
Elected(t, o) ==
  IF HoldsClaim(t, epoch) /\ Unresolved(t)
    THEN /\ outcomes' = outcomes \cup {<<t, row[t].gen, o>>}
         /\ outbox' = outbox \cup {<<t, row[t].gen, EventKind(o)>>}
    ELSE UNCHANGED <<outcomes, outbox>>

-----------------------------------------------------------------------------
Init ==
  /\ row = [t \in Tasks |-> NoRow]
  /\ armed = {} /\ outbox = {} /\ forwarded = {} /\ outcomes = {}
  /\ fence = [t \in Tasks |-> NoFence]
  /\ ack = [t \in Tasks |-> "none"] /\ ackForwarded = {}
  /\ phase = "recovering" /\ epoch = 1
  /\ exec = [pc |-> "idle", task |-> NoTask, after |-> "ok"]
  /\ running = {} /\ fenced = {} /\ stopping = FALSE
  /\ token = {} /\ completion = [t \in Tasks |-> "pending"]
  /\ cancel = [pc |-> "idle", task |-> NoTask, recon |-> "open"]
  /\ lock = "free"
  /\ fwd = DrainOff
  /\ proc = [t \in Tasks |-> "none"] /\ launches = [t \in Tasks |-> 0]
  /\ delivered = {} /\ requested = {} /\ missed = {}

(* How run_one ends.  An error of the executor child stops the formation; a   *)
(* return during shutdown ends the loop once stop_all has been called.        *)
ExecAt(pc, t) == exec.pc = pc /\ exec.task = t
Goto(pc) == exec' = [exec EXCEPT !.pc = pc]
ReturnOk == /\ exec' = [pc |-> IF stopping THEN "halted" ELSE "idle",
                        task |-> NoTask, after |-> "ok"]
            /\ UNCHANGED phase
ReturnErr == /\ exec' = [pc |-> "halted", task |-> NoTask, after |-> "ok"]
             /\ phase' = "stopping"

Working == phase \in {"up", "stopping"}

(* A connected relay loop handles one inbound message at a time. *)
RelayFree == phase = "up" /\ cancel.pc = "idle" /\ fwd.pc # "off"

-----------------------------------------------------------------------------
(* Inbound dispatch: insert a pending row and bind an earlier fence to it.    *)
(* Staging the same payload again changes nothing.                            *)
StageDispatch(t) ==
  /\ RelayFree
  /\ row[t].state = "absent"
  /\ row' = [row EXCEPT ![t].state = "pending"]
  /\ fence' = IF fence[t].state = "unmatched"
                THEN [fence EXCEPT ![t].state = "bound", ![t].gen = 1]
                ELSE fence
  /\ UNCHANGED <<armed, outbox, forwarded, outcomes, ack, ackForwarded, phase, epoch,
                 exec, handler, cancel, lock, relay, world>>

(* run_one: prepare_pickup, one action per durable boundary. *)
SelectPending(t) ==
  /\ Working /\ exec.pc = "idle"
  /\ Claimable(t)
  /\ exec' = [pc |-> "selected", task |-> t, after |-> "ok"]
  /\ UNCHANGED <<durable, phase, epoch, handler, cancel, lock, relay, world>>

RejectPoisonStalls(t) ==   \* mutant: the poison row keeps its pending state
  /\ ExecAt("selected", t) /\ t \in Poison
  /\ ReturnOk
  /\ UNCHANGED <<durable, epoch, handler, cancel, lock, relay, world>>

RejectPoison(t) ==
  /\ ExecAt("selected", t) /\ t \in Poison
  /\ IF row[t].state = "pending"
       THEN row' = [row EXCEPT ![t].state = "rejected"] /\ ReturnOk
       ELSE UNCHANGED row /\ ReturnErr
  /\ UNCHANGED <<armed, outbox, forwarded, outcomes, fence, ack, ackForwarded, epoch,
                 handler, cancel, lock, relay, world>>

(* The claim commits generation, owner, deadline and Assigned together.  A    *)
(* lost reply is resolved by prove_ambiguous, which finds this same row.      *)
ClaimPickup(t) ==
  /\ ExecAt("selected", t) /\ t \notin Poison
  /\ IF Claimable(t)
       THEN /\ row' = [row EXCEPT ![t] = [state |-> "claimed", gen |-> @.gen + 1,
                                           owner |-> epoch, lease |-> "ahead"]]
            /\ outbox' = outbox \cup {<<t, row[t].gen + 1, "Assigned">>}
            /\ Goto("claimed") /\ UNCHANGED phase
       ELSE UNCHANGED <<row, outbox>> /\ ReturnOk
  /\ UNCHANGED <<armed, forwarded, outcomes, fence, ack, ackForwarded, epoch,
                 handler, cancel, lock, relay, world>>

MayArmSettled(t) == HoldsClaim(t, epoch)   \* mutant: no terminal test
MayArm(t) == /\ HoldsClaim(t, epoch) /\ Unresolved(t)
             /\ <<t, row[t].gen, "Assigned">> \in outbox

ArmLiveness(t) ==
  /\ ExecAt("claimed", t)
  /\ IF MayArm(t)
       THEN /\ row' = [row EXCEPT ![t].lease = "ahead"]
            /\ armed' = armed \cup {t}
            /\ Goto("armed") /\ UNCHANGED phase
       ELSE UNCHANGED <<row, armed>> /\ ReturnErr
  /\ UNCHANGED <<outbox, forwarded, outcomes, fence, ack, ackForwarded, epoch,
                 handler, cancel, lock, relay, world>>

(* prove_ready_to_launch, then the no-op source completion of Tickr Lite. *)
ProveReady(t) ==
  /\ ExecAt("armed", t)
  /\ IF /\ HoldsClaim(t, epoch) /\ t \in armed /\ Unresolved(t)
        /\ <<t, row[t].gen, "Assigned">> \in outbox
        /\ ~FencedFor(t, row[t].gen)
       THEN Goto("proved") /\ UNCHANGED phase
       ELSE ReturnErr
  /\ UNCHANGED <<durable, epoch, handler, cancel, lock, relay, world>>

(* Under the handler mutex: refuse in shutdown, honour an in-memory fence, or *)
(* spawn and register the process.                                            *)
MayLaunchFenced(t) == ~stopping   \* mutant: no in-memory fence test
MayLaunch(t) == ~stopping /\ t \notin fenced

LaunchRefused(t) ==
  /\ ExecAt("proved", t) /\ lock = "free" /\ ~MayLaunch(t)
  /\ IF stopping THEN ReturnErr /\ UNCHANGED fenced
                 ELSE ReturnOk /\ fenced' = fenced \ {t}
  /\ UNCHANGED <<durable, epoch, running, stopping, token, completion, cancel, lock,
                 relay, world>>

Launch(t) ==
  /\ ExecAt("proved", t) /\ lock = "free" /\ MayLaunch(t)
  /\ proc' = [proc EXCEPT ![t] = "alive"]
  /\ launches' = [launches EXCEPT ![t] = @ + 1]
  /\ running' = running \cup {t}
  /\ token' = token \ {t}
  /\ completion' = [completion EXCEPT ![t] = "pending"]
  /\ Goto("spawned")
  /\ UNCHANGED <<durable, phase, epoch, fenced, stopping, cancel, lock, relay, requested,
                 missed>>

LaunchFails(t) ==
  /\ ExecAt("proved", t) /\ lock = "free" /\ MayLaunch(t)
  /\ Elected(t, "SetupFailed")
  /\ ReturnOk
  /\ UNCHANGED <<row, armed, forwarded, fence, ack, ackForwarded, epoch,
                 handler, cancel, lock, relay, world>>

(* A rejected Started row stops the process; the renewal that follows starts  *)
(* the supervised loop.                                                       *)
StageStarted(t) ==
  /\ ExecAt("spawned", t)
  /\ IF /\ HoldsClaim(t, epoch) /\ t \in armed /\ Unresolved(t)
        /\ <<t, row[t].gen, "Started">> \notin outbox
       THEN outbox' = outbox \cup {<<t, row[t].gen, "Started">>} /\ Goto("started")
       ELSE UNCHANGED outbox /\ exec' = [exec EXCEPT !.pc = "teardown", !.after = "err"]
  /\ UNCHANGED <<row, armed, forwarded, outcomes, fence, ack, ackForwarded, phase, epoch,
                 handler, cancel, lock, relay, world>>

MayRenew(t) == HoldsClaim(t, epoch) /\ t \in armed /\ Unresolved(t)

RenewLiveness(t) ==
  /\ ExecAt("started", t) \/ ExecAt("running", t)
  /\ IF MayRenew(t)
       THEN row' = [row EXCEPT ![t].lease = "ahead"] /\ Goto("running")
       ELSE UNCHANGED row /\ exec' = [exec EXCEPT !.pc = "teardown", !.after = "err"]
  /\ UNCHANGED <<armed, outbox, forwarded, outcomes, fence, ack, ackForwarded, phase,
                 epoch, handler, cancel, lock, relay, world>>

-----------------------------------------------------------------------------
(* The supervised loop: child exit, cancellation token, renewal cadence. *)

(* The Task process ends by itself. *)
ProcessExits(t) ==
  /\ proc[t] = "alive"
  /\ \E result \in {"succeeded", "failed"} : proc' = [proc EXCEPT ![t] = result]
  /\ UNCHANGED <<durable, phase, epoch, exec, handler, cancel, lock, relay, launches,
                 requested, missed>>

(* child.wait returned and the launcher flushed the task's logs. *)
ObserveExit(t) ==
  /\ ExecAt("running", t) /\ proc[t] \in {"succeeded", "failed"}
  /\ Goto("exited")
  /\ UNCHANGED <<durable, phase, epoch, handler, cancel, lock, relay, world>>

(* Under the mutex: deregister, then elect unless the token was cancelled. *)
ElectExit(t) ==
  /\ ExecAt("exited", t) /\ lock = "free" /\ t \notin token
  /\ running' = running \ {t}
  /\ Elected(t, IF proc[t] = "succeeded" THEN "ExitedSuccess" ELSE "ExitedFailure")
  /\ ReturnOk
  /\ UNCHANGED <<row, armed, forwarded, fence, ack, ackForwarded, epoch,
                 fenced, stopping, token, completion, cancel, lock, relay, world>>

ExitAfterCancelSilent(t) ==   \* mutant: the waiting cancellation is not told
  /\ ExecAt("exited", t) /\ lock = "free" /\ t \in token
  /\ running' = running \ {t}
  /\ ReturnOk
  /\ UNCHANGED <<durable, epoch, fenced, stopping, token, completion, cancel, lock, relay,
                 world>>

ExitAfterCancel(t) ==
  /\ ExecAt("exited", t) /\ lock = "free" /\ t \in token
  /\ running' = running \ {t}
  /\ IF stopping
       THEN Goto("exitedStop") /\ UNCHANGED <<phase, completion>>
       ELSE ReturnOk /\ completion' = [completion EXCEPT ![t] = "AlreadyExited"]
  /\ UNCHANGED <<durable, epoch, fenced, stopping, token, cancel, lock, relay, world>>

(* register_liveness_failure makes an unresolved claim due at once. *)
Registered(t) == row' = IF MayRenew(t) THEN [row EXCEPT ![t].lease = "due"] ELSE row

RegisterExitedStop(t) ==
  /\ ExecAt("exitedStop", t)
  /\ Registered(t) \/ (WriterMayFail /\ UNCHANGED row)
  /\ completion' = [completion EXCEPT ![t] = "AlreadyExited"]
  /\ ReturnOk
  /\ UNCHANGED <<armed, outbox, forwarded, outcomes, fence, ack, ackForwarded, epoch,
                 running, fenced, stopping, token, cancel, lock, relay, world>>

ObserveToken(t) ==
  /\ ExecAt("running", t) /\ t \in token /\ lock = "free"
  /\ exec' = [exec EXCEPT !.pc = "teardown",
                          !.after = IF stopping THEN "register" ELSE "ok"]
  /\ UNCHANGED <<durable, phase, epoch, handler, cancel, lock, relay, world>>

(* stop_registered_process: kill and reap the group, report, deregister. *)
TeardownReportsFirst(t) ==   \* mutant: completion sent before the reap
  /\ ExecAt("teardown", t)
  /\ completion' = [completion EXCEPT ![t] = "Killed"]
  /\ Goto("removing")
  /\ UNCHANGED <<durable, phase, epoch, running, fenced, stopping, token, cancel, lock,
                 relay, world>>

Teardown(t) ==
  /\ ExecAt("teardown", t)
  /\ proc' = [proc EXCEPT ![t] = IF @ = "alive" THEN "killed" ELSE @]
  /\ completion' = [completion EXCEPT ![t] = "Killed"]
  /\ Goto("removing")
  /\ UNCHANGED <<durable, phase, epoch, running, fenced, stopping, token, cancel, lock,
                 relay, launches, requested, missed>>

Deregister(t) ==
  /\ ExecAt("removing", t) /\ lock = "free"
  /\ running' = running \ {t}
  /\ CASE exec.after = "ok"       -> ReturnOk
       [] exec.after = "err"      -> ReturnErr
       [] exec.after = "register" -> Goto("registering") /\ UNCHANGED phase
  /\ UNCHANGED <<durable, epoch, fenced, stopping, token, completion, cancel, lock,
                 relay, world>>

RegisterFormationStop(t) ==
  /\ ExecAt("registering", t)
  /\ Registered(t) \/ (WriterMayFail /\ UNCHANGED row)
  /\ ReturnOk
  /\ UNCHANGED <<armed, outbox, forwarded, outcomes, fence, ack, ackForwarded, epoch,
                 handler, cancel, lock, relay, world>>

(* A writer request of run_one fails.  Before the spawn, and in an election,  *)
(* the error just returns.  Failing to stage Started, or to flush logs after  *)
(* the exit, returns without deregistering: the completion sender is dropped. *)
(* A failed renewal makes the claim due (if that write succeeds) and stops    *)
(* the process.                                                               *)
ErrBeforeSpawn(t) ==
  /\ WriterMayFail
  /\ exec.task = t /\ exec.pc \in {"selected", "claimed", "armed", "proved"}
  /\ exec.pc = "proved" => lock = "free" /\ MayLaunch(t)
  /\ ReturnErr
  /\ UNCHANGED <<durable, epoch, handler, cancel, lock, relay, world>>

ErrWhileRegistered(t) ==
  /\ WriterMayFail
  /\ \/ ExecAt("spawned", t)
     \/ ExecAt("running", t) /\ proc[t] \in {"succeeded", "failed"}
  /\ completion' = [completion EXCEPT ![t] = "dropped"]
  /\ ReturnErr
  /\ UNCHANGED <<durable, epoch, running, fenced, stopping, token, cancel, lock, relay,
                 world>>

ErrElectingExit(t) ==
  /\ WriterMayFail
  /\ ExecAt("exited", t) /\ lock = "free" /\ t \notin token
  /\ running' = running \ {t}
  /\ completion' = [completion EXCEPT ![t] = "dropped"]
  /\ ReturnErr
  /\ UNCHANGED <<durable, epoch, fenced, stopping, token, cancel, lock, relay, world>>

ErrRenewing(t) ==
  /\ WriterMayFail
  /\ ExecAt("started", t) \/ ExecAt("running", t)
  /\ Registered(t) \/ UNCHANGED row
  /\ exec' = [exec EXCEPT !.pc = "teardown", !.after = "err"]
  /\ UNCHANGED <<armed, outbox, forwarded, outcomes, fence, ack, ackForwarded, phase,
                 epoch, handler, cancel, lock, relay, world>>

-----------------------------------------------------------------------------
(* cancel_request, run inline by the sequential relay loop. *)

CancelIdle == [pc |-> "idle", task |-> NoTask, recon |-> "open"]

(* The row a first request inserts; a repeated request keeps the old fence. *)
FenceFor(t) ==
  IF fence[t].state # "none" THEN fence[t]
  ELSE CASE row[t].state = "absent"  -> [NoFence EXCEPT !.state = "unmatched"]
         [] row[t].state = "pending" -> [NoFence EXCEPT !.state = "bound",
                                                        !.gen = row[t].gen + 1]
         [] OTHER                    -> [NoFence EXCEPT !.state = "bound",
                                                        !.gen = row[t].gen,
                                                        !.owner = row[t].owner]

(* A rejected row still has generation 0, which the fence table's CHECK       *)
(* refuses: INSERT OR IGNORE inserts nothing and the reload reports an error. *)
FenceInsertable(t) == fence[t].state # "none" \/ row[t].state # "rejected"

(* Commit the fence with the handler mutex held, then resolve against the     *)
(* registry: a terminal winner answers at once, a registered process has its  *)
(* token cancelled, any other claimed owner is fenced in memory.              *)
CancelCommit(t) ==
  /\ RelayFree /\ lock = "free"
  /\ FenceInsertable(t)
  /\ LET f == FenceFor(t)
         settled == f.state = "bound" /\ Terminal(t, f.gen)
         owned == f.state = "bound" /\ f.owner # NoOwner /\ ~settled
     IN  /\ fence' = [fence EXCEPT ![t] = f]
         /\ token' = IF owned /\ t \in running THEN token \cup {t} ELSE token
         /\ fenced' = IF owned /\ t \notin running THEN fenced \cup {t} ELSE fenced
         /\ lock' = IF owned THEN "cancel" ELSE "free"
         /\ cancel' = [pc    |-> IF owned THEN "notify" ELSE "settle",
                       task  |-> t,
                       recon |-> CASE settled -> ReconciliationFromTerminal(WinnerOf(t, f.gen))
                                   [] owned /\ t \in running -> "open"
                                   [] OTHER -> "NoProcess"]
  /\ requested' = requested \cup {t} /\ missed' = missed \ fenced'
  /\ UNCHANGED <<row, armed, outbox, forwarded, outcomes, ack, ackForwarded, phase, epoch,
                 exec, running, stopping, completion, relay, proc, launches>>

(* The error ends the relay cycle, and with it the drain. *)
CancelRefused(t) ==
  /\ RelayFree /\ lock = "free"
  /\ ~FenceInsertable(t)
  /\ fwd' = DrainOff
  /\ requested' = requested \cup {t}
  /\ UNCHANGED <<durable, phase, epoch, exec, handler, cancel, lock, delivered, proc,
                 launches, missed>>

(* The request fails before it has told the handler: the writer commits       *)
(* nothing, or it commits the fence and the reload fails or the relay, which  *)
(* observes the shutdown, has dropped the future.  The mutex is free again.   *)
CancelUnconfirmed(t) ==
  /\ WriterMayFail
  /\ Working /\ cancel.pc = "idle" /\ fwd.pc # "off" /\ lock = "free"
  /\ FenceInsertable(t)
  /\ \/ UNCHANGED <<fence, missed>>
     \/ /\ fence' = [fence EXCEPT ![t] = FenceFor(t)]
        /\ missed' = IF ExecAt("proved", t) /\ t \notin fenced THEN missed \cup {t} ELSE missed
  /\ fwd' = DrainOff
  /\ UNCHANGED <<row, armed, outbox, forwarded, outcomes, ack, ackForwarded, phase, epoch, exec,
                 handler, cancel, lock, delivered, proc, launches, requested>>

(* mark_owner_notified succeeds on an unsettled fence; then the mutex drops.  *)
CancelNotify(t) ==
  /\ cancel.pc = "notify" /\ cancel.task = t
  /\ IF fence[t].recon = "open"
       THEN /\ cancel' = [cancel EXCEPT !.pc = IF cancel.recon = "open" THEN "wait"
                                                                       ELSE "settle"]
            /\ UNCHANGED fwd
       ELSE cancel' = CancelIdle /\ fwd' = DrainOff
  /\ lock' = "free"
  /\ UNCHANGED <<durable, phase, epoch, exec, handler, delivered, world>>

CancelWait(t) ==
  /\ cancel.pc = "wait" /\ cancel.task = t
  /\ completion[t] # "pending"
  /\ IF completion[t] = "dropped"
       THEN cancel' = CancelIdle /\ fwd' = DrainOff
       ELSE /\ cancel' = [cancel EXCEPT !.pc = "settle", !.recon = completion[t]]
            /\ UNCHANGED fwd
  /\ UNCHANGED <<durable, phase, epoch, exec, handler, lock, delivered, world>>

(* The claim the fence was committed against still stands, or the dispatch it *)
(* was committed against is still pending.                                    *)
Contends(t) ==
  /\ fence[t].state = "bound"
  /\ \/ row[t].state = "claimed" /\ row[t].gen = fence[t].gen /\ row[t].owner = fence[t].owner
     \/ row[t].state = "pending" /\ row[t].gen + 1 = fence[t].gen /\ fence[t].owner = NoOwner

(* The conditional election of a cancellation outcome. *)
ContendedAlways(t) ==   \* mutant: the insert ignores an earlier outcome
  IF Contends(t) THEN outcomes \cup {<<t, fence[t].gen, TerminalOutcome(cancel.recon)>>}
                 ELSE outcomes
Contended(t) ==
  IF Contends(t) /\ ~Terminal(t, fence[t].gen)
    THEN outcomes \cup {<<t, fence[t].gen, TerminalOutcome(cancel.recon)>>}
    ELSE outcomes

(* One transaction: contend in the election, settle the fence, stage the      *)
(* acknowledgement; a repeated settlement keeps the first of each.            *)
CancelSettle(t) ==
  /\ cancel.pc = "settle" /\ cancel.task = t
  /\ outcomes' = Contended(t)
  /\ fence' = [fence EXCEPT ![t].recon = IF @ = "open" THEN cancel.recon ELSE @]
  /\ ack' = [ack EXCEPT ![t] = IF @ = "none" THEN KillOutcome(cancel.recon) ELSE @]
  /\ cancel' = CancelIdle
  /\ UNCHANGED <<row, armed, outbox, forwarded, ackForwarded, phase, epoch, exec, handler,
                 lock, relay, world>>

(* The future is dropped once the handler knows: a writer error, or the relay *)
(* observing shutdown.                                                        *)
CancelAborted ==
  /\ cancel.pc # "idle" /\ WriterMayFail
  /\ phase = "stopping" \/ cancel.pc \in {"notify", "settle"}
  /\ cancel' = CancelIdle /\ lock' = "free"
  /\ fwd' = DrainOff
  /\ UNCHANGED <<durable, phase, epoch, exec, handler, delivered, world>>

-----------------------------------------------------------------------------
(* The relay drain: events before acknowledgements, a task's events in rank   *)
(* order, each sent to the channel first and marked forwarded after.  Staging *)
(* times break ties across tasks only: the clock is assumed not to step back. *)

Rank(k) == CASE k = "Assigned" -> 0 [] k = "Started" -> 1 [] OTHER -> 2
PendingOwnEvents == {e \in outbox \ forwarded : row[e[1]].owner = epoch}   \* mutant
PendingEvents == outbox \ forwarded
AckItem(t) == <<t, 0, "CancelTaskAck">>

RelayConnected ==
  /\ phase = "up" /\ fwd.pc = "off"
  /\ fwd' = DrainIdle
  /\ UNCHANGED <<durable, phase, epoch, exec, handler, cancel, lock, delivered, world>>

(* The stream breaks, or carries a dispatch that collides with the payload of *)
(* the same identity: the cycle ends, once no cancellation is being awaited.  *)
RelayLost ==
  /\ "relay" \in Faults /\ cancel.pc = "idle" /\ fwd.pc # "off"
  /\ fwd' = DrainOff
  /\ UNCHANGED <<durable, phase, epoch, exec, handler, cancel, lock, delivered, world>>

(* A failed send or writer request ends the drain, not the relay cycle: only  *)
(* the next connection starts another drain.                                  *)
DrainFails ==
  /\ WriterMayFail \/ "relay" \in Faults
  /\ fwd.pc \in {"idle", "event", "ack"}
  /\ fwd' = DrainDead
  /\ UNCHANGED <<durable, phase, epoch, exec, handler, cancel, lock, delivered, world>>

SendAnyEvent(e) ==   \* mutant: no rank order
  /\ Working /\ fwd.pc = "idle" /\ e \in PendingEvents
  /\ delivered' = delivered \cup {e}
  /\ fwd' = [pc |-> "event", item |-> e]
  /\ UNCHANGED <<durable, phase, epoch, exec, handler, cancel, lock, world>>

SendEvent(e) ==
  /\ Working /\ fwd.pc = "idle"
  /\ e \in PendingEvents
  /\ \A d \in PendingEvents : d[1] = e[1] => Rank(e[3]) <= Rank(d[3])
  /\ delivered' = delivered \cup {e}
  /\ fwd' = [pc |-> "event", item |-> e]
  /\ UNCHANGED <<durable, phase, epoch, exec, handler, cancel, lock, world>>

MarkEventForwarded ==
  /\ fwd.pc = "event"
  /\ forwarded' = forwarded \cup {fwd.item}
  /\ fwd' = DrainIdle
  /\ UNCHANGED <<row, armed, outbox, outcomes, fence, ack, ackForwarded, phase, epoch,
                 exec, handler, cancel, lock, delivered, world>>

SendAck(t) ==
  /\ Working /\ fwd.pc = "idle"
  /\ PendingEvents = {} /\ ack[t] # "none" /\ t \notin ackForwarded
  /\ delivered' = delivered \cup {AckItem(t)}
  /\ fwd' = [pc |-> "ack", item |-> AckItem(t)]
  /\ UNCHANGED <<durable, phase, epoch, exec, handler, cancel, lock, world>>

MarkAckForwarded ==
  /\ fwd.pc = "ack"
  /\ ackForwarded' = ackForwarded \cup {fwd.item[1]}
  /\ fwd' = DrainIdle
  /\ UNCHANGED <<row, armed, outbox, forwarded, outcomes, fence, ack, phase, epoch,
                 exec, handler, cancel, lock, delivered, world>>

-----------------------------------------------------------------------------
(* The formation process: recovery scan, shutdown, crash, restart. *)

(* The startup scan elects LivenessExpired for the recorded claim; it never   *)
(* launches.  It is the only caller of the due scan in Tickr Lite.            *)
ReconcileDue(t) ==
  /\ phase = "recovering" /\ Due(t)
  /\ outcomes' = outcomes \cup {<<t, row[t].gen, "LivenessExpired">>}
  /\ outbox' = outbox \cup {<<t, row[t].gen, "Unhealthy">>}
  /\ UNCHANGED <<row, armed, forwarded, fence, ack, ackForwarded, phase, epoch, exec,
                 handler, cancel, lock, relay, world>>

RecoveryDone ==
  /\ phase = "recovering" /\ \A t \in Tasks : ~Due(t)
  /\ phase' = "up"
  /\ UNCHANGED <<durable, epoch, exec, handler, cancel, lock, relay, world>>

Shutdown ==
  /\ "shutdown" \in Faults /\ phase = "up"
  /\ phase' = "stopping"
  /\ UNCHANGED <<durable, epoch, exec, handler, cancel, lock, relay, world>>

(* The executor child observes the cancellation and calls stop_all, joined    *)
(* with the run_one in flight (a fresh one if the loop was idle).             *)
StopAllForgets ==   \* mutant: registered processes are not told
  /\ phase = "stopping" /\ exec.pc # "halted" /\ ~stopping /\ lock = "free"
  /\ stopping' = TRUE
  /\ UNCHANGED <<durable, phase, epoch, exec, running, fenced, token, completion, cancel,
                 lock, relay, world>>

StopAll ==
  /\ phase = "stopping" /\ exec.pc # "halted" /\ ~stopping /\ lock = "free"
  /\ stopping' = TRUE
  /\ token' = token \cup running
  /\ UNCHANGED <<durable, phase, epoch, exec, running, fenced, completion, cancel, lock,
                 relay, world>>

HaltIdle ==
  /\ stopping /\ exec.pc = "idle"
  /\ Goto("halted")
  /\ UNCHANGED <<durable, phase, epoch, handler, cancel, lock, relay, world>>

ProcessGone ==
  /\ phase' = "down"
  /\ exec' = [pc |-> "idle", task |-> NoTask, after |-> "ok"]
  /\ running' = {} /\ fenced' = {} /\ stopping' = FALSE
  /\ token' = {} /\ completion' = [t \in Tasks |-> "pending"]
  /\ cancel' = CancelIdle /\ lock' = "free" /\ fwd' = DrainOff
  /\ UNCHANGED <<durable, epoch, delivered, world>>

ShutdownDone == phase = "stopping" /\ exec.pc = "halted" /\ cancel.pc = "idle" /\ ProcessGone

(* Children that miss SHUTDOWN_DEADLINE are aborted. *)
ShutdownTimedOut == "shutdown" \in Faults /\ phase = "stopping" /\ ProcessGone

Crash == "crash" \in Faults /\ phase # "down" /\ ProcessGone

Restart ==
  /\ phase = "down" /\ epoch < MaxEpoch
  /\ epoch' = epoch + 1 /\ phase' = "recovering"
  /\ UNCHANGED <<durable, exec, handler, cancel, lock, relay, world>>

(* Time passes a deadline nobody renewed. *)
DeadlinePasses(t) ==
  /\ row[t].state = "claimed" /\ row[t].lease = "ahead"
  /\ row' = [row EXCEPT ![t].lease = "due"]
  /\ UNCHANGED <<armed, outbox, forwarded, outcomes, fence, ack, ackForwarded, phase, epoch,
                 exec, handler, cancel, lock, relay, world>>

(* The per-task guardian kills the group once the formation process is gone. *)
GuardianKills(t) ==
  /\ proc[t] = "alive" /\ (phase = "down" \/ row[t].owner # epoch)
  /\ proc' = [proc EXCEPT ![t] = "killed"]
  /\ UNCHANGED <<durable, phase, epoch, exec, handler, cancel, lock, relay, launches,
                 requested, missed>>

-----------------------------------------------------------------------------
Prepare(t) == SelectPending(t) \/ RejectPoison(t) \/ ClaimPickup(t) \/ ArmLiveness(t)
              \/ ProveReady(t) \/ LaunchRefused(t) \/ Launch(t) \/ LaunchFails(t)
              \/ StageStarted(t)
Supervise(t) == \/ ObserveExit(t) \/ ElectExit(t) \/ ExitAfterCancel(t)
                \/ RegisterExitedStop(t) \/ ObserveToken(t) \/ Teardown(t)
                \/ Deregister(t) \/ RegisterFormationStop(t)
ExecErr(t) == ErrBeforeSpawn(t) \/ ErrWhileRegistered(t) \/ ErrElectingExit(t)
              \/ ErrRenewing(t)
CancelStep(t) == CancelNotify(t) \/ CancelWait(t) \/ CancelSettle(t)
Drain == \/ RelayConnected \/ MarkEventForwarded \/ MarkAckForwarded
         \/ \E e \in outbox : SendEvent(e)
         \/ \E t \in Tasks : SendAck(t)
Formation == RecoveryDone \/ StopAll \/ HaltIdle \/ ShutdownDone \/ Restart

Next ==
  \/ \E t \in Tasks :
       \/ StageDispatch(t) \/ Prepare(t) \/ RenewLiveness(t) \/ Supervise(t) \/ ExecErr(t)
       \/ CancelCommit(t) \/ CancelRefused(t) \/ CancelUnconfirmed(t) \/ CancelStep(t)
       \/ ReconcileDue(t) \/ ProcessExits(t) \/ DeadlinePasses(t) \/ GuardianKills(t)
  \/ CancelAborted
  \/ Drain \/ RelayLost \/ DrainFails
  \/ Formation \/ Shutdown \/ ShutdownTimedOut \/ Crash

Spec == Init /\ [][Next]_vars

(* Every future the runtime polls makes progress; the recovery scan, the      *)
(* restart policy and the guardian act; time passes.  Nothing obliges the     *)
(* Control plane to send, a Task process to exit, or a fault to happen.       *)
Fairness ==
  /\ \A t \in Tasks :
       /\ WF_vars(Prepare(t)) /\ WF_vars(Supervise(t)) /\ WF_vars(CancelStep(t))
       /\ WF_vars(RenewLiveness(t) /\ exec.pc = "started")
       /\ WF_vars(ReconcileDue(t)) /\ WF_vars(DeadlinePasses(t))
       /\ WF_vars(GuardianKills(t))
  /\ WF_vars(Drain) /\ WF_vars(Formation)

FairSpec == Spec /\ Fairness

-----------------------------------------------------------------------------
EventRows == Tasks \X Nat \X Kinds
AckItems == {AckItem(t) : t \in Tasks}
DrainType == [pc : {"off", "dead", "idle", "event", "ack"},
              item : EventRows \cup AckItems \cup {<<>>}]

(* Every variable keeps the shape of the row, registry entry or future it     *)
(* stands for.                                                                *)
TypeOK ==
  /\ row \in [Tasks -> Row]
  /\ armed \subseteq Tasks
  /\ outbox \subseteq EventRows
  /\ forwarded \subseteq outbox
  /\ outcomes \subseteq Tasks \X Nat \X Outcomes
  /\ fence \in [Tasks -> Fence]
  /\ ack \in [Tasks -> Acks]
  /\ ackForwarded \subseteq Tasks
  /\ phase \in {"down", "recovering", "up", "stopping"}
  /\ epoch \in Nat \ {0}
  /\ exec \in ExecType
  /\ running \subseteq Tasks /\ fenced \subseteq Tasks /\ token \subseteq Tasks
  /\ stopping \in BOOLEAN
  /\ completion \in [Tasks -> Completions]
  /\ cancel \in CancelType
  /\ lock \in {"free", "cancel"}
  /\ cancel.pc = "settle" => cancel.recon \in Recons
  /\ fwd \in DrainType
  /\ fwd.pc = "event" => fwd.item \in outbox
  /\ fwd.pc = "ack" => fwd.item \in AckItems
  /\ proc \in [Tasks -> Processes]
  /\ launches \in [Tasks -> Nat]
  /\ delivered \subseteq EventRows \cup AckItems
  /\ requested \subseteq Tasks /\ missed \subseteq Tasks

(* A dispatch is launched at most once, whatever crashes, lost claim replies  *)
(* and restarts come between claim and spawn: a claimed row is never selected *)
(* again (select_pending, claim).                                             *)
AtMostOneLaunch == \A t \in Tasks : launches[t] <= 1

(* No Task process is spawned once a cancellation fence of its task is        *)
(* committed, although the claim proof is taken outside the handler mutex     *)
(* (run_one re-checks the in-memory fence before it spawns).  The exception   *)
(* is a request that fails between its commit and the handler's fence, while  *)
(* run_one has its proof and waits to spawn.  A fence that is committed       *)
(* before the proof stops the launch even so.                                 *)
FenceStopsLaunch ==
  [][\A t \in Tasks : launches'[t] # launches[t] =>
       fence[t].state = "none" \/ t \in missed]_vars

(* Process exit, setup failure, liveness expiry and cancellation elect one    *)
(* outcome per pickup generation, and the outbox holds the one terminal event *)
(* that outcome projects to (none for a cancellation).                        *)
OneTerminalOutcome ==
  /\ \A x, y \in outcomes : x[1] = y[1] /\ x[2] = y[2] => x = y
  /\ \A x \in outcomes : x[3] \in ExitOutcomes => <<x[1], x[2], EventKind(x[3])>> \in outbox
  /\ \A e \in outbox : e[3] \in TerminalKinds =>
       \E x \in outcomes : /\ x[1] = e[1] /\ x[2] = e[2]
                           /\ x[3] \in ExitOutcomes /\ EventKind(x[3]) = e[3]

(* A settled generation is frozen: nothing further is staged for it, its      *)
(* lease is not renewed and the row keeps its owner (arm, stage_started and   *)
(* renew all test for a terminal outcome).                                    *)
SettledIsFinal ==
  [][\A t \in Tasks : (row[t].state = "claimed" /\ ~Unresolved(t)) =>
       /\ \A k \in Kinds : <<t, row[t].gen, k>> \in outbox'
                              => <<t, row[t].gen, k>> \in outbox
       /\ row'[t].owner = row[t].owner /\ row'[t].gen = row[t].gen
       /\ row'[t].lease = "ahead" => row[t].lease = "ahead"]_vars

(* An acknowledgement tells the truth.  One that says Killed is backed by a   *)
(* cancellation winner and a reaped process, although settlement stages it    *)
(* whoever won the election; and a settled fence of a claim leaves a terminal *)
(* outcome behind, whichever incarnation committed or repeats it.             *)
AckTellsOutcome ==
  \A t \in Tasks :
    /\ ack[t] = "Killed" => /\ <<t, fence[t].gen, "CancelKilled">> \in outcomes
                            /\ proc[t] # "alive"
    /\ fence[t].recon # "open" /\ fence[t].owner # NoOwner => Terminal(t, fence[t].gen)

(* The handler is the sole owner of live processes.  One that this            *)
(* incarnation spawned stays registered until it is reaped, so stop_all and a *)
(* cancellation always find it, and none is alive once a cancellation of its  *)
(* task is acknowledged, whichever way the request was resolved.              *)
NoProcessBehindAck ==
  \A t \in Tasks : proc[t] = "alive" /\ row[t].owner = epoch =>
    /\ ack[t] = "none"
    /\ Working => t \in running

(* A row is marked forwarded only after it entered the relay channel, so a    *)
(* crash in between redelivers and never loses it; and a later event of a     *)
(* task never overtakes an earlier one, across redeliveries and restarts.     *)
DeliveredInOrder ==
  /\ forwarded \subseteq delivered
  /\ \A t \in ackForwarded : AckItem(t) \in delivered
  /\ \A e \in delivered, d \in outbox :
       d[1] = e[1] /\ e[3] \in Kinds /\ Rank(d[3]) < Rank(e[3]) => d \in delivered

(* A cancellation that waits for its owner is answered: the token reaches     *)
(* run_one at every point of the supervised loop, also when the process exits *)
(* by itself first, unless the formation stops under it.                      *)
CancelSettles ==
  \A t \in Tasks : (cancel.pc # "idle" /\ cancel.task = t)
                      ~> (ack[t] # "none" \/ phase \in {"stopping", "down"})

(* Every staged event is eventually marked forwarded, across the formation    *)
(* stops that errors of run_one cause, unless no incarnation is left.         *)
StagedIsForwarded ==
  \A t \in Tasks, k \in Kinds :
     <<t, 1, k>> \in outbox ~> (<<t, 1, k>> \in forwarded \/ phase = "down")

(* A stopping formation ends: run_one, stop_all, the handler mutex and a      *)
(* waiting cancellation never wait on one another (run_executor, tokio::join).*)
ShutdownCompletes == phase = "stopping" ~> phase = "down"

(* A pending dispatch is taken, rejected or fenced, unless the one process    *)
(* slot the sequential loop really uses is occupied: a poison dispatch or a   *)
(* cancelled one never blocks the queue behind it.                            *)
PendingIsTaken ==
  \A t \in Tasks : row[t].state = "pending" ~>
     \/ row[t].state # "pending" \/ fence[t].state # "none" \/ phase = "down"
     \/ \E u \in Tasks : proc[u] = "alive"

-----------------------------------------------------------------------------
(* The inductive strengthening behind AtMostOneLaunch and FenceStopsLaunch. *)

Unlaunched == {"claimed", "armed", "proved"}          \* run_one before the spawn
Deregistered == {"idle", "selected", "exitedStop", "registering"} \cup Unlaunched
Supervising == {"spawned", "started", "running", "exited", "teardown", "removing"}

(* What a fence says of its row: bound to the next generation of a pending    *)
(* row, to the claim of a claimed one, or unmatched.                          *)
FenceMatchesRow == \A t \in Tasks :
  /\ fence[t].state = "unmatched" => row[t].state = "absent" /\ fence[t].owner = NoOwner
  /\ fence[t].state = "bound" =>
       \/ /\ row[t].state = "pending" /\ fence[t].gen = row[t].gen + 1
          /\ fence[t].owner = NoOwner
       \/ /\ row[t].state = "claimed" /\ fence[t].gen = row[t].gen
          /\ fence[t].owner = row[t].owner
       \/ row[t].state = "rejected"

(* The generation counts claims, and only a claim or a fence has an outcome. *)
OutcomesHaveCause ==
  /\ \A t \in Tasks : row[t].state \in {"absent", "pending"} => row[t].gen = 0
  /\ \A x \in outcomes : \/ row[x[1]].state = "claimed" /\ x[2] = row[x[1]].gen
                         \/ fence[x[1]].state # "none"

(* The registry holds at most the one task run_one is supervising. *)
RegistryMatchesExec ==
  /\ phase \in {"down", "recovering"} => exec.pc = "idle"
  /\ stopping => phase = "stopping"
  /\ exec.pc \in Deregistered => running = {}
  /\ exec.pc \in Supervising => running \subseteq {exec.task}

(* Between claim and spawn run_one holds an unresolved, unlaunched claim; a   *)
(* fence that commits after the proof is in the handler's memory or was       *)
(* missed.                                                                    *)
ClaimIsFresh ==
  /\ \A t \in Tasks : launches[t] # 0 => row[t].state = "claimed" /\ launches[t] = 1
  /\ exec.pc \in Unlaunched =>
       /\ exec.task \in Tasks /\ launches[exec.task] = 0
       /\ row[exec.task].state = "claimed" /\ row[exec.task].owner = epoch
       /\ fence[exec.task].state = "none" => Unresolved(exec.task)
  /\ exec.pc = "proved" /\ fence[exec.task].state # "none" => exec.task \in fenced \cup missed

(* Together they are inductive.  It is about the claim that run_one carries   *)
(* from prepare_pickup to the spawn while the relay loop may fence it.        *)
PickupInv == FenceMatchesRow /\ OutcomesHaveCause /\ RegistryMatchesExec /\ ClaimIsFresh

=============================================================================
