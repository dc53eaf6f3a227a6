# Tickr data plane: models, checks and proofs

TLA+ models of the Tickr data plane (`tickr-cli`), the TLC instances that check
them and the TLAPS proofs about them. Paths below are relative to the
repository root. `PROJECT.json` lists every run, mutant, theorem and hazard,
and maps each definition to the lines it stands for.

## The system and its parts

Tickr's data plane runs workflow tasks on behalf of a remote Control plane. A
*formation* is the set of processes that runs it: all in one process over
SQLite (Tickr Lite), or distributed over Redis or NATS with a SQL database.

| part | state it keeps | operations | interacts with | what is hard | what makes it correct |
|---|---|---|---|---|---|
| Task pickup, cancellation and liveness (`executor/src/local_pickup.rs`, `migrations/src/task_pickup_repository.rs`, `local_task_pickup_writer.rs`) | dispatch rows with pickup generation, owner and deadline; event outbox; terminal outcomes; cancellation fences; acknowledgement outbox; the handler's registry of live processes | stage, select, reject, claim, arm, prove, spawn, start, renew, elect, fence, notify, settle, forward | relay (inbound messages, outbound drain), Task processes, the supervisor | crash at any boundary; fence racing spawn; exit racing cancellation; failing writer requests | launched at most once, never after a fence; one outcome per generation; acknowledgements tell the truth; events are not lost or reordered |
| Lite supervisor (`lite_supervisor.rs`) | children, readiness, cancellation token | recover, admit, run, stop within a deadline; guardian process per Task | everything in Lite | joins during shutdown, aborted children | shutdown ends; no process survives unowned |
| Relay (`conductor/src/relay`) | stream to the Control plane, reconnect backoff, gates | connect, receive, forward | pickup, compaction, signals | loss in mid-message, sequential handling | nothing acknowledged before it is durable |
| Definition registration, build and submission (`migrations/src/definition_repository.rs`, `conductor/src/build_pipeline`, `conductor/src/submission_consumer`, `conductor/src/register_pipeline.rs`) | `workflows` and `workflow_task_builds` rows, each with a lease owner, token and expiry; the batch a worker holds | register, requeue, refresh, lease, build, settle, forward | SQL, Nix, relay, subscription index | leases that expire under a slow worker, last-one-out settlement, failing repository calls, requeue of a round still running | status is the aggregate of the builds; a superseded lease changes nothing; every version settles and is submitted |
| Subscription index (`conductor/src/waits_on_signal_lifecycle.rs`, `subscription_index.rs`) | per process, the trigger each Workflow subscribes under | apply on Ready, rebuild at startup | build worker, wakeup translation | memory beside a table, several replicas | holds the latest live version's trigger |
| Patch pipeline (`migrations/src/patch_repository.rs`, `conductor/src/patch_pipeline`) | `workflow_patches`, `workflow_patch_task_builds` with their leases, the flagged discrepancies; the rows a worker's scan holds | ingress, lease, build, settle, send, re-drive, correlate, audit | SQL, Nix, relay, Control plane, compaction | requests that race, outcomes ahead of the row they settle, lost envelopes, leases that expire | one Patch of an instance at a time and in order; sent only when built; the ledger tells the verdict, or the audit flags it |
| Replay pipeline (`conductor/src/replay_pipeline.rs`, `replay_seed.rs`, `replay_rehydration.rs`, `migrations/src/replay_repository.rs`) | `workflow_replays` with the Lite lease; the scope and the run it creates | request, trigger, rehydrate, resume, settle, re-drive | archive, relay, tickr-ctx scopes | a drive repeated from any point, two drives at once, chains of replays | one run per key; released only with a complete scope; blocked Tasks named exactly |
| Compaction (`local_compaction.rs`, `migrations/src/compaction_repository.rs`, `archive_repository.rs`) | staged envelopes, archived runs | stage, acknowledge, snapshot, seal, install, archive, clean, purge | relay, SQL, scopes, journals | a crash between any two of these; redelivery | nothing acknowledged is lost, an archive is written once, staging ends |
| Log staging and shipping (`local_log_staging.rs`, `proto/src/coord/log_stream.rs`, `executor/src/task_log_shipper.rs`) | a journal of frames by claim, its seal, the final files; the shipper's buffer and gaps | read, evict, accept, declare a gap, end, recover, seal, install, purge | Task processes, drain, start of the formation | torn and repeated appends, a full buffer, restart | a clean end accounts for all output; accepted records survive |
| tickr-ctx scopes (`migrations/src/scope_repository.rs`, `tickr_ctx_endpoint.rs`) | a scope by run: values, claims of mutations, snapshot; the endpoint's grants | create, put, delete, snapshot, clean | Task processes, drain, rehydration | a mutation that comes late or twice, two creators | an answered mutation is in the archive |
| Distributed pickup and cancellation (Redis, NATS) | streams, leases, liveness keys | the same choreography over other adapters | executors, conductor | redelivery, expiry, several owners | as for local pickup |
| Event ingress, idempotency, command bus | reservations, cursors | reserve, publish, acknowledge | API, relay | redelivery | an event takes effect once |
| Signals (triggers, wakeups, gates, cancels) | gate index and SQL rows | subscribe, match, cancel | relay, ingress | index and table disagree | a match is neither lost nor doubled |
| Redis capability and capacity | probe results | probe, gate readiness | all Redis roles | stale probes | not ready on missing capability |
| HTTP API, console, CLI, parser, DSL, ACL tables | none, or read models | render, parse, validate | - | volume, not protocol | tested against fixtures |

## What is modelled

### TaskPickup

The whole local path of one Task from the inbound dispatch to the forwarded
terminal event, including cancellation, liveness recovery and the life of the
formation process.

* **Durable state** is the SQLite rows that `LocalTaskPickupWriter` mutates one
  request at a time, each one transaction: `row` and `armed`
  (`local_task_dispatches`), `outbox` and `forwarded`, `outcomes`, `fence`,
  `ack` and `ackForwarded`. A dispatch key is a digest of its payload and a task
  identity has one dispatch row (a unique index), so rows are indexed by task.
* **Volatile state** is one process incarnation: `exec`, the `run_one` future of
  the sequential executor loop; `running`, `fenced`, `stopping`, `token` and
  `completion`, the handler's registry; `lock`, the mutex when it is held across
  an await; `cancel`, the cancellation future the relay loop awaits; `fwd`, the
  relay drain. A crash drops all of it at any step.
* **Outside**: `proc`, the Task processes (they survive a crash until their
  guardian sees its pipe close), and history variables `launches`, `delivered`,
  `requested` and `missed`, the tasks whose fence an unconfirmed request committed
  while `run_one` had its proof and was about to spawn.

Each action is one atomic step of the code: a writer request, or a section run
under the handler mutex without an await. The steps of `run_one` are
`SelectPending`, `RejectPoison`, `ClaimPickup`, `ArmLiveness`, `ProveReady`,
`LaunchRefused`/`Launch`/`LaunchFails`, `StageStarted`, `RenewLiveness`; then
the supervised loop, `ObserveExit` with `ElectExit` or `ExitAfterCancel`, or
`ObserveToken` with `Teardown` and `Deregister`. Every `?` of `run_one` is an
action of the `Err` family. `CancelCommit` to `CancelSettle` are
`cancel_request`; `CancelAborted` is its error or its drop once the handler knows of
the fence, `CancelUnconfirmed` the same before that: the writer committed nothing, or
it committed the fence and the reload failed or nobody waits for the reply any more.
`Send*` and `Mark*` are the drain. `Faults` selects what the
environment may do: "crash", failing "writer" requests, "shutdown", losing the
"relay".

Abstractions. Time is whether a deadline lies ahead or has passed; a renewal puts
it ahead again and time may pass it at any moment, so slow and stopped owners are
both covered. Payloads are tasks, poison or not. An ambiguous claim reply is
resolved by `prove_ambiguous_claim`, which finds the row of the claim, so it is
one step with it. The checkpoints (`reach`) are test hooks and always succeed in
production. The executor is not held back until the relay is first admitted, so
the model allows more orders than the code. The outbox is drained in order of
staging time, and the clock is assumed not to step back between two events of a
task.

### TaskPickupContract

Sentences of `docs/contracts` stated over `TaskPickup`. Each one is refuted on the instance
that *Observations* names for it.

### DefinitionLifecycle

All versions of one Workflow definition, from registration to submission, with
the workers and indexes of every Conductor process that shares the database.

* **Durable state** is `workflows` (status, hashes and submission lease by
  version) and `builds` (`workflow_task_builds`: status and lease by version and
  Task). A lease's expiry is the flag `live`, which time clears; its token, a
  fresh UUID in the code, is the number of leases the row has issued, since
  tokens are compared only within a row. A worker's owner name is fresh at every
  start; here it is the process, and the token tells restarts apart.
* **Volatile state**, by process: `up`; `running`, the workers that have not
  returned; `jobs` and `outbox`, the batch each worker's current scan works on;
  `index`, the version whose trigger the process-wide subscription index holds
  (perhaps no signal trigger at all), or 0.
* **Outside**: `relayed`, what the relay's outbound channel has taken.

`RegisterInserted`, `RegisterRequeued`, `RegisterRefreshed` and `RegisterNoOp`
are the arms of `decide`, each one transaction under the advisory lock.
`LeaseBuilds` is the scan's lease transaction; the futures of `try_join_all` then
run in any order: `BuildSucceeds`/`BuildFails` is the Nix build and the reading
of the clock that the settlement compares with the expiry, kept as `fresh`;
`SettleBuild` is the settlement transaction with its outcomes; the winner's
`apply_workflow_state` comes after the commit, so a crash may separate them.
`LeaseSubmissions`, `Forward`/`ForwardFails` and `SettleSubmission` are the
submission worker, which works through its batch in order. `WorkerFails` is any
`?` on a repository call: the worker returns and the futures of its batch are
dropped. The Lite supervisor then stops the formation; `app.rs` only logs it.
`Restart` rebuilds the index where the code does.

Abstractions. Notifications, NATS pointers and the claim-admission gate only
decide when a scan comes, and a scan may come at any time. A commit whose reply is
lost is a settlement followed by `WorkerFails`. A repository error before the
commit is `WorkerFails` alone. A stored predicate that no longer parses, which
`apply_workflow_state` logs and skips, is left out. The unleased settlements
(`settle_definition_task_build`, `settle_definition_submission`) have no caller in
a running formation. A definition has at least one Task (`SizeAssumption`);
one without any would stay Building for ever (see the hazards).

### DefinitionContract

What the two pipelines promise about the statuses of the versions and what was
forwarded: a version is settled once and reopened only by a registration of the
newest version; nothing is submitted that was not forwarded; Submitted is final.
`DefinitionLifecycle` implements it with `status <- Status` and
`forwarded <- relayed`, which forgets builds, leases, workers and processes.

### PatchLifecycle

The Patches of running instances and the Conductor processes that work on them.

* **Durable**: `patches`, `builds`, `discrepancies`, the three tables, with the leases
  of both. Lease tokens are the least number nobody holds, since a UUID is only
  compared within its row.
* **Volatile**, by process: `up`, `running`; `requests`, the `process_patch` calls
  between two awaits; `outbox` and `jobs`, what the current scan works on.
* **Outside**: `envelopes` and `outcomes` on their way, `verdict` and `ended` on the
  Control plane, which decides a Patch once and repeats its answer; `audited` and
  `order` are history.

`IngressAccepted`, `IngressRejected` and `IngressReplayed` are the ingress
transaction, which an advisory lock serialises by instance. A Patch that adds no
Tasks is sent by its own request (`RequestSends`, `mark_patch_submitted`); the
others wait for their builds (`ScanBuilds` to `SettleBuild`), and the worker that
settles the last one sends (`WinnerSends`). `ScanLifecycle` to
`settle_leased_patch_submission` is the re-drive. `correlate_outcome` and
`audit_patch_settlement` are the inbound half. The minimum age of a re-driven row
and the notifications only decide when a scan comes. The validation of a Patch's
operations is pure and comes before the ingress.

### ReplaySeed and ReplayLifecycle

`ReplaySeed` has the pure half of a replay: the default frontier, the forward
closure, the fixpoint of the nodes that can fire, the seeded graph and the plan of
carried keys. A graph is a set of hyperedges; a key is the name of the Task that
produced it, its value the run that did.

`ReplayLifecycle` has the pipeline around it. `ReadSource`/`ReadNothing` are the
reads of `process_replay`, `insert_replay_lifecycle` the insert that may meet the
unique index. A drive is a record in `drives` that walks through Trigger, hydration,
Resume and settlement; a request's drive, the distributed re-drive and Lite's
leased one share the steps and may overlap. In the distributed formation hydration
writes one key at a time (`PutCarried`, `PutShadow`, `PutSentinel`); in Lite it is
one transaction: `CreateScope`; `CreateScopeRefused`, an error; or
`CreateScopeRejected`, where the store turns the request down for its size
(`MAX_SCOPE_REQUEST_VALUES`; too many bytes or a malformed value have the same effect)
and the drive goes on as if it had been stored. `SendTrigger` and `SendResume` only hand
the signal to the relay's queue (`sent`); `ArriveTrigger` and `ArriveResume` are its
arrival at the Control plane, in order, and `SignalLost` the loss of the stream before.
`lost` and `rejected` are history. The run itself
(`TaskSucceeds`, `TaskFails`, `RunEnds`) is external; when it ends it is archived
and can be replayed in turn. `Crash` drops every call and drive. `ArchiveAssumption`
says what the archive of the first run is: a finite graph that the Control plane
executed (`Executed`) until every Task had an outcome; the archives of replays are
shown to be such, not assumed.

### LogStaging and CompactionDrain

`LogStaging` is `LogStreamState` and its recovery from a journal, as operators on a
sequence of frames. `CompactionDrain` composes it with the shipper, the scope
store, the executor's launches, the staging of envelopes, the drain and the start
of the formation.

* **Durable**: `claim` (the dispatch's generation and outcome, as far as the start
  and the drain look at them), `journal`, `final` (both files of a final Log),
  `scope`, `staging`, `order`, `archive`.
* **Volatile**: `phase`, `todo`, `exec`, `ship`, `grants`, `requests`, `drain`.
* **History**: `told` (what was read, accepted and answered) and `acked`.

`EnsureScope`, `Spawn`, `SpawnFails` and `NotLaunched` are `spawn_claimed` and the ways
around it; `Read` to `Finish` the shipper; `Send` and `Mutate` the endpoint and the scope
writer, which may apply a retried request twice. The drain's steps are `Select`,
`Snapshot`, `SealStream`, `InstallFile`, `CommitArchive`, `Verify`, `CleanScope`,
`PurgeJournal`, `PurgeStaging`. `Start`, `RecoverJournal`, `StartDrain` and `Admit` are
the start. An append can fail having written nothing ("lost"), everything but the
confirmation ("unsynced") or a part; what recovery makes of a part that other frames
follow depends on the bytes: the length it declares reaches past the end of the file and
everything from there on is cut off ("torn"), or the bytes that complete it do not decode
and the journal cannot be opened ("garbled"). A scope that is still active can reach its age
limit (`Age`) or be found corrupt by a reader (`Quarantine`); the drain's `Snapshot` fails
on both. The stored bounds (rows, bytes), which every put respects, and a snapshot that is
corrupt when it is read back are left out. A crash can tear the last frame or a
file that is being written, and `InstallFile` sets aside a temporary file that is not
what it is about to write. Claims and outcomes are those of `TaskPickup` reduced
to four states: what can happen between them is that module's subject.

### The proof modules

`TaskPickupProofs` and, on top of it, `CancellationProofs` prove about `TaskPickup`;
`DefinitionLifecycleProofs` about `DefinitionLifecycle`; `PatchLifecycleProofs` about
`PatchLifecycle`; `ReplaySeedProofs` about the functions of `ReplaySeed` and, on top of
it, `ReplayLifecycleProofs` about `ReplayLifecycle`; `CompactionDrainProofs` about
`CompactionDrain` and the journals of `LogStaging`. `IterationProofs` has the facts about
numbers, iterates, growing chains and induction over a set that the last ones share.

## The runs

Each run uses the MC module of its component, which names the model values: tasks `a`
and `b`, processes `p` and `q`, hashes `x` and `y`, Task nodes `a`, `b`, `c`.

| run | instance | shows |
|---|---|---|
| `pickup_safety` | one task, all four faults, 3 incarnations | at most one launch, none behind a fence the handler was told of, one outcome, settled generations frozen, truthful acknowledgements and no process behind one, forwarding order, and the inductive invariant |
| `pickup_live` | a sound and a poison task, fair | cancellations are answered, the queue is not blocked |
| `pickup_forward` | one task, crash and shutdown, 2 incarnations, fair | staged events are forwarded, a stopping formation ends |
| `definition_safety` | 2 replicas, 2 versions of 2 Tasks, one fault of any kind | the tables implement `DefinitionContract`; the status is the aggregate of the builds; only the last lease of a row settles it; workers' knowledge outlives their leases; no index holds an unbuilt version |
| `definition_live` | Tickr Lite, 2 versions of 2 Tasks, batches of 1, 2 faults, fair | builds settle, Ready versions are submitted |
| `patch_safety` | 2 replicas, 2 Patches of one instance (one adds 2 Tasks, one none), one fault of any kind | one Patch at a time, decided in order, sent only when built, the ledger tells the verdict, the audit finds every difference |
| `patch_live` | 1 Conductor, the same Patches, one fault other than a lost worker, fair | every accepted Patch settles |
| `replay` | both formations, 4 archived runs of 2 graphs, a replay and a replay of it, one fault, fair | one run per key, no stalled run executes before its scope is complete unless the store rejected that scope, exact blocked sets, default frontier can fire, rows settle once and only behind the releasing signal, every row settles |
| `compaction` | 1 run of 2 Tasks (one overflows the shipper's buffer, one uses the scope), 2 payloads, one fault of any kind, fair | nothing acknowledged is lost but behind a partial frame, clean ends account for all output, the archive is final, staging is purged or no start is admitted |
| `replay_scope`, `compaction_torn`, `compaction_restart` | smallest instance for each | counterexamples to documented behaviour |

Bounds of TaskPickup. `MaxEpoch` is the only bound; nothing else in the model grows. A claim of
one incarnation can be touched by the next (recovery scan, cancellation as a
stranger), and the third sees what the second left: three incarnations exercise
every relation between a row's owner and the current one. Tasks interact only
through the executor loop, the mutex, the cancellation future and the drain, each
of which serves one task at a time, so two tasks show every contention.
Deadlock checking is off: a formation out of incarnations, or one whose work is
all done, stops.

Bounds of DefinitionLifecycle. `MaxVersion` bounds the stored versions and
`MaxFaults` the things that go wrong; `FaultKinds` selects which: a failing
"build", an "expiry" under a worker that still works, no "relay", a "crash", a
failing "repository" call. Leases nobody works under expire freely. Versions
interact only through batches and the index, where a pair shows every order; two
Tasks are the least with a last one out. One fault already lets a lease expire
under its worker, be reclaimed, and both workers finish; what more faults could do
to the safety properties is settled by the proofs, which bound nothing. Requeues
are free, and a failed rebuild costs nothing beyond the crash before it. The lease
counts stay finite because each lease needs a fault, or the requeue of a failed
build. Deadlock is checked: a registration is always
possible, as a no-op if nothing else.

Bounds of PatchLifecycle. `MaxFaults` and `FaultKinds` as above. Patches of different
instances share only batches, so two Patches of one instance show the interesting
orders, and one of them must have two Tasks for a last one out. Envelopes and outcomes
are sets, since a repeated one has the effect of the first and any order is possible.
The token is reused when nobody holds it, which keeps the lease counts finite.

Bounds of ReplayLifecycle. The graphs of `MCReplayLifecycle` are a join, whose arms can
fail separately, and a node that either of two edges fires: with them carried failures,
blocked nodes and alternatives occur. Two replays are the least with a chain. `MaxOpen`
bounds replays in flight; one is enough for two requests to race for a key, because
rivals for one key count once. Requests ask for the default frontier
with shadowed inputs under one key; an explicit frontier, which the code only checks and
takes, is left to the proofs. `MAX_SCOPE_REQUEST_VALUES` is 128 in the code and 3 here:
a request's scope with one carried value fits (with the shadow and the sentinel), one with
two is rejected, and a re-drive of it, which has no shadow, fits; the proofs take any
number. A lost signal is a fault like the others. Deadlock checking is off: when all
requests are used up and all runs have ended nothing is left to do.

Bounds of CompactionDrain. A capacity of 1 and two chunks overflow the buffer and give a
gap in front of an accepted record; gaps between records are left to the proofs. The
second Task's mutations can come late. One fault is a crash, a failed append of any of the
four kinds, a failed launch, a scope that is aged or quarantined, or the cancellation of a
dispatch nobody has claimed; the drain and the start are repeated from each of their
steps. Deadlock is checked.

Fairness of TaskPickup. `Fairness` is weak fairness of the futures that Tokio polls (executor,
cancellation, drain), of the recovery scan, of time, of the guardian and of a
restart by the service manager. Nothing obliges the Control plane to send, a
Task process to exit, a renewal to come before its deadline, or a fault to happen;
renewals on the cadence are not fair, except the first, which run_one awaits.

Fairness of DefinitionLifecycle. Weak fairness of the periodic scans, of the step a
worker awaits (a Nix build ends, a relay send returns), of the expiry of an
abandoned lease and of a restart. Nobody is obliged to register, and no fault has
to happen.

Fairness of the others. Patches: as for definitions, and the Control plane decides and
answers what reaches it. Replays: a drive goes on, Redrive and the leased scan are
periodic, a lease nobody drives under runs out; the Control plane's runs are not fair.
Compaction: the start goes on and is attempted again after a stop (the operator or a
service manager does that), and the drain, a loop that polls, goes on; nobody is
obliged to ship an envelope, a Task to end, or the shipper to be drained.

Every property has a mutant: a plausible bug in one definition of the model under
which TLC refutes that property (`PROJECT.json`, "mutants"; the mutated forms
stand before the definitions they replace).

### Findings

1. `compaction_torn`: an append that fails half way is retried behind its partial frame. The
   retry is accepted and cut off, or made unreadable, by the next reopening of the journal.
   `AcknowledgedIsKept` excepts the streams to which this happened.
2. `replay_scope`: Tickr Lite's rehydration creates the replay's scope under another
   namespace and claim than the launches and the staging of its Tasks ask for, with the
   same primary key. No Task of a released born-Stalled replay can be launched, and its
   compaction is never staged.
3. `compaction_restart`: the start of the formation demands a journal of every claim
   that was ever picked up. A claim fenced or stopped before its spawn, a launch that
   failed early, or a crash in between leaves none, and no later start is admitted. A
   crash between the two files of a final Log, a staged run with a Task cancelled
   before pickup, and a staged run whose scope is older than 30 days or quarantined have
   the same effect. `StagedIsPurged` therefore excepts formations that cannot be started.

### Observations

Disagreements with the documents that the models show, without a run of their own.
Where an instance is named, TLC produces the counterexample in seconds.

* The due scan runs only at startup (`lite_supervisor.rs:286`): a claim left by a crash
  whose deadline is still ahead at the restart is never settled by that incarnation
  (`TaskPickupContract!DueClaimSettles`, one task, crash, 2 incarnations, FairSpec).
  `task-liveness-watchdog.md:38` says the scan submits it once due.
* Nothing scans unresolved fences at restart; `reconcile_one` (`local_pickup.rs:1868`) has
  callers in tests only (`OpenFenceSettles`, the same instance).
  `task-cancellation.md:33` says a restart scans them.
* A cancellation of a rejected dispatch commits no fence and ends the relay cycle
  (`task_pickup_repository.rs:1029`): the insert's generation 0 fails a CHECK that `OR
  IGNORE` hides (`RequestCommitsFence` under Spec, one poison task). `relay.md:36`.
* When two versions are built at once and the older one becomes Ready last, it replaces the
  newer one's subscription (`waits_on_signal_lifecycle.rs:54`), which nothing corrects before
  a restart (`DefinitionLifecycle!IndexMatchesLive` under Spec: one distributed Conductor, one
  Task, batches of 2, MaxVersion 2, no faults). `waits_on_signal_lifecycle_test.rs:210`
  says that "a re-registered slug that renames its signal must subscribe under the new name
  only".
* Tickr Lite does not rebuild the subscription index at startup (`lite_supervisor.rs:375`)
  though it resolves wakeups through it (`IndexMatchesLive` with Formation "lite",
  FaultKinds {"crash"}, MaxFaults 1, MaxVersion 1).
* A partly written journal header keeps the journal from being opened
  (`local_log_staging.rs:352`).
* The launch proof is taken before the mutex, so a fence can commit between proof and spawn
  (`local_pickup.rs:1176`), which `task-cancellation.md:13` excludes. The in-memory fence
  denies the spawn, if the handler learns of it. The fence is committed and then reloaded
  (`task_pickup_repository.rs:1049`); a failing reload (`?` at `local_pickup.rs:1773`), or a
  relay that drops the request while the writer commits (`relay/service.rs:2516`), returns
  without telling it, and a `run_one` that has its proof spawns the cancelled Task behind the
  fence (`TaskPickupContract!FenceOrRegistration` under Spec: one sound task, Faults
  {"writer"}, one incarnation). `FenceStopsLaunch` excepts exactly these tasks (`missed`).
* Tickr Lite's rehydration ignores `ScopeCreationOutcome::Rejected` (`lite_supervisor.rs:1100`):
  the run is resumed and its row Released without a scope, while `replay_rehydration.rs:40`
  and `replay-pipeline.md:49` have the run released only after the sentinel
  (`SentinelBeforeRelease` with `Replay.cfg` under Spec, Formations {"lite"}, one request, no
  faults). `ScopeReadyBeforeRun` excepts these replays (`rejected`).
* A Trigger or Resume that the relay loses after the row was Released is sent by nobody
  again: the run is absent, or stays stalled. `replay-pipeline.md:26` disclaims the
  application of a forwarded signal, so there is no run about it; `Outbound`, in
  `ReleasedIsFinal`, says what Released means.
* A task launched by an earlier incarnation is reconciled as `no-process`
  (`local_pickup.rs:1846`), which `task-cancellation.md:21` reserves for tasks without a
  process.
* Only the replica that settled the last build learns of a version; the others resolve
  wakeups by the old one until they restart (`build_pipeline/local.rs:216`), while
  `lifecycle.md:5` calls replicas interchangeable.
* A repository error ends a distributed Conductor's build or Patch worker while the
  process runs on (`app.rs:345`, `app.rs:369`), while `build-pipeline.md:25` promises scans
  at a bounded interval. `patch_live` leaves this fault out.
* The shadow values of a replay are kept only by its request's own drive: a re-drive
  releases the run without them (`replay_pipeline.rs:465`; `replay-pipeline.md:17`).
* A replay that is neither born-Stalled nor shadowed writes no sentinel, so a replay of it
  is refused as never hydrated. A Lite replay that is cancelled before its scope is written
  stays Materializing: compaction holds the scope and each later drive fails on it
  (`ReplaysSettle` excepts this).
* The digest of a final Log's seal covers accepted records, not the declared gaps
  (`local_log_staging.rs:150`), while `compaction-drain.md:13` has each seal cover both.

## The proofs

### TaskPickup

For any set of tasks, any faults and any number of incarnations (assumptions
`TaskAssumption`, `FaultAssumption`, `EpochAssumption`):

* `TypeCorrect`: `Spec => []TypeOK`.
* `PickupCorrect`: `Spec => []PickupInv`.
* `LaunchedOnce`: `Spec => []AtMostOneLaunch`.
* `FencedIsNotLaunched`: `Spec => FenceStopsLaunch`.
* `ElectionCorrect`: `Spec => []OneTerminalOutcome`.

Neither "launched once" nor "not launched behind a fence" is inductive: both
depend on what `run_one` knows between the claim and the spawn. `PickupInv`
records it. `FenceMatchesRow` says which claim a fence is about;
`OutcomesHaveCause` that only a claim or a fence has an outcome;
`RegistryMatchesExec` that the registry holds at most the task `run_one`
supervises, so a cancellation that arrives between proof and spawn does not find a
registry entry and leaves its fence in the handler's memory; `ClaimIsFresh` that
between claim and spawn the claim is unresolved, unlaunched and owned by this
incarnation, and that a fence committed after the proof is in memory or in `missed`.
`AtMostOneLaunch` follows at once; `FenceStopsLaunch` follows because a launch
tests the in-memory fence under the mutex. What the exception leaves is more than the
test itself: no fence that was there at the proof, and none whose request got as far as
the handler, is launched behind. `ElectionCorrect` needs `PickupInv` for
the setup failure, and the claim's own test for the others.

`CancellationProofs` has the rest of what `pickup_safety` checks:

* `AckInvariant`: `Spec => []AckInv`.
* `AckIsTrue`: `Spec => []AckTellsOutcome`.
* `AckedIsDead`: `Spec => []NoProcessBehindAck`.
* `DeliveryKeepsOrder`: `Spec => []DeliveredInOrder`.
* `SettlementIsFinal`: `Spec => SettledIsFinal`.

`AckInv` is inductive together with the types, `PickupInv` and `OneTerminalOutcome`.
`CancelSound` says what a cancellation future carries across its awaits: until it hears
from the owner, the task's token is cancelled, so no other path can elect an outcome
for the fenced generation (`Waiting`); after it heard, no process of the task lives here.
`FencesSound`, `OwnersPast` and `ProcessesSound` make "lives here" survive a restart: a
fence's owner is the claim's, an owner is the present incarnation only if it claimed after
its recovery scan, and a generation with a live process has no outcome. `KillsSound` ties a
kill outcome to its fence. `EventsMatchClaim` and `DrainSound` are what the order of
deliveries needs. The proof first states who changes each piece of state (`RowSteps`,
`EventSteps`, `OutcomeSteps`, `FenceSteps` and so on, one lemma each over `Next`), then has one
lemma for each part of the invariant. TLC checked `AckInv` on the instance of
`pickup_safety` and on two tasks before it was proved.

### DefinitionLifecycle

For any set of processes and hashes, any number of Tasks, batch size, formation,
faults and versions (assumptions `SizeAssumption`, `BoundAssumption`,
`FormationAssumption`, `ProcessAssumption`):

* `TypeCorrect`: `Spec => []TypeOK`.
* `ParentCorrect`: `Spec => []ParentMatchesTasks`.
* `WorkersKnowAlways`: `Spec => []WorkersKnow`.
* `IndexCorrect`: `Spec => []IndexOnlyLive`.
* `Refinement`: `Spec => ImplementsContract`.
* `LatestLeaseCorrect`: `Spec => OnlyLatestLeaseSettles`.

Each action is first reduced to what it does to the statuses: it keeps them
(`StatusKept`), or moves one version (`StatusMoved`), or appends one; `StatusSteps`
collects this for `Next`. `ParentMatchesTasks` is then inductive with the types:
its part about Building ("a pending build and no failed one") is what makes the
last success, and only it, win Ready. `LiveStays`, that a built version stays
built, gives `WorkersKnow`: a worker acts on what it read one or more steps ago, and
its lease may be gone by then. `IndexOnlyLive` is not inductive without it, since
an index is written from a job that became ready earlier; nor is the refinement,
since a settlement of a submission does not itself look at the relay.
`LatestLeaseCorrect` rests on `LeaseIsLast`: a row's lease, while it has an owner, is
the last one the row issued, because requeue and settlement clear the owner with the
token.

### PatchLifecycle

For any finite sets of Patches, Tasks and processes, any instances, batch size and
faults (`PatchAssumption`, `PatchProcessAssumption`, `PatchBoundAssumption`; the sets are
finite because a fresh lease token is a number none of the finitely many holders has):

* `InvariantHolds`: `Spec => [](Typed /\ PatchInv)`.
* `TypeCorrect`: `Spec => []TypeOK`.
* `OneAtATime`: `Spec => []OnePatchAtATime`.
* `BuiltBeforeSent`: `Spec => []SentOnlyWhenBuilt`.
* `OrderKept`: `Spec => []DecidedInOrder`.
* `AuditComplete`: `Spec => []AuditFindsAll`.
* `VerdictTold`: `Spec => LedgerTellsVerdict`.

The invariant is about a Patch that is on its way (`OnTheWay`): its envelope is sent, or
somebody may still send one, the request, a re-drive that leased the row, or the worker
whose build completed it. Such a Patch is built, and its row is relayed or settled as
decided (`SentIsBuilt`, `SentIsRelayed`): the senders do not look at the builds, and
a lease may be long gone when its holder sends. `EarlierIsClosed` says that every
accepted Patch before the last of its instance is decided or failed to build, which
`DecidedInOrder` needs and does not imply. Every action is reduced to one of the effects on
statuses, builds and the Control plane (`Effect`), and the invariant is shown for the effects.

### ReplaySeed

For every finite hypergraph, cyclic ones included:

* `ForwardClosure`: the bounded rounds of `forward_closure` compute the least set that has
  the roots and is closed under the edges.
* `FireableFixpoint`: the rounds of `validate_fireability` compute the least set that has the
  roots and every downstream node that can fire from it.

The rounds are a recursive function over the numbers. Its existence and values come from
`IteratesExist` and `SetInduction`, stated over functions and sets instead of operators, and
that the rounds suffice from `ChainStops`: a chain of subsets of a finite set that
grows until it stands still does so within the set's size.

### ReplayLifecycle

For any finite sets of requests and nodes, any keys, inputs, formations, faults and
archives (`ReplayAssumption`, `ArchiveAssumption`):

* `InvariantHolds`: `Spec => [](Typed /\ ReplayInv)`.
* `TypeCorrect`: `Spec => []TypeOK`.
* `KeyIsSingle`: `Spec => []OneReplayPerKey`.
* `ScopeBeforeRun`: `Spec => []ScopeReadyBeforeRun`.
* `DefaultFires`: `Spec => []DefaultResumeFires`.
* `DoomExact`: `Spec => []DoomedExactly`.
* `ReleaseIsFinal`: `Spec => ReleasedIsFinal`.

`ReplayInv` says what a drive relies on between its steps. `RowsSound` and `CallsSound` keep
what the reads before an insert established, which nothing undoes since seeds and archives
never change (`Kept`). `HydrationSound` says that a drive has put what is no longer to do, so
the sentinel it writes is true although two drives may hydrate one scope. Since a signal
takes effect after it was sent, perhaps long after and perhaps twice, a Resume under way
must already find what the run will need: the scope is complete, or rejected, from the step at
which a drive may send it, for as long as the signal or the run exists. `Outbound` of a
row that reached its settlement is kept by every step (`Forward`): the signal arrives, is
lost, or is sent again, and a loss after the last send is remembered in `lost`. The
value of a carried output is the run that last executed its Task, found along the replays of
replays (`LastRan`): `NoCycle` makes that walk end, and `DumpsSound` says the archived outputs
agree with it. `GraphSound` says every run was executed as far as it went; with
`FireableFixpoint` this gives `DoomExact` and, since a failed Task had a
fireable edge, `DefaultFires`.

### CompactionDrain

For any sets of Tasks, runs and payloads, any buffer capacity and output, any number of
faults (`RunsAssumption`, `SizeAssumption`, `ProcessAssumption`, `AppendAssumption`;
`NameAssumption` keeps the mark for "no Task, no payload" from being one):

* `TypeCorrect`: `Spec => []TypeOK`.
* `ArchivedOnce`: `Spec => ArchiveIsFinal`.
* `AnswersAreKept`: `Spec => []AnswersKept`, the part of `AcknowledgedIsKept` about mutations
  and envelopes.
* `AcknowledgedKept`: `Spec => []AcknowledgedIsKept`.
* `CleanEndIsHonest`: `Spec => []CleanEndTellsLoss`.

None of them restricts how appends fail. `AcknowledgedIsKept` excepts the accepted records of
a stream whose shipper went on behind a partial frame, which are lost indeed
(`compaction_torn`), and only those: mutations, envelopes and the other streams are kept. A
partial frame that a crash leaves is the last one and costs nothing.
`CleanEndTellsLoss` has no exception.

The inductive invariant has two halves. `Plain` does not look into the journals: where executor,
shipper and drain are (`ExecSound`, `NothingYet`, `ShipSound`, `DrainPlace`, `DrainFiles`), that
a staging row is complete exactly when the archive has its envelope (`RowsSound`), that the
archive has the snapshot and the snapshot what the scope held (`SnapshotsSound`), and that a
scope's claims decide its values, whence a repeated request changes nothing (`ClaimsSound`,
`RequestsSound`, `ScopeOfRun`, `ValuesKept`). `LogInv` is about the frames: the journal of the
running Task shows what its shipper believes and perhaps the item whose append was not
confirmed (`RunningJournal`), every journal there is can be opened again (`JournalsOpen`), the accepted records are in the journal or, once it is
purged, in the final Log (`LogsKept`, `FilesSound`), and the seal a drain carries from one
step to the next is that of the stream it treats (`SealSound`). For a stream with a partial frame
in the middle most of this is false; what holds of it is `ScarsStay`: as long as the shipper
goes on its journal has that frame, and what recovery can read of it never ends with a
controlled End-of-stream. `CleanEndTellsLoss` is itself part of the invariant. A journal changes in four ways only, kept, shipped to, closed or purged (`Moves`), and the
lemmas on frames (`AppendView`, `NoHole`, `EndAppend`, `SealAppend`) say what each does to the
stream that recovery would find.

### Model-checked only

* Liveness and deadlock freedom: fairness and ENABLED are outside the prover's reach.
  For the drain this is `StagedIsPurged`: every staged envelope is archived and purged.
* The counterexamples under *Findings* and *Observations*.

## Plan

1. (done) TaskPickup, its contract's sentences and its first theorems.
2. (done) DefinitionLifecycle, its abstract contract, the refinement and its
   theorems.
3. (done) Patches, replays, log staging, scopes and the Lite compaction drain, each with
   its crash points.
4. (done) Proofs of the safety properties of pickup, Patches, replays and the drain.
5. TaskAttempt: what a pickup promises (staged, claimed, running, settled, reported), with
   TaskPickup shown to implement it; then pickup and cancellation over Redis and NATS
   against the same abstraction; ingress idempotency and the command bus.
6. Supervisor start order and readiness; capability monitoring.

## Not modelled

The HTTP API's routing and read models, the console, the documentation site, the
CLI's setup commands, the workflow parser and DSL, content hashing and the Redis
ACL tables: they translate or render data and keep no protocol state. Nix, SQLite,
gRPC and the operating system are taken at their interface.

Of the modelled components: the Redis and NATS adapters of pickup, log staging, scopes and
compaction, the object-store uploader, the framing of the tickr-ctx endpoint, and the unleased
settlements of definition and Patch builds, which have callers in tests only.
