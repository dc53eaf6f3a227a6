------------------------- MODULE DefinitionLifecycle ------------------------
(***************************************************************************)
(* The definition lifecycle of one Workflow: registration, the per-Task    *)
(* build pipeline, the submission pipeline and the waits-on-signal index.  *)
(*                                                                         *)
(* The durable half is the tables workflows and workflow_task_builds; each *)
(* repository call is one transaction.  A Conductor process (the one       *)
(* Tickr Lite process, or one replica of a distributed formation) runs a   *)
(* build worker, a submission worker and the in-memory subscription index. *)
(*                                                                         *)
(* A lease is live until time expires it.  Its token is a fresh UUID, here *)
(* the number of leases its row has issued; tokens are only ever compared  *)
(* within a row.  Notifications only cause an earlier scan and scans may   *)
(* come at any time, so notifications do not appear.                       *)
(***************************************************************************)
EXTENDS Naturals, Sequences, FiniteSets

CONSTANTS Processes,   \* Conductor processes sharing the database
          Contents,    \* content hashes a registration may carry
          Cosmetics,   \* cosmetic hashes a registration may carry
          NumTasks,    \* Tasks of a definition
          BatchSize,   \* rows one scan may lease
          Formation,   \* "lite" or "distributed"
          FaultKinds,  \* what may go wrong
          MaxFaults,   \* bound on how often something goes wrong
          MaxVersion   \* bound on the stored versions

ASSUME ProcessAssumption   == 0 \notin Processes
ASSUME SizeAssumption      == NumTasks \in Nat \ {0} /\ BatchSize \in Nat \ {0}
ASSUME FormationAssumption == Formation \in {"lite", "distributed"}
ASSUME BoundAssumption     == MaxFaults \in Nat /\ MaxVersion \in Nat

VARIABLES
  workflows,  \* table workflows, by version
  builds,     \* table workflow_task_builds, by version and Task
  up,         \* processes that run
  running,    \* the workers of each process that have not ended
  jobs,       \* leased build tasks the process's current scan works on
  outbox,     \* leased submissions the process's current scan works on
  index,      \* the version whose trigger the process's index holds, or 0
  relayed,    \* versions the relay's outbound channel accepted
  faults      \* how often something went wrong

tables == <<workflows, builds>>
memory == <<up, running, jobs, outbox, index>>
vars   == <<tables, memory, relayed, faults>>

Tasks    == 1..NumTasks
Versions == DOMAIN workflows
Rows     == Versions \X Tasks
Build(r) == builds[r[1]][r[2]]

Workers  == {"build", "submission"}
NoLease  == [owner |-> 0, token |-> 0, live |-> FALSE]
Statuses == {"Building", "BuildFailed", "Ready", "Submitted"}

(* One of the bounded number of things that go wrong. *)
Fault(kind) == kind \in FaultKinds /\ faults < MaxFaults /\ faults' = faults + 1

Init ==
  /\ workflows = <<>> /\ builds = <<>>
  /\ up = Processes
  /\ running = [p \in Processes |-> Workers]
  /\ jobs   = [p \in Processes |-> {}]
  /\ outbox = [p \in Processes |-> {}]
  /\ index  = [p \in Processes |-> 0]
  /\ relayed = {}
  /\ faults = 0

-----------------------------------------------------------------------------
(* Registration *)

(* What a registration does to the newest stored version. *)
decide(content, cosmetic) ==
  IF workflows = <<>> THEN "Insert"
  ELSE LET latest == workflows[Len(workflows)] IN
       CASE latest.content # content       -> "Insert"
         [] latest.content = content /\ latest.status = "BuildFailed" -> "BuildRequeued"
         [] /\ latest.content = content /\ latest.cosmetic # cosmetic
            /\ latest.status \in {"Ready", "Submitted"}               -> "Refreshed"
         [] OTHER                          -> "NoOp"

PendingBuild == [status |-> "pending", lease |-> NoLease, issued |-> 0]

(* Mutant: the build rows are not inserted in the registration transaction. *)
InsertedWithoutBuilds(content, cosmetic) ==
  /\ Len(workflows) < MaxVersion
  /\ decide(content, cosmetic) = "Insert"
  /\ workflows' = Append(workflows,
                    [status |-> "Building", content |-> content,
                     cosmetic |-> cosmetic, lease |-> NoLease, issued |-> 0])
  /\ UNCHANGED <<builds, memory, relayed, faults>>

RegisterInserted(content, cosmetic) ==
  /\ Len(workflows) < MaxVersion
  /\ decide(content, cosmetic) = "Insert"
  /\ workflows' = Append(workflows,
                    [status |-> "Building", content |-> content,
                     cosmetic |-> cosmetic, lease |-> NoLease, issued |-> 0])
  /\ builds' = Append(builds, [t \in Tasks |-> PendingBuild])
  /\ UNCHANGED <<memory, relayed, faults>>

(* Mutant: the requeue clears leases but leaves failed builds as they are. *)
RequeuedKeepsFailure(build) ==
  IF build.status = "pending" THEN [build EXCEPT !.lease = NoLease] ELSE build

(* The failed builds become pending again and every pending build loses its *)
(* lease, so that results of the failed round are refused.                  *)
Requeued(build) ==
  IF build.status = "success" THEN build
  ELSE [build EXCEPT !.status = "pending", !.lease = NoLease]

RegisterRequeued(content, cosmetic) ==
  /\ decide(content, cosmetic) = "BuildRequeued"
  /\ LET v == Len(workflows) IN
     /\ workflows' = [workflows EXCEPT ![v].status = "Building"]
     /\ builds' = [builds EXCEPT ![v] = [t \in Tasks |-> Requeued(builds[v][t])]]
  /\ UNCHANGED <<memory, relayed, faults>>

RegisterRefreshed(content, cosmetic) ==
  /\ decide(content, cosmetic) = "Refreshed"
  /\ workflows' = [workflows EXCEPT ![Len(workflows)].cosmetic = cosmetic]
  /\ UNCHANGED <<builds, memory, relayed, faults>>

RegisterNoOp(content, cosmetic) ==
  decide(content, cosmetic) = "NoOp" /\ UNCHANGED vars

Register == \E content \in Contents, cosmetic \in Cosmetics :
  \/ RegisterInserted(content, cosmetic)
  \/ RegisterRequeued(content, cosmetic)
  \/ RegisterRefreshed(content, cosmetic)
  \/ RegisterNoOp(content, cosmetic)

-----------------------------------------------------------------------------
(* Leases *)

(* Mutant: the settlement tests the expiry but not whose lease it is. *)
GuardedByClock(row, p, job) == row.lease.token # 0 /\ job.fresh

(* Lease p puts on a row, and the guard its settlement must pass: the same   *)
(* owner and token, unexpired when the worker read the clock.                *)
Granted(row, p) ==
  [row EXCEPT !.lease = [owner |-> p, token |-> row.issued + 1, live |-> TRUE],
              !.issued = row.issued + 1]
Guarded(row, p, job) ==
  row.lease.owner = p /\ row.lease.token = job.token /\ job.fresh

(* Whether the lease under a token is unexpired now. *)
Unexpired(row, token) == row.lease.token = token /\ row.lease.live

(* The first rows, in the scan's order, up to the batch limit. *)
Batch(eligible, order) ==
  {batch \in SUBSET eligible :
     /\ batch # {} /\ Cardinality(batch) <= BatchSize
     /\ batch = eligible \/ Cardinality(batch) = BatchSize
     /\ \A r \in batch, s \in eligible \ batch : <<r, s>> \in order}

-----------------------------------------------------------------------------
(* The build worker: a scan leases a batch and works on all of it at once   *)

(* Mutant: a build row is only leased while it has no lease. *)
BuildEligibleOnce(r) ==
  /\ workflows[r[1]].status = "Building"
  /\ Build(r).status = "pending" /\ Build(r).lease = NoLease

BuildEligible(r) ==
  /\ workflows[r[1]].status = "Building"
  /\ Build(r).status = "pending" /\ ~Build(r).lease.live

BuildOrder == {e \in Rows \X Rows : \/ e[1][1] < e[2][1]
                                    \/ e[1][1] = e[2][1] /\ e[1][2] < e[2][2]}

LeaseBuilds(p) ==
  /\ p \in up /\ "build" \in running[p] /\ jobs[p] = {}
  /\ \E batch \in Batch({r \in Rows : BuildEligible(r)}, BuildOrder) :
       /\ builds' = [v \in Versions |-> [t \in Tasks |->
            IF <<v, t>> \in batch THEN Granted(builds[v][t], p) ELSE builds[v][t]]]
       /\ jobs' = [jobs EXCEPT ![p] =
            {[row |-> r, token |-> Build(r).issued + 1,
              at |-> "building", fresh |-> TRUE] : r \in batch}]
  /\ UNCHANGED <<workflows, up, running, outbox, index, relayed, faults>>

Replace(p, job, new) == jobs' = [jobs EXCEPT ![p] = (@ \ {job}) \cup {new}]
Drop(p, job)         == jobs' = [jobs EXCEPT ![p] = @ \ {job}]

(* The Nix build ends; the worker reads the clock for its settlement. *)
BuildEnds(p, job, result) ==
  /\ job.at = "building"
  /\ Replace(p, job, [job EXCEPT !.at = result,
                                 !.fresh = Unexpired(Build(job.row), job.token)])
  /\ UNCHANGED <<tables, up, running, outbox, index, relayed>>

BuildSucceeds(p, job) == BuildEnds(p, job, "success") /\ UNCHANGED faults
BuildFails(p, job)    == BuildEnds(p, job, "failure") /\ Fault("build")

(* What one settlement transaction decides. *)
Settlement(p, job) ==
  LET v == job.row[1] IN
  IF workflows[v].status # "Building" \/ Build(job.row).status # "pending"
     \/ ~Guarded(Build(job.row), p, job)
  THEN "refused"
  ELSE IF job.at = "failure" THEN "BuildFailed"
  ELSE IF \A t \in Tasks : <<v, t>> = job.row \/ builds[v][t].status = "success"
  THEN "Ready" ELSE "AwaitingTasks"

RecordResult(job) ==
  builds' = [builds EXCEPT ![job.row[1]][job.row[2]].status = job.at,
                           ![job.row[1]][job.row[2]].lease  = NoLease]

(* AlreadySettled, TaskAlreadySettled and LeaseLost change nothing. *)
SettleRefused(p, job) ==
  /\ job.at \in {"success", "failure"} /\ Settlement(p, job) = "refused"
  /\ Drop(p, job)
  /\ UNCHANGED <<tables, up, running, outbox, index, relayed, faults>>

SettleAwaiting(p, job) ==
  /\ job.at \in {"success", "failure"} /\ Settlement(p, job) = "AwaitingTasks"
  /\ RecordResult(job) /\ Drop(p, job)
  /\ UNCHANGED <<workflows, up, running, outbox, index, relayed, faults>>

SettleFailed(p, job) ==
  /\ job.at \in {"success", "failure"} /\ Settlement(p, job) = "BuildFailed"
  /\ RecordResult(job) /\ Drop(p, job)
  /\ workflows' = [workflows EXCEPT ![job.row[1]].status = "BuildFailed"]
  /\ UNCHANGED <<up, running, outbox, index, relayed, faults>>

(* The last success wins Ready; the index is updated after the commit. *)
SettleReady(p, job) ==
  /\ job.at \in {"success", "failure"} /\ Settlement(p, job) = "Ready"
  /\ RecordResult(job) /\ Replace(p, job, [job EXCEPT !.at = "ready"])
  /\ workflows' = [workflows EXCEPT ![job.row[1]].status = "Ready"]
  /\ UNCHANGED <<up, running, outbox, index, relayed, faults>>

SettleBuild(p, job) == \/ SettleRefused(p, job) \/ SettleAwaiting(p, job)
                       \/ SettleFailed(p, job)  \/ SettleReady(p, job)

(* Project the trigger of the version that became Ready onto the index. *)
apply_workflow_state(p, job) ==
  /\ job.at = "ready"
  /\ index' = [index EXCEPT ![p] = job.row[1]]
  /\ Drop(p, job)
  /\ UNCHANGED <<tables, up, running, outbox, relayed, faults>>

-----------------------------------------------------------------------------
(* The submission worker: a scan leases a batch and forwards it in order    *)

(* Mutant: a version is only leased while it has no lease. *)
SubmissionEligibleOnce(v) ==
  workflows[v].status = "Ready" /\ workflows[v].lease = NoLease

(* Mutant: a scan does not wait for the builds. *)
SubmissionEligibleAny(v) == ~workflows[v].lease.live

SubmissionEligible(v) == workflows[v].status = "Ready" /\ ~workflows[v].lease.live

VersionOrder == {e \in Versions \X Versions : e[1] < e[2]}

LeaseSubmissions(p) ==
  /\ p \in up /\ "submission" \in running[p] /\ outbox[p] = {}
  /\ \E batch \in Batch({v \in Versions : SubmissionEligible(v)}, VersionOrder) :
       /\ workflows' = [v \in Versions |->
            IF v \in batch THEN Granted(workflows[v], p) ELSE workflows[v]]
       /\ outbox' = [outbox EXCEPT ![p] =
            {[version |-> v, token |-> workflows[v].issued + 1,
              at |-> "leased", fresh |-> TRUE] : v \in batch}]
  /\ UNCHANGED <<builds, up, running, jobs, index, relayed, faults>>

(* The submission the worker has reached. *)
Current(p, sub) == \A other \in outbox[p] : sub.version <= other.version

Done(p, sub) == outbox' = [outbox EXCEPT ![p] = @ \ {sub}]

(* The relay's outbound channel takes the definition; the worker then reads  *)
(* the clock for its settlement.                                             *)
Forward(p, sub) ==
  /\ sub.at = "leased" /\ Current(p, sub)
  /\ relayed' = relayed \cup {sub.version}
  /\ outbox' = [outbox EXCEPT ![p] = (@ \ {sub}) \cup
       {[sub EXCEPT !.at = "forwarded",
                    !.fresh = Unexpired(workflows[sub.version], sub.token)]}]
  /\ UNCHANGED <<tables, up, running, jobs, index, faults>>

(* Mutant: an unavailable relay does not keep the row from its settlement. *)
ForwardFailsSettles(p, sub) ==
  /\ sub.at = "leased" /\ Current(p, sub)
  /\ Fault("relay")
  /\ outbox' = [outbox EXCEPT ![p] = (@ \ {sub}) \cup
       {[sub EXCEPT !.at = "forwarded"]}]
  /\ UNCHANGED <<tables, up, running, jobs, index, relayed>>

(* No relay: the row stays Ready under its lease until the lease expires. *)
ForwardFails(p, sub) ==
  /\ sub.at = "leased" /\ Current(p, sub)
  /\ Fault("relay") /\ Done(p, sub)
  /\ UNCHANGED <<tables, up, running, jobs, index, relayed>>

SubmissionAccepted(p, sub) ==
  workflows[sub.version].status = "Ready" /\ Guarded(workflows[sub.version], p, sub)

SettleSubmission(p, sub) ==
  /\ sub.at = "forwarded"
  /\ workflows' = IF SubmissionAccepted(p, sub)
       THEN [workflows EXCEPT ![sub.version].status = "Submitted",
                              ![sub.version].lease  = NoLease]
       ELSE workflows
  /\ Done(p, sub)
  /\ UNCHANGED <<builds, up, running, jobs, index, relayed, faults>>

-----------------------------------------------------------------------------
(* Time, failures and restarts *)

(* Somebody still works under the lease. *)
BuildHeld(r) ==
  \E p \in up : \E job \in jobs[p] : job.row = r /\ job.token = Build(r).lease.token
SubmissionHeld(v) ==
  \E p \in up : \E sub \in outbox[p] :
     sub.version = v /\ sub.token = workflows[v].lease.token

(* A lease outlasts the work under it, unless the work is slow. *)
BuildLeaseExpires(r) ==
  /\ Build(r).lease.live
  /\ IF BuildHeld(r) THEN Fault("expiry") ELSE UNCHANGED faults
  /\ builds' = [builds EXCEPT ![r[1]][r[2]].lease.live = FALSE]
  /\ UNCHANGED <<workflows, memory, relayed>>

SubmissionLeaseExpires(v) ==
  /\ workflows[v].lease.live
  /\ IF SubmissionHeld(v) THEN Fault("expiry") ELSE UNCHANGED faults
  /\ workflows' = [workflows EXCEPT ![v].lease.live = FALSE]
  /\ UNCHANGED <<builds, memory, relayed>>

(* The process ends and its memory is gone. *)
Halt(p) ==
  /\ up' = up \ {p}
  /\ running' = [running EXCEPT ![p] = {}]
  /\ jobs'    = [jobs EXCEPT ![p] = {}]
  /\ outbox'  = [outbox EXCEPT ![p] = {}]
  /\ index'   = [index EXCEPT ![p] = 0]
  /\ UNCHANGED <<tables, relayed>>

Crash(p) == p \in up /\ Fault("crash") /\ Halt(p)

(* A repository call of the worker returns an error: the scan's other        *)
(* futures are dropped and the worker ends.  Tickr Lite then stops; a        *)
(* distributed Conductor logs it and runs on without the worker.             *)
WorkerFails(p, w) ==
  /\ p \in up /\ w \in running[p] /\ Fault("repository")
  /\ IF Formation = "lite" THEN Halt(p)
     ELSE /\ running' = [running EXCEPT ![p] = @ \ {w}]
          /\ jobs'   = IF w = "build" THEN [jobs EXCEPT ![p] = {}] ELSE jobs
          /\ outbox' = IF w = "build" THEN outbox ELSE [outbox EXCEPT ![p] = {}]
          /\ UNCHANGED <<tables, up, index, relayed>>

(* Mutant: the rebuild does not filter on the status. *)
StoredVersions == Versions

(* Versions a restart loads: the latest one that is Ready or Submitted. *)
LiveVersions == {v \in Versions : workflows[v].status \in {"Ready", "Submitted"}}
LatestLive(v) == IF v = 0 THEN LiveVersions = {}
                 ELSE v \in LiveVersions /\ \A u \in LiveVersions : u <= v

(* A distributed Conductor rebuilds the index before it starts its workers,   *)
(* and only logs it when the rebuild fails.  Tickr Lite does not rebuild it.  *)
Restart(p) ==
  /\ p \notin up
  /\ up' = up \cup {p}
  /\ running' = [running EXCEPT ![p] = Workers]
  /\ \/ Formation = "lite" /\ UNCHANGED index
     \/ /\ Formation = "distributed"
        /\ \E v \in 0..Len(workflows) :
             LatestLive(v) /\ index' = [index EXCEPT ![p] = v]
     \/ /\ Formation = "distributed" /\ "repository" \in FaultKinds
        /\ UNCHANGED index
  /\ UNCHANGED <<tables, jobs, outbox, relayed, faults>>

-----------------------------------------------------------------------------
BuildStep(p, job) == \/ BuildSucceeds(p, job) \/ BuildFails(p, job)
                     \/ SettleBuild(p, job)   \/ apply_workflow_state(p, job)

SubmissionStep(p, sub) == \/ Forward(p, sub) \/ ForwardFails(p, sub)
                          \/ SettleSubmission(p, sub)

Next ==
  \/ Register
  \/ \E p \in Processes :
       \/ LeaseBuilds(p)      \/ \E job \in jobs[p] : BuildStep(p, job)
       \/ LeaseSubmissions(p) \/ \E sub \in outbox[p] : SubmissionStep(p, sub)
       \/ Crash(p) \/ Restart(p) \/ \E w \in Workers : WorkerFails(p, w)
  \/ \E r \in Rows : BuildLeaseExpires(r)
  \/ \E v \in Versions : SubmissionLeaseExpires(v)

Spec == Init /\ [][Next]_vars

(* Scans are periodic, builds end, relay sends return, time passes and a      *)
(* service manager restarts a stopped process.                                *)
Fairness ==
  /\ \A p \in Processes :
       /\ WF_vars(LeaseBuilds(p)) /\ WF_vars(LeaseSubmissions(p))
       /\ WF_vars(\E job \in jobs[p] : BuildStep(p, job))
       /\ WF_vars(\E sub \in outbox[p] : SubmissionStep(p, sub))
       /\ WF_vars(Restart(p))
  /\ WF_vars(\E r \in Rows : ~BuildHeld(r) /\ BuildLeaseExpires(r))
  /\ WF_vars(\E v \in Versions : ~SubmissionHeld(v) /\ SubmissionLeaseExpires(v))

FairSpec == Spec /\ Fairness

-----------------------------------------------------------------------------
(* Properties *)

Lease     == [owner : Processes \cup {0}, token : Nat, live : BOOLEAN]
Workflow  == [status : Statuses, content : Contents, cosmetic : Cosmetics,
              lease : Lease, issued : Nat]
TaskBuild == [status : {"pending", "success", "failure"}, lease : Lease, issued : Nat]
Job       == [row : (1..Len(workflows)) \X Tasks, token : Nat, fresh : BOOLEAN,
              at : {"building", "success", "failure", "ready"}]
Sub       == [version : 1..Len(workflows), token : Nat, fresh : BOOLEAN,
              at : {"leased", "forwarded"}]

(* The tables, the workers' scans and the indexes hold values of their types, *)
(* and every stored version has its build rows.                               *)
TypeOK ==
  /\ workflows \in Seq(Workflow)
  /\ builds \in Seq([Tasks -> TaskBuild])
  /\ Len(builds) = Len(workflows)
  /\ up \subseteq Processes
  /\ running \in [Processes -> SUBSET Workers]
  /\ jobs \in [Processes -> SUBSET Job]
  /\ outbox \in [Processes -> SUBSET Sub]
  /\ index \in [Processes -> 0..Len(workflows)]
  /\ relayed \subseteq 1..Len(workflows)
  /\ faults \in 0..MaxFaults

(* settle_task_build, requeue: the parent's status is the aggregate of its    *)
(* build rows in every state a crash may expose.  A Building version has a    *)
(* pending build and no failed one, so some scan will settle it; a failed one *)
(* has a failure to requeue; a Ready or Submitted one is built completely.    *)
ParentMatchesTasks ==
  \A v \in Versions :
    /\ workflows[v].status = "Building" =>
         /\ \E t \in Tasks : builds[v][t].status = "pending"
         /\ \A t \in Tasks : builds[v][t].status # "failure"
    /\ workflows[v].status = "BuildFailed" =>
         \E t \in Tasks : builds[v][t].status = "failure"
    /\ workflows[v].status \in {"Ready", "Submitted"} =>
         \A t \in Tasks : builds[v][t].status = "success"

(* What a worker believes about a version stays true while it works, however  *)
(* long that takes: a submission in hand is of a built version and the relay  *)
(* took it before its settlement is attempted; an index update in hand is of  *)
(* a built version.                                                           *)
WorkersKnow ==
  \A p \in Processes :
    /\ \A sub \in outbox[p] :
         /\ workflows[sub.version].status \in {"Ready", "Submitted"}
         /\ sub.at = "forwarded" => sub.version \in relayed
    /\ \A job \in jobs[p] : job.at = "ready" =>
         workflows[job.row[1]].status \in {"Ready", "Submitted"}

(* settle_task_build's lease guard: across expiry, reclaim by another worker, *)
(* failure and requeue, a result is recorded only by the holder of the last   *)
(* lease the row issued.  A worker that was presumed dead changes nothing.    *)
OnlyLatestLeaseSettles ==
  [][\A r \in Rows :
       Build(r).status = "pending" /\ builds'[r[1]][r[2]].status # "pending"
         => \E p \in Processes : \E job \in jobs[p] \ jobs'[p] :
              /\ job.row = r /\ job.token = Build(r).issued
              /\ job.at = builds'[r[1]][r[2]].status]_vars

(* apply_workflow_state, rebuild_from_repository: wakeups are never matched   *)
(* against the trigger of a version that is not built.                        *)
IndexOnlyLive ==
  \A p \in Processes : index[p] # 0 =>
     workflows[index[p]].status \in {"Ready", "Submitted"}

(* waits_on_signal_lifecycle: whenever no index update is outstanding, the    *)
(* index of every running process holds the latest live version.              *)
IndexMatchesLive ==
  (\A q \in Processes : \A job \in jobs[q] : job.at # "ready")
    => \A p \in up : LatestLive(index[p])

(* The lifecycle status of every version. *)
Status == [v \in Versions |-> workflows[v].status]

Contract == INSTANCE DefinitionContract WITH status <- Status, forwarded <- relayed

(* definition_repository, submission_consumer: through every lease, expiry,   *)
(* crash and requeue the tables implement the contract of the two pipelines:  *)
(* a settled version is reopened only by a registration, and none is          *)
(* submitted that the relay has not taken.                                    *)
ImplementsContract == Contract!Spec

(* Version n is stored with this status. *)
Is(n, status) == n \in Versions /\ workflows[n].status = status

(* build-pipeline.md: "Every processor scans once during startup and at a     *)
(* bounded steady-state interval", so a build never stays unsettled.          *)
BuildsSettle ==
  \A n \in 1..MaxVersion : Is(n, "Building") ~> ~Is(n, "Building")

(* submission-consumer.md: "Notification loss cannot strand a committed Ready *)
(* definition".                                                               *)
ReadyIsSubmitted ==
  \A n \in 1..MaxVersion : Is(n, "Ready") ~> Is(n, "Submitted")
=============================================================================
