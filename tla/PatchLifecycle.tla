--------------------------- MODULE PatchLifecycle ---------------------------
(***************************************************************************)
(* Patches of running Workflow instances: ingress, the builds of the Tasks *)
(* a Patch adds, the relay of its apply envelope to the Control plane, the *)
(* correlation of the outcome and the settlement audit at compaction.      *)
(*                                                                         *)
(* The durable half is the tables workflow_patches,                        *)
(* workflow_patch_task_builds and workflow_patch_discrepancies; each       *)
(* repository call is one transaction.  Every Conductor process ingresses  *)
(* requests and runs one Patch worker, whose scan first re-drives leased   *)
(* lifecycle rows one by one and then builds a leased batch concurrently.  *)
(* Scans may come at any time, so notifications and the minimum age of a   *)
(* row do not appear.  The Control plane is external: it decides a Patch   *)
(* once and repeats its verdict for every further envelope.                *)
(***************************************************************************)
EXTENDS Naturals, Sequences, FiniteSets

CONSTANTS Patches,     \* patch keys
          Instances,   \* Workflow instances
          InstanceOf,  \* the instance a Patch is for
          TasksOf,     \* the Tasks a Patch adds
          Processes,   \* Conductor processes sharing the database
          BatchSize,   \* rows one scan may lease
          FaultKinds,  \* what may go wrong
          MaxFaults    \* bound on how often something goes wrong

ASSUME PatchAssumption == /\ Patches \subseteq Nat /\ IsFiniteSet(Patches)
                          /\ InstanceOf \in [Patches -> Instances]
                          /\ DOMAIN TasksOf = Patches
                          /\ \A x \in Patches : IsFiniteSet(TasksOf[x])
ASSUME PatchProcessAssumption == 0 \notin Processes /\ IsFiniteSet(Processes)
ASSUME PatchBoundAssumption == BatchSize \in Nat \ {0} /\ MaxFaults \in Nat

VARIABLES
  patches,        \* table workflow_patches; status "none" where there is no row
  builds,         \* table workflow_patch_task_builds, by Patch and Task
  discrepancies,  \* table workflow_patch_discrepancies: the Patches flagged
  up,             \* processes that run
  running,        \* processes whose Patch worker has not ended
  requests,       \* process_patch calls between two of their steps
  outbox,         \* leased lifecycle rows the current scan works on
  jobs,           \* leased build rows the current scan works on
  envelopes,      \* apply envelopes on their way to the Control plane
  outcomes,       \* outcomes on their way back
  verdict,        \* the Control plane's decision on a Patch
  ended,          \* instances that are terminal on the Control plane
  audited,        \* instances whose compaction audited the ledger
  order,          \* the Patches accepted, in order
  faults          \* how often something went wrong

tables  == <<patches, builds, discrepancies>>
memory  == <<up, running, requests, outbox, jobs>>
control == <<envelopes, outcomes, verdict, ended>>
history == <<audited, order>>
vars    == <<tables, memory, control, history, faults>>

Rows      == {r \in Patches \X UNION {TasksOf[x] : x \in Patches} : r[2] \in TasksOf[r[1]]}
RowsOf(x) == {r \in Rows : r[1] = x}

NoLease   == [owner |-> 0, token |-> 0, live |-> FALSE]
Unsettled == {"Validating", "Building", "Submitted"}
Terminal  == {"Applied", "Rejected", "BuildFailed"}

(* One of the bounded number of things that go wrong. *)
Fault(kind) == kind \in FaultKinds /\ faults < MaxFaults /\ faults' = faults + 1

Init ==
  /\ patches = [x \in Patches |-> [status |-> "none", lease |-> NoLease]]
  /\ builds  = [r \in Rows |-> [status |-> "none", lease |-> NoLease]]
  /\ discrepancies = {}
  /\ up = Processes /\ running = Processes
  /\ requests = {}
  /\ outbox = [p \in Processes |-> {}]
  /\ jobs   = [p \in Processes |-> {}]
  /\ envelopes = {} /\ outcomes = {} /\ ended = {}
  /\ verdict = [x \in Patches |-> "none"]
  /\ audited = {} /\ order = <<>> /\ faults = 0

-----------------------------------------------------------------------------
(* Ingress *)

(* Mutant: a Patch the Control plane has not answered does not count. *)
SiblingWithoutSubmitted(x) ==
  \E y \in Patches : /\ InstanceOf[y] = InstanceOf[x]
                     /\ patches[y].status \in {"Validating", "Building"}

SiblingUnsettled(x) ==
  \E y \in Patches : /\ InstanceOf[y] = InstanceOf[x]
                     /\ patches[y].status \in Unsettled

(* The ingress transaction, serialised per instance by an advisory lock (the *)
(* database's write lock in Tickr Lite), refuses a Patch behind an unsettled *)
(* one and opens the row and its builds otherwise.                           *)
IngressRejected(p, x) ==
  /\ p \in up /\ patches[x].status = "none" /\ SiblingUnsettled(x)
  /\ patches' = [patches EXCEPT ![x].status = "Rejected"]
  /\ UNCHANGED <<builds, discrepancies, memory, control, history, faults>>

IngressAccepted(p, x) ==
  /\ p \in up /\ patches[x].status = "none" /\ ~SiblingUnsettled(x)
  /\ patches' = [patches EXCEPT ![x].status =
                   IF TasksOf[x] = {} THEN "Validating" ELSE "Building"]
  /\ builds' = [r \in Rows |-> IF r[1] = x THEN [builds[r] EXCEPT !.status = "pending"]
                                           ELSE builds[r]]
  /\ requests' = IF TasksOf[x] = {}
                 THEN requests \cup {[process |-> p, patch |-> x, at |-> "accepted"]}
                 ELSE requests
  /\ order' = Append(order, x)
  /\ UNCHANGED <<discrepancies, up, running, outbox, jobs, control, audited, faults>>

(* A redelivered completion asks for its self-patch again: the row replays. *)
IngressReplayed(p, x) == p \in up /\ patches[x].status # "none" /\ UNCHANGED vars

Leave(req) == requests' = requests \ {req}

(* A Patch without new Tasks is relayed by its own request.  The relay's      *)
(* outbound channel takes the envelope, or the row is left for the re-drive. *)
RequestSends(req) ==
  /\ req.at = "accepted"
  /\ envelopes' = envelopes \cup {req.patch}
  /\ requests' = (requests \ {req}) \cup {[req EXCEPT !.at = "sent"]}
  /\ UNCHANGED <<tables, up, running, outbox, jobs, outcomes, verdict, ended,
                 history, faults>>

RequestSendFails(req) ==
  /\ req.at = "accepted" /\ Fault("relay") /\ Leave(req)
  /\ UNCHANGED <<tables, up, running, outbox, jobs, control, history>>

(* Mutant: the submission overwrites whatever the row holds by now. *)
MarkAnySubmitted(req) ==
  /\ req.at = "sent"
  /\ patches' = [patches EXCEPT ![req.patch].status = "Submitted"]
  /\ Leave(req)
  /\ UNCHANGED <<builds, discrepancies, up, running, outbox, jobs, control,
                 history, faults>>

mark_patch_submitted(req) ==
  /\ req.at = "sent"
  /\ patches' = IF patches[req.patch].status \in {"Validating", "Submitted"}
                THEN [patches EXCEPT ![req.patch].status = "Submitted"] ELSE patches
  /\ Leave(req)
  /\ UNCHANGED <<builds, discrepancies, up, running, outbox, jobs, control,
                 history, faults>>

(* The update fails: the caller gets an error and the row stays as it is. *)
RequestFails(req) ==
  /\ req.at = "sent" /\ Fault("repository") /\ Leave(req)
  /\ UNCHANGED <<tables, up, running, outbox, jobs, control, history>>

RequestStep(req) == \/ RequestSends(req) \/ RequestSendFails(req)
                    \/ mark_patch_submitted(req) \/ RequestFails(req)

-----------------------------------------------------------------------------
(* Leases: a token is a fresh UUID, here the least number nobody holds        *)

Fresh(held) == CHOOSE n \in 1..(Cardinality(held) + 1) :
                 n \notin held /\ \A m \in 1..(n - 1) : m \in held

LifecycleToken(x) == Fresh({patches[x].lease.token} \cup
  {sub.token : sub \in {s \in UNION {outbox[p] : p \in Processes} : s.patch = x}})
BuildToken(r) == Fresh({builds[r].lease.token} \cup
  {job.token : job \in {j \in UNION {jobs[p] : p \in Processes} : j.row = r}})

(* The lease p puts on a row, and the guard its settlement must pass: the     *)
(* same owner and token, unexpired when the worker read the clock.            *)
Granted(row, p, token) ==
  [row EXCEPT !.lease = [owner |-> p, token |-> token, live |-> TRUE]]
Guarded(row, p, work) ==
  row.lease.owner = p /\ row.lease.token = work.token /\ work.fresh

Unexpired(row, token) == row.lease.token = token /\ row.lease.live

Idle(p) == p \in running /\ outbox[p] = {} /\ jobs[p] = {}

Batch(eligible) ==
  {batch \in (SUBSET eligible) \ {{}} :
     /\ Cardinality(batch) <= BatchSize
     /\ batch = eligible \/ Cardinality(batch) = BatchSize}

-----------------------------------------------------------------------------
(* The worker's scan, first half: re-drive lifecycle rows one after another   *)

LifecycleEligible(x) ==
  patches[x].status \in {"Validating", "Submitted"} /\ ~patches[x].lease.live

ScanLifecycle(p) ==
  /\ Idle(p)
  /\ \E batch \in Batch({x \in Patches : LifecycleEligible(x)}) :
       /\ patches' = [x \in Patches |-> IF x \in batch THEN Granted(patches[x], p, LifecycleToken(x))
                                                       ELSE patches[x]]
       /\ outbox' = [outbox EXCEPT ![p] =
            {[patch |-> x, token |-> LifecycleToken(x),
              at |-> "leased", fresh |-> TRUE] : x \in batch}]
  /\ UNCHANGED <<builds, discrepancies, up, running, requests, jobs, control, history, faults>>

Done(p, sub) == outbox' = [outbox EXCEPT ![p] = @ \ {sub}]

(* The outbound channel takes the envelope of the leased row, whatever has    *)
(* become of the row since; the worker then reads the clock.                  *)
Redrive(p, sub) ==
  /\ sub.at = "leased" /\ \A other \in outbox[p] : other.at = "leased"
  /\ envelopes' = envelopes \cup {sub.patch}
  /\ outbox' = [outbox EXCEPT ![p] = (@ \ {sub}) \cup
       {[sub EXCEPT !.at = "sent", !.fresh = Unexpired(patches[sub.patch], sub.token)]}]
  /\ UNCHANGED <<tables, up, running, requests, jobs, outcomes, verdict, ended,
                 history, faults>>

(* No relay: the lease is given back if it is still the worker's. *)
RedriveFails(p, sub) ==
  /\ sub.at = "leased" /\ \A other \in outbox[p] : other.at = "leased"
  /\ Fault("relay") /\ Done(p, sub)
  /\ patches' = IF /\ patches[sub.patch].lease.owner = p
                   /\ patches[sub.patch].lease.token = sub.token
                THEN [patches EXCEPT ![sub.patch].lease = NoLease] ELSE patches
  /\ UNCHANGED <<builds, discrepancies, up, running, requests, jobs, control, history>>

SubmissionAccepted(p, sub) ==
  /\ patches[sub.patch].status \in {"Validating", "Submitted"}
  /\ Guarded(patches[sub.patch], p, sub)

settle_leased_patch_submission(p, sub) ==
  /\ sub.at = "sent" /\ Done(p, sub)
  /\ patches' = IF SubmissionAccepted(p, sub)
                THEN [patches EXCEPT ![sub.patch].status = "Submitted",
                                     ![sub.patch].lease  = NoLease] ELSE patches
  /\ UNCHANGED <<builds, discrepancies, up, running, requests, jobs, control,
                 history, faults>>

LifecycleStep(p, sub) == \/ Redrive(p, sub) \/ RedriveFails(p, sub)
                         \/ settle_leased_patch_submission(p, sub)

-----------------------------------------------------------------------------
(* The worker's scan, second half: build a batch concurrently                 *)

BuildEligible(r) ==
  /\ patches[r[1]].status = "Building"
  /\ builds[r].status = "pending" /\ ~builds[r].lease.live

ScanBuilds(p) ==
  /\ Idle(p)
  /\ \E batch \in Batch({r \in Rows : BuildEligible(r)}) :
       /\ builds' = [r \in Rows |-> IF r \in batch THEN Granted(builds[r], p, BuildToken(r))
                                                   ELSE builds[r]]
       /\ jobs' = [jobs EXCEPT ![p] =
            {[row |-> r, token |-> BuildToken(r),
              at |-> "building", fresh |-> TRUE] : r \in batch}]
  /\ UNCHANGED <<patches, discrepancies, up, running, requests, outbox, control, history, faults>>

Replace(p, job, new) == jobs' = [jobs EXCEPT ![p] = (@ \ {job}) \cup {new}]
Drop(p, job)         == jobs' = [jobs EXCEPT ![p] = @ \ {job}]

(* The Nix build ends; the worker reads the clock for its settlement. *)
BuildEnds(p, job, result) ==
  /\ job.at = "building"
  /\ Replace(p, job, [job EXCEPT !.at = result,
                                 !.fresh = Unexpired(builds[job.row], job.token)])
  /\ UNCHANGED <<tables, up, running, requests, outbox, control, history>>

BuildSucceeds(p, job) == BuildEnds(p, job, "success") /\ UNCHANGED faults
BuildFails(p, job)    == BuildEnds(p, job, "failure") /\ Fault("build")

(* Mutant: the first success submits the Patch. *)
SettlementOfFirst(p, job) ==
  IF \/ patches[job.row[1]].status # "Building" \/ builds[job.row].status # "pending"
     \/ ~Guarded(builds[job.row], p, job)
  THEN "refused"
  ELSE IF job.at = "failure" THEN "BuildFailed" ELSE "Submitted"

(* What one settlement transaction decides. *)
Settlement(p, job) ==
  IF \/ patches[job.row[1]].status # "Building" \/ builds[job.row].status # "pending"
     \/ ~Guarded(builds[job.row], p, job)
  THEN "refused"
  ELSE IF job.at = "failure" THEN "BuildFailed"
  ELSE IF \A r \in RowsOf(job.row[1]) \ {job.row} : builds[r].status = "success"
  THEN "Submitted" ELSE "AwaitingTasks"

(* Mutant: the Task's row takes the status of the Patch. *)
RecordPatchStatus(job) == builds' = [builds EXCEPT ![job.row].lease  = NoLease,
  ![job.row].status = IF job.at = "success" THEN "Submitted" ELSE "BuildFailed"]

RecordResult(job) == builds' = [builds EXCEPT ![job.row].status = job.at,
                                              ![job.row].lease  = NoLease]

Ended(job) == job.at \in {"success", "failure"}

(* AlreadySettled, TaskAlreadySettled and LeaseLost change nothing. *)
SettleRefused(p, job) ==
  /\ Ended(job) /\ Settlement(p, job) = "refused" /\ Drop(p, job)
  /\ UNCHANGED <<tables, up, running, requests, outbox, control, history, faults>>

SettleAwaiting(p, job) ==
  /\ Ended(job) /\ Settlement(p, job) = "AwaitingTasks"
  /\ RecordResult(job) /\ Drop(p, job)
  /\ UNCHANGED <<patches, discrepancies, up, running, requests, outbox, control,
                 history, faults>>

SettleFailed(p, job) ==
  /\ Ended(job) /\ Settlement(p, job) = "BuildFailed"
  /\ RecordResult(job) /\ Drop(p, job)
  /\ patches' = [patches EXCEPT ![job.row[1]].status = "BuildFailed"]
  /\ UNCHANGED <<discrepancies, up, running, requests, outbox, control, history, faults>>

(* The last success commits Submitted; its worker then sends the envelope.    *)
SettleSubmitted(p, job) ==
  /\ Ended(job) /\ Settlement(p, job) = "Submitted"
  /\ RecordResult(job) /\ Replace(p, job, [job EXCEPT !.at = "built"])
  /\ patches' = [patches EXCEPT ![job.row[1]].status = "Submitted"]
  /\ UNCHANGED <<discrepancies, up, running, requests, outbox, control, history, faults>>

SettleBuild(p, job) == \/ SettleRefused(p, job) \/ SettleAwaiting(p, job)
                       \/ SettleFailed(p, job)  \/ SettleSubmitted(p, job)

WinnerSends(p, job) ==
  /\ job.at = "built" /\ Drop(p, job)
  /\ envelopes' = envelopes \cup {job.row[1]}
  /\ UNCHANGED <<tables, up, running, requests, outbox, outcomes, verdict, ended,
                 history, faults>>

(* The row is Submitted already, so the re-drive will send it. *)
WinnerSendFails(p, job) ==
  /\ job.at = "built" /\ Fault("relay") /\ Drop(p, job)
  /\ UNCHANGED <<tables, up, running, requests, outbox, control, history>>

BuildStep(p, job) == \/ BuildSucceeds(p, job) \/ BuildFails(p, job)
                     \/ SettleBuild(p, job)
                     \/ WinnerSends(p, job) \/ WinnerSendFails(p, job)

-----------------------------------------------------------------------------
(* The Control plane (external), the outcome and the audit                    *)

(* The first envelope of a Patch decides it; every one is answered. *)
Decide(x) ==
  /\ x \in envelopes
  /\ envelopes' = envelopes \ {x} /\ outcomes' = outcomes \cup {x}
  /\ verdict' \in {[verdict EXCEPT ![x] = v] :
       v \in IF verdict[x] # "none" THEN {verdict[x]}
             ELSE IF InstanceOf[x] \in ended THEN {"Rejected"}
             ELSE {"Applied", "Rejected"}}
  /\ UNCHANGED <<tables, memory, ended, history, faults>>

InstanceEnds(i) ==
  /\ i \notin ended /\ ended' = ended \cup {i}
  /\ UNCHANGED <<tables, memory, envelopes, outcomes, verdict, history, faults>>

(* A relay cycle ends with messages in its channels. *)
RelayLoses ==
  /\ Fault("relay") /\ envelopes \cup outcomes # {}
  /\ envelopes' = {} /\ outcomes' = {}
  /\ UNCHANGED <<tables, memory, verdict, ended, history>>

(* Mutant: an outcome settles only a row that still builds. *)
CorrelateBuilding(x) ==
  /\ x \in outcomes /\ outcomes' = outcomes \ {x}
  /\ patches' = IF patches[x].status = "Building"
                THEN [patches EXCEPT ![x].status = verdict[x], ![x].lease = NoLease]
                ELSE patches
  /\ UNCHANGED <<builds, discrepancies, memory, envelopes, verdict, ended, history, faults>>

(* The first outcome settles the row and clears its lease; the others are     *)
(* absorbed.                                                                  *)
correlate_outcome(x) ==
  /\ x \in outcomes /\ outcomes' = outcomes \ {x}
  /\ patches' = IF patches[x].status \in Unsettled
                THEN [patches EXCEPT ![x].status = verdict[x], ![x].lease = NoLease]
                ELSE patches
  /\ UNCHANGED <<builds, discrepancies, memory, envelopes, verdict, ended, history, faults>>

(* Mutant: the audit trusts the ledger's own statuses. *)
patch_discrepancy_applied_only(i) ==
  {x \in Patches : InstanceOf[x] = i /\ patches[x].status = "Applied" /\ verdict[x] # "Applied"}

(* Rows the audit flags against the terminal projection's applied Patches. *)
patch_discrepancy_detail(i) ==
  {x \in Patches : /\ InstanceOf[x] = i
                   /\ \/ patches[x].status \in Unsettled
                      \/ patches[x].status = "Applied" /\ verdict[x] # "Applied"}

audit_patch_settlement(i) ==
  /\ i \in ended
  /\ discrepancies' = discrepancies \cup patch_discrepancy_detail(i)
  /\ audited' = audited \cup {i}
  /\ UNCHANGED <<patches, builds, memory, control, order, faults>>

-----------------------------------------------------------------------------
(* Time, failures and restarts *)

(* Somebody still works under the lease. *)
LifecycleHeld(x) == \E p \in up : \E sub \in outbox[p] :
                      sub.patch = x /\ sub.token = patches[x].lease.token
BuildHeld(r) == \E p \in up : \E job \in jobs[p] :
                  job.row = r /\ job.token = builds[r].lease.token

LifecycleLeaseExpires(x) ==
  /\ patches[x].lease.live
  /\ IF LifecycleHeld(x) THEN Fault("expiry") ELSE UNCHANGED faults
  /\ patches' = [patches EXCEPT ![x].lease.live = FALSE]
  /\ UNCHANGED <<builds, discrepancies, memory, control, history>>

BuildLeaseExpires(r) ==
  /\ builds[r].lease.live
  /\ IF BuildHeld(r) THEN Fault("expiry") ELSE UNCHANGED faults
  /\ builds' = [builds EXCEPT ![r].lease.live = FALSE]
  /\ UNCHANGED <<patches, discrepancies, memory, control, history>>

(* A repository call of the scan returns an error and the worker ends; the    *)
(* Conductor only logs it.                                                    *)
WorkerFails(p) ==
  /\ p \in running /\ Fault("repository")
  /\ running' = running \ {p}
  /\ outbox' = [outbox EXCEPT ![p] = {}] /\ jobs' = [jobs EXCEPT ![p] = {}]
  /\ UNCHANGED <<tables, up, requests, control, history>>

Crash(p) ==
  /\ p \in up /\ Fault("crash")
  /\ up' = up \ {p} /\ running' = running \ {p}
  /\ requests' = {req \in requests : req.process # p}
  /\ outbox' = [outbox EXCEPT ![p] = {}] /\ jobs' = [jobs EXCEPT ![p] = {}]
  /\ UNCHANGED <<tables, control, history>>

Restart(p) ==
  /\ p \notin up /\ up' = up \cup {p} /\ running' = running \cup {p}
  /\ UNCHANGED <<tables, requests, outbox, jobs, control, history, faults>>

-----------------------------------------------------------------------------
Ingress(p, x) == IngressAccepted(p, x) \/ IngressRejected(p, x) \/ IngressReplayed(p, x)

Next ==
  \/ \E p \in Processes :
       \/ \E x \in Patches : Ingress(p, x)
       \/ ScanLifecycle(p) \/ \E sub \in outbox[p] : LifecycleStep(p, sub)
       \/ ScanBuilds(p)    \/ \E job \in jobs[p] : BuildStep(p, job)
       \/ WorkerFails(p) \/ Crash(p) \/ Restart(p)
  \/ \E req \in requests : RequestStep(req)
  \/ \E x \in Patches : Decide(x) \/ correlate_outcome(x) \/ LifecycleLeaseExpires(x)
  \/ \E r \in Rows : BuildLeaseExpires(r)
  \/ \E i \in Instances : InstanceEnds(i) \/ audit_patch_settlement(i)
  \/ RelayLoses

Spec == Init /\ [][Next]_vars

(* Scans are periodic, builds and sends end, the Control plane answers what   *)
(* reaches it, time passes and a service manager restarts a stopped process.  *)
Fairness ==
  /\ \A p \in Processes :
       /\ WF_vars(ScanLifecycle(p)) /\ WF_vars(ScanBuilds(p))
       /\ WF_vars(\E sub \in outbox[p] : LifecycleStep(p, sub))
       /\ WF_vars(\E job \in jobs[p] : BuildStep(p, job))
       /\ WF_vars(Restart(p))
  /\ \A x \in Patches :
       /\ WF_vars(Decide(x)) /\ WF_vars(correlate_outcome(x))
       /\ WF_vars(~LifecycleHeld(x) /\ LifecycleLeaseExpires(x))
  /\ \A r \in Rows : WF_vars(~BuildHeld(r) /\ BuildLeaseExpires(r))

FairSpec == Spec /\ Fairness

-----------------------------------------------------------------------------
(* Properties *)

Lease    == [owner : Processes \cup {0}, token : Nat, live : BOOLEAN]
PatchRow == [status : {"none"} \cup Unsettled \cup Terminal, lease : Lease]
BuildRow == [status : {"none", "pending", "success", "failure"}, lease : Lease]

(* The tables, the worker's scan and the requests hold values of their types. *)
TypeOK ==
  /\ patches \in [Patches -> PatchRow] /\ builds \in [Rows -> BuildRow]
  /\ discrepancies \subseteq Patches
  /\ up \subseteq Processes /\ running \subseteq up
  /\ requests \subseteq [process : Processes, patch : Patches, at : {"accepted", "sent"}]
  /\ outbox \in [Processes -> SUBSET [patch : Patches, token : Nat, fresh : BOOLEAN,
                                      at : {"leased", "sent"}]]
  /\ jobs \in [Processes -> SUBSET [row : Rows, token : Nat, fresh : BOOLEAN,
                                    at : {"building", "success", "failure", "built"}]]
  /\ envelopes \subseteq Patches /\ outcomes \subseteq Patches
  /\ verdict \in [Patches -> {"none", "Applied", "Rejected"}]
  /\ ended \subseteq Instances /\ audited \subseteq Instances
  /\ order \in Seq(Patches) /\ faults \in 0..MaxFaults

(* ingress_patch: across concurrent requests, re-drives and late outcomes an  *)
(* instance has at most one Patch on its way, so two Patches never race to    *)
(* reshape the same graph.                                                    *)
OnePatchAtATime ==
  \A x, y \in Patches :
    /\ InstanceOf[x] = InstanceOf[y]
    /\ patches[x].status \in Unsettled /\ patches[y].status \in Unsettled
    => x = y

(* settle_leased_patch_task_build: the Control plane never hears of a Patch   *)
(* with a Task that is not built, so none whose Tasks cannot run is applied.  *)
SentOnlyWhenBuilt ==
  \A x \in Patches : x \in envelopes \/ verdict[x] # "none" =>
    \A r \in RowsOf(x) : builds[r].status = "success"

(* correlate_outcome, mark_patch_submitted, settle_*: the terminal status a   *)
(* submitter polls is the Control plane's verdict (a Patch that failed to     *)
(* build was never decided), and no re-drive, echo or late settlement reopens *)
(* or overwrites it.                                                          *)
LedgerTellsVerdict ==
  [][\A x \in Patches :
       /\ patches[x].status \in Terminal => patches'[x].status = patches[x].status
       /\ patches'[x].status = "Applied" => verdict'[x] = "Applied"
       /\ verdict'[x] = "Applied" => patches'[x].status \notin {"Rejected", "BuildFailed"}]_vars

(* One Patch at a time, seen by the Control plane: a Patch reaches a decision *)
(* only after every Patch of its instance accepted before it was decided or   *)
(* failed to build, however often envelopes are re-driven or lost.            *)
DecidedInOrder ==
  \A k \in DOMAIN order : \A j \in 1..(k - 1) :
    InstanceOf[order[j]] = InstanceOf[order[k]] /\ verdict[order[k]] # "none" =>
      verdict[order[j]] # "none" \/ patches[order[j]].status = "BuildFailed"

(* audit_patch_settlement: once compaction audited an instance, the ledger    *)
(* agrees with what the Control plane applied or the difference is flagged.   *)
AuditFindsAll ==
  \A x \in Patches : InstanceOf[x] \in audited =>
    \/ (patches[x].status = "Applied") = (verdict[x] = "Applied")
    \/ x \in discrepancies

(* start_local_patch_worker: when a build fails, a lease runs out, the relay  *)
(* loses a message or the process dies, every accepted Patch is settled: a    *)
(* lost envelope or outcome is re-driven, a lost build lease is reclaimed.    *)
PatchesSettle ==
  \A x \in Patches : patches[x].status \in Unsettled ~> patches[x].status \in Terminal
=============================================================================
