---------------------- MODULE DefinitionLifecycleProofs ---------------------
(***************************************************************************)
(* Theorems about DefinitionLifecycle, for any number of processes, Tasks, *)
(* versions and faults and any batch size.                                 *)
(***************************************************************************)
EXTENDS DefinitionLifecycle, SequenceTheorems, TLAPS

(* A function on 1..n is a sequence of length n. *)
LEMMA FunctionIsSequence ==
  ASSUME NEW S, NEW n \in Nat, NEW f \in [1..n -> S]
  PROVE  f \in Seq(S) /\ Len(f) = n /\ DOMAIN f = 1..n
  OBVIOUS

(* The tables as functions on the stored versions. *)
LEMMA Shape ==
  ASSUME TypeOK
  PROVE  /\ Len(workflows) \in Nat /\ Versions = 1..Len(workflows)
         /\ workflows \in [1..Len(workflows) -> Workflow]
         /\ builds \in [1..Len(workflows) -> [Tasks -> TaskBuild]]
  BY DEF TypeOK, Versions

(* Tables of unchanged length keep the types. *)
LEMMA TablesKept ==
  ASSUME NEW n \in Nat,
         NEW w \in [1..n -> Workflow], NEW b \in [1..n -> [Tasks -> TaskBuild]]
  PROVE  /\ w \in Seq(Workflow) /\ b \in Seq([Tasks -> TaskBuild])
         /\ Len(w) = n /\ Len(b) = n
  BY FunctionIsSequence

LEMMA NoLeaseType == NoLease \in Lease
  BY DEF NoLease, Lease

(* A granted lease has the type of a lease. *)
LEMMA GrantedType ==
  ASSUME NEW p \in Processes
  PROVE  /\ \A row \in Workflow : Granted(row, p) \in Workflow
         /\ \A row \in TaskBuild : Granted(row, p) \in TaskBuild
<1>1. ASSUME NEW n \in Nat
      PROVE  [owner |-> p, token |-> n + 1, live |-> TRUE] \in Lease
  BY DEF Lease
<1>2. ASSUME NEW row \in Workflow PROVE Granted(row, p) \in Workflow
  <2> DEFINE lease == [owner |-> p, token |-> row.issued + 1, live |-> TRUE]
  <2>1. row.issued \in Nat /\ row.issued + 1 \in Nat
    BY DEF Workflow
  <2>2. lease \in Lease
    BY <1>1, <2>1
  <2> HIDE DEF lease
  <2>3. [row EXCEPT !.lease = lease, !.issued = row.issued + 1] \in Workflow
    BY <2>1, <2>2 DEF Workflow
  <2> QED
    BY <2>3 DEF Granted, lease
<1>3. ASSUME NEW row \in TaskBuild PROVE Granted(row, p) \in TaskBuild
  <2> DEFINE lease == [owner |-> p, token |-> row.issued + 1, live |-> TRUE]
  <2>1. row.issued \in Nat /\ row.issued + 1 \in Nat
    BY DEF TaskBuild
  <2>2. lease \in Lease
    BY <1>1, <2>1
  <2> HIDE DEF lease
  <2>3. [row EXCEPT !.lease = lease, !.issued = row.issued + 1] \in TaskBuild
    BY <2>1, <2>2 DEF TaskBuild
  <2> QED
    BY <2>3 DEF Granted, lease
<1> QED
  BY <1>2, <1>3

LEMMA FaultType ==
  ASSUME TypeOK, NEW kind, Fault(kind)
  PROVE  faults' \in 0..MaxFaults
  BY BoundAssumption DEF TypeOK, Fault

(* A batch is a set of eligible rows. *)
LEMMA BatchEligible ==
  /\ \A E : \A batch \in Batch(E, BuildOrder) : batch \subseteq E
  /\ \A E : \A batch \in Batch(E, VersionOrder) : batch \subseteq E
  BY DEF Batch

-----------------------------------------------------------------------------
(* Type correctness, action by action *)

LEMMA InitType == Init => TypeOK
  BY BoundAssumption DEF Init, TypeOK, Workers

LEMMA InsertedType ==
  ASSUME TypeOK, NEW c \in Contents, NEW k \in Cosmetics, RegisterInserted(c, k)
  PROVE  TypeOK'
<1>1. [status |-> "Building", content |-> c, cosmetic |-> k, lease |-> NoLease,
       issued |-> 0] \in Workflow
  BY NoLeaseType DEF Workflow, Statuses
<1>2. [t \in Tasks |-> PendingBuild] \in [Tasks -> TaskBuild]
  BY NoLeaseType DEF PendingBuild, TaskBuild
<1>3. /\ workflows' \in Seq(Workflow) /\ builds' \in Seq([Tasks -> TaskBuild])
      /\ Len(workflows') = Len(workflows) + 1 /\ Len(builds') = Len(workflows')
  BY <1>1, <1>2 DEF TypeOK, RegisterInserted
<1>4. Len(workflows) \in Nat
  BY Shape
<1>5. 1..Len(workflows) \subseteq 1..Len(workflows') /\ 0..Len(workflows) \subseteq 0..Len(workflows')
  BY <1>3, <1>4
<1>6. Job \subseteq Job' /\ Sub \subseteq Sub'
  BY <1>5 DEF Job, Sub
<1> QED
  BY <1>3, <1>5, <1>6 DEF TypeOK, RegisterInserted, memory

LEMMA RequeuedType ==
  ASSUME TypeOK, NEW c \in Contents, NEW k \in Cosmetics, RegisterRequeued(c, k)
  PROVE  TypeOK'
<1> DEFINE n == Len(workflows)
<1>1. n \in 1..n
  BY Shape DEF RegisterRequeued, decide, TypeOK
<1>2. workflows' \in [1..n -> Workflow]
  BY <1>1, Shape DEF RegisterRequeued, Workflow, Statuses
<1>3. \A build \in TaskBuild : Requeued(build) \in TaskBuild
  BY NoLeaseType DEF Requeued, TaskBuild
<1>4. builds' \in [1..n -> [Tasks -> TaskBuild]]
  BY <1>1, <1>3, Shape DEF RegisterRequeued
<1>5. n \in Nat
  BY Shape
<1>6. /\ workflows' \in Seq(Workflow) /\ builds' \in Seq([Tasks -> TaskBuild])
      /\ Len(workflows') = n /\ Len(builds') = n
  BY <1>2, <1>4, <1>5, TablesKept
<1> QED
  BY <1>6 DEF TypeOK, RegisterRequeued, memory, Job, Sub

LEMMA RefreshedType ==
  ASSUME TypeOK, NEW c \in Contents, NEW k \in Cosmetics, RegisterRefreshed(c, k)
  PROVE  TypeOK'
<1> DEFINE n == Len(workflows)
<1>1. n \in 1..n
  BY Shape DEF RegisterRefreshed, decide, TypeOK
<1>2. workflows' \in [1..n -> Workflow]
  BY <1>1, Shape DEF RegisterRefreshed, Workflow
<1>3. workflows' \in Seq(Workflow) /\ Len(workflows') = n
  BY <1>2, Shape, FunctionIsSequence
<1> QED
  BY <1>3 DEF TypeOK, RegisterRefreshed, memory, Job, Sub

LEMMA LeaseBuildsType ==
  ASSUME TypeOK, NEW p \in Processes, LeaseBuilds(p)
  PROVE  TypeOK'
<1> DEFINE n == Len(workflows)
<1>1. PICK batch \in Batch({r \in Rows : BuildEligible(r)}, BuildOrder) :
        /\ builds' = [v \in Versions |-> [t \in Tasks |->
             IF <<v, t>> \in batch THEN Granted(builds[v][t], p) ELSE builds[v][t]]]
        /\ jobs' = [jobs EXCEPT ![p] =
             {[row |-> r, token |-> Build(r).issued + 1,
               at |-> "building", fresh |-> TRUE] : r \in batch}]
  BY DEF LeaseBuilds
<1>2. batch \subseteq (1..n) \X Tasks
  BY BatchEligible, Shape DEF Rows
<1>3. builds' \in [1..n -> [Tasks -> TaskBuild]]
  BY <1>1, Shape, GrantedType
<1>4. builds' \in Seq([Tasks -> TaskBuild]) /\ Len(builds') = n
  BY <1>3, Shape, FunctionIsSequence
<1>5. \A r \in batch : Build(r).issued \in Nat
  BY <1>2, Shape DEF Build, TaskBuild
<1>6. {[row |-> r, token |-> Build(r).issued + 1,
        at |-> "building", fresh |-> TRUE] : r \in batch} \subseteq Job
  <2>1. ASSUME NEW r \in batch
        PROVE  [row |-> r, token |-> Build(r).issued + 1,
                at |-> "building", fresh |-> TRUE] \in Job
    <3>1. r \in (1..n) \X Tasks /\ Build(r).issued + 1 \in Nat
      BY <1>2, <1>5
    <3> HIDE DEF n
    <3> QED
      BY <3>1 DEF Job, n
  <2> QED
    BY <2>1
<1>7. jobs' \in [Processes -> SUBSET Job]
  BY <1>1, <1>6 DEF TypeOK
<1> QED
  BY <1>4, <1>7 DEF TypeOK, LeaseBuilds, Job, Sub

LEMMA BuildEndsType ==
  ASSUME TypeOK, NEW p \in Processes, NEW job \in jobs[p], NEW result,
         result \in {"success", "failure"}, BuildEnds(p, job, result),
         faults' \in 0..MaxFaults
  PROVE  TypeOK'
<1>1. Unexpired(Build(job.row), job.token) \in BOOLEAN
  BY DEF Unexpired
<1>2. job \in Job
  BY DEF TypeOK
<1>3. [job EXCEPT !.at = result, !.fresh = Unexpired(Build(job.row), job.token)] \in Job
  BY <1>1, <1>2 DEF Job
<1>4. jobs' \in [Processes -> SUBSET Job]
  BY <1>3 DEF TypeOK, BuildEnds, Replace
<1> QED
  BY <1>4 DEF TypeOK, BuildEnds, tables, Job, Sub

(* Recording a result keeps the build rows. *)
LEMMA RecordType ==
  ASSUME TypeOK, NEW p \in Processes, NEW job \in jobs[p], RecordResult(job),
         job.at \in {"success", "failure"}
  PROVE  builds' \in [1..Len(workflows) -> [Tasks -> TaskBuild]]
<1>1. job.row[1] \in 1..Len(workflows) /\ job.row[2] \in Tasks
  BY DEF TypeOK, Job
<1> DEFINE v == job.row[1]
           t == job.row[2]
<1>2. builds[v][t] \in TaskBuild /\ builds \in [1..Len(workflows) -> [Tasks -> TaskBuild]]
  BY <1>1, Shape
<1>3. [builds[v][t] EXCEPT !.status = job.at, !.lease = NoLease] \in TaskBuild
  BY <1>2, NoLeaseType DEF TaskBuild
<1>4. builds' = [builds EXCEPT ![v][t] =
                   [builds[v][t] EXCEPT !.status = job.at, !.lease = NoLease]]
  BY <1>1, <1>2 DEF RecordResult, TaskBuild
<1> HIDE DEF v, t
<1> QED
  BY <1>1, <1>2, <1>3, <1>4 DEF v, t

LEMMA SettleType ==
  ASSUME TypeOK, NEW p \in Processes, NEW job \in jobs[p], SettleBuild(p, job)
  PROVE  TypeOK'
<1> DEFINE n == Len(workflows)
<1>1. job \in Job /\ job.row[1] \in 1..n
  BY DEF TypeOK, Job
<1>2. (jobs[p] \ {job}) \cup {[job EXCEPT !.at = "ready"]} \subseteq Job
  BY <1>1 DEF Job, TypeOK
<1>3. jobs' \in [Processes -> SUBSET Job]
  BY <1>2 DEF TypeOK, SettleBuild, SettleRefused, SettleAwaiting, SettleFailed,
              SettleReady, Drop, Replace
<1>4. builds' \in [1..n -> [Tasks -> TaskBuild]]
  BY RecordType, Shape DEF SettleBuild, SettleRefused, SettleAwaiting, SettleFailed,
                           SettleReady, tables
<1>5. \A s \in Statuses : [workflows EXCEPT ![job.row[1]].status = s] \in [1..n -> Workflow]
  BY <1>1, Shape DEF Workflow
<1>6. workflows' \in [1..n -> Workflow]
  BY <1>5, Shape DEF SettleBuild, SettleRefused, SettleAwaiting, SettleFailed,
                     SettleReady, tables, Statuses
<1>7. /\ workflows' \in Seq(Workflow) /\ builds' \in Seq([Tasks -> TaskBuild])
      /\ Len(workflows') = n /\ Len(builds') = n
  BY <1>4, <1>6, Shape, TablesKept
<1>8. UNCHANGED <<up, running, outbox, index, relayed, faults>>
  BY DEF SettleBuild, SettleRefused, SettleAwaiting, SettleFailed, SettleReady
<1> QED
  BY <1>3, <1>7, <1>8 DEF TypeOK, Job, Sub

LEMMA ApplyType ==
  ASSUME TypeOK, NEW p \in Processes, NEW job \in jobs[p], apply_workflow_state(p, job)
  PROVE  TypeOK'
<1>1. job.row[1] \in 0..Len(workflows)
  BY Shape DEF TypeOK, Job
<1> QED
  BY <1>1 DEF TypeOK, apply_workflow_state, Drop, tables, Job, Sub

LEMMA LeaseSubmissionsType ==
  ASSUME TypeOK, NEW p \in Processes, LeaseSubmissions(p)
  PROVE  TypeOK'
<1> DEFINE n == Len(workflows)
<1>1. PICK batch \in Batch({v \in Versions : SubmissionEligible(v)}, VersionOrder) :
        /\ workflows' = [v \in Versions |->
             IF v \in batch THEN Granted(workflows[v], p) ELSE workflows[v]]
        /\ outbox' = [outbox EXCEPT ![p] =
             {[version |-> v, token |-> workflows[v].issued + 1,
               at |-> "leased", fresh |-> TRUE] : v \in batch}]
  BY DEF LeaseSubmissions
<1>2. batch \subseteq 1..n
  BY BatchEligible, Shape
<1>3. workflows' \in [1..n -> Workflow]
  BY <1>1, Shape, GrantedType
<1>4. workflows' \in Seq(Workflow) /\ Len(workflows') = n
  BY <1>3, Shape, FunctionIsSequence
<1>5. ASSUME NEW v \in batch
      PROVE  [version |-> v, token |-> workflows[v].issued + 1,
              at |-> "leased", fresh |-> TRUE] \in Sub
  <2>1. v \in 1..n /\ workflows[v].issued + 1 \in Nat
    BY <1>2, Shape DEF Workflow
  <2> QED
    BY <2>1 DEF Sub
<1>6. outbox' \in [Processes -> SUBSET Sub]
  BY <1>1, <1>5 DEF TypeOK
<1> QED
  BY <1>4, <1>6 DEF TypeOK, LeaseSubmissions, Job, Sub

LEMMA ForwardType ==
  ASSUME TypeOK, NEW p \in Processes, NEW sub \in outbox[p],
         Forward(p, sub) \/ ForwardFails(p, sub)
  PROVE  TypeOK'
<1>1. sub \in Sub /\ sub.version \in 1..Len(workflows)
  BY DEF TypeOK, Sub
<1>2. Unexpired(workflows[sub.version], sub.token) \in BOOLEAN
  BY DEF Unexpired
<1>3. [sub EXCEPT !.at = "forwarded",
         !.fresh = Unexpired(workflows[sub.version], sub.token)] \in Sub
  BY <1>1, <1>2 DEF Sub
<1>4. CASE Forward(p, sub)
  <2>1. outbox' \in [Processes -> SUBSET Sub] /\ relayed' \subseteq 1..Len(workflows)
    BY <1>1, <1>3, <1>4 DEF TypeOK, Forward
  <2> QED
    BY <1>4, <2>1 DEF TypeOK, Forward, tables, Job, Sub
<1>5. CASE ForwardFails(p, sub)
  <2>1. outbox' \in [Processes -> SUBSET Sub]
    BY <1>5 DEF TypeOK, ForwardFails, Done
  <2>2. faults' \in 0..MaxFaults
    BY <1>5, FaultType DEF ForwardFails
  <2> QED
    BY <1>5, <2>1, <2>2 DEF TypeOK, ForwardFails, tables, Job, Sub
<1> QED
  BY <1>4, <1>5

LEMMA SubmittedType ==
  ASSUME TypeOK, NEW p \in Processes, NEW sub \in outbox[p], SettleSubmission(p, sub)
  PROVE  TypeOK'
<1> DEFINE n == Len(workflows)
           v == sub.version
<1>1. v \in 1..n /\ workflows[v] \in Workflow
  BY Shape DEF TypeOK, Sub
<1>2. [workflows[v] EXCEPT !.status = "Submitted", !.lease = NoLease] \in Workflow
  BY <1>1, NoLeaseType DEF Workflow, Statuses
<1>3. [workflows EXCEPT ![v].status = "Submitted", ![v].lease = NoLease]
        = [workflows EXCEPT ![v] =
             [workflows[v] EXCEPT !.status = "Submitted", !.lease = NoLease]]
  BY <1>1, Shape DEF Workflow
<1>4. workflows' \in [1..n -> Workflow]
  BY <1>1, <1>2, <1>3, Shape DEF SettleSubmission
<1>5. workflows' \in Seq(Workflow) /\ Len(workflows') = n
  BY <1>4, Shape, FunctionIsSequence
<1>6. outbox' \in [Processes -> SUBSET Sub]
  BY DEF TypeOK, SettleSubmission, Done
<1> QED
  BY <1>5, <1>6 DEF TypeOK, SettleSubmission, Job, Sub

LEMMA BuildExpiryType ==
  ASSUME TypeOK, NEW r \in Rows, BuildLeaseExpires(r)
  PROVE  TypeOK'
<1> DEFINE n == Len(workflows)
<1>1. r[1] \in 1..n /\ r[2] \in Tasks
  BY Shape DEF Rows
<1>2. builds' \in [1..n -> [Tasks -> TaskBuild]]
  <2> DEFINE v == r[1]
             t == r[2]
             new == [builds[v][t] EXCEPT !.lease.live = FALSE]
  <2>1. builds[v][t] \in TaskBuild /\ builds \in [1..n -> [Tasks -> TaskBuild]]
    BY <1>1, Shape
  <2>2. new \in TaskBuild
    BY <2>1 DEF TaskBuild, Lease
  <2>3. builds' = [builds EXCEPT ![v][t] = new]
    BY <1>1, <2>1 DEF BuildLeaseExpires, TaskBuild, Lease
  <2> HIDE DEF v, t, new, n
  <2> QED
    BY <1>1, <2>1, <2>2, <2>3 DEF v, t
<1>3. builds' \in Seq([Tasks -> TaskBuild]) /\ Len(builds') = n
  BY <1>2, Shape, FunctionIsSequence
<1>4. faults' \in 0..MaxFaults
  BY FaultType DEF BuildLeaseExpires, TypeOK
<1> QED
  BY <1>3, <1>4 DEF TypeOK, BuildLeaseExpires, memory, Job, Sub

LEMMA SubmissionExpiryType ==
  ASSUME TypeOK, NEW v \in Versions, SubmissionLeaseExpires(v)
  PROVE  TypeOK'
<1> DEFINE n == Len(workflows)
<1>1. workflows' \in [1..n -> Workflow]
  BY Shape DEF SubmissionLeaseExpires, Workflow, Lease
<1>2. workflows' \in Seq(Workflow) /\ Len(workflows') = n
  BY <1>1, Shape, FunctionIsSequence
<1>3. faults' \in 0..MaxFaults
  BY FaultType DEF SubmissionLeaseExpires, TypeOK
<1> QED
  BY <1>2, <1>3 DEF TypeOK, SubmissionLeaseExpires, memory, Job, Sub

LEMMA HaltType ==
  ASSUME TypeOK, NEW p \in Processes, Halt(p), faults' \in 0..MaxFaults
  PROVE  TypeOK'
<1>1. 0 \in 0..Len(workflows)
  BY Shape
<1> QED
  BY <1>1 DEF TypeOK, Halt, tables, Job, Sub

LEMMA WorkerFailsType ==
  ASSUME TypeOK, NEW p \in Processes, NEW w \in Workers, WorkerFails(p, w)
  PROVE  TypeOK'
<1>1. faults' \in 0..MaxFaults
  BY FaultType DEF WorkerFails
<1>2. CASE Formation = "lite"
  BY <1>1, <1>2, HaltType DEF WorkerFails
<1>3. CASE Formation # "lite"
  BY <1>1, <1>3 DEF WorkerFails, TypeOK, tables, Job, Sub
<1> QED
  BY <1>2, <1>3

LEMMA RestartType ==
  ASSUME TypeOK, NEW p \in Processes, Restart(p)
  PROVE  TypeOK'
<1>1. index' \in [Processes -> 0..Len(workflows)]
  BY DEF Restart, TypeOK
<1> QED
  BY <1>1 DEF TypeOK, Restart, tables, Job, Sub

LEMMA NextType == TypeOK /\ [Next]_vars => TypeOK'
<1> SUFFICES ASSUME TypeOK, [Next]_vars PROVE TypeOK'
  OBVIOUS
<1>1. CASE UNCHANGED vars
  BY <1>1 DEF vars, tables, memory, TypeOK, Job, Sub
<1>2. CASE Register
  BY <1>2, <1>1, InsertedType, RequeuedType, RefreshedType DEF Register, RegisterNoOp
<1>3. ASSUME NEW p \in Processes, NEW job \in jobs[p], BuildStep(p, job) PROVE TypeOK'
  <2>1. CASE BuildSucceeds(p, job)
    BY <2>1, BuildEndsType DEF BuildSucceeds, TypeOK
  <2>2. CASE BuildFails(p, job)
    BY <2>2, BuildEndsType, FaultType DEF BuildFails
  <2> QED
    BY <1>3, <2>1, <2>2, SettleType, ApplyType DEF BuildStep
<1>4. ASSUME NEW p \in Processes, NEW sub \in outbox[p], SubmissionStep(p, sub)
      PROVE  TypeOK'
  BY <1>4, ForwardType, SubmittedType DEF SubmissionStep
<1>5. ASSUME NEW p \in Processes, Crash(p) PROVE TypeOK'
  BY <1>5, HaltType, FaultType DEF Crash
<1> QED
  BY <1>1, <1>2, <1>3, <1>4, <1>5, LeaseBuildsType, LeaseSubmissionsType, RestartType,
     WorkerFailsType, BuildExpiryType, SubmissionExpiryType DEF Next

(* The tables and the processes' memory keep their types. *)
THEOREM TypeCorrect == Spec => []TypeOK
<1>1. Init => TypeOK
  BY InitType
<1>2. TypeOK /\ [Next]_vars => TypeOK'
  BY NextType
<1> QED
  BY <1>1, <1>2, PTL DEF Spec

-----------------------------------------------------------------------------
(* What each action does to the statuses *)

IsLive(v) == workflows[v].status \in {"Ready", "Submitted"}

(* The action leaves every status alone. *)
StatusKept ==
  /\ Len(workflows') = Len(workflows)
  /\ \A v \in 1..Len(workflows) :
       /\ workflows'[v].status = workflows[v].status
       /\ \A t \in Tasks : builds'[v][t].status = builds[v][t].status

(* The action changes the status of one version. *)
StatusMoved(v, from, to) ==
  /\ Len(workflows') = Len(workflows)
  /\ v \in 1..Len(workflows) /\ workflows[v].status = from
  /\ \A u \in 1..Len(workflows) :
       workflows'[u].status = IF u = v THEN to ELSE workflows[u].status

LEMMA TablesUnchangedKept ==
  ASSUME UNCHANGED tables PROVE StatusKept
  BY DEF tables, StatusKept

LEMMA RefreshedKept ==
  ASSUME TypeOK, NEW c, NEW k, RegisterRefreshed(c, k) PROVE StatusKept
<1> DEFINE n == Len(workflows)
<1>1. n \in Nat /\ workflows \in [1..n -> Workflow]
  BY Shape
<1>2. workflows' = [workflows EXCEPT ![n] = [workflows[n] EXCEPT !.cosmetic = k]]
  BY <1>1 DEF RegisterRefreshed, Workflow
<1>3. n \in 1..n
  BY <1>1 DEF RegisterRefreshed, decide, TypeOK
<1>4. Len(workflows') = n
  BY <1>1, <1>2, <1>3, FunctionIsSequence DEF TypeOK
<1>5. [workflows[n] EXCEPT !.cosmetic = k].status = workflows[n].status
  BY <1>1, <1>3 DEF Workflow
<1> QED
  BY <1>1, <1>2, <1>4, <1>5 DEF StatusKept, RegisterRefreshed

LEMMA GrantedStatus ==
  ASSUME NEW p
  PROVE  /\ \A row \in Workflow : Granted(row, p).status = row.status
         /\ \A row \in TaskBuild : Granted(row, p).status = row.status
  BY DEF Granted, Workflow, TaskBuild

LEMMA LeaseBuildsKept ==
  ASSUME TypeOK, NEW p \in Processes, LeaseBuilds(p) PROVE StatusKept
  BY Shape, GrantedStatus DEF LeaseBuilds, StatusKept

LEMMA LeaseSubmissionsKept ==
  ASSUME TypeOK, TypeOK', NEW p \in Processes, LeaseSubmissions(p) PROVE StatusKept
<1> DEFINE n == Len(workflows)
<1>1. workflows' \in [1..n -> Workflow]
  BY Shape, GrantedType DEF LeaseSubmissions
<1>2. Len(workflows') = n
  BY <1>1, Shape, FunctionIsSequence
<1> QED
  BY <1>2, Shape, GrantedStatus DEF LeaseSubmissions, StatusKept

LEMMA BuildExpiryKept ==
  ASSUME TypeOK, NEW r \in Rows, BuildLeaseExpires(r) PROVE StatusKept
<1>1. r[1] \in 1..Len(workflows) /\ r[2] \in Tasks
  BY Shape DEF Rows
<1> QED
  BY <1>1, Shape DEF BuildLeaseExpires, StatusKept, TaskBuild

LEMMA SubmissionExpiryKept ==
  ASSUME TypeOK, NEW v \in Versions, SubmissionLeaseExpires(v) PROVE StatusKept
<1> DEFINE n == Len(workflows)
<1>1. workflows' \in [1..n -> Workflow]
  BY Shape DEF SubmissionLeaseExpires, Workflow, Lease
<1>2. Len(workflows') = n
  BY <1>1, Shape, FunctionIsSequence
<1> QED
  BY <1>2, Shape DEF SubmissionLeaseExpires, StatusKept, Workflow

LEMMA RequeuedMoves ==
  ASSUME TypeOK, NEW c, NEW k, RegisterRequeued(c, k)
  PROVE  /\ StatusMoved(Len(workflows), "BuildFailed", "Building")
         /\ builds' = [builds EXCEPT ![Len(workflows)] =
                         [t \in Tasks |-> Requeued(builds[Len(workflows)][t])]]
<1> DEFINE n == Len(workflows)
<1>1. n \in 1..n /\ workflows[n].status = "BuildFailed"
  BY Shape DEF RegisterRequeued, decide, TypeOK
<1>2. workflows' \in [1..n -> Workflow]
  BY <1>1, Shape DEF RegisterRequeued, Workflow, Statuses
<1>3. Len(workflows') = n
  BY <1>2, Shape, FunctionIsSequence
<1> QED
  BY <1>1, <1>3, Shape DEF RegisterRequeued, StatusMoved, Workflow

(* Changing the status of one row moves that version. *)
LEMMA StatusSet ==
  ASSUME TypeOK, NEW v \in 1..Len(workflows), NEW to \in Statuses,
         workflows' = [workflows EXCEPT ![v].status = to]
  PROVE  StatusMoved(v, workflows[v].status, to)
<1>1. workflows' \in [1..Len(workflows) -> Workflow]
  BY Shape DEF Workflow
<1>2. Len(workflows') = Len(workflows)
  BY <1>1, Shape, FunctionIsSequence
<1> QED
  BY <1>2, Shape DEF StatusMoved, Workflow

(* An accepted settlement is of a pending build of a Building version, and    *)
(* writes the status of that build alone.                                     *)
LEMMA RecordMoves ==
  ASSUME TypeOK, NEW p \in Processes, NEW job \in jobs[p], RecordResult(job),
         Settlement(p, job) # "refused"
  PROVE  /\ job.row[1] \in 1..Len(workflows) /\ job.row[2] \in Tasks
         /\ job.row = <<job.row[1], job.row[2]>>
         /\ workflows[job.row[1]].status = "Building"
         /\ builds[job.row[1]][job.row[2]].status = "pending"
         /\ \A v \in 1..Len(workflows) : \A t \in Tasks :
              builds'[v][t].status = IF v = job.row[1] /\ t = job.row[2]
                                     THEN job.at ELSE builds[v][t].status
<1>1. /\ job.row[1] \in 1..Len(workflows) /\ job.row[2] \in Tasks
      /\ job.row = <<job.row[1], job.row[2]>>
  BY DEF TypeOK, Job
<1>2. /\ workflows[job.row[1]].status = "Building"
      /\ builds[job.row[1]][job.row[2]].status = "pending"
  BY DEF Settlement, Build
<1>3. builds \in [1..Len(workflows) -> [Tasks -> TaskBuild]]
  BY Shape
<1>4. \A v \in 1..Len(workflows) : \A t \in Tasks :
              builds'[v][t].status = IF v = job.row[1] /\ t = job.row[2]
                                     THEN job.at ELSE builds[v][t].status
  <2> DEFINE x == job.row[1]
             y == job.row[2]
             new == [builds[x][y] EXCEPT !.status = job.at, !.lease = NoLease]
  <2>1. builds[x][y] \in TaskBuild
    BY <1>1, <1>3
  <2>2. builds' = [builds EXCEPT ![x][y] = new]
    BY <1>1, <1>3, <2>1 DEF RecordResult, TaskBuild
  <2>3. new.status = job.at
    BY <2>1 DEF TaskBuild
  <2> HIDE DEF x, y, new
  <2>4. \A v \in 1..Len(workflows) : \A t \in Tasks :
          builds'[v][t] = IF v = x /\ t = y THEN new ELSE builds[v][t]
    BY <1>1, <1>3, <2>2 DEF x, y
  <2> QED
    BY <2>3, <2>4 DEF x, y
<1> QED
  BY <1>1, <1>2, <1>4

(* What each accepted outcome means. *)
LEMMA SettlementMeaning ==
  ASSUME TypeOK, NEW p \in Processes, NEW job \in jobs[p],
         job.at \in {"success", "failure"}
  PROVE  /\ Settlement(p, job) = "BuildFailed" => job.at = "failure"
         /\ Settlement(p, job) = "Ready" =>
              /\ job.at = "success"
              /\ \A t \in Tasks : <<job.row[1], t>> = job.row
                                  \/ builds[job.row[1]][t].status = "success"
         /\ Settlement(p, job) = "AwaitingTasks" =>
              /\ job.at = "success"
              /\ \E t \in Tasks : <<job.row[1], t>> # job.row
                                  /\ builds[job.row[1]][t].status # "success"
  BY DEF Settlement

LEMMA SubmittedMoves ==
  ASSUME TypeOK, NEW p \in Processes, NEW sub \in outbox[p], SettleSubmission(p, sub)
  PROVE  /\ UNCHANGED builds
         /\ \/ StatusMoved(sub.version, "Ready", "Submitted")
            \/ StatusKept
<1> DEFINE n == Len(workflows)
           v == sub.version
<1>1. v \in 1..n /\ workflows \in [1..n -> Workflow] /\ workflows[v] \in Workflow
  BY Shape DEF TypeOK, Sub
<1>2. CASE ~SubmissionAccepted(p, sub)
  BY <1>2 DEF SettleSubmission, StatusKept
<1>3. CASE SubmissionAccepted(p, sub)
  <2> DEFINE new == [workflows[v] EXCEPT !.status = "Submitted", !.lease = NoLease]
  <2>1. workflows' = [workflows EXCEPT ![v] = new]
    BY <1>1, <1>3 DEF SettleSubmission, Workflow
  <2>2. new \in Workflow /\ new.status = "Submitted"
    BY <1>1, NoLeaseType DEF Workflow, Statuses
  <2>3. workflows' \in [1..n -> Workflow]
    BY <1>1, <2>1, <2>2
  <2>4. Len(workflows') = n
    BY <2>3, Shape, FunctionIsSequence
  <2>5. workflows[v].status = "Ready"
    BY <1>3 DEF SubmissionAccepted
  <2> HIDE DEF new
  <2>6. StatusMoved(v, "Ready", "Submitted")
    BY <1>1, <2>1, <2>2, <2>4, <2>5 DEF StatusMoved
  <2> QED
    BY <2>6 DEF SettleSubmission
<1> QED
  BY <1>2, <1>3

-----------------------------------------------------------------------------
(* The parent's status is the aggregate of its builds *)

LEMMA KeptParent ==
  ASSUME TypeOK, TypeOK', ParentMatchesTasks, StatusKept
  PROVE  ParentMatchesTasks'
<1>1. Versions = 1..Len(workflows) /\ Versions' = 1..Len(workflows')
  BY Shape DEF TypeOK, Versions
<1> QED
  BY <1>1 DEF ParentMatchesTasks, StatusKept

Aggregates(v) ==
  /\ workflows[v].status = "Building" =>
       /\ \E t \in Tasks : builds[v][t].status = "pending"
       /\ \A t \in Tasks : builds[v][t].status # "failure"
  /\ workflows[v].status = "BuildFailed" =>
       \E t \in Tasks : builds[v][t].status = "failure"
  /\ workflows[v].status \in {"Ready", "Submitted"} =>
       \A t \in Tasks : builds[v][t].status = "success"

(* A step that concerns one version has to be checked for that one only. *)
LEMMA OneVersionParent ==
  ASSUME TypeOK, TypeOK', ParentMatchesTasks, NEW x, Len(workflows') = Len(workflows),
         \A v \in 1..Len(workflows) : v # x =>
            /\ workflows'[v].status = workflows[v].status
            /\ \A t \in Tasks : builds'[v][t].status = builds[v][t].status,
         Aggregates(x)'
  PROVE  ParentMatchesTasks'
<1> DEFINE n == Len(workflows)
<1>1. Versions = 1..n /\ Versions' = 1..n
  BY Shape DEF TypeOK, Versions
<1>2. ASSUME NEW v \in 1..n, v # x PROVE Aggregates(v)'
  <2>1. Aggregates(v)
    BY <1>1 DEF ParentMatchesTasks, Aggregates
  <2> QED
    BY <1>2, <2>1 DEF Aggregates
<1>3. \A v \in Versions' : Aggregates(v)'
  BY <1>1, <1>2
<1> QED
  BY <1>3 DEF ParentMatchesTasks, Aggregates

LEMMA InsertedParent ==
  ASSUME TypeOK, TypeOK', ParentMatchesTasks, NEW c, NEW k, RegisterInserted(c, k)
  PROVE  ParentMatchesTasks'
<1> DEFINE n == Len(workflows)
<1>1. n \in Nat /\ Versions = 1..n
  BY Shape
<1>2. Versions' = 1..(n + 1)
  BY DEF TypeOK, Versions, RegisterInserted
<1>3. 1 \in Tasks
  BY SizeAssumption DEF Tasks
<1>4. \A v \in 1..n : workflows'[v] = workflows[v] /\ builds'[v] = builds[v]
  BY <1>1 DEF TypeOK, RegisterInserted
<1>5. /\ workflows'[n + 1].status = "Building"
      /\ \A t \in Tasks : builds'[n + 1][t].status = "pending"
  BY <1>1 DEF TypeOK, RegisterInserted, PendingBuild
<1>6. \A v \in Versions' : v \in 1..n \/ v = n + 1
  BY <1>1, <1>2
<1> QED
  BY <1>1, <1>3, <1>4, <1>5, <1>6 DEF ParentMatchesTasks

LEMMA RequeuedParent ==
  ASSUME TypeOK, TypeOK', ParentMatchesTasks, NEW c, NEW k, RegisterRequeued(c, k)
  PROVE  ParentMatchesTasks'
<1> DEFINE n == Len(workflows)
<1>1. Versions = 1..n /\ Versions' = 1..Len(workflows')
  BY Shape DEF TypeOK, Versions
<1>2. /\ StatusMoved(n, "BuildFailed", "Building")
      /\ builds' = [builds EXCEPT ![n] = [t \in Tasks |-> Requeued(builds[n][t])]]
  BY RequeuedMoves
<1>3. n \in Versions /\ Versions' = Versions
  BY <1>1, <1>2 DEF StatusMoved
<1>4. PICK f \in Tasks : builds[n][f].status = "failure"
  BY <1>2, <1>3 DEF ParentMatchesTasks, StatusMoved
<1>5. \A t \in Tasks : builds'[n][t] = Requeued(builds[n][t]) /\ builds[n][t] \in TaskBuild
  BY <1>1, <1>2, <1>3, Shape
<1>6. \A t \in Tasks : builds'[n][t].status # "failure"
  BY <1>5 DEF Requeued, TaskBuild
<1>7. builds'[n][f].status = "pending"
  BY <1>4, <1>5 DEF Requeued, TaskBuild
<1>8. \A v \in Versions : v # n => builds'[v] = builds[v] /\ workflows'[v].status = workflows[v].status
  BY <1>1, <1>2, Shape DEF StatusMoved
<1>9. workflows'[n].status = "Building"
  BY <1>2 DEF StatusMoved
<1>10. PICK m \in Nat : m = n
  BY Shape
<1>11. Aggregates(m)'
  BY <1>6, <1>7, <1>9, <1>10 DEF Aggregates
<1>12. \A v \in 1..n : v # m => /\ workflows'[v].status = workflows[v].status
                              /\ \A t \in Tasks : builds'[v][t].status = builds[v][t].status
  BY <1>1, <1>8, <1>10
<1>13. Len(workflows') = n
  BY <1>2 DEF StatusMoved
<1> QED
  BY <1>11, <1>12, <1>13, OneVersionParent

LEMMA SettleParent ==
  ASSUME TypeOK, TypeOK', ParentMatchesTasks,
         NEW p \in Processes, NEW job \in jobs[p], SettleBuild(p, job)
  PROVE  ParentMatchesTasks'
<1> DEFINE n == Len(workflows)
           x == job.row[1]
           y == job.row[2]
<1>1. Versions = 1..n /\ Versions' = 1..Len(workflows')
  BY Shape DEF TypeOK, Versions
<1>2. CASE SettleRefused(p, job)
  BY <1>2, TablesUnchangedKept, KeptParent DEF SettleRefused
<1>3. CASE ~SettleRefused(p, job)
  <2>1. /\ RecordResult(job) /\ job.at \in {"success", "failure"}
        /\ Settlement(p, job) # "refused"
    BY <1>3 DEF SettleBuild, SettleAwaiting, SettleFailed, SettleReady
  <2>2. /\ x \in 1..n /\ y \in Tasks /\ job.row = <<x, y>>
        /\ workflows[x].status = "Building" /\ builds[x][y].status = "pending"
        /\ \A v \in 1..n : \A t \in Tasks :
             builds'[v][t].status = IF v = x /\ t = y THEN job.at ELSE builds[v][t].status
    BY <2>1, RecordMoves
  <2> HIDE DEF x, y
  <2>3. \A t \in Tasks : builds[x][t].status \in {"pending", "success"}
    BY <2>2, <1>1, Shape DEF ParentMatchesTasks, TaskBuild
  <2>7. \A v \in 1..n : v # x =>
          \A t \in Tasks : builds'[v][t].status = builds[v][t].status
    BY <2>2
  <2>8. builds'[x][y].status = job.at
    BY <2>2
  <2>9. \A t \in Tasks : t # y => builds'[x][t].status = builds[x][t].status
    BY <2>2
  <2>4. CASE SettleAwaiting(p, job)
    <3>1. job.at = "success" /\ UNCHANGED workflows
      BY <2>4, <2>1, SettlementMeaning DEF SettleAwaiting
    <3>2. PICK t \in Tasks : t # y /\ builds[x][t].status # "success"
      BY <2>4, <2>1, <2>2, SettlementMeaning DEF SettleAwaiting, x
    <3>3. builds'[x][t].status = "pending"
      BY <2>3, <2>9, <3>2
    <3>4. \A u \in Tasks : builds'[x][u].status # "failure"
      BY <2>3, <2>8, <2>9, <3>1
    <3>5. workflows'[x].status = "Building"
      BY <2>2, <3>1
    <3>6. Aggregates(x)'
      BY <3>3, <3>4, <3>5 DEF Aggregates
    <3> QED
      BY <2>7, <3>1, <3>6, OneVersionParent
  <2>5. CASE SettleFailed(p, job)
    <3>1. job.at = "failure"
      BY <2>5, <2>1, SettlementMeaning DEF SettleFailed
    <3>2. StatusMoved(x, "Building", "BuildFailed")
      BY <2>2, <2>5, StatusSet DEF SettleFailed, Statuses, x
    <3>3. Aggregates(x)'
      BY <2>2, <2>8, <3>1, <3>2 DEF Aggregates, StatusMoved
    <3> QED
      BY <2>7, <3>2, <3>3, OneVersionParent DEF StatusMoved
  <2>6. CASE SettleReady(p, job)
    <3>1. job.at = "success"
      BY <2>6, <2>1, SettlementMeaning DEF SettleReady
    <3>2. \A t \in Tasks : t # y => builds[x][t].status = "success"
      BY <2>6, <2>1, <2>2, SettlementMeaning DEF SettleReady, x
    <3>3. StatusMoved(x, "Building", "Ready")
      BY <2>2, <2>6, StatusSet DEF SettleReady, Statuses, x
    <3>4. \A t \in Tasks : builds'[x][t].status = "success"
      BY <2>8, <2>9, <3>1, <3>2
    <3>5. Aggregates(x)'
      BY <3>3, <3>4 DEF Aggregates, StatusMoved
    <3> QED
      BY <2>7, <3>3, <3>5, OneVersionParent DEF StatusMoved
  <2> QED
    BY <1>3, <2>4, <2>5, <2>6 DEF SettleBuild
<1> QED
  BY <1>2, <1>3

LEMMA SubmittedParent ==
  ASSUME TypeOK, TypeOK', ParentMatchesTasks,
         NEW p \in Processes, NEW sub \in outbox[p], SettleSubmission(p, sub)
  PROVE  ParentMatchesTasks'
<1>1. Versions = 1..Len(workflows) /\ Versions' = 1..Len(workflows')
  BY Shape DEF TypeOK, Versions
<1>2. CASE StatusKept
  BY <1>2, KeptParent
<1>3. CASE StatusMoved(sub.version, "Ready", "Submitted")
  <2>1. UNCHANGED builds
    BY SubmittedMoves
  <2>2. Aggregates(sub.version) /\ sub.version \in 1..Len(workflows)
    BY <1>1, <1>3 DEF ParentMatchesTasks, Aggregates, StatusMoved
  <2>3. Aggregates(sub.version)'
    BY <1>3, <2>1, <2>2 DEF Aggregates, StatusMoved
  <2> QED
    BY <1>3, <2>1, <2>3, OneVersionParent DEF StatusMoved
<1> QED
  BY <1>2, <1>3, SubmittedMoves

(* The steps that change a status. *)
LEMMA StatusSteps ==
  ASSUME TypeOK, TypeOK', [Next]_vars
  PROVE  \/ StatusKept
         \/ \E c \in Contents, k \in Cosmetics :
              RegisterInserted(c, k) \/ RegisterRequeued(c, k)
         \/ \E p \in Processes : \E job \in jobs[p] : SettleBuild(p, job)
         \/ \E p \in Processes : \E sub \in outbox[p] : SettleSubmission(p, sub)
<1>1. CASE UNCHANGED tables
  BY <1>1, TablesUnchangedKept
<1>2. UNCHANGED vars => UNCHANGED tables
  BY DEF vars
<1>3. ASSUME NEW p \in Processes, NEW job \in jobs[p], BuildStep(p, job)
      PROVE  SettleBuild(p, job) \/ UNCHANGED tables
  BY <1>3 DEF BuildStep, BuildSucceeds, BuildFails, BuildEnds, apply_workflow_state
<1>4. ASSUME NEW p \in Processes, NEW sub \in outbox[p], SubmissionStep(p, sub)
      PROVE  SettleSubmission(p, sub) \/ UNCHANGED tables
  BY <1>4 DEF SubmissionStep, Forward, ForwardFails
<1>5. ASSUME NEW p \in Processes,
             Crash(p) \/ Restart(p) \/ \E w \in Workers : WorkerFails(p, w)
      PROVE  UNCHANGED tables
  BY <1>5 DEF Crash, Restart, WorkerFails, Halt
<1>6. CASE Register
  BY <1>1, <1>2, <1>6, RefreshedKept DEF Register, RegisterNoOp
<1> QED
  BY <1>1, <1>2, <1>3, <1>4, <1>5, <1>6, LeaseBuildsKept, LeaseSubmissionsKept,
     BuildExpiryKept, SubmissionExpiryKept DEF Next

LEMMA NextParent ==
  ASSUME TypeOK, TypeOK', ParentMatchesTasks, [Next]_vars
  PROVE  ParentMatchesTasks'
  BY StatusSteps, KeptParent, InsertedParent, RequeuedParent, SettleParent, SubmittedParent

LEMMA InitParent == Init => ParentMatchesTasks
  BY DEF Init, ParentMatchesTasks, Versions

(* In every reachable state, whatever crashed, expired or was requeued, a     *)
(* definition's status is the aggregate of its builds.                        *)
THEOREM ParentCorrect == Spec => []ParentMatchesTasks
<1>1. Init => ParentMatchesTasks
  BY InitParent
<1>2. TypeOK /\ TypeOK' /\ ParentMatchesTasks /\ [Next]_vars => ParentMatchesTasks'
  BY NextParent
<1> QED
  BY <1>1, <1>2, TypeCorrect, PTL DEF Spec

-----------------------------------------------------------------------------
(* What workers and indexes know stays true *)

(* A settlement moves its own version out of Building, or none. *)
LEMMA SettleMoves ==
  ASSUME TypeOK, NEW p \in Processes, NEW job \in jobs[p], SettleBuild(p, job)
  PROVE  \/ workflows' = workflows
         \/ StatusMoved(job.row[1], "Building", "BuildFailed")
         \/ StatusMoved(job.row[1], "Building", "Ready")
<1>1. CASE SettleFailed(p, job)
  BY <1>1, RecordMoves, StatusSet DEF SettleFailed, Statuses
<1>2. CASE SettleReady(p, job)
  BY <1>2, RecordMoves, StatusSet DEF SettleReady, Statuses
<1> QED
  BY <1>1, <1>2 DEF SettleBuild, SettleRefused, SettleAwaiting, tables

(* A built version stays built. *)
LEMMA LiveStays ==
  ASSUME TypeOK, TypeOK', [Next]_vars, NEW v \in 1..Len(workflows), IsLive(v)
  PROVE  v \in 1..Len(workflows') /\ workflows'[v].status \in {"Ready", "Submitted"}
<1>1. CASE StatusKept
  BY <1>1 DEF StatusKept, IsLive
<1>2. ASSUME NEW u, NEW from, NEW to, StatusMoved(u, from, to),
             from \notin {"Ready", "Submitted"} \/ to \in {"Ready", "Submitted"}
      PROVE  v \in 1..Len(workflows') /\ workflows'[v].status \in {"Ready", "Submitted"}
  BY <1>2 DEF StatusMoved, IsLive
<1>3. ASSUME NEW c \in Contents, NEW k \in Cosmetics, RegisterInserted(c, k)
      PROVE  v \in 1..Len(workflows') /\ workflows'[v].status \in {"Ready", "Submitted"}
  BY <1>3, Shape DEF RegisterInserted, IsLive, TypeOK
<1>4. ASSUME NEW c \in Contents, NEW k \in Cosmetics, RegisterRequeued(c, k)
      PROVE  StatusMoved(Len(workflows), "BuildFailed", "Building")
  BY <1>4, RequeuedMoves
<1>6. ASSUME NEW p \in Processes, NEW job \in jobs[p], SettleBuild(p, job)
      PROVE  v \in 1..Len(workflows') /\ workflows'[v].status \in {"Ready", "Submitted"}
  BY <1>2, <1>6, SettleMoves DEF IsLive
<1>7. ASSUME NEW p \in Processes, NEW sub \in outbox[p], SettleSubmission(p, sub)
      PROVE  v \in 1..Len(workflows') /\ workflows'[v].status \in {"Ready", "Submitted"}
  BY <1>1, <1>2, <1>7, SubmittedMoves
<1> QED
  BY <1>1, <1>2, <1>3, <1>4, <1>6, <1>7, StatusSteps

(* How a step may change what a worker holds. *)
LEMMA OutboxSteps ==
  ASSUME TypeOK, TypeOK', [Next]_vars, NEW p \in Processes, NEW sub \in outbox'[p]
  PROVE  \/ sub \in outbox[p]
         \/ sub.at = "leased" /\ sub.version \in 1..Len(workflows) /\ IsLive(sub.version)
         \/ sub.version \in relayed' /\ \E old \in outbox[p] : old.version = sub.version
<1>1. CASE UNCHANGED outbox
  BY <1>1
<1>2. ASSUME NEW q \in Processes, LeaseSubmissions(q)
      PROVE  \/ sub \in outbox[p]
             \/ sub.at = "leased" /\ sub.version \in 1..Len(workflows) /\ IsLive(sub.version)
  <2>1. PICK batch \in Batch({v \in Versions : SubmissionEligible(v)}, VersionOrder) :
          outbox' = [outbox EXCEPT ![q] =
             {[version |-> v, token |-> workflows[v].issued + 1,
               at |-> "leased", fresh |-> TRUE] : v \in batch}]
    BY <1>2 DEF LeaseSubmissions
  <2>2. \A v \in batch : v \in 1..Len(workflows) /\ workflows[v].status = "Ready"
    BY BatchEligible, Shape DEF SubmissionEligible
  <2>3. CASE p # q
    BY <2>1, <2>3 DEF TypeOK
  <2>4. CASE p = q
    <3>1. PICK v \in batch : sub = [version |-> v, token |-> workflows[v].issued + 1,
                                    at |-> "leased", fresh |-> TRUE]
      BY <2>1, <2>4 DEF TypeOK
    <3> QED
      BY <2>2, <3>1 DEF IsLive
  <2> QED
    BY <2>3, <2>4
<1>3. ASSUME NEW q \in Processes, NEW s \in outbox[q], SubmissionStep(q, s)
      PROVE  \/ sub \in outbox[p]
             \/ sub.version \in relayed' /\ \E old \in outbox[p] : old.version = sub.version
  <2>1. CASE Forward(q, s)
    <3> DEFINE new == [s EXCEPT !.at = "forwarded",
                                !.fresh = Unexpired(workflows[s.version], s.token)]
    <3>1. s \in Sub
      BY DEF TypeOK
    <3>2. new.version = s.version /\ s.version \in relayed'
      BY <2>1, <3>1 DEF Forward, Sub
    <3> HIDE DEF new
    <3>3. outbox' = [outbox EXCEPT ![q] = (@ \ {s}) \cup {new}]
      BY <2>1 DEF Forward, new
    <3>4. sub \in outbox[p] \/ (p = q /\ sub = new)
      BY <3>3 DEF TypeOK
    <3> QED
      BY <3>2, <3>4
  <2>2. CASE ForwardFails(q, s) \/ SettleSubmission(q, s)
    BY <2>2 DEF ForwardFails, SettleSubmission, Done, TypeOK
  <2> QED
    BY <1>3, <2>1, <2>2 DEF SubmissionStep
<1>4. ASSUME NEW q \in Processes, Crash(q) \/ \E w \in Workers : WorkerFails(q, w)
      PROVE  sub \in outbox[p]
  BY <1>4 DEF Crash, WorkerFails, Halt, TypeOK
<1>5. ASSUME NEW q \in Processes, NEW job \in jobs[q], BuildStep(q, job)
      PROVE  UNCHANGED outbox
  BY <1>5 DEF BuildStep, BuildSucceeds, BuildFails, BuildEnds, apply_workflow_state,
              SettleBuild, SettleRefused, SettleAwaiting, SettleFailed, SettleReady
<1>6. Register => UNCHANGED outbox
  BY DEF Register, RegisterInserted, RegisterRequeued, RegisterRefreshed, RegisterNoOp,
         vars, memory
<1>7. ASSUME NEW q \in Processes, LeaseBuilds(q) \/ Restart(q) PROVE UNCHANGED outbox
  BY <1>7 DEF LeaseBuilds, Restart
<1>8. /\ \A r \in Rows : BuildLeaseExpires(r) => UNCHANGED outbox
      /\ \A v \in Versions : SubmissionLeaseExpires(v) => UNCHANGED outbox
  BY DEF BuildLeaseExpires, SubmissionLeaseExpires, memory
<1>9. UNCHANGED vars => UNCHANGED outbox
  BY DEF vars, memory
<1> QED
  BY <1>1, <1>2, <1>3, <1>4, <1>5, <1>6, <1>7, <1>8, <1>9 DEF Next

LEMMA JobSteps ==
  ASSUME TypeOK, TypeOK', [Next]_vars, NEW p \in Processes, NEW job \in jobs'[p],
         job.at = "ready"
  PROVE  \/ job \in jobs[p]
         \/ workflows'[job.row[1]].status = "Ready"
<1>1. CASE UNCHANGED jobs
  BY <1>1
<1>2. ASSUME NEW q \in Processes, LeaseBuilds(q) PROVE job \in jobs[p]
  <2>1. PICK batch \in Batch({r \in Rows : BuildEligible(r)}, BuildOrder) :
          jobs' = [jobs EXCEPT ![q] =
             {[row |-> r, token |-> Build(r).issued + 1,
               at |-> "building", fresh |-> TRUE] : r \in batch}]
    BY <1>2 DEF LeaseBuilds
  <2>2. \A new \in {[row |-> r, token |-> Build(r).issued + 1,
                     at |-> "building", fresh |-> TRUE] : r \in batch} : new.at = "building"
    OBVIOUS
  <2> QED
    BY <2>1, <2>2 DEF TypeOK
<1>3. ASSUME NEW q \in Processes, NEW j \in jobs[q], BuildStep(q, j)
      PROVE  job \in jobs[p] \/ workflows'[job.row[1]].status = "Ready"
  <2>0. j \in Job
    BY DEF TypeOK
  <2>1. ASSUME NEW result, BuildEnds(q, j, result), result \in {"success", "failure"}
        PROVE  job \in jobs[p]
    <3> DEFINE new == [j EXCEPT !.at = result,
                                !.fresh = Unexpired(Build(j.row), j.token)]
    <3>1. new.at = result
      BY <2>0 DEF Job
    <3> HIDE DEF new
    <3>2. jobs' = [jobs EXCEPT ![q] = (@ \ {j}) \cup {new}]
      BY <2>1 DEF BuildEnds, Replace, new
    <3> QED
      BY <2>1, <3>1, <3>2 DEF TypeOK
  <2>2. CASE SettleReady(q, j)
    <3> DEFINE new == [j EXCEPT !.at = "ready"]
    <3>1. new.row = j.row
      BY <2>0 DEF Job
    <3> HIDE DEF new
    <3>2. jobs' = [jobs EXCEPT ![q] = (@ \ {j}) \cup {new}]
      BY <2>2 DEF SettleReady, Replace, new
    <3>3. workflows'[j.row[1]].status = "Ready"
      BY <2>2, RecordMoves, StatusSet DEF SettleReady, Statuses, StatusMoved
    <3>4. job \in jobs[p] \/ job = new
      BY <3>2 DEF TypeOK
    <3> QED
      BY <3>1, <3>3, <3>4
  <2>3. CASE \/ SettleRefused(q, j) \/ SettleAwaiting(q, j) \/ SettleFailed(q, j)
             \/ apply_workflow_state(q, j)
    BY <2>3 DEF SettleRefused, SettleAwaiting, SettleFailed, apply_workflow_state,
                Drop, TypeOK
  <2> QED
    BY <1>3, <2>1, <2>2, <2>3 DEF BuildStep, BuildSucceeds, BuildFails, SettleBuild
<1>4. ASSUME NEW q \in Processes, Crash(q) \/ \E w \in Workers : WorkerFails(q, w)
      PROVE  job \in jobs[p]
  BY <1>4 DEF Crash, WorkerFails, Halt, TypeOK
<1>5. ASSUME NEW q \in Processes, NEW sub \in outbox[q], SubmissionStep(q, sub)
      PROVE  UNCHANGED jobs
  BY <1>5 DEF SubmissionStep, Forward, ForwardFails, SettleSubmission
<1>6. Register => UNCHANGED jobs
  BY DEF Register, RegisterInserted, RegisterRequeued, RegisterRefreshed, RegisterNoOp,
         vars, memory
<1>7. ASSUME NEW q \in Processes, LeaseSubmissions(q) \/ Restart(q) PROVE UNCHANGED jobs
  BY <1>7 DEF LeaseSubmissions, Restart
<1>8. /\ \A r \in Rows : BuildLeaseExpires(r) => UNCHANGED jobs
      /\ \A v \in Versions : SubmissionLeaseExpires(v) => UNCHANGED jobs
  BY DEF BuildLeaseExpires, SubmissionLeaseExpires, memory
<1>9. UNCHANGED vars => UNCHANGED jobs
  BY DEF vars, memory
<1> QED
  BY <1>1, <1>2, <1>3, <1>4, <1>5, <1>6, <1>7, <1>8, <1>9 DEF Next

LEMMA IndexSteps ==
  ASSUME TypeOK, TypeOK', [Next]_vars, NEW p \in Processes
  PROVE  \/ index'[p] \in {index[p], 0}
         \/ \E job \in jobs[p] : job.at = "ready" /\ index'[p] = job.row[1]
         \/ index'[p] \in 1..Len(workflows) /\ IsLive(index'[p])
<1>1. CASE UNCHANGED index
  BY <1>1
<1>2. ASSUME NEW q \in Processes, NEW j \in jobs[q], BuildStep(q, j)
      PROVE  \/ index'[p] = index[p]
             \/ \E job \in jobs[p] : job.at = "ready" /\ index'[p] = job.row[1]
  <2>1. CASE apply_workflow_state(q, j)
    BY <2>1 DEF apply_workflow_state, TypeOK
  <2>2. CASE ~apply_workflow_state(q, j)
    BY <1>2, <2>2 DEF BuildStep, BuildSucceeds, BuildFails, BuildEnds,
              SettleBuild, SettleRefused, SettleAwaiting, SettleFailed, SettleReady
  <2> QED
    BY <2>1, <2>2
<1>3. ASSUME NEW q \in Processes, Crash(q) \/ \E w \in Workers : WorkerFails(q, w)
      PROVE  index'[p] \in {index[p], 0}
  BY <1>3 DEF Crash, WorkerFails, Halt, TypeOK
<1>4. ASSUME NEW q \in Processes, Restart(q)
      PROVE  \/ index'[p] \in {index[p], 0}
             \/ index'[p] \in 1..Len(workflows) /\ IsLive(index'[p])
  BY <1>4, Shape DEF Restart, LatestLive, LiveVersions, IsLive, TypeOK
<1>5. ASSUME NEW q \in Processes, NEW sub \in outbox[q], SubmissionStep(q, sub)
      PROVE  UNCHANGED index
  BY <1>5 DEF SubmissionStep, Forward, ForwardFails, SettleSubmission
<1>6. Register => UNCHANGED index
  BY DEF Register, RegisterInserted, RegisterRequeued, RegisterRefreshed, RegisterNoOp,
         vars, memory
<1>7. ASSUME NEW q \in Processes, LeaseSubmissions(q) \/ LeaseBuilds(q)
      PROVE  UNCHANGED index
  BY <1>7 DEF LeaseSubmissions, LeaseBuilds
<1>8. /\ \A r \in Rows : BuildLeaseExpires(r) => UNCHANGED index
      /\ \A v \in Versions : SubmissionLeaseExpires(v) => UNCHANGED index
  BY DEF BuildLeaseExpires, SubmissionLeaseExpires, memory
<1>9. UNCHANGED vars => UNCHANGED index
  BY DEF vars, memory
<1> QED
  BY <1>1, <1>2, <1>3, <1>4, <1>5, <1>6, <1>7, <1>8, <1>9 DEF Next

(* Nothing is taken back from the relay. *)
LEMMA RelayedSteps ==
  ASSUME TypeOK, [Next]_vars
  PROVE  \/ UNCHANGED relayed
         \/ \E p \in Processes : \E sub \in outbox[p] :
              Forward(p, sub) /\ relayed' = relayed \cup {sub.version}
<1>1. ASSUME NEW q \in Processes, NEW j \in jobs[q], BuildStep(q, j) PROVE UNCHANGED relayed
  BY <1>1 DEF BuildStep, BuildSucceeds, BuildFails, BuildEnds, apply_workflow_state,
              SettleBuild, SettleRefused, SettleAwaiting, SettleFailed, SettleReady
<1>2. ASSUME NEW q \in Processes, NEW sub \in outbox[q], SubmissionStep(q, sub)
      PROVE  UNCHANGED relayed \/ (Forward(q, sub) /\ relayed' = relayed \cup {sub.version})
  BY <1>2 DEF SubmissionStep, Forward, ForwardFails, SettleSubmission
<1>3. Register => UNCHANGED relayed
  BY DEF Register, RegisterInserted, RegisterRequeued, RegisterRefreshed, RegisterNoOp, vars
<1>4. ASSUME NEW q \in Processes,
             \/ LeaseSubmissions(q) \/ LeaseBuilds(q) \/ Crash(q) \/ Restart(q)
             \/ \E w \in Workers : WorkerFails(q, w)
      PROVE  UNCHANGED relayed
  BY <1>4 DEF LeaseSubmissions, LeaseBuilds, Crash, Restart, WorkerFails, Halt
<1>5. /\ \A r \in Rows : BuildLeaseExpires(r) => UNCHANGED relayed
      /\ \A v \in Versions : SubmissionLeaseExpires(v) => UNCHANGED relayed
  BY DEF BuildLeaseExpires, SubmissionLeaseExpires
<1>6. UNCHANGED vars => UNCHANGED relayed
  BY DEF vars
<1> QED
  BY <1>1, <1>2, <1>3, <1>4, <1>5, <1>6 DEF Next

LEMMA NextKnow ==
  ASSUME TypeOK, TypeOK', WorkersKnow, [Next]_vars
  PROVE  WorkersKnow'
<1>1. ASSUME NEW p \in Processes, NEW sub \in outbox'[p]
      PROVE  /\ workflows'[sub.version].status \in {"Ready", "Submitted"}
             /\ sub.at = "forwarded" => sub.version \in relayed'
  <2>1. relayed \subseteq relayed'
    BY RelayedSteps
  <2>2. \A old \in outbox[p] : old.version \in 1..Len(workflows) /\ IsLive(old.version)
    BY DEF WorkersKnow, IsLive, TypeOK, Sub
  <2>3. sub.version \in 1..Len(workflows) /\ IsLive(sub.version)
    BY <1>1, <2>2, OutboxSteps
  <2>4. sub.at = "forwarded" => sub.version \in relayed'
    BY <1>1, <2>1, OutboxSteps DEF WorkersKnow
  <2> QED
    BY <2>3, <2>4, LiveStays
<1>2. ASSUME NEW p \in Processes, NEW job \in jobs'[p], job.at = "ready"
      PROVE  workflows'[job.row[1]].status \in {"Ready", "Submitted"}
  <2>1. CASE job \in jobs[p]
    <3>1. job.row[1] \in 1..Len(workflows) /\ IsLive(job.row[1])
      BY <1>2, <2>1 DEF WorkersKnow, IsLive, TypeOK, Job
    <3> QED
      BY <3>1, LiveStays
  <2>2. CASE job \notin jobs[p]
    BY <1>2, <2>2, JobSteps
  <2> QED
    BY <2>1, <2>2
<1> QED
  BY <1>1, <1>2 DEF WorkersKnow

LEMMA InitKnow == Init => WorkersKnow /\ IndexOnlyLive
  BY DEF Init, WorkersKnow, IndexOnlyLive

LEMMA NextIndex ==
  ASSUME TypeOK, TypeOK', WorkersKnow, IndexOnlyLive, [Next]_vars
  PROVE  IndexOnlyLive'
<1> SUFFICES ASSUME NEW p \in Processes, index'[p] # 0
             PROVE  workflows'[index'[p]].status \in {"Ready", "Submitted"}
  BY DEF IndexOnlyLive
<1>1. CASE index'[p] = index[p]
  <2>1. index[p] \in 1..Len(workflows) /\ IsLive(index[p])
    BY <1>1, Shape DEF IndexOnlyLive, IsLive, TypeOK
  <2> QED
    BY <1>1, <2>1, LiveStays
<1>2. ASSUME NEW job \in jobs[p], job.at = "ready", index'[p] = job.row[1]
      PROVE  workflows'[index'[p]].status \in {"Ready", "Submitted"}
  <2>1. job.row[1] \in 1..Len(workflows) /\ IsLive(job.row[1])
    BY <1>2 DEF WorkersKnow, IsLive, TypeOK, Job
  <2> QED
    BY <1>2, <2>1, LiveStays
<1>3. CASE index'[p] \in 1..Len(workflows) /\ IsLive(index'[p])
  BY <1>3, LiveStays
<1> QED
  BY <1>1, <1>2, <1>3, IndexSteps

(* A worker's knowledge outlives its lease: whatever expired or was reclaimed *)
(* meanwhile, a submission in hand is of a built version.                     *)
THEOREM WorkersKnowAlways == Spec => []WorkersKnow
<1>1. Init => WorkersKnow
  BY InitKnow
<1>2. TypeOK /\ TypeOK' /\ WorkersKnow /\ [Next]_vars => WorkersKnow'
  BY NextKnow
<1> QED
  BY <1>1, <1>2, TypeCorrect, PTL DEF Spec

(* No wakeup is matched against a version that is not built. *)
THEOREM IndexCorrect == Spec => []IndexOnlyLive
<1>1. Init => IndexOnlyLive
  BY InitKnow
<1>2. TypeOK /\ TypeOK' /\ WorkersKnow /\ IndexOnlyLive /\ [Next]_vars => IndexOnlyLive'
  BY NextIndex
<1> QED
  BY <1>1, <1>2, TypeCorrect, WorkersKnowAlways, PTL DEF Spec

-----------------------------------------------------------------------------
(* The refinement *)

(* Append as a function. *)
LEMMA AppendIs ==
  ASSUME NEW S, NEW s \in Seq(S), NEW e \in S
  PROVE  Append(s, e) = [v \in 1..(Len(s) + 1) |-> IF v = Len(s) + 1 THEN e ELSE s[v]]
<1> DEFINE f == [v \in 1..(Len(s) + 1) |-> IF v = Len(s) + 1 THEN e ELSE s[v]]
<1>1. f \in Seq(S) /\ Len(f) = Len(s) + 1
  BY FunctionIsSequence
<1>2. /\ Append(s, e) \in Seq(S) /\ Len(Append(s, e)) = Len(s) + 1
      /\ \A v \in 1..(Len(s) + 1) : Append(s, e)[v] = f[v]
  OBVIOUS
<1> HIDE DEF f
<1>3. Append(s, e) = f
  BY <1>1, <1>2, SeqEqual
<1> QED
  BY <1>3 DEF f

(* The statuses the contract sees. *)
LEMMA StatusShape ==
  ASSUME TypeOK
  PROVE  /\ Status \in Seq(Statuses) /\ Len(Status) = Len(workflows)
         /\ DOMAIN Status = 1..Len(workflows)
         /\ \A v \in 1..Len(workflows) : Status[v] = workflows[v].status
<1>1. Status \in [1..Len(workflows) -> Statuses]
  BY Shape DEF Status, Workflow
<1> QED
  BY <1>1, Shape, FunctionIsSequence DEF Status

LEMMA KeptStatus ==
  ASSUME TypeOK, TypeOK', Len(workflows') = Len(workflows),
         \A v \in 1..Len(workflows) : workflows'[v].status = workflows[v].status
  PROVE  UNCHANGED Status
<1>1. Versions = 1..Len(workflows) /\ Versions' = 1..Len(workflows')
  BY Shape DEF TypeOK, Versions
<1> QED
  BY <1>1 DEF Status

LEMMA MovedStatus ==
  ASSUME TypeOK, TypeOK', NEW v, NEW from, NEW to, StatusMoved(v, from, to)
  PROVE  /\ v \in DOMAIN Status /\ Status[v] = from
         /\ Status' = [Status EXCEPT ![v] = to]
<1>1. Versions = 1..Len(workflows) /\ Versions' = 1..Len(workflows')
  BY Shape DEF TypeOK, Versions
<1>2. v \in DOMAIN Status /\ Status[v] = from
  BY StatusShape DEF StatusMoved
<1> QED
  BY <1>1, <1>2 DEF Status, StatusMoved

LEMMA InsertedStatus ==
  ASSUME TypeOK, TypeOK', NEW c \in Contents, NEW k \in Cosmetics, RegisterInserted(c, k)
  PROVE  Status' = Append(Status, "Building")
<1> DEFINE row == [status |-> "Building", content |-> c, cosmetic |-> k,
                   lease |-> NoLease, issued |-> 0]
<1>1. PICK m : m = Len(workflows)
  OBVIOUS
<1>2. /\ m \in Nat /\ DOMAIN Status = 1..m /\ Len(Status) = m /\ Status \in Seq(Statuses)
      /\ \A v \in 1..m : Status[v] = workflows[v].status
  BY <1>1, StatusShape, Shape
<1>3. row \in Workflow /\ row.status = "Building"
  BY NoLeaseType DEF Workflow, Statuses
<1> HIDE DEF row
<1>4. workflows' = Append(workflows, row) /\ workflows \in Seq(Workflow)
  BY DEF RegisterInserted, TypeOK, row
<1>5. /\ Versions' = 1..(m + 1)
      /\ \A v \in 1..(m + 1) : workflows'[v] = IF v = m + 1 THEN row ELSE workflows[v]
  BY <1>1, <1>3, <1>4 DEF Versions
<1>6. Status' = [v \in 1..(m + 1) |-> IF v = m + 1 THEN "Building" ELSE Status[v]]
  BY <1>2, <1>3, <1>5 DEF Status
<1>7. Append(Status, "Building")
        = [v \in 1..(m + 1) |-> IF v = m + 1 THEN "Building" ELSE Status[v]]
  BY <1>2, AppendIs DEF Statuses
<1> QED
  BY <1>6, <1>7

LEMMA InitContract == Init => Contract!Init
  BY DEF Init, Contract!Init, Status, Versions

(* Every step is a step of the contract or leaves what it sees unchanged. *)
LEMMA NextContract ==
  ASSUME TypeOK, TypeOK', WorkersKnow, [Next]_vars
  PROVE  Contract!Next \/ UNCHANGED <<Status, relayed>>
<1>1. ASSUME NEW p \in Processes, NEW sub \in outbox[p], Forward(p, sub),
             relayed' = relayed \cup {sub.version}
      PROVE  Contract!Next
  <2>0. /\ sub.version \in 1..Len(workflows)
        /\ workflows[sub.version].status \in {"Ready", "Submitted"}
    BY DEF WorkersKnow, TypeOK, Sub
  <2>1. sub.version \in DOMAIN Status /\ Status[sub.version] \in {"Ready", "Submitted"}
    BY <2>0, StatusShape
  <2>2. UNCHANGED Status
    BY <1>1, KeptStatus DEF Forward, tables
  <2> QED
    BY <1>1, <2>1, <2>2 DEF Contract!Next, Contract!Forward
<1>2. ASSUME UNCHANGED relayed, NEW v, NEW to \in {"Ready", "BuildFailed"},
             StatusMoved(v, "Building", to)
      PROVE  Contract!Next
  BY <1>2, MovedStatus DEF Contract!Next, Contract!Settle, Contract!Become
<1>3. ASSUME UNCHANGED relayed, NEW c \in Contents, NEW k \in Cosmetics,
             RegisterInserted(c, k)
      PROVE  Contract!Next
  BY <1>3, InsertedStatus DEF Contract!Next, Contract!Store
<1>4. ASSUME UNCHANGED relayed, NEW c \in Contents, NEW k \in Cosmetics,
             RegisterRequeued(c, k)
      PROVE  Contract!Next
  <2>1. StatusMoved(Len(workflows), "BuildFailed", "Building")
    BY <1>4, RequeuedMoves
  <2>2. /\ Len(Status) \in DOMAIN Status /\ Status[Len(Status)] = "BuildFailed"
        /\ Status' = [Status EXCEPT ![Len(Status)] = "Building"]
    BY <2>1, MovedStatus, StatusShape
  <2>3. Status # <<>>
    BY <2>2
  <2> QED
    BY <1>4, <2>2, <2>3 DEF Contract!Next, Contract!Reopen, Contract!Become
<1>5. ASSUME UNCHANGED relayed, NEW p \in Processes, NEW job \in jobs[p],
             SettleBuild(p, job)
      PROVE  Contract!Next \/ UNCHANGED <<Status, relayed>>
  BY <1>2, <1>5, SettleMoves, KeptStatus
<1>6. ASSUME UNCHANGED relayed, NEW p \in Processes, NEW sub \in outbox[p],
             SettleSubmission(p, sub)
      PROVE  Contract!Next \/ UNCHANGED <<Status, relayed>>
  <2>1. CASE StatusKept
    BY <1>6, <2>1, KeptStatus DEF StatusKept
  <2>2. CASE StatusMoved(sub.version, "Ready", "Submitted")
    <3>1. sub.version \in relayed
      BY <1>6 DEF SettleSubmission, WorkersKnow
    <3> QED
      BY <1>6, <2>2, <3>1, MovedStatus DEF Contract!Next, Contract!Submit, Contract!Become
  <2> QED
    BY <1>6, <2>1, <2>2, SubmittedMoves
<1>7. ASSUME UNCHANGED relayed, StatusKept
      PROVE  UNCHANGED <<Status, relayed>>
  BY <1>7, KeptStatus DEF StatusKept
<1> QED
  BY <1>1, <1>3, <1>4, <1>5, <1>6, <1>7, RelayedSteps, StatusSteps

(* The tables, with any number of processes, crashes and expired leases,      *)
(* implement the contract of the build and submission pipelines.              *)
THEOREM Refinement == Spec => ImplementsContract
<1>1. Init => Contract!Init
  BY InitContract
<1>2. TypeOK /\ TypeOK' /\ WorkersKnow /\ [Next]_vars
        => [Contract!Next]_<<Status, relayed>>
  BY NextContract
<1> QED
  BY <1>1, <1>2, TypeCorrect, WorkersKnowAlways, PTL
     DEF Spec, ImplementsContract, Contract!Spec

-----------------------------------------------------------------------------
(* The lease on a row is the last one the row issued *)

RowLast(build) == build.lease.owner = 0 \/ build.lease.token = build.issued

LeaseIsLast ==
  \A v \in 1..Len(workflows) : \A t \in Tasks : RowLast(builds[v][t])

(* What may be done to a build row keeps the relation. *)
LEMMA RowSteps ==
  ASSUME NEW build \in TaskBuild
  PROVE  /\ \A p \in Processes : RowLast(Granted(build, p))
         /\ RowLast(build) => RowLast(Requeued(build))
         /\ \A status : RowLast([build EXCEPT !.status = status, !.lease = NoLease])
         /\ RowLast(build) => RowLast([build EXCEPT !.lease.live = FALSE])
<1>1. ASSUME NEW p \in Processes PROVE RowLast(Granted(build, p))
  BY DEF RowLast, Granted, TaskBuild
<1>2. RowLast(build) => RowLast(Requeued(build))
  BY DEF RowLast, Requeued, TaskBuild, NoLease
<1>3. ASSUME NEW status PROVE RowLast([build EXCEPT !.status = status, !.lease = NoLease])
  BY DEF RowLast, TaskBuild, NoLease
<1>4. RowLast(build) => RowLast([build EXCEPT !.lease.live = FALSE])
  BY DEF RowLast, TaskBuild, Lease
<1> QED
  BY <1>1, <1>2, <1>3, <1>4

LEMMA InsertedLast ==
  ASSUME TypeOK, LeaseIsLast, NEW c \in Contents, NEW k \in Cosmetics,
         RegisterInserted(c, k)
  PROVE  LeaseIsLast'
<1>1. PICK m \in Nat : m = Len(workflows)
  BY Shape
<1>2. Len(workflows') = m + 1
  BY <1>1 DEF TypeOK, RegisterInserted
<1>3. \A v \in 1..m : builds'[v] = builds[v]
  BY <1>1 DEF TypeOK, RegisterInserted
<1>4. \A t \in Tasks : builds'[m + 1][t] = PendingBuild
  BY <1>1 DEF TypeOK, RegisterInserted
<1>5. RowLast(PendingBuild)
  BY DEF RowLast, PendingBuild, NoLease
<1>6. \A v \in 1..(m + 1) : v \in 1..m \/ v = m + 1
  OBVIOUS
<1> QED
  BY <1>1, <1>2, <1>3, <1>4, <1>5, <1>6 DEF LeaseIsLast

LEMMA RequeuedLast ==
  ASSUME TypeOK, LeaseIsLast, NEW c, NEW k, RegisterRequeued(c, k)
  PROVE  LeaseIsLast'
<1>1. PICK m \in Nat : m = Len(workflows)
  BY Shape
<1>2. /\ StatusMoved(m, "BuildFailed", "Building")
      /\ builds' = [builds EXCEPT ![m] = [t \in Tasks |-> Requeued(builds[m][t])]]
  BY <1>1, RequeuedMoves
<1>3. builds \in [1..m -> [Tasks -> TaskBuild]] /\ m \in 1..m /\ Len(workflows') = m
  BY <1>1, <1>2, Shape DEF StatusMoved
<1>4. \A v \in 1..m : \A t \in Tasks :
        builds'[v][t] = IF v = m THEN Requeued(builds[v][t]) ELSE builds[v][t]
  BY <1>2, <1>3
<1>5. \A v \in 1..m : \A t \in Tasks : builds[v][t] \in TaskBuild /\ RowLast(builds[v][t])
  BY <1>1, <1>3 DEF LeaseIsLast
<1> QED
  BY <1>3, <1>4, <1>5, RowSteps DEF LeaseIsLast

LEMMA GrantedLast ==
  ASSUME TypeOK, LeaseIsLast, NEW p \in Processes, LeaseBuilds(p)
  PROVE  LeaseIsLast'
<1>1. PICK m \in Nat : m = Len(workflows)
  BY Shape
<1>2. builds \in [1..m -> [Tasks -> TaskBuild]] /\ Versions = 1..m /\ Len(workflows') = m
  BY <1>1, Shape DEF LeaseBuilds
<1>3. \A v \in 1..m : \A t \in Tasks :
        builds'[v][t] = Granted(builds[v][t], p) \/ builds'[v][t] = builds[v][t]
  <2>1. PICK batch : builds' = [v \in Versions |-> [t \in Tasks |->
          IF <<v, t>> \in batch THEN Granted(builds[v][t], p) ELSE builds[v][t]]]
    BY DEF LeaseBuilds
  <2> QED
    BY <1>2, <2>1
<1>4. \A v \in 1..m : \A t \in Tasks : builds[v][t] \in TaskBuild /\ RowLast(builds[v][t])
  BY <1>1, <1>2 DEF LeaseIsLast
<1> QED
  BY <1>2, <1>3, <1>4, RowSteps DEF LeaseIsLast

(* One row changes, to one that keeps the relation. *)
LEMMA OneRowLast ==
  ASSUME TypeOK, LeaseIsLast, Len(workflows') = Len(workflows),
         NEW v \in 1..Len(workflows), NEW t \in Tasks, NEW new, RowLast(new),
         builds' = [builds EXCEPT ![v][t] = new]
  PROVE  LeaseIsLast'
<1>1. builds \in [1..Len(workflows) -> [Tasks -> TaskBuild]]
  BY Shape
<1>2. \A u \in 1..Len(workflows) : \A s \in Tasks :
        builds'[u][s] = IF u = v /\ s = t THEN new ELSE builds[u][s]
  BY <1>1
<1>3. \A u \in 1..Len(workflows) : \A s \in Tasks : RowLast(builds'[u][s])
  BY <1>2 DEF LeaseIsLast
<1> QED
  BY <1>3 DEF LeaseIsLast

LEMMA RecordedLast ==
  ASSUME TypeOK, LeaseIsLast, NEW p \in Processes, NEW job \in jobs[p],
         RecordResult(job), Len(workflows') = Len(workflows)
  PROVE  LeaseIsLast'
<1> DEFINE v == job.row[1]
           t == job.row[2]
           new == [builds[v][t] EXCEPT !.status = job.at, !.lease = NoLease]
<1>1. v \in 1..Len(workflows) /\ t \in Tasks
  BY DEF TypeOK, Job
<1>2. builds \in [1..Len(workflows) -> [Tasks -> TaskBuild]] /\ builds[v][t] \in TaskBuild
  BY <1>1, Shape
<1>3. builds' = [builds EXCEPT ![v][t] = new]
  BY <1>1, <1>2 DEF RecordResult, TaskBuild
<1>4. RowLast(new)
  BY <1>2, RowSteps
<1> HIDE DEF v, t, new
<1> QED
  BY <1>1, <1>3, <1>4, OneRowLast

LEMMA SettledLast ==
  ASSUME TypeOK, TypeOK', LeaseIsLast, NEW p \in Processes, NEW job \in jobs[p],
         SettleBuild(p, job)
  PROVE  LeaseIsLast'
<1>1. Len(workflows') = Len(workflows)
  BY SettleMoves DEF StatusMoved
<1>2. RecordResult(job) \/ UNCHANGED builds
  BY DEF SettleBuild, SettleRefused, SettleAwaiting, SettleFailed, SettleReady, tables
<1> QED
  BY <1>1, <1>2, RecordedLast DEF LeaseIsLast

LEMMA ExpiredLast ==
  ASSUME TypeOK, LeaseIsLast, NEW r \in Rows, BuildLeaseExpires(r)
  PROVE  LeaseIsLast'
<1> DEFINE v == r[1]
           t == r[2]
           new == [builds[v][t] EXCEPT !.lease.live = FALSE]
<1>1. v \in 1..Len(workflows) /\ t \in Tasks
  BY Shape DEF Rows
<1>2. builds \in [1..Len(workflows) -> [Tasks -> TaskBuild]] /\ builds[v][t] \in TaskBuild
  BY <1>1, Shape
<1>3. builds' = [builds EXCEPT ![v][t] = new]
  BY <1>1, <1>2 DEF BuildLeaseExpires, TaskBuild, Lease
<1>4. RowLast(new)
  BY <1>1, <1>2, RowSteps DEF LeaseIsLast
<1>5. Len(workflows') = Len(workflows)
  BY DEF BuildLeaseExpires
<1> HIDE DEF v, t, new
<1> QED
  BY <1>1, <1>3, <1>4, <1>5, OneRowLast

LEMMA NextLast ==
  ASSUME TypeOK, TypeOK', LeaseIsLast, [Next]_vars
  PROVE  LeaseIsLast'
<1>1. ASSUME UNCHANGED builds, Len(workflows') = Len(workflows) PROVE LeaseIsLast'
  BY <1>1 DEF LeaseIsLast
<1>2. CASE UNCHANGED tables
  BY <1>1, <1>2 DEF tables
<1>3. UNCHANGED vars => UNCHANGED tables
  BY DEF vars
<1>4. ASSUME NEW p \in Processes, NEW job \in jobs[p], BuildStep(p, job)
      PROVE  SettleBuild(p, job) \/ UNCHANGED tables
  BY <1>4 DEF BuildStep, BuildSucceeds, BuildFails, BuildEnds, apply_workflow_state
<1>5. ASSUME NEW p \in Processes, NEW sub \in outbox[p], SubmissionStep(p, sub)
      PROVE  LeaseIsLast'
  <2>1. SettleSubmission(p, sub) \/ UNCHANGED tables
    BY <1>5 DEF SubmissionStep, Forward, ForwardFails
  <2>2. ASSUME SettleSubmission(p, sub) PROVE LeaseIsLast'
    BY <1>1, <2>2, SubmittedMoves DEF StatusMoved, StatusKept
  <2> QED
    BY <1>2, <2>1, <2>2
<1>6. ASSUME NEW p \in Processes,
             Crash(p) \/ Restart(p) \/ \E w \in Workers : WorkerFails(p, w)
      PROVE  UNCHANGED tables
  BY <1>6 DEF Crash, Restart, WorkerFails, Halt
<1>7. ASSUME NEW p \in Processes, LeaseSubmissions(p) PROVE LeaseIsLast'
  BY <1>1, <1>7, LeaseSubmissionsKept DEF LeaseSubmissions, StatusKept
<1>8. ASSUME NEW v \in Versions, SubmissionLeaseExpires(v) PROVE LeaseIsLast'
  BY <1>1, <1>8, SubmissionExpiryKept DEF SubmissionLeaseExpires, StatusKept
<1>9. CASE Register
  <2>1. ASSUME NEW c, NEW k, RegisterRefreshed(c, k) PROVE LeaseIsLast'
    BY <1>1, <2>1, RefreshedKept DEF RegisterRefreshed, StatusKept
  <2> QED
    BY <1>2, <1>3, <1>9, <2>1, InsertedLast, RequeuedLast DEF Register, RegisterNoOp
<1> QED
  BY <1>2, <1>3, <1>4, <1>5, <1>6, <1>7, <1>8, <1>9, GrantedLast, SettledLast,
     ExpiredLast DEF Next

(* A recorded result was recorded by the holder of the row's last lease. *)
LEMMA SettledByHolder ==
  ASSUME TypeOK, LeaseIsLast, NEW p \in Processes, NEW job \in jobs[p],
         SettleBuild(p, job), NEW r \in Rows,
         Build(r).status = "pending", builds'[r[1]][r[2]].status # "pending"
  PROVE  /\ job \notin jobs'[p] /\ job.row = r /\ job.token = Build(r).issued
         /\ job.at = builds'[r[1]][r[2]].status
<1>1. /\ r[1] \in 1..Len(workflows) /\ r[2] \in Tasks /\ r = <<r[1], r[2]>>
      /\ job \in Job
  BY Shape DEF Rows, TypeOK
<1>2. RecordResult(job) /\ Settlement(p, job) # "refused"
  BY DEF SettleBuild, SettleRefused, SettleAwaiting, SettleFailed, SettleReady, tables, Build
<1>3. r[1] = job.row[1] /\ r[2] = job.row[2] /\ job.at = builds'[r[1]][r[2]].status
  BY <1>1, <1>2, RecordMoves DEF Build
<1>4. job.row = r
  BY <1>1, <1>2, <1>3, RecordMoves
<1>5. Build(r).lease.owner = p /\ Build(r).lease.token = job.token
  BY <1>2, <1>4 DEF Settlement, Guarded
<1>6. job.token = Build(r).issued
  BY <1>1, <1>5, ProcessAssumption DEF LeaseIsLast, RowLast, Build
<1>7. job \notin jobs'[p]
  <2>1. [job EXCEPT !.at = "ready"] # job \/ job.at = "ready"
    BY <1>1 DEF Job
  <2>2. job.at # "ready"
    BY DEF SettleBuild, SettleRefused, SettleAwaiting, SettleFailed, SettleReady
  <2> QED
    BY <2>1, <2>2 DEF SettleBuild, SettleRefused, SettleAwaiting, SettleFailed, SettleReady,
                      Drop, Replace, TypeOK
<1> QED
  BY <1>3, <1>4, <1>6, <1>7

LEMMA NextSettles ==
  ASSUME TypeOK, TypeOK', LeaseIsLast, [Next]_vars, NEW r \in Rows,
         Build(r).status = "pending", builds'[r[1]][r[2]].status # "pending"
  PROVE  \E p \in Processes : \E job \in jobs[p] \ jobs'[p] :
            /\ job.row = r /\ job.token = Build(r).issued
            /\ job.at = builds'[r[1]][r[2]].status
<1>1. r[1] \in 1..Len(workflows) /\ r[2] \in Tasks
  BY Shape DEF Rows
<1>2. ~StatusKept
  BY <1>1 DEF StatusKept, Build
<1>3. ASSUME NEW c \in Contents, NEW k \in Cosmetics, RegisterInserted(c, k) PROVE FALSE
  BY <1>1, <1>3, Shape DEF RegisterInserted, TypeOK, Build
<1>4. ASSUME NEW c \in Contents, NEW k \in Cosmetics, RegisterRequeued(c, k) PROVE FALSE
  <2>1. PICK m \in Nat : m = Len(workflows)
    BY Shape
  <2>2. builds' = [builds EXCEPT ![m] = [t \in Tasks |-> Requeued(builds[m][t])]]
    BY <1>4, <2>1, RequeuedMoves
  <2>3. builds \in [1..m -> [Tasks -> TaskBuild]] /\ builds[r[1]][r[2]] \in TaskBuild
    BY <1>1, <2>1, Shape
  <2>4. \/ builds'[r[1]][r[2]] = builds[r[1]][r[2]]
        \/ builds'[r[1]][r[2]] = Requeued(builds[r[1]][r[2]])
    BY <1>1, <2>1, <2>2, <2>3
  <2> QED
    BY <2>3, <2>4 DEF Requeued, TaskBuild, Build
<1>5. ASSUME NEW p \in Processes, NEW sub \in outbox[p], SettleSubmission(p, sub)
      PROVE  FALSE
  BY <1>5, SubmittedMoves DEF Build
<1>6. PICK p \in Processes : \E job \in jobs[p] : SettleBuild(p, job)
  BY <1>2, <1>3, <1>4, <1>5, StatusSteps
<1> QED
  BY <1>6, SettledByHolder

(* Whatever expired, was reclaimed or requeued, only the holder of the last    *)
(* lease a row issued records its result.                                      *)
THEOREM LatestLeaseCorrect == Spec => OnlyLatestLeaseSettles
<1>1. Init => LeaseIsLast
  BY DEF Init, LeaseIsLast
<1>2. TypeOK /\ TypeOK' /\ LeaseIsLast /\ [Next]_vars => LeaseIsLast'
  BY NextLast
<1>3. TypeOK /\ TypeOK' /\ LeaseIsLast /\ [Next]_vars =>
        [\A r \in Rows :
           Build(r).status = "pending" /\ builds'[r[1]][r[2]].status # "pending"
             => \E p \in Processes : \E job \in jobs[p] \ jobs'[p] :
                  /\ job.row = r /\ job.token = Build(r).issued
                  /\ job.at = builds'[r[1]][r[2]].status]_vars
  BY NextSettles
<1> QED
  BY <1>1, <1>2, <1>3, TypeCorrect, PTL DEF Spec, OnlyLatestLeaseSettles
=============================================================================
