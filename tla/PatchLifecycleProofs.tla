------------------------ MODULE PatchLifecycleProofs ------------------------
(***************************************************************************)
(* Theorems about PatchLifecycle, for any number of Patches, instances,    *)
(* Tasks, processes and faults and any batch size.                         *)
(***************************************************************************)
EXTENDS PatchLifecycle, IterationProofs, SequenceTheorems

-----------------------------------------------------------------------------
(* Fresh tokens *)

(* The token a lease gets is a number nobody holds. *)
LEMMA FreshIs ==
  ASSUME NEW held \in SUBSET Nat, IsFiniteSet(held)
  PROVE  Fresh(held) \in Nat /\ Fresh(held) # 0 /\ Fresh(held) \notin held
<1> DEFINE c == Cardinality(held)
           free == (1..(c + 1)) \ held
<1>1. c \in Nat
  BY FS_CardinalityType
<1>2. IsFiniteSet(1..(c + 1)) /\ Cardinality(1..(c + 1)) = c + 1
  BY <1>1, FS_Interval
<1>3. free # {}
  <2>1. SUFFICES ASSUME 1..(c + 1) \subseteq held PROVE FALSE
    OBVIOUS
  <2>2. Cardinality(1..(c + 1)) <= c
    BY <2>1, FS_Subset
  <2> QED
    BY <1>1, <1>2, <2>2
<1>4. PICK n \in free : \A m \in free : n <= m
  <2>1. free \in SUBSET Nat
    BY <1>1
  <2> HIDE DEF free
  <2> QED
    BY <1>3, <2>1, LeastNumber
<1>5. \A m \in 1..(n - 1) : m \in held
  BY <1>1, <1>4
<1>6. \E k \in 1..(c + 1) : k \notin held /\ \A m \in 1..(k - 1) : m \in held
  BY <1>4, <1>5
<1>7. Fresh(held) \in 1..(c + 1) /\ Fresh(held) \notin held
  BY <1>6 DEF Fresh
<1> QED
  BY <1>1, <1>7

-----------------------------------------------------------------------------
(* Type correctness, action by action *)

Request == [process : Processes, patch : Patches, at : {"accepted", "sent"}]
Sub     == [patch : Patches, token : Nat, fresh : BOOLEAN, at : {"leased", "sent"}]
Job     == [row : Rows, token : Nat, fresh : BOOLEAN,
            at : {"building", "success", "failure", "built"}]

(* A scan leases finitely many rows, so a free token exists. *)
FiniteWork == \A p \in Processes : IsFiniteSet(outbox[p]) /\ IsFiniteSet(jobs[p])

Typed == TypeOK /\ FiniteWork

LEMMA NoLeaseType == NoLease \in Lease
  BY DEF NoLease, Lease

LEMMA FaultType ==
  ASSUME TypeOK, NEW kind, Fault(kind)
  PROVE  faults' \in 0..MaxFaults
  BY PatchBoundAssumption DEF TypeOK, Fault

(* A row is a Patch and one of its Tasks. *)
LEMMA RowType == \A r \in Rows : r[1] \in Patches /\ r \in RowsOf(r[1])
  BY DEF Rows, RowsOf

(* The numbers some finite set of work items holds, with one more, are a      *)
(* finite set of numbers.                                                     *)
LEMMA TokensFinite ==
  ASSUME NEW W, IsFiniteSet(W), NEW n \in Nat, \A w \in W : w.token \in Nat
  PROVE  /\ {n} \cup {w.token : w \in W} \in SUBSET Nat
         /\ IsFiniteSet({n} \cup {w.token : w \in W})
<1> DEFINE T == {w.token : w \in W}
           f == [w \in W |-> w.token]
<1>1. f \in Surjection(W, T)
  BY DEF Surjection
<1>2. IsFiniteSet(T)
  BY <1>1, FS_Surjection
<1>3. IsFiniteSet(T \cup {n}) /\ T \cup {n} = {n} \cup T
  BY <1>2, FS_AddElement
<1> QED
  BY <1>3

(* What all processes together work on is finite. *)
LEMMA AllWorkFinite ==
  ASSUME NEW W, \A p \in Processes : IsFiniteSet(W[p])
  PROVE  IsFiniteSet(UNION {W[p] : p \in Processes})
<1> DEFINE S == {W[p] : p \in Processes}
           f == [p \in Processes |-> W[p]]
<1>1. f \in Surjection(Processes, S)
  BY DEF Surjection
<1>2. IsFiniteSet(S)
  BY <1>1, PatchProcessAssumption, FS_Surjection
<1> QED
  BY <1>2, FS_UNION

LEMMA LifecycleTokenType ==
  ASSUME Typed, NEW x \in Patches
  PROVE  LifecycleToken(x) \in Nat
<1> DEFINE W == {s \in UNION {outbox[p] : p \in Processes} : s.patch = x}
           n == patches[x].lease.token
<1>1. IsFiniteSet(UNION {outbox[p] : p \in Processes})
  BY AllWorkFinite DEF Typed, FiniteWork
<1>2. IsFiniteSet(W)
  BY <1>1, FS_Subset
<1>3. \A w \in W : w.token \in Nat
  BY DEF Typed, TypeOK
<1>4. n \in Nat
  BY DEF Typed, TypeOK, PatchRow, Lease
<1> HIDE DEF W, n
<1>5. Fresh({n} \cup {w.token : w \in W}) \in Nat
  BY <1>2, <1>3, <1>4, TokensFinite, FreshIs
<1> QED
  BY <1>5 DEF LifecycleToken, W, n

LEMMA BuildTokenType ==
  ASSUME Typed, NEW r \in Rows
  PROVE  BuildToken(r) \in Nat
<1> DEFINE W == {j \in UNION {jobs[p] : p \in Processes} : j.row = r}
           n == builds[r].lease.token
<1>1. IsFiniteSet(UNION {jobs[p] : p \in Processes})
  BY AllWorkFinite DEF Typed, FiniteWork
<1>2. IsFiniteSet(W)
  BY <1>1, FS_Subset
<1>3. \A w \in W : w.token \in Nat
  BY DEF Typed, TypeOK
<1>4. n \in Nat
  BY DEF Typed, TypeOK, BuildRow, Lease
<1> HIDE DEF W, n
<1>5. Fresh({n} \cup {w.token : w \in W}) \in Nat
  BY <1>2, <1>3, <1>4, TokensFinite, FreshIs
<1> QED
  BY <1>5 DEF BuildToken, W, n

LEMMA GrantedType ==
  ASSUME NEW p \in Processes, NEW n \in Nat
  PROVE  /\ \A row \in PatchRow : /\ Granted(row, p, n) \in PatchRow
                                  /\ Granted(row, p, n).status = row.status
         /\ \A row \in BuildRow : /\ Granted(row, p, n) \in BuildRow
                                  /\ Granted(row, p, n).status = row.status
<1> DEFINE lease == [owner |-> p, token |-> n, live |-> TRUE]
<1>1. lease \in Lease
  BY DEF Lease
<1> HIDE DEF lease
<1>2. /\ \A row \in PatchRow : /\ [row EXCEPT !.lease = lease] \in PatchRow
                               /\ [row EXCEPT !.lease = lease].status = row.status
      /\ \A row \in BuildRow : /\ [row EXCEPT !.lease = lease] \in BuildRow
                               /\ [row EXCEPT !.lease = lease].status = row.status
  BY <1>1 DEF PatchRow, BuildRow
<1> QED
  BY <1>2 DEF Granted, lease

(* A batch is a finite set of eligible rows. *)
LEMMA BatchEligible ==
  ASSUME NEW E, NEW batch \in Batch(E)
  PROVE  batch \subseteq E
  BY DEF Batch

LEMMA RowsFinite == IsFiniteSet(Rows)
<1> DEFINE S == {TasksOf[x] : x \in Patches}
           f == [x \in Patches |-> TasksOf[x]]
<1>1. f \in Surjection(Patches, S)
  BY DEF Surjection
<1>2. IsFiniteSet(S)
  BY <1>1, PatchAssumption, FS_Surjection
<1>3. IsFiniteSet(UNION S)
  BY <1>2, PatchAssumption, FS_UNION
<1>4. IsFiniteSet(Patches \X UNION S)
  BY <1>3, PatchAssumption, FS_Product
<1>5. Rows \subseteq Patches \X UNION S
  BY DEF Rows
<1> HIDE DEF S
<1> QED
  BY <1>4, <1>5, FS_Subset

(* Fewer work items of one process stay finite, and so does one replaced. *)
LEMMA WorkFinite ==
  ASSUME NEW W, NEW Item, W \in [Processes -> SUBSET Item],
         \A p \in Processes : IsFiniteSet(W[p]), NEW p \in Processes
  PROVE  /\ \A old : LET V == [W EXCEPT ![p] = @ \ {old}]
                     IN  V \in [Processes -> SUBSET Item] /\ \A q \in Processes : IsFiniteSet(V[q])
         /\ \A old, new : new \in Item =>
              LET V == [W EXCEPT ![p] = (@ \ {old}) \cup {new}]
              IN  V \in [Processes -> SUBSET Item] /\ \A q \in Processes : IsFiniteSet(V[q])
         /\ \A S : S \in SUBSET Item /\ IsFiniteSet(S) =>
              LET V == [W EXCEPT ![p] = S]
              IN  V \in [Processes -> SUBSET Item] /\ \A q \in Processes : IsFiniteSet(V[q])
<1>1. \A old : IsFiniteSet(W[p] \ {old})
  BY FS_RemoveElement
<1>2. \A old, new : IsFiniteSet((W[p] \ {old}) \cup {new})
  BY <1>1, FS_AddElement
<1>3. \A S : S \in SUBSET Item /\ IsFiniteSet(S) =>
         /\ [W EXCEPT ![p] = S] \in [Processes -> SUBSET Item]
         /\ \A q \in Processes : IsFiniteSet([W EXCEPT ![p] = S][q])
  OBVIOUS
<1>4. \A old : W[p] \ {old} \in SUBSET Item
  OBVIOUS
<1>5. \A old, new : new \in Item => (W[p] \ {old}) \cup {new} \in SUBSET Item
  OBVIOUS
<1> QED
  BY <1>1, <1>2, <1>3, <1>4, <1>5

LEMMA InitTyped == Init => Typed
<1> SUFFICES ASSUME Init PROVE Typed
  OBVIOUS
<1>1. patches \in [Patches -> PatchRow] /\ builds \in [Rows -> BuildRow]
  BY NoLeaseType DEF Init, PatchRow, BuildRow
<1>2. IsFiniteSet({})
  BY FS_EmptySet
<1>3. FiniteWork
  BY <1>2 DEF Init, FiniteWork
<1>4. <<>> \in Seq(Patches)
  OBVIOUS
<1> QED
  BY <1>1, <1>3, <1>4, PatchBoundAssumption DEF Init, TypeOK, Typed

LEMMA IngressType ==
  ASSUME Typed, NEW p \in Processes, NEW x \in Patches, Ingress(p, x)
  PROVE  Typed'
<1> USE DEF Typed, FiniteWork
<1>1. CASE IngressRejected(p, x)
  <2>1. patches' \in [Patches -> PatchRow]
    BY <1>1 DEF IngressRejected, TypeOK, PatchRow, Unsettled, Terminal
  <2> QED
    BY <1>1, <2>1 DEF IngressRejected, TypeOK, memory, control, history
<1>2. CASE IngressAccepted(p, x)
  <2>1. patches' \in [Patches -> PatchRow]
    BY <1>2 DEF IngressAccepted, TypeOK, PatchRow, Unsettled, Terminal
  <2>2. builds' \in [Rows -> BuildRow]
    BY <1>2 DEF IngressAccepted, TypeOK, BuildRow
  <2>3. requests' \subseteq Request
    BY <1>2 DEF IngressAccepted, TypeOK, Request
  <2>4. order' \in Seq(Patches)
    BY <1>2 DEF IngressAccepted, TypeOK
  <2> QED
    BY <1>2, <2>1, <2>2, <2>3, <2>4 DEF IngressAccepted, TypeOK, control, Request
<1>3. CASE IngressReplayed(p, x)
  BY <1>3 DEF IngressReplayed, TypeOK, vars, tables, memory, control, history
<1> QED
  BY <1>1, <1>2, <1>3 DEF Ingress

LEMMA RequestType ==
  ASSUME Typed, NEW req \in requests, RequestStep(req)
  PROVE  Typed'
<1> USE DEF Typed, FiniteWork
<1>1. req \in Request /\ requests \subseteq Request
  BY DEF TypeOK, Request
<1>2. req.patch \in Patches
  BY <1>1 DEF Request
<1>3. CASE RequestSends(req)
  <2>1. [req EXCEPT !.at = "sent"] \in Request
    BY <1>1 DEF Request
  <2>2. requests' \subseteq Request
    BY <1>1, <1>3, <2>1 DEF RequestSends
  <2> QED
    BY <1>2, <1>3, <2>2 DEF RequestSends, TypeOK, tables, history, Request
<1>4. CASE RequestSendFails(req)
  BY <1>4, FaultType DEF RequestSendFails, Leave, TypeOK, tables, control, history
<1>5. CASE mark_patch_submitted(req)
  <2>1. patches' \in [Patches -> PatchRow]
    BY <1>2, <1>5 DEF mark_patch_submitted, TypeOK, PatchRow, Unsettled, Terminal
  <2> QED
    BY <1>5, <2>1 DEF mark_patch_submitted, Leave, TypeOK, control, history
<1>6. CASE RequestFails(req)
  BY <1>6, FaultType DEF RequestFails, Leave, TypeOK, tables, control, history
<1> QED
  BY <1>3, <1>4, <1>5, <1>6 DEF RequestStep

LEMMA ScanLifecycleType ==
  ASSUME Typed, NEW p \in Processes, ScanLifecycle(p)
  PROVE  Typed'
<1> USE DEF Typed, FiniteWork
<1>1. PICK batch \in Batch({x \in Patches : LifecycleEligible(x)}) :
        /\ patches' = [x \in Patches |-> IF x \in batch THEN Granted(patches[x], p, LifecycleToken(x))
                                                        ELSE patches[x]]
        /\ outbox' = [outbox EXCEPT ![p] =
             {[patch |-> x, token |-> LifecycleToken(x),
               at |-> "leased", fresh |-> TRUE] : x \in batch}]
  BY DEF ScanLifecycle
<1>2. batch \subseteq Patches
  BY BatchEligible
<1>3. \A x \in batch : LifecycleToken(x) \in Nat
  BY <1>2, LifecycleTokenType
<1>4. patches' \in [Patches -> PatchRow]
  BY <1>1, <1>2, <1>3, GrantedType DEF TypeOK
<1> DEFINE item(x) == [patch |-> x, token |-> LifecycleToken(x), at |-> "leased", fresh |-> TRUE]
           S == {item(x) : x \in batch}
           f == [x \in batch |-> item(x)]
<1>5. f \in Surjection(batch, S)
  BY DEF Surjection
<1>6. IsFiniteSet(batch)
  BY <1>2, PatchAssumption, FS_Subset
<1>7. IsFiniteSet(S)
  BY <1>5, <1>6, FS_Surjection
<1>8. S \in SUBSET Sub
  <2> SUFFICES ASSUME NEW x \in batch PROVE item(x) \in Sub
    OBVIOUS
  <2> QED
    BY <1>2, <1>3 DEF Sub
<1>9. outbox' = [outbox EXCEPT ![p] = S]
  BY <1>1
<1> HIDE DEF S
<1>10. outbox \in [Processes -> SUBSET Sub]
  BY DEF TypeOK, Sub
<1>11. outbox' \in [Processes -> SUBSET Sub] /\ \A q \in Processes : IsFiniteSet(outbox'[q])
  BY <1>7, <1>8, <1>9, <1>10, WorkFinite
<1> QED
  BY <1>4, <1>11 DEF ScanLifecycle, TypeOK, control, history, Sub

LEMMA LifecycleType ==
  ASSUME Typed, NEW p \in Processes, NEW sub \in outbox[p], LifecycleStep(p, sub)
  PROVE  Typed'
<1> USE DEF Typed, FiniteWork
<1>1. outbox \in [Processes -> SUBSET Sub]
  BY DEF TypeOK, Sub
<1>2. sub \in Sub /\ sub.patch \in Patches
  BY <1>1 DEF Sub
<1>3. CASE Redrive(p, sub)
  <2> DEFINE fresh == Unexpired(patches[sub.patch], sub.token)
             new   == [sub EXCEPT !.at = "sent", !.fresh = fresh]
  <2>1. fresh \in BOOLEAN
    BY <1>2 DEF Unexpired, TypeOK, PatchRow, Lease
  <2> HIDE DEF fresh
  <2>2. new \in Sub
    BY <1>2, <2>1 DEF Sub
  <2>3. outbox' = [outbox EXCEPT ![p] = (@ \ {sub}) \cup {new}]
    BY <1>3 DEF Redrive, fresh
  <2> HIDE DEF new
  <2>4. outbox' \in [Processes -> SUBSET Sub] /\ \A q \in Processes : IsFiniteSet(outbox'[q])
    BY <1>1, <2>2, <2>3, WorkFinite
  <2> QED
    BY <1>2, <1>3, <2>4 DEF Redrive, TypeOK, tables, history, Sub
<1>4. ASSUME Done(p, sub)
      PROVE  outbox' \in [Processes -> SUBSET Sub] /\ \A q \in Processes : IsFiniteSet(outbox'[q])
  BY <1>1, <1>4, WorkFinite DEF Done
<1>5. CASE RedriveFails(p, sub)
  <2>1. patches' \in [Patches -> PatchRow]
    BY <1>2, <1>5, NoLeaseType DEF RedriveFails, TypeOK, PatchRow
  <2> QED
    BY <1>4, <1>5, <2>1, FaultType DEF RedriveFails, TypeOK, control, history, Sub
<1>6. CASE settle_leased_patch_submission(p, sub)
  <2>1. patches' \in [Patches -> PatchRow]
    BY <1>2, <1>6, NoLeaseType DEF settle_leased_patch_submission, TypeOK, PatchRow, Unsettled, Terminal
  <2> QED
    BY <1>4, <1>6, <2>1 DEF settle_leased_patch_submission, TypeOK, control, history, Sub
<1> QED
  BY <1>3, <1>5, <1>6 DEF LifecycleStep

LEMMA ScanBuildsType ==
  ASSUME Typed, NEW p \in Processes, ScanBuilds(p)
  PROVE  Typed'
<1> USE DEF Typed, FiniteWork
<1>1. PICK batch \in Batch({r \in Rows : BuildEligible(r)}) :
        /\ builds' = [r \in Rows |-> IF r \in batch THEN Granted(builds[r], p, BuildToken(r))
                                                    ELSE builds[r]]
        /\ jobs' = [jobs EXCEPT ![p] =
             {[row |-> r, token |-> BuildToken(r),
               at |-> "building", fresh |-> TRUE] : r \in batch}]
  BY DEF ScanBuilds
<1>2. batch \subseteq Rows
  BY BatchEligible
<1>3. \A r \in batch : BuildToken(r) \in Nat
  BY <1>2, BuildTokenType
<1>4. builds' \in [Rows -> BuildRow]
  BY <1>1, <1>2, <1>3, GrantedType DEF TypeOK
<1> DEFINE item(r) == [row |-> r, token |-> BuildToken(r), at |-> "building", fresh |-> TRUE]
           S == {item(r) : r \in batch}
           f == [r \in batch |-> item(r)]
<1>5. f \in Surjection(batch, S)
  BY DEF Surjection
<1>6. IsFiniteSet(batch)
  BY <1>2, RowsFinite, FS_Subset
<1>7. IsFiniteSet(S)
  BY <1>5, <1>6, FS_Surjection
<1>8. S \in SUBSET Job
  <2> SUFFICES ASSUME NEW r \in batch PROVE item(r) \in Job
    OBVIOUS
  <2> QED
    BY <1>2, <1>3 DEF Job
<1>9. jobs' = [jobs EXCEPT ![p] = S]
  BY <1>1
<1> HIDE DEF S
<1>10. jobs \in [Processes -> SUBSET Job]
  BY DEF TypeOK, Job
<1>11. jobs' \in [Processes -> SUBSET Job] /\ \A q \in Processes : IsFiniteSet(jobs'[q])
  BY <1>7, <1>8, <1>9, <1>10, WorkFinite
<1> QED
  BY <1>4, <1>11 DEF ScanBuilds, TypeOK, control, history, Job

LEMMA BuildType ==
  ASSUME Typed, NEW p \in Processes, NEW job \in jobs[p], BuildStep(p, job)
  PROVE  Typed'
<1> USE DEF Typed, FiniteWork
<1>1. jobs \in [Processes -> SUBSET Job]
  BY DEF TypeOK, Job
<1>2. job \in Job /\ job.row \in Rows /\ job.row[1] \in Patches
  BY <1>1, RowType DEF Job
<1>3. ASSUME NEW result \in {"success", "failure"}, BuildEnds(p, job, result)
      PROVE  jobs' \in [Processes -> SUBSET Job] /\ \A q \in Processes : IsFiniteSet(jobs'[q])
  <2> DEFINE fresh == Unexpired(builds[job.row], job.token)
             new   == [job EXCEPT !.at = result, !.fresh = fresh]
  <2>1. fresh \in BOOLEAN
    BY <1>2 DEF Unexpired, TypeOK, BuildRow, Lease
  <2> HIDE DEF fresh
  <2>2. new \in Job
    BY <1>2, <2>1 DEF Job
  <2>3. jobs' = [jobs EXCEPT ![p] = (@ \ {job}) \cup {new}]
    BY <1>3 DEF BuildEnds, Replace, fresh
  <2> HIDE DEF new
  <2> QED
    BY <1>1, <2>2, <2>3, WorkFinite
<1>4. CASE BuildSucceeds(p, job)
  <2>1. BuildEnds(p, job, "success") /\ UNCHANGED faults
    BY <1>4 DEF BuildSucceeds
  <2> QED
    BY <1>3, <2>1 DEF BuildEnds, TypeOK, tables, control, history, Job
<1>5. CASE BuildFails(p, job)
  <2>1. BuildEnds(p, job, "failure") /\ faults' \in 0..MaxFaults
    BY <1>5, FaultType DEF BuildFails
  <2> QED
    BY <1>3, <2>1 DEF BuildEnds, TypeOK, tables, control, history, Job
<1>6. ASSUME Drop(p, job)
      PROVE  jobs' \in [Processes -> SUBSET Job] /\ \A q \in Processes : IsFiniteSet(jobs'[q])
  BY <1>1, <1>6, WorkFinite DEF Drop
<1>7. ASSUME RecordResult(job), Ended(job) PROVE builds' \in [Rows -> BuildRow]
  BY <1>2, <1>7, NoLeaseType DEF RecordResult, Ended, TypeOK, BuildRow
<1>8. CASE SettleRefused(p, job)
  BY <1>6, <1>8 DEF SettleRefused, TypeOK, tables, control, history, Job
<1>9. CASE SettleAwaiting(p, job)
  BY <1>6, <1>7, <1>9 DEF SettleAwaiting, TypeOK, control, history, Job
<1>10. CASE SettleFailed(p, job)
  <2>1. patches' \in [Patches -> PatchRow]
    BY <1>2, <1>10 DEF SettleFailed, TypeOK, PatchRow, Unsettled, Terminal
  <2> QED
    BY <1>6, <1>7, <1>10, <2>1 DEF SettleFailed, TypeOK, control, history, Job
<1>11. CASE SettleSubmitted(p, job)
  <2>1. patches' \in [Patches -> PatchRow]
    BY <1>2, <1>11 DEF SettleSubmitted, TypeOK, PatchRow, Unsettled, Terminal
  <2> DEFINE new == [job EXCEPT !.at = "built"]
  <2>2. new \in Job
    BY <1>2 DEF Job
  <2>3. jobs' = [jobs EXCEPT ![p] = (@ \ {job}) \cup {new}]
    BY <1>11 DEF SettleSubmitted, Replace
  <2> HIDE DEF new
  <2>4. jobs' \in [Processes -> SUBSET Job] /\ \A q \in Processes : IsFiniteSet(jobs'[q])
    BY <1>1, <2>2, <2>3, WorkFinite
  <2> QED
    BY <1>7, <1>11, <2>1, <2>4 DEF SettleSubmitted, TypeOK, control, history, Job
<1>12. CASE WinnerSends(p, job)
  BY <1>2, <1>6, <1>12 DEF WinnerSends, TypeOK, tables, history, Job
<1>13. CASE WinnerSendFails(p, job)
  BY <1>6, <1>13, FaultType DEF WinnerSendFails, TypeOK, tables, control, history, Job
<1> QED
  BY <1>4, <1>5, <1>8, <1>9, <1>10, <1>11, <1>12, <1>13 DEF BuildStep, SettleBuild

LEMMA ExpiredType == \A lease \in Lease : [lease EXCEPT !.live = FALSE] \in Lease
  BY DEF Lease

LEMMA ControlType ==
  ASSUME Typed,
         \/ \E x \in Patches : Decide(x) \/ correlate_outcome(x) \/ LifecycleLeaseExpires(x)
         \/ \E r \in Rows : BuildLeaseExpires(r)
         \/ \E i \in Instances : InstanceEnds(i) \/ audit_patch_settlement(i)
         \/ RelayLoses,
         \A x \in Patches : x \in outcomes => verdict[x] # "none"
  PROVE  Typed'
<1> USE DEF Typed, FiniteWork
<1>1. ASSUME NEW x \in Patches, Decide(x) PROVE Typed'
  <2>1. verdict' \in [Patches -> {"none", "Applied", "Rejected"}]
    BY <1>1 DEF Decide, TypeOK
  <2> QED
    BY <1>1, <2>1 DEF Decide, TypeOK, tables, memory, history
<1>2. ASSUME NEW x \in Patches, correlate_outcome(x) PROVE Typed'
  <2>1. verdict[x] \in {"Applied", "Rejected"}
    BY <1>2 DEF correlate_outcome, TypeOK
  <2>2. patches' \in [Patches -> PatchRow]
    BY <1>2, <2>1, NoLeaseType DEF correlate_outcome, TypeOK, PatchRow, Terminal
  <2> QED
    BY <1>2, <2>2 DEF correlate_outcome, TypeOK, memory, history
<1>3. ASSUME NEW x \in Patches, LifecycleLeaseExpires(x) PROVE Typed'
  <2> DEFINE lease == [patches[x].lease EXCEPT !.live = FALSE]
  <2>3. lease \in Lease
    BY ExpiredType DEF TypeOK, PatchRow
  <2>4. patches' = [patches EXCEPT ![x].lease = lease]
    BY <1>3 DEF LifecycleLeaseExpires, TypeOK
  <2> HIDE DEF lease
  <2>1. patches' \in [Patches -> PatchRow]
    BY <2>3, <2>4 DEF TypeOK, PatchRow
  <2>2. faults' \in 0..MaxFaults
    BY <1>3, FaultType DEF LifecycleLeaseExpires, TypeOK
  <2> QED
    BY <1>3, <2>1, <2>2 DEF LifecycleLeaseExpires, TypeOK, memory, control, history
<1>4. ASSUME NEW r \in Rows, BuildLeaseExpires(r) PROVE Typed'
  <2> DEFINE lease == [builds[r].lease EXCEPT !.live = FALSE]
  <2>3. lease \in Lease
    BY ExpiredType DEF TypeOK, BuildRow
  <2>4. builds' = [builds EXCEPT ![r].lease = lease]
    BY <1>4 DEF BuildLeaseExpires, TypeOK
  <2> HIDE DEF lease
  <2>1. builds' \in [Rows -> BuildRow]
    BY <2>3, <2>4 DEF TypeOK, BuildRow
  <2>2. faults' \in 0..MaxFaults
    BY <1>4, FaultType DEF BuildLeaseExpires, TypeOK
  <2> QED
    BY <1>4, <2>1, <2>2 DEF BuildLeaseExpires, TypeOK, memory, control, history
<1>5. ASSUME NEW i \in Instances, InstanceEnds(i) PROVE Typed'
  BY <1>5 DEF InstanceEnds, TypeOK, tables, memory, history
<1>6. ASSUME NEW i \in Instances, audit_patch_settlement(i) PROVE Typed'
  BY <1>6 DEF audit_patch_settlement, patch_discrepancy_detail, TypeOK, memory, control
<1>7. CASE RelayLoses
  BY <1>7, FaultType DEF RelayLoses, TypeOK, tables, memory, history
<1> QED
  BY <1>1, <1>2, <1>3, <1>4, <1>5, <1>6, <1>7

LEMMA ProcessType ==
  ASSUME Typed, NEW p \in Processes, WorkerFails(p) \/ Crash(p) \/ Restart(p)
  PROVE  Typed'
<1> USE DEF Typed, FiniteWork
<1>1. IsFiniteSet({})
  BY FS_EmptySet
<1>2. CASE WorkerFails(p)
  BY <1>1, <1>2, FaultType DEF WorkerFails, TypeOK, tables, control, history
<1>3. CASE Crash(p)
  BY <1>1, <1>3, FaultType DEF Crash, TypeOK, tables, control, history
<1>4. CASE Restart(p)
  BY <1>4 DEF Restart, TypeOK, tables, control, history
<1> QED
  BY <1>2, <1>3, <1>4

-----------------------------------------------------------------------------
(* The inductive invariant                                                    *)
(*                                                                            *)
(* A Patch is on the way to the Control plane when its envelope is sent or    *)
(* when somebody may still send one: its request, a re-drive that leased its  *)
(* row, or the worker whose build completed it.                               *)

OnTheWay(x) ==
  \/ x \in envelopes
  \/ \E req \in requests : req.patch = x
  \/ \E p \in Processes : \E sub \in outbox[p] : sub.patch = x
  \/ \E p \in Processes : \E job \in jobs[p] : job.at = "built" /\ job.row[1] = x

Status(x)    == patches[x].status
Built(x)     == \A r \in RowsOf(x) : builds[r].status = "success"
Decided(x)   == verdict[x] # "none"
Relayable(x) == Status(x) \in {"Validating", "Submitted"}

(* Only a Patch without Tasks skips the builds. *)
ValidatesWithoutTasks == \A x \in Patches : Status(x) = "Validating" => Built(x)

SubmittedIsBuilt == \A x \in Patches : Status(x) = "Submitted" => Built(x)

(* What the Control plane may hear of or has decided is built, and its row is *)
(* relayed or settled as decided.                                             *)
SentIsBuilt == \A x \in Patches : OnTheWay(x) \/ Decided(x) => Built(x)

SentIsRelayed ==
  \A x \in Patches : OnTheWay(x) \/ Decided(x) =>
    Relayable(x) \/ (Decided(x) /\ Status(x) = verdict[x])

OutcomeIsVerdict == \A x \in outcomes : Decided(x)
AppliedIsVerdict == \A x \in Patches : Status(x) = "Applied" => verdict[x] = "Applied"

(* An accepted Patch is unsettled, decided or failed to build; only the last  *)
(* one accepted for its instance may be unsettled.                            *)
Closed(x) == Decided(x) \/ Status(x) = "BuildFailed"
AcceptedIsKnown ==
  \A k \in DOMAIN order : Status(order[k]) \in Unsettled \/ Closed(order[k])
EarlierIsClosed ==
  \A k \in DOMAIN order : \A j \in 1..(k - 1) :
    InstanceOf[order[j]] = InstanceOf[order[k]] => Closed(order[j])

AuditedEnded == audited \subseteq ended

PatchInv ==
  /\ ValidatesWithoutTasks /\ SubmittedIsBuilt /\ SentIsBuilt /\ SentIsRelayed
  /\ OutcomeIsVerdict /\ AppliedIsVerdict /\ OnePatchAtATime
  /\ AcceptedIsKnown /\ EarlierIsClosed /\ AuditedEnded /\ AuditFindsAll

-----------------------------------------------------------------------------
(* What the steps do to the ledger, the builds and the messages               *)

StatusKept   == \A x \in Patches : Status(x)' = Status(x)
StatusSet(x, s) == Status(x)' = s /\ \A y \in Patches : y # x => Status(y)' = Status(y)
BuildsKept   == \A r \in Rows : builds'[r].status = builds[r].status
OthersBuildsKept(x) == \A r \in Rows : r[1] # x => builds'[r].status = builds[r].status
WayKept      == \A x \in Patches : OnTheWay(x)' => OnTheWay(x)
ControlKept  == /\ UNCHANGED <<verdict, ended, audited, order, discrepancies>>
                /\ outcomes' \subseteq outcomes

(* Nothing but perhaps a lease on a row that is relayed. *)
Leases == /\ StatusKept /\ BuildsKept /\ ControlKept
          /\ \A x \in Patches : OnTheWay(x)' => OnTheWay(x) \/ Relayable(x)

Submits(x) == /\ Relayable(x) /\ OnTheWay(x) /\ StatusSet(x, "Submitted")
              /\ BuildsKept /\ WayKept /\ ControlKept

Refuses(x) == /\ Status(x) = "none" /\ StatusSet(x, "Rejected")
              /\ BuildsKept /\ WayKept /\ ControlKept

Accepts(x) == /\ Status(x) = "none" /\ ~SiblingUnsettled(x)
              /\ \/ StatusSet(x, "Building") /\ WayKept
                 \/ /\ StatusSet(x, "Validating") /\ RowsOf(x) = {}
                    /\ \A y \in Patches : OnTheWay(y)' => OnTheWay(y) \/ y = x
              /\ OthersBuildsKept(x)
              /\ order' = Append(order, x)
              /\ UNCHANGED <<verdict, ended, audited, discrepancies, outcomes>>

Records(x) == /\ Status(x) = "Building"
              /\ StatusSet(x, "Building") \/ StatusSet(x, "BuildFailed")
              /\ OthersBuildsKept(x) /\ WayKept /\ ControlKept

Completes(x) == /\ Status(x) = "Building" /\ StatusSet(x, "Submitted") /\ Built(x)'
                /\ \A y \in Patches : OnTheWay(y)' => OnTheWay(y) \/ y = x
                /\ OthersBuildsKept(x) /\ ControlKept

Decides(x) == /\ OnTheWay(x) /\ StatusKept /\ BuildsKept /\ WayKept
              /\ verdict'[x] \in {"Applied", "Rejected"}
              /\ Decided(x) => verdict'[x] = verdict[x]
              /\ verdict[x] # "Applied" /\ InstanceOf[x] \in ended => verdict'[x] # "Applied"
              /\ \A y \in Patches : y # x => verdict'[y] = verdict[y]
              /\ outcomes' = outcomes \cup {x}
              /\ UNCHANGED <<ended, audited, order, discrepancies>>

Correlates(x) == /\ Status(x) \in Unsettled /\ Decided(x) /\ StatusSet(x, verdict[x])
                 /\ BuildsKept /\ WayKept /\ ControlKept

Ends == /\ StatusKept /\ BuildsKept /\ WayKept /\ ended \subseteq ended'
        /\ UNCHANGED <<verdict, audited, order, discrepancies, outcomes>>

Audits(i) == /\ i \in ended
             /\ StatusKept /\ BuildsKept /\ WayKept /\ audited' = audited \cup {i}
             /\ discrepancies' = discrepancies \cup patch_discrepancy_detail(i)
             /\ UNCHANGED <<verdict, ended, order, outcomes>>

(* A work item that leaves or changes without becoming a completed build      *)
(* puts no further Patch on the way.                                          *)
LEMMA FewerOnTheWay ==
  ASSUME TypeOK,
         \A x \in envelopes' : OnTheWay(x),
         \A req \in requests' : OnTheWay(req.patch),
         \A p \in Processes : \A sub \in outbox'[p] : OnTheWay(sub.patch),
         \A p \in Processes : \A job \in jobs'[p] : job.at = "built" => OnTheWay(job.row[1])
  PROVE  WayKept
<1> SUFFICES ASSUME NEW x \in Patches, OnTheWay(x)' PROVE OnTheWay(x)
  BY DEF WayKept
<1>1. \/ x \in envelopes'
      \/ \E req \in requests' : req.patch = x
      \/ \E p \in Processes : \E sub \in outbox'[p] : sub.patch = x
      \/ \E p \in Processes : \E job \in jobs'[p] : job.at = "built" /\ job.row[1] = x
  BY DEF OnTheWay
<1> HIDE DEF OnTheWay
<1> QED
  BY <1>1

(* Who is on the way now. *)
LEMMA WayNow ==
  /\ \A x \in envelopes : OnTheWay(x)
  /\ \A req \in requests : OnTheWay(req.patch)
  /\ \A p \in Processes : \A sub \in outbox[p] : OnTheWay(sub.patch)
  /\ \A p \in Processes : \A job \in jobs[p] : job.at = "built" => OnTheWay(job.row[1])
  BY DEF OnTheWay

LEMMA QuietLeases ==
  ASSUME StatusKept, BuildsKept, ControlKept, WayKept
  PROVE  Leases
  BY DEF Leases, WayKept

LEMMA SameStatus == UNCHANGED patches => StatusKept
  BY DEF StatusKept, Status

LEMMA SameBuilds == UNCHANGED builds => BuildsKept
  BY DEF BuildsKept

LEMMA IngressEffect ==
  ASSUME TypeOK, NEW p \in Processes, NEW x \in Patches, Ingress(p, x)
  PROVE  Leases \/ Refuses(x) \/ Accepts(x)
<1>1. CASE IngressRejected(p, x)
  <2>1. WayKept
    BY <1>1, WayNow, FewerOnTheWay DEF IngressRejected, memory, control
  <2>2. StatusSet(x, "Rejected") /\ Status(x) = "none"
    BY <1>1 DEF IngressRejected, StatusSet, Status, TypeOK, PatchRow
  <2> QED
    BY <1>1, <2>1, <2>2, SameBuilds DEF IngressRejected, Refuses, ControlKept, control, history
<1>2. CASE IngressAccepted(p, x)
  <2>1. CASE TasksOf[x] = {}
    <3>1. StatusSet(x, "Validating")
      BY <1>2, <2>1 DEF IngressAccepted, StatusSet, Status, TypeOK, PatchRow
    <3>2. RowsOf(x) = {}
      BY <2>1 DEF RowsOf, Rows
    <3>3. \A y \in Patches : OnTheWay(y)' => OnTheWay(y) \/ y = x
      BY <1>2, <2>1 DEF IngressAccepted, OnTheWay, control
    <3>4. OthersBuildsKept(x)
      BY <1>2 DEF IngressAccepted, OthersBuildsKept
    <3> QED
      BY <1>2, <3>1, <3>2, <3>3, <3>4 DEF IngressAccepted, Accepts, Status, control
  <2>2. CASE TasksOf[x] # {}
    <3>1. StatusSet(x, "Building")
      BY <1>2, <2>2 DEF IngressAccepted, StatusSet, Status, TypeOK, PatchRow
    <3>2. WayKept
      BY <1>2, <2>2, WayNow, FewerOnTheWay DEF IngressAccepted, control
    <3>3. OthersBuildsKept(x)
      BY <1>2 DEF IngressAccepted, OthersBuildsKept
    <3> QED
      BY <1>2, <3>1, <3>2, <3>3 DEF IngressAccepted, Accepts, Status, control
  <2> QED
    BY <2>1, <2>2
<1>3. CASE IngressReplayed(p, x)
  <2>1. WayKept
    BY <1>3, WayNow, FewerOnTheWay DEF IngressReplayed, vars, memory, control
  <2> QED
    BY <1>3, <2>1, SameStatus, SameBuilds, QuietLeases
    DEF IngressReplayed, vars, tables, control, history, ControlKept
<1> QED
  BY <1>1, <1>2, <1>3 DEF Ingress

LEMMA RequestEffect ==
  ASSUME TypeOK, NEW req \in requests, RequestStep(req)
  PROVE  Leases \/ Submits(req.patch)
<1>1. OnTheWay(req.patch) /\ req.patch \in Patches
  BY WayNow DEF TypeOK
<1>2. CASE RequestSends(req)
  <2>1. \A other \in requests' : OnTheWay(other.patch)
    <3>1. [req EXCEPT !.at = "sent"].patch = req.patch
      BY DEF TypeOK
    <3> QED
      BY <1>1, <1>2, <3>1, WayNow DEF RequestSends
  <2>2. WayKept
    BY <1>1, <1>2, <2>1, WayNow, FewerOnTheWay DEF RequestSends
  <2> QED
    BY <1>2, <2>2, SameStatus, SameBuilds, QuietLeases
    DEF RequestSends, tables, history, ControlKept
<1>3. CASE RequestSendFails(req) \/ RequestFails(req)
  <2>1. WayKept
    BY <1>3, WayNow, FewerOnTheWay DEF RequestSendFails, RequestFails, Leave, control
  <2> QED
    BY <1>3, <2>1, SameStatus, SameBuilds, QuietLeases
    DEF RequestSendFails, RequestFails, tables, control, history, ControlKept
<1>4. CASE mark_patch_submitted(req)
  <2>1. WayKept
    BY <1>4, WayNow, FewerOnTheWay DEF mark_patch_submitted, Leave, control
  <2>2. BuildsKept /\ ControlKept
    BY <1>4, SameBuilds DEF mark_patch_submitted, control, history, ControlKept
  <2>3. CASE Relayable(req.patch)
    <3>1. StatusSet(req.patch, "Submitted")
      BY <1>1, <1>4, <2>3 DEF mark_patch_submitted, Relayable, Status, StatusSet, TypeOK, PatchRow
    <3> QED
      BY <1>1, <2>1, <2>2, <2>3, <3>1 DEF Submits
  <2>4. CASE ~Relayable(req.patch)
    BY <1>4, <2>1, <2>2, <2>4, SameStatus, QuietLeases DEF mark_patch_submitted, Relayable, Status
  <2> QED
    BY <2>3, <2>4
<1> QED
  BY <1>2, <1>3, <1>4 DEF RequestStep

LEMMA ScanLifecycleEffect ==
  ASSUME Typed, NEW p \in Processes, ScanLifecycle(p)
  PROVE  Leases
<1>1. PICK batch \in Batch({x \in Patches : LifecycleEligible(x)}) :
        /\ patches' = [x \in Patches |-> IF x \in batch THEN Granted(patches[x], p, LifecycleToken(x))
                                                        ELSE patches[x]]
        /\ outbox' = [outbox EXCEPT ![p] =
             {[patch |-> x, token |-> LifecycleToken(x),
               at |-> "leased", fresh |-> TRUE] : x \in batch}]
  BY DEF ScanLifecycle
<1>2. \A x \in batch : x \in Patches /\ Relayable(x)
  BY BatchEligible DEF LifecycleEligible, Relayable, Status
<1>3. \A x \in batch : Granted(patches[x], p, LifecycleToken(x)).status = patches[x].status
  BY <1>2, LifecycleTokenType, GrantedType DEF Typed, TypeOK
<1>4. StatusKept
  BY <1>1, <1>3 DEF StatusKept, Status
<1>5. \A q \in Processes : \A sub \in outbox'[q] : sub \in outbox[q] \/ Relayable(sub.patch)
  BY <1>1, <1>2 DEF Typed, TypeOK
<1>6. \A x \in Patches : OnTheWay(x)' => OnTheWay(x) \/ Relayable(x)
  <2> SUFFICES ASSUME NEW x \in Patches, OnTheWay(x)', ~Relayable(x) PROVE OnTheWay(x)
    OBVIOUS
  <2>1. UNCHANGED <<envelopes, requests, jobs>>
    BY DEF ScanLifecycle, control
  <2>2. CASE \E q \in Processes : \E sub \in outbox'[q] : sub.patch = x
    BY <1>5, <2>2 DEF OnTheWay
  <2>3. CASE ~\E q \in Processes : \E sub \in outbox'[q] : sub.patch = x
    BY <2>1, <2>3 DEF OnTheWay
  <2> QED
    BY <2>2, <2>3
<1> QED
  BY <1>4, <1>6, SameBuilds DEF ScanLifecycle, Leases, ControlKept, control, history

LEMMA LifecycleEffect ==
  ASSUME TypeOK, NEW p \in Processes, NEW sub \in outbox[p], LifecycleStep(p, sub)
  PROVE  Leases \/ Submits(sub.patch)
<1>1. OnTheWay(sub.patch) /\ sub.patch \in Patches
  BY WayNow DEF TypeOK
<1>2. CASE Redrive(p, sub)
  <2> DEFINE fresh == Unexpired(patches[sub.patch], sub.token)
             new   == [sub EXCEPT !.at = "sent", !.fresh = fresh]
  <2>1. new.patch = sub.patch
    BY DEF TypeOK
  <2>2. outbox' = [outbox EXCEPT ![p] = (@ \ {sub}) \cup {new}]
    BY <1>2 DEF Redrive
  <2> HIDE DEF new
  <2>3. \A q \in Processes : \A other \in outbox'[q] : OnTheWay(other.patch)
    BY <1>1, <2>1, <2>2, WayNow DEF TypeOK
  <2>4. WayKept
    BY <1>1, <1>2, <2>3, WayNow, FewerOnTheWay DEF Redrive
  <2> QED
    BY <1>2, <2>4, SameStatus, SameBuilds, QuietLeases DEF Redrive, tables, history, ControlKept
<1>3. ASSUME Done(p, sub), UNCHANGED <<envelopes, requests, jobs>> PROVE WayKept
  <2>1. \A q \in Processes : \A other \in outbox'[q] : other \in outbox[q]
    BY <1>3 DEF Done, TypeOK
  <2> QED
    BY <1>3, <2>1, WayNow, FewerOnTheWay
<1>4. CASE RedriveFails(p, sub)
  <2>1. StatusKept
    BY <1>1, <1>4 DEF RedriveFails, StatusKept, Status, TypeOK, PatchRow
  <2> QED
    BY <1>3, <1>4, <2>1, SameBuilds, QuietLeases DEF RedriveFails, control, history, ControlKept
<1>5. CASE settle_leased_patch_submission(p, sub)
  <2>1. WayKept /\ BuildsKept /\ ControlKept
    BY <1>3, <1>5, SameBuilds DEF settle_leased_patch_submission, control, history, ControlKept
  <2>2. CASE SubmissionAccepted(p, sub)
    <3>1. Relayable(sub.patch)
      BY <2>2 DEF SubmissionAccepted, Relayable, Status
    <3>2. StatusSet(sub.patch, "Submitted")
      BY <1>1, <1>5, <2>2 DEF settle_leased_patch_submission, Status, StatusSet, TypeOK, PatchRow
    <3> QED
      BY <1>1, <2>1, <3>1, <3>2 DEF Submits
  <2>3. CASE ~SubmissionAccepted(p, sub)
    BY <1>5, <2>1, <2>3, SameStatus, QuietLeases DEF settle_leased_patch_submission
  <2> QED
    BY <2>2, <2>3
<1> QED
  BY <1>2, <1>4, <1>5 DEF LifecycleStep

LEMMA ScanBuildsEffect ==
  ASSUME Typed, NEW p \in Processes, ScanBuilds(p)
  PROVE  Leases
<1>1. PICK batch \in Batch({r \in Rows : BuildEligible(r)}) :
        /\ builds' = [r \in Rows |-> IF r \in batch THEN Granted(builds[r], p, BuildToken(r))
                                                    ELSE builds[r]]
        /\ jobs' = [jobs EXCEPT ![p] =
             {[row |-> r, token |-> BuildToken(r),
               at |-> "building", fresh |-> TRUE] : r \in batch}]
  BY DEF ScanBuilds
<1>2. batch \subseteq Rows
  BY BatchEligible
<1>3. \A r \in batch : Granted(builds[r], p, BuildToken(r)).status = builds[r].status
  BY <1>2, BuildTokenType, GrantedType DEF Typed, TypeOK
<1>4. BuildsKept
  BY <1>1, <1>3 DEF BuildsKept
<1>5. \A q \in Processes : \A job \in jobs'[q] : job \in jobs[q] \/ job.at = "building"
  BY <1>1 DEF Typed, TypeOK
<1>6. WayKept
  BY <1>5, WayNow, FewerOnTheWay DEF ScanBuilds, control, Typed
<1> QED
  BY <1>4, <1>6, SameStatus, QuietLeases DEF ScanBuilds, ControlKept, control, history

LEMMA BuildEffect ==
  ASSUME TypeOK, NEW p \in Processes, NEW job \in jobs[p], BuildStep(p, job)
  PROVE  Leases \/ Records(job.row[1]) \/ Completes(job.row[1])
<1> DEFINE x == job.row[1]
<1>1. job.row \in Rows /\ x \in Patches
  BY RowType DEF TypeOK
<1>2. ASSUME NEW result \in {"success", "failure"}, BuildEnds(p, job, result)
      PROVE  Leases
  <2> DEFINE new == [job EXCEPT !.at = result, !.fresh = Unexpired(builds[job.row], job.token)]
  <2>1. new.at = result
    BY DEF TypeOK
  <2>2. jobs' = [jobs EXCEPT ![p] = (@ \ {job}) \cup {new}]
    BY <1>2 DEF BuildEnds, Replace
  <2> HIDE DEF new
  <2>3. \A q \in Processes : \A other \in jobs'[q] : other \in jobs[q] \/ other.at # "built"
    BY <2>1, <2>2 DEF TypeOK
  <2>4. WayKept
    BY <1>2, <2>3, WayNow, FewerOnTheWay DEF BuildEnds, control
  <2> QED
    BY <1>2, <2>4, SameStatus, SameBuilds, QuietLeases
    DEF BuildEnds, tables, control, history, ControlKept
<1>3. ASSUME Drop(p, job) PROVE \A q \in Processes : \A other \in jobs'[q] : other \in jobs[q]
  BY <1>3 DEF Drop, TypeOK
<1>4. CASE BuildSucceeds(p, job) \/ BuildFails(p, job)
  BY <1>2, <1>4 DEF BuildSucceeds, BuildFails
<1>5. CASE SettleRefused(p, job)
  <2>1. WayKept
    BY <1>3, <1>5, WayNow, FewerOnTheWay DEF SettleRefused, control
  <2> QED
    BY <1>5, <2>1, SameStatus, SameBuilds, QuietLeases
    DEF SettleRefused, tables, control, history, ControlKept
<1>6. ASSUME RecordResult(job)
      PROVE  OthersBuildsKept(x) /\ builds'[job.row].status = job.at
             /\ \A r \in Rows : r # job.row => builds'[r] = builds[r]
  BY <1>1, <1>6 DEF RecordResult, OthersBuildsKept, TypeOK, BuildRow
<1>7. CASE SettleAwaiting(p, job)
  <2>1. WayKept
    BY <1>3, <1>7, WayNow, FewerOnTheWay DEF SettleAwaiting, control
  <2>2. Status(x) = "Building" /\ StatusSet(x, "Building")
    BY <1>7 DEF SettleAwaiting, Settlement, Status, StatusSet
  <2> QED
    BY <1>6, <1>7, <2>1, <2>2 DEF SettleAwaiting, control, history, ControlKept, Records
<1>8. CASE SettleFailed(p, job)
  <2>1. WayKept
    BY <1>3, <1>8, WayNow, FewerOnTheWay DEF SettleFailed, control
  <2>2. Status(x) = "Building"
    BY <1>8 DEF SettleFailed, Settlement, Status
  <2>3. StatusSet(x, "BuildFailed")
    BY <1>1, <1>8 DEF SettleFailed, Status, StatusSet, TypeOK, PatchRow
  <2> QED
    BY <1>6, <1>8, <2>1, <2>2, <2>3 DEF SettleFailed, control, history, ControlKept, Records
<1>9. CASE SettleSubmitted(p, job)
  <2> DEFINE new == [job EXCEPT !.at = "built"]
  <2>1. new.row[1] = x
    BY DEF TypeOK
  <2>2. jobs' = [jobs EXCEPT ![p] = (@ \ {job}) \cup {new}]
    BY <1>9 DEF SettleSubmitted, Replace
  <2> HIDE DEF new
  <2>3. \A q \in Processes : \A other \in jobs'[q] : other \in jobs[q] \/ other.row[1] = x
    BY <2>1, <2>2 DEF TypeOK
  <2> HIDE DEF x
  <2>4. \A y \in Patches : OnTheWay(y)' => OnTheWay(y) \/ y = x
    BY <1>9, <2>3 DEF SettleSubmitted, control, OnTheWay
  <2>5. /\ Status(x) = "Building" /\ job.at = "success"
        /\ \A r \in RowsOf(x) \ {job.row} : builds[r].status = "success"
    BY <1>9 DEF SettleSubmitted, Ended, Settlement, Status, x
  <2>6. StatusSet(x, "Submitted")
    BY <1>1, <1>9 DEF SettleSubmitted, Status, StatusSet, TypeOK, PatchRow, x
  <2>7. Built(x)'
    BY <1>6, <1>9, <2>5 DEF SettleSubmitted, Built, RowsOf
  <2> QED
    BY <1>6, <1>9, <2>4, <2>5, <2>6, <2>7
    DEF SettleSubmitted, control, history, ControlKept, Completes, x
<1>10. CASE WinnerSends(p, job) \/ WinnerSendFails(p, job)
  <2>1. OnTheWay(x)
    BY <1>10, WayNow DEF WinnerSends, WinnerSendFails
  <2>2. WayKept
    BY <1>3, <1>10, <2>1, WayNow, FewerOnTheWay DEF WinnerSends, WinnerSendFails, control
  <2> QED
    BY <1>10, <2>2, SameStatus, SameBuilds, QuietLeases
    DEF WinnerSends, WinnerSendFails, tables, control, history, ControlKept
<1> QED
  BY <1>4, <1>5, <1>7, <1>8, <1>9, <1>10 DEF BuildStep, SettleBuild

LEMMA DecideEffect ==
  ASSUME TypeOK, NEW x \in Patches, Decide(x)
  PROVE  Decides(x)
<1>1. WayKept
  BY WayNow, FewerOnTheWay DEF Decide, memory
<1>2. OnTheWay(x) /\ StatusKept /\ BuildsKept
  BY WayNow, SameStatus, SameBuilds DEF Decide, tables
<1>3. PICK v : /\ verdict' = [verdict EXCEPT ![x] = v]
               /\ v \in IF verdict[x] # "none" THEN {verdict[x]}
                        ELSE IF InstanceOf[x] \in ended THEN {"Rejected"}
                        ELSE {"Applied", "Rejected"}
  BY DEF Decide
<1>4. /\ verdict'[x] = v /\ \A y \in Patches : y # x => verdict'[y] = verdict[y]
      /\ v \in {"Applied", "Rejected"}
      /\ Decided(x) => v = verdict[x]
      /\ verdict[x] # "Applied" /\ InstanceOf[x] \in ended => v # "Applied"
  BY <1>3 DEF TypeOK, Decided
<1> QED
  BY <1>1, <1>2, <1>4 DEF Decide, Decides, tables, history

LEMMA CorrelateEffect ==
  ASSUME TypeOK, OutcomeIsVerdict, NEW x \in Patches, correlate_outcome(x)
  PROVE  Leases \/ Correlates(x)
<1>1. WayKept
  BY WayNow, FewerOnTheWay DEF correlate_outcome, memory
<1>2. BuildsKept /\ ControlKept /\ Decided(x)
  BY SameBuilds DEF correlate_outcome, history, ControlKept, OutcomeIsVerdict
<1>3. CASE Status(x) \in Unsettled
  <2>1. StatusSet(x, verdict[x])
    BY <1>3 DEF correlate_outcome, Status, StatusSet, TypeOK, PatchRow
  <2> QED
    BY <1>1, <1>2, <1>3, <2>1 DEF Correlates
<1>4. CASE Status(x) \notin Unsettled
  BY <1>1, <1>2, <1>4, SameStatus, QuietLeases DEF correlate_outcome, Status
<1> QED
  BY <1>3, <1>4

LEMMA OtherEffects ==
  ASSUME TypeOK
  PROVE  /\ \A x \in Patches : LifecycleLeaseExpires(x) => Leases
         /\ \A r \in Rows : BuildLeaseExpires(r) => Leases
         /\ \A i \in Instances : InstanceEnds(i) => Ends
         /\ \A i \in Instances : audit_patch_settlement(i) => Audits(i)
         /\ RelayLoses => Leases
         /\ \A p \in Processes : WorkerFails(p) \/ Crash(p) \/ Restart(p) => Leases
         /\ UNCHANGED vars => Leases
<1>1. ASSUME NEW x \in Patches, LifecycleLeaseExpires(x) PROVE Leases
  <2>1. StatusKept
    BY <1>1 DEF LifecycleLeaseExpires, StatusKept, Status, TypeOK, PatchRow
  <2>2. WayKept
    BY <1>1, WayNow, FewerOnTheWay DEF LifecycleLeaseExpires, memory, control
  <2> QED
    BY <1>1, <2>1, <2>2, SameBuilds, QuietLeases DEF LifecycleLeaseExpires, control, history, ControlKept
<1>2. ASSUME NEW r \in Rows, BuildLeaseExpires(r) PROVE Leases
  <2>1. BuildsKept
    BY <1>2 DEF BuildLeaseExpires, BuildsKept, TypeOK, BuildRow
  <2>2. WayKept
    BY <1>2, WayNow, FewerOnTheWay DEF BuildLeaseExpires, memory, control
  <2> QED
    BY <1>2, <2>1, <2>2, SameStatus, QuietLeases DEF BuildLeaseExpires, control, history, ControlKept
<1>3. ASSUME NEW i \in Instances, InstanceEnds(i) PROVE Ends
  <2>1. WayKept
    BY <1>3, WayNow, FewerOnTheWay DEF InstanceEnds, memory
  <2> QED
    BY <1>3, <2>1, SameStatus, SameBuilds DEF InstanceEnds, tables, history, Ends
<1>4. ASSUME NEW i \in Instances, audit_patch_settlement(i) PROVE Audits(i)
  <2>1. WayKept
    BY <1>4, WayNow, FewerOnTheWay DEF audit_patch_settlement, memory, control
  <2> QED
    BY <1>4, <2>1, SameStatus, SameBuilds DEF audit_patch_settlement, control, Audits
<1>5. ASSUME RelayLoses PROVE Leases
  <2>1. WayKept
    BY <1>5, WayNow, FewerOnTheWay DEF RelayLoses, memory
  <2> QED
    BY <1>5, <2>1, SameStatus, SameBuilds, QuietLeases DEF RelayLoses, tables, history, ControlKept
<1>6. ASSUME NEW p \in Processes, WorkerFails(p) \/ Crash(p) \/ Restart(p) PROVE Leases
  <2>1. /\ requests' \subseteq requests /\ UNCHANGED envelopes
        /\ \A q \in Processes : outbox'[q] \subseteq outbox[q] /\ jobs'[q] \subseteq jobs[q]
    BY <1>6 DEF WorkerFails, Crash, Restart, control, TypeOK
  <2>2. WayKept
    BY <2>1, WayNow, FewerOnTheWay
  <2> QED
    BY <1>6, <2>2, SameStatus, SameBuilds, QuietLeases
    DEF WorkerFails, Crash, Restart, tables, control, history, ControlKept
<1>7. ASSUME UNCHANGED vars PROVE Leases
  <2>1. WayKept
    BY <1>7, WayNow, FewerOnTheWay DEF vars, memory, control
  <2> QED
    BY <1>7, <2>1, SameStatus, SameBuilds, QuietLeases
    DEF vars, tables, control, history, ControlKept
<1> QED
  BY <1>1, <1>2, <1>3, <1>4, <1>5, <1>6, <1>7

-----------------------------------------------------------------------------
(* Every effect preserves the invariant *)

LEMMA BuiltKept == BuildsKept => \A x : Built(x)' = Built(x)
  BY DEF BuildsKept, Built, RowsOf

LEMMA OthersBuiltKept ==
  ASSUME NEW x, OthersBuildsKept(x)
  PROVE  \A y : y # x => Built(y)' = Built(y)
  BY DEF OthersBuildsKept, Built, RowsOf

(* A Patch without a row is neither on the way nor decided, and so is one     *)
(* that builds.                                                               *)
LEMMA NotSent ==
  ASSUME Typed, PatchInv, NEW x \in Patches,
         Status(x) \in {"none", "Building", "BuildFailed"}
  PROVE  ~OnTheWay(x) /\ ~Decided(x)
<1>1. verdict[x] \in {"none", "Applied", "Rejected"}
  BY DEF Typed, TypeOK
<1> QED
  BY <1>1 DEF PatchInv, SentIsRelayed, Relayable, Decided

(* What must hold of every Patch by itself. *)
Sound(x) ==
  /\ Status(x) \in {"Validating", "Submitted"} => Built(x)
  /\ OnTheWay(x) \/ Decided(x) => Built(x)
  /\ OnTheWay(x) \/ Decided(x) => Relayable(x) \/ (Decided(x) /\ Status(x) = verdict[x])
  /\ x \in outcomes => Decided(x)
  /\ Status(x) = "Applied" => verdict[x] = "Applied"

LEMMA SoundIs ==
  /\ PatchInv => \A x \in Patches : Sound(x)
  /\ TypeOK /\ (\A x \in Patches : Sound(x)) =>
       /\ ValidatesWithoutTasks /\ SubmittedIsBuilt /\ SentIsBuilt /\ SentIsRelayed
       /\ OutcomeIsVerdict /\ AppliedIsVerdict
  BY DEF PatchInv, Sound, ValidatesWithoutTasks, SubmittedIsBuilt, SentIsBuilt, SentIsRelayed,
         OutcomeIsVerdict, AppliedIsVerdict, TypeOK

(* A Patch a step leaves alone stays sound. *)
LEMMA SoundKept ==
  ASSUME NEW x, Sound(x), Status(x)' = Status(x), Built(x)' = Built(x),
         OnTheWay(x)' => OnTheWay(x) \/ Relayable(x), verdict'[x] = verdict[x],
         x \in outcomes' => x \in outcomes
  PROVE  Sound(x)'
  BY DEF Sound, Relayable, Decided

LEMMA SoundNext ==
  ASSUME Typed, PatchInv, NEW y \in Patches,
         \/ Leases \/ Ends \/ \E i : Audits(i)
         \/ \E x \in Patches : Submits(x) \/ Refuses(x) \/ Accepts(x) \/ Records(x)
                               \/ Completes(x) \/ Decides(x) \/ Correlates(x)
  PROVE  Sound(y)'
<1>1. Sound(y)
  BY SoundIs
<1>2. verdict[y] \in {"none", "Applied", "Rejected"}
  BY DEF Typed, TypeOK
<1>3. CASE Leases \/ Ends \/ \E i : Audits(i)
  BY <1>1, <1>3, BuiltKept, SoundKept
  DEF Leases, Ends, Audits, StatusKept, WayKept, ControlKept
<1>4. ASSUME NEW x \in Patches, x # y,
             Submits(x) \/ Refuses(x) \/ Accepts(x) \/ Records(x)
             \/ Completes(x) \/ Decides(x) \/ Correlates(x)
      PROVE  Sound(y)'
  <2>1. Status(y)' = Status(y) /\ verdict'[y] = verdict[y]
    BY <1>4 DEF Submits, Refuses, Accepts, Records, Completes, Decides, Correlates,
                StatusSet, StatusKept, ControlKept
  <2>2. Built(y)' = Built(y)
    BY <1>4, BuiltKept, OthersBuiltKept
    DEF Submits, Refuses, Accepts, Records, Completes, Decides, Correlates
  <2>3. (OnTheWay(y)' => OnTheWay(y)) /\ (y \in outcomes' => y \in outcomes)
    BY <1>4 DEF Submits, Refuses, Accepts, Records, Completes, Decides, Correlates,
                WayKept, ControlKept
  <2> QED
    BY <1>1, <2>1, <2>2, <2>3, SoundKept
<1>5. CASE Submits(y)
  BY <1>1, <1>5, BuiltKept
  DEF Submits, Sound, StatusSet, WayKept, ControlKept, Relayable, Decided
<1>6. CASE Refuses(y)
  BY <1>1, <1>6, NotSent, BuiltKept
  DEF Refuses, Sound, StatusSet, WayKept, ControlKept, Decided
<1>7. CASE Accepts(y)
  <2>1. ~OnTheWay(y) /\ ~Decided(y) /\ ~Decided(y)' /\ y \notin outcomes'
    BY <1>1, <1>7, NotSent DEF Accepts, Decided, Sound
  <2>2. CASE StatusSet(y, "Building") /\ WayKept
    BY <2>1, <2>2 DEF StatusSet, WayKept, Sound
  <2>3. CASE StatusSet(y, "Validating") /\ RowsOf(y) = {}
    <3>1. Built(y)'
      BY <2>3 DEF Built, RowsOf
    <3> QED
      BY <2>1, <2>3, <3>1 DEF StatusSet, Sound, Relayable
  <2> QED
    BY <1>7, <2>2, <2>3 DEF Accepts
<1>8. CASE Records(y)
  BY <1>1, <1>8, NotSent DEF Records, Sound, StatusSet, WayKept, ControlKept, Decided
<1>9. CASE Completes(y)
  BY <1>1, <1>9, NotSent DEF Completes, Sound, StatusSet, ControlKept, Decided, Relayable
<1>10. CASE Decides(y)
  BY <1>1, <1>2, <1>10, BuiltKept DEF Decides, Sound, StatusKept, WayKept, Decided, Relayable
<1>11. CASE Correlates(y)
  BY <1>1, <1>2, <1>11, BuiltKept
  DEF Correlates, Sound, StatusSet, WayKept, ControlKept, Decided, Relayable
<1> QED
  BY <1>3, <1>4, <1>5, <1>6, <1>7, <1>8, <1>9, <1>10, <1>11

(* One step's effect, with the Patch or instance it is about. *)
Effect ==
  \/ Leases \/ Ends \/ \E i : Audits(i)
  \/ \E x \in Patches : Submits(x) \/ Refuses(x) \/ Accepts(x) \/ Records(x)
                        \/ Completes(x) \/ Decides(x) \/ Correlates(x)

LEMMA NextEffect ==
  ASSUME Typed, PatchInv, [Next]_vars
  PROVE  Effect
<1>1. TypeOK /\ OutcomeIsVerdict
  BY DEF Typed, PatchInv
<1>2. ASSUME NEW p \in Processes, NEW x \in Patches, Ingress(p, x) PROVE Effect
  BY <1>1, <1>2, IngressEffect DEF Effect
<1>3. ASSUME NEW p \in Processes, ScanLifecycle(p) \/ ScanBuilds(p) PROVE Effect
  BY <1>3, ScanLifecycleEffect, ScanBuildsEffect DEF Effect
<1>4. ASSUME NEW p \in Processes, NEW sub \in outbox[p], LifecycleStep(p, sub) PROVE Effect
  <2>1. sub.patch \in Patches
    BY <1>1 DEF TypeOK
  <2> QED
    BY <1>1, <1>4, <2>1, LifecycleEffect DEF Effect
<1>5. ASSUME NEW p \in Processes, NEW job \in jobs[p], BuildStep(p, job) PROVE Effect
  <2>1. job.row[1] \in Patches
    BY <1>1, RowType DEF TypeOK
  <2> QED
    BY <1>1, <1>5, <2>1, BuildEffect DEF Effect
<1>6. ASSUME NEW p \in Processes, WorkerFails(p) \/ Crash(p) \/ Restart(p) PROVE Effect
  BY <1>1, <1>6, OtherEffects DEF Effect
<1>7. ASSUME NEW req \in requests, RequestStep(req) PROVE Effect
  <2>1. req.patch \in Patches
    BY <1>1 DEF TypeOK
  <2> QED
    BY <1>1, <1>7, <2>1, RequestEffect DEF Effect
<1>8. ASSUME NEW x \in Patches, Decide(x) \/ correlate_outcome(x) \/ LifecycleLeaseExpires(x)
      PROVE  Effect
  BY <1>1, <1>8, DecideEffect, CorrelateEffect, OtherEffects DEF Effect
<1>9. ASSUME NEW r \in Rows, BuildLeaseExpires(r) PROVE Effect
  BY <1>1, <1>9, OtherEffects DEF Effect
<1>10. ASSUME NEW i \in Instances, InstanceEnds(i) \/ audit_patch_settlement(i) PROVE Effect
  BY <1>1, <1>10, OtherEffects DEF Effect
<1>11. CASE RelayLoses \/ UNCHANGED vars
  BY <1>1, <1>11, OtherEffects DEF Effect
<1> QED
  BY <1>2, <1>3, <1>4, <1>5, <1>6, <1>7, <1>8, <1>9, <1>10, <1>11 DEF Next

(* How the status of one Patch may move. *)
Moves(x) ==
  \/ Status(x)' = Status(x)
  \/ Status(x) = "none" /\ Status(x)' = "Rejected"
  \/ Status(x) \in Unsettled /\ Status(x)' = "Submitted"
  \/ Status(x) = "Building" /\ Status(x)' = "BuildFailed"
  \/ Status(x) \in Unsettled /\ Decided(x) /\ Status(x)' = verdict[x]

LEMMA StatusMoves ==
  ASSUME Effect
  PROVE  \/ \E x \in Patches : Accepts(x)
         \/ (\A x \in Patches : Moves(x)) /\ UNCHANGED order
<1>1. CASE Leases \/ Ends \/ \E i : Audits(i)
  BY <1>1 DEF Leases, Ends, Audits, StatusKept, ControlKept, Moves
<1>2. ASSUME NEW x \in Patches,
             Submits(x) \/ Refuses(x) \/ Records(x) \/ Completes(x) \/ Decides(x) \/ Correlates(x)
      PROVE  (\A y \in Patches : Moves(y)) /\ UNCHANGED order
  <2>1. UNCHANGED order
    BY <1>2 DEF Submits, Refuses, Records, Completes, Decides, Correlates, ControlKept
  <2>2. ASSUME NEW y \in Patches, y # x PROVE Moves(y)
    BY <1>2, <2>2
    DEF Submits, Refuses, Records, Completes, Decides, Correlates, StatusSet, StatusKept, Moves
  <2>3. Moves(x)
    BY <1>2 DEF Submits, Refuses, Records, Completes, Decides, Correlates, Relayable,
                StatusSet, StatusKept, Moves, Unsettled
  <2> QED
    BY <2>1, <2>2, <2>3
<1> QED
  BY <1>1, <1>2 DEF Effect

(* A verdict, once given, stays. *)
LEMMA VerdictStays ==
  ASSUME Typed, Effect, NEW x \in Patches, Decided(x)
  PROVE  verdict'[x] = verdict[x]
  BY DEF Effect, Leases, Ends, Audits, Submits, Refuses, Accepts, Records, Completes,
         Decides, Correlates, ControlKept, Decided

(* A Patch that was closed stays closed. *)
LEMMA ClosedStays ==
  ASSUME Typed, PatchInv, Effect, NEW x \in Patches, Closed(x)
  PROVE  Closed(x)'
<1>1. CASE Decided(x)
  BY <1>1, VerdictStays DEF Closed, Decided
<1>2. CASE Status(x) = "BuildFailed"
  <2>1. CASE \E y \in Patches : Accepts(y)
    BY <1>2, <2>1 DEF Accepts, StatusSet, Closed
  <2>2. CASE Moves(x)
    BY <1>2, <2>2 DEF Moves, Closed, Unsettled
  <2> QED
    BY <2>1, <2>2, StatusMoves
<1> QED
  BY <1>1, <1>2 DEF Closed

LEMMA NextOne ==
  ASSUME Typed, PatchInv, Effect
  PROVE  OnePatchAtATime'
<1>1. \A x, y \in Patches : InstanceOf[x] = InstanceOf[y] /\ Status(x) \in Unsettled
                              /\ Status(y) \in Unsettled => x = y
  BY DEF PatchInv, OnePatchAtATime, Status
<1>2. SUFFICES ASSUME NEW x \in Patches, NEW y \in Patches, InstanceOf[x] = InstanceOf[y],
                      Status(x)' \in Unsettled, Status(y)' \in Unsettled
               PROVE  x = y
  BY DEF OnePatchAtATime, Status
<1>3. CASE \E a \in Patches : Accepts(a)
  <2>1. PICK a \in Patches : Accepts(a)
    BY <1>3
  <2>2. \A b \in Patches : InstanceOf[b] = InstanceOf[a] => Status(b) \notin Unsettled
    BY <2>1 DEF Accepts, SiblingUnsettled, Status
  <2>3. \A b \in Patches : b # a => Status(b)' = Status(b)
    BY <2>1 DEF Accepts, StatusSet
  <2> QED
    BY <1>1, <1>2, <2>2, <2>3
<1>4. CASE \A a \in Patches : Moves(a)
  <2>1. ASSUME NEW a \in Patches, Status(a)' \in Unsettled PROVE Status(a) \in Unsettled
    BY <1>4, <2>1 DEF Moves, Unsettled
  <2> QED
    BY <1>1, <1>2, <2>1
<1> QED
  BY <1>3, <1>4, StatusMoves

LEMMA NextOrder ==
  ASSUME Typed, PatchInv, Effect
  PROVE  AcceptedIsKnown' /\ EarlierIsClosed'
<1>1. order \in Seq(Patches) /\ \A k \in DOMAIN order : order[k] \in Patches
  BY DEF Typed, TypeOK
<1>2. \A x \in Patches : Closed(x) => Closed(x)'
  BY ClosedStays
<1>3. ASSUME NEW x \in Patches, Status(x) \in Unsettled \/ Closed(x), Moves(x)
      PROVE  Status(x)' \in Unsettled \/ Closed(x)'
  BY <1>3, ClosedStays, VerdictStays DEF Moves, Closed, Unsettled, Decided
<1>4. CASE (\A x \in Patches : Moves(x)) /\ UNCHANGED order
  <2>1. ASSUME NEW k \in DOMAIN order, NEW x \in Patches, x = order[k]
        PROVE  Status(x)' \in Unsettled \/ Closed(x)'
    BY <1>3, <1>4, <2>1 DEF PatchInv, AcceptedIsKnown
  <2>2. AcceptedIsKnown'
    BY <1>1, <1>4, <2>1 DEF AcceptedIsKnown
  <2>3. EarlierIsClosed'
    BY <1>1, <1>2, <1>4 DEF PatchInv, EarlierIsClosed
  <2> QED
    BY <2>2, <2>3
<1>5. ASSUME NEW a \in Patches, Accepts(a) PROVE AcceptedIsKnown' /\ EarlierIsClosed'
  <2> DEFINE n == Len(order)
  <2>1. /\ n \in Nat /\ DOMAIN order = 1..n /\ DOMAIN order' = 1..(n + 1)
        /\ order'[n + 1] = a /\ \A k \in 1..n : order'[k] = order[k]
    BY <1>1, <1>5 DEF Accepts
  <2>2. Status(a)' \in Unsettled /\ \A b \in Patches : b # a => Status(b)' = Status(b)
    BY <1>5 DEF Accepts, StatusSet, Unsettled
  <2>3. \A b \in Patches : InstanceOf[b] = InstanceOf[a] => Status(b) \notin Unsettled
    BY <1>5 DEF Accepts, SiblingUnsettled, Status
  <2>4. ASSUME NEW k \in 1..n, NEW x \in Patches, x = order[k]
        PROVE  Status(x)' \in Unsettled \/ Closed(x)'
    BY <1>2, <2>1, <2>2, <2>4 DEF PatchInv, AcceptedIsKnown
  <2>5. AcceptedIsKnown'
    <3> SUFFICES ASSUME NEW k \in DOMAIN order'
                 PROVE  (Status(order[k]) \in Unsettled \/ Closed(order[k]))'
      BY DEF AcceptedIsKnown
    <3>1. CASE k = n + 1
      BY <2>1, <2>2, <3>1
    <3>2. CASE k \in 1..n
      BY <1>1, <2>1, <2>4, <3>2
    <3> QED
      BY <2>1, <3>1, <3>2
  <2>6. EarlierIsClosed'
    <3> SUFFICES ASSUME NEW k \in DOMAIN order', NEW j \in 1..(k - 1),
                        InstanceOf[order'[j]] = InstanceOf[order'[k]]
                 PROVE  Closed(order[j])'
      BY DEF EarlierIsClosed
    <3>1. j \in 1..n /\ order'[j] = order[j] /\ order[j] \in Patches
      BY <1>1, <2>1
    <3>2. Closed(order[j])
      <4>1. CASE k = n + 1
        BY <2>1, <2>3, <3>1, <4>1 DEF PatchInv, AcceptedIsKnown
      <4>2. CASE k \in 1..n
        BY <2>1, <3>1, <4>2 DEF PatchInv, EarlierIsClosed
      <4> QED
        BY <2>1, <4>1, <4>2
    <3>3. PICK x \in Patches : x = order[j]
      BY <3>1
    <3>4. Closed(x)'
      BY <1>2, <3>2, <3>3
    <3> QED
      BY <3>1, <3>3, <3>4
  <2> QED
    BY <2>5, <2>6
<1> QED
  BY <1>4, <1>5, StatusMoves

LEMMA NextAudit ==
  ASSUME Typed, PatchInv, Effect, \A x \in Patches : Sound(x)'
  PROVE  AuditedEnded' /\ AuditFindsAll'
<1>1. AuditedEnded'
  BY DEF PatchInv, AuditedEnded, Effect, Leases, Ends, Audits, Submits, Refuses, Accepts,
         Records, Completes, Decides, Correlates, ControlKept
<1>2. SUFFICES ASSUME NEW x \in Patches, InstanceOf[x] \in audited', x \notin discrepancies'
               PROVE  (Status(x)' = "Applied") = (verdict'[x] = "Applied")
  BY <1>1 DEF AuditFindsAll, Status
<1>3. discrepancies \subseteq discrepancies'
  BY DEF Effect, Leases, Ends, Audits, Submits, Refuses, Accepts,
         Records, Completes, Decides, Correlates, ControlKept
<1>4. Status(x)' = "Applied" => verdict'[x] = "Applied"
  BY DEF Sound
<1>5. CASE InstanceOf[x] \in audited
  <2>1. (Status(x) = "Applied") = (verdict[x] = "Applied") /\ InstanceOf[x] \in ended
    BY <1>2, <1>3, <1>5 DEF PatchInv, AuditFindsAll, AuditedEnded, Status
  <2>2. CASE Status(x) = "Applied"
    <3>1. Status(x)' = "Applied"
      BY <2>2, StatusMoves DEF Accepts, StatusSet, Moves, Unsettled
    <3> QED
      BY <1>4, <3>1
  <2>3. CASE Status(x) # "Applied"
    <3>1. verdict'[x] # "Applied"
      BY <2>1, <2>3 DEF Effect, Leases, Ends, Audits, Submits, Refuses, Accepts, Records,
                        Completes, Decides, Correlates, ControlKept
    <3> QED
      BY <1>4, <3>1
  <2> QED
    BY <2>2, <2>3
<1>6. ASSUME InstanceOf[x] \notin audited, NEW i, Audits(i)
      PROVE  (Status(x)' = "Applied") = (verdict'[x] = "Applied")
  <2>1. InstanceOf[x] = i /\ Status(x)' = Status(x) /\ verdict' = verdict
    BY <1>2, <1>6 DEF Audits, StatusKept
  <2>2. x \notin patch_discrepancy_detail(i)
    BY <1>2, <1>6 DEF Audits
  <2>3. Status(x) \notin Unsettled
    BY <2>1, <2>2 DEF patch_discrepancy_detail, Status
  <2>4. verdict[x] = "Applied" => Status(x) = "Applied"
    BY <2>3 DEF PatchInv, SentIsRelayed, Relayable, Decided, Unsettled
  <2> QED
    BY <1>4, <2>1, <2>4
<1>7. ASSUME ~\E i : Audits(i) PROVE audited' = audited
  BY <1>7 DEF Effect, Leases, Ends, Submits, Refuses, Accepts, Records, Completes, Decides,
              Correlates, ControlKept
<1> QED
  BY <1>2, <1>5, <1>6, <1>7

LEMMA NextInv ==
  ASSUME Typed, Typed', PatchInv, [Next]_vars
  PROVE  PatchInv'
<1>1. Effect
  BY NextEffect
<1>2. \A x \in Patches : Sound(x)'
  BY <1>1, SoundNext DEF Effect
<1>3. /\ ValidatesWithoutTasks' /\ SubmittedIsBuilt' /\ SentIsBuilt' /\ SentIsRelayed'
      /\ OutcomeIsVerdict' /\ AppliedIsVerdict'
  BY <1>2 DEF Typed, TypeOK, Sound, ValidatesWithoutTasks, SubmittedIsBuilt, SentIsBuilt,
              SentIsRelayed, OutcomeIsVerdict, AppliedIsVerdict
<1> QED
  BY <1>1, <1>2, <1>3, NextOne, NextOrder, NextAudit DEF PatchInv

LEMMA NextTyped ==
  ASSUME Typed, PatchInv, [Next]_vars
  PROVE  Typed'
<1>1. \A x \in Patches : x \in outcomes => verdict[x] # "none"
  BY DEF PatchInv, OutcomeIsVerdict, Decided
<1>2. CASE UNCHANGED vars
  BY <1>2 DEF vars, tables, memory, control, history, Typed, TypeOK, FiniteWork
<1> QED
  BY <1>1, <1>2, IngressType, RequestType, ScanLifecycleType, LifecycleType, ScanBuildsType,
     BuildType, ControlType, ProcessType DEF Next

LEMMA InitInv == Init => PatchInv
<1> SUFFICES ASSUME Init PROVE PatchInv
  OBVIOUS
<1>1. \A x \in Patches : Status(x) = "none" /\ ~OnTheWay(x) /\ ~Decided(x)
  BY DEF Init, Status, OnTheWay, Decided
<1>2. /\ ValidatesWithoutTasks /\ SubmittedIsBuilt /\ SentIsBuilt /\ SentIsRelayed
      /\ OutcomeIsVerdict /\ AppliedIsVerdict
  BY <1>1 DEF Init, ValidatesWithoutTasks, SubmittedIsBuilt, SentIsBuilt, SentIsRelayed,
              OutcomeIsVerdict, AppliedIsVerdict
<1>3. OnePatchAtATime
  BY <1>1 DEF OnePatchAtATime, Status, Unsettled
<1>4. AcceptedIsKnown /\ EarlierIsClosed /\ AuditedEnded /\ AuditFindsAll
  BY DEF Init, AcceptedIsKnown, EarlierIsClosed, AuditedEnded, AuditFindsAll
<1> QED
  BY <1>2, <1>3, <1>4 DEF PatchInv

(* The inductive invariant of the Patch pipeline, with its types. *)
THEOREM InvariantHolds == Spec => [](Typed /\ PatchInv)
<1>1. Init => Typed /\ PatchInv
  BY InitTyped, InitInv
<1>2. Typed /\ PatchInv /\ [Next]_vars => (Typed /\ PatchInv)'
  BY NextTyped, NextInv
<1> QED
  BY <1>1, <1>2, PTL DEF Spec

(* The tables, the worker's scan and the requests hold values of their types, *)
(* whatever the interleaving of requests, scans, crashes and outcomes.        *)
THEOREM TypeCorrect == Spec => []TypeOK
<1>1. Typed /\ PatchInv => TypeOK
  BY DEF Typed
<1> QED
  BY <1>1, InvariantHolds, PTL

(* ingress_patch admits a Patch only behind settled ones, so an instance      *)
(* never has two Patches on their way.                                        *)
THEOREM OneAtATime == Spec => []OnePatchAtATime
<1>1. Typed /\ PatchInv => OnePatchAtATime
  BY DEF PatchInv
<1> QED
  BY <1>1, InvariantHolds, PTL

(* settle_leased_patch_task_build: no envelope of a Patch with an unbuilt     *)
(* Task is sent or decided, by any of the three senders.                      *)
THEOREM BuiltBeforeSent == Spec => []SentOnlyWhenBuilt
<1>1. Typed /\ PatchInv => SentOnlyWhenBuilt
  BY DEF PatchInv, SentIsBuilt, SentOnlyWhenBuilt, Built, Decided, OnTheWay
<1> QED
  BY <1>1, InvariantHolds, PTL

(* The Control plane decides the Patches of an instance in the order ingress  *)
(* accepted them.                                                             *)
THEOREM OrderKept == Spec => []DecidedInOrder
<1>1. Typed /\ PatchInv => DecidedInOrder
  BY DEF PatchInv, EarlierIsClosed, DecidedInOrder, Closed, Decided, Status
<1> QED
  BY <1>1, InvariantHolds, PTL

(* audit_patch_settlement: after the audit of an ended instance every Patch   *)
(* whose ledger row disagrees with the Control plane stays flagged.           *)
THEOREM AuditComplete == Spec => []AuditFindsAll
<1>1. Typed /\ PatchInv => AuditFindsAll
  BY DEF PatchInv
<1> QED
  BY <1>1, InvariantHolds, PTL

(* A terminal row is never reopened, and Applied is told exactly of what the  *)
(* Control plane applied.                                                     *)
LEMMA NextLedger ==
  ASSUME Typed, PatchInv, [Next]_vars, NEW x \in Patches
  PROVE  /\ patches[x].status \in Terminal => patches'[x].status = patches[x].status
         /\ patches'[x].status = "Applied" => verdict'[x] = "Applied"
         /\ verdict'[x] = "Applied" => patches'[x].status \notin {"Rejected", "BuildFailed"}
<1>1. Effect
  BY NextEffect
<1>2. Sound(x)'
  BY <1>1, SoundNext DEF Effect
<1>3. Status(x) \in Terminal => Status(x)' = Status(x)
  BY <1>1, StatusMoves DEF Accepts, StatusSet, Moves, Unsettled, Terminal
<1>4. Status(x)' = "Applied" => verdict'[x] = "Applied"
  BY <1>2 DEF Sound
<1>5. verdict'[x] = "Applied" => Status(x)' \notin {"Rejected", "BuildFailed"}
  BY <1>2 DEF Sound, Decided, Relayable
<1> QED
  BY <1>3, <1>4, <1>5 DEF Status

(* correlate_outcome, mark_patch_submitted and the settlements: the status a  *)
(* submitter polls is the verdict, and nothing overwrites it.                 *)
THEOREM VerdictTold == Spec => LedgerTellsVerdict
<1>1. Typed /\ PatchInv /\ [Next]_vars =>
        [\A x \in Patches :
           /\ patches[x].status \in Terminal => patches'[x].status = patches[x].status
           /\ patches'[x].status = "Applied" => verdict'[x] = "Applied"
           /\ verdict'[x] = "Applied" => patches'[x].status \notin {"Rejected", "BuildFailed"}]_vars
  BY NextLedger
<1> QED
  BY <1>1, InvariantHolds, PTL DEF Spec, LedgerTellsVerdict
=============================================================================
