--------------------------- MODULE CompactionDrain ---------------------------
(***************************************************************************)
(* What Tickr Lite keeps of a finished run.  The executor launches one     *)
(* Task after another: each claim owns a Log staging journal, fed by the   *)
(* log shipper through a bounded buffer, and a grant with which its        *)
(* process changes the run's tickr-ctx scope.  When every Task of a run    *)
(* has an outcome the Control plane ships the run's Compaction envelope;   *)
(* the relay stages it and acknowledges, and the drain snapshots the scope,*)
(* seals the journals, installs the final Logs, commits the archive and    *)
(* only then removes scope, journals and envelope.                         *)
(*                                                                         *)
(* Any error of the drain ends the formation; a start of the formation     *)
(* first closes the journals the last one left open and finishes the       *)
(* drain's work.  The process may stop at any step.                        *)
(***************************************************************************)
EXTENDS LogStaging, SequencesExt

CONSTANTS Tasks,          \* task instances
          Runs,           \* workflow instances
          RunOf,          \* the run of each task instance
          Payloads,       \* the bytes an envelope may have
          Capacity,       \* records the shipper's buffer holds
          Output,         \* bound: chunks the process of each task writes
          Users,          \* the tasks whose process uses the tickr-ctx endpoint
          AppendFaults,   \* how an append to a journal may fail
          MaxFaults       \* bound: crashes, failed appends, launches and lost scopes

NoTask == "none"

ASSUME RunsAssumption == RunOf \in [Tasks -> Runs]
ASSUME SizeAssumption == Capacity \in Nat \ {0} /\ MaxFaults \in Nat
ASSUME ProcessAssumption == Output \in [Tasks -> Nat] /\ Users \subseteq Tasks
ASSUME NameAssumption == NoTask \notin Tasks /\ "none" \notin Payloads
ASSUME AppendAssumption == AppendFaults \subseteq {"lost", "unsynced", "torn", "garbled"}

VARIABLES
  phase,     \* the formation: "down", "journals", "recovering", "up"
  todo,      \* journals the start has yet to close
  exec,      \* what the executor loop is doing, and for which task
  ship,      \* the log shipper of the running task
  grants,    \* tasks whose process may use the tickr-ctx endpoint
  requests,  \* mutations of scopes accepted by the endpoint, not yet applied
  drain,     \* the drain: its step, its run, the streams it has yet to treat
  claim,     \* durable: the dispatch of each task
  journal,   \* durable: the staging journal of each task
  final,     \* durable: the final Log and exit metadata of each task
  scope,     \* durable: the tickr-ctx scope of each run
  staging,   \* durable: the staging row of each run
  order,     \* durable: the rows in the order they were staged
  archive,   \* durable: the archived run
  told,      \* per task: chunks read, records accepted, mutations sent and answered,
             \* and whether an append was cut short with more to follow
  acked,     \* per run: payloads acknowledged to the Control plane
  faults

volatile == <<phase, todo, exec, ship, grants, requests, drain>>
durable == <<claim, journal, final, scope, staging, order, archive>>
vars == <<volatile, durable, told, acked, faults>>

TasksOf(r) == {t \in Tasks : RunOf[t] = r}
Ops == {"put", "delete"}

Idle == [pc |-> "idle", task |-> NoTask]
NoShip == [next |-> 0, buf |-> <<>>, gaps |-> <<>>, item |-> Absent, open |-> FALSE,
           finishing |-> FALSE, st |-> NewStream]
NoSeal == [holds |-> {}, how |-> "none"]
Resting == [pc |-> "idle", run |-> NoTask, left |-> {}, seal |-> NoSeal]
NoJournal == <<Absent>>
NoFile == [state |-> "none", holds |-> {}, how |-> "none"]
NoScope == [state |-> "none", values |-> {}, claims |-> {}, snapshot |-> {}]
NoRow == [state |-> "none", payload |-> "none"]
NoArchive == [payload |-> "none", scope |-> {}, logs |-> <<>>]

Init ==
  /\ phase = "up" /\ todo = {} /\ exec = Idle /\ ship = NoShip
  /\ grants = {} /\ requests = {} /\ drain = Resting
  /\ claim = [t \in Tasks |-> "pending"]
  /\ journal = [t \in Tasks |-> NoJournal]
  /\ final = [t \in Tasks |-> [log |-> NoFile, exit |-> NoFile]]
  /\ scope = [r \in Runs |-> NoScope]
  /\ staging = [r \in Runs |-> NoRow] /\ order = <<>>
  /\ archive = [r \in Runs |-> NoArchive]
  /\ told = [t \in Tasks |-> [read |-> 0, accepted |-> {}, sent |-> {}, answered |-> {},
                            torn |-> FALSE]]
  /\ acked = [r \in Runs |-> {}]
  /\ faults = 0

Fault == faults < MaxFaults /\ faults' = faults + 1

(* The formation goes down: everything in memory is gone, its guardians stop *)
(* the Task processes.                                                        *)
Stop ==
  /\ phase' = "down" /\ todo' = {} /\ exec' = Idle /\ ship' = NoShip
  /\ grants' = {} /\ requests' = {} /\ drain' = Resting

-----------------------------------------------------------------------------
(* The executor loop.                                                         *)

Claim(t) ==
  /\ phase = "up" /\ exec = Idle /\ claim[t] = "pending"
  /\ claim' = [claim EXCEPT ![t] = "claimed"]
  /\ exec' = [pc |-> "claimed", task |-> t]
  /\ UNCHANGED <<phase, todo, ship, grants, requests, drain, journal, final, scope, staging,
                 order, archive, told, acked, faults>>

(* Mutant of Created: a scope that was cleaned up counts as missing.          *)
CreatedUnlessLive(r) ==
  IF scope[r].state \in {"none", "cleaned"} THEN [NoScope EXCEPT !.state = "active"] ELSE scope[r]

(* create_tickr_ctx_scope: a scope that exists, in any state, stays as it is. *)
Created(r) == IF scope[r].state = "none" THEN [NoScope EXCEPT !.state = "active"] ELSE scope[r]

(* spawn_claimed: the scope, then the grant, then the journal, then the child.*)
EnsureScope ==
  /\ exec.pc = "claimed"
  /\ scope' = [scope EXCEPT ![RunOf[exec.task]] = Created(RunOf[exec.task])]
  /\ exec' = [exec EXCEPT !.pc = "scoped"]
  /\ UNCHANGED <<phase, todo, ship, grants, requests, drain, claim, journal, final, staging,
                 order, archive, told, acked, faults>>

Spawn ==
  /\ exec.pc = "scoped"
  /\ journal' = [journal EXCEPT ![exec.task] = <<>>]
  /\ grants' = grants \cup {exec.task}
  /\ ship' = [NoShip EXCEPT !.open = TRUE]
  /\ exec' = [exec EXCEPT !.pc = "running"]
  /\ UNCHANGED <<phase, todo, requests, drain, claim, final, scope, staging, order, archive,
                 told, acked, faults>>

(* The guardian does not start: the grant is revoked and the journal ends     *)
(* cleanly with the error.  If its executable cannot be resolved, grant and   *)
(* open journal are left behind.                                              *)
SpawnFails ==
  /\ exec.pc = "scoped" /\ Fault
  /\ \/ /\ journal' = [journal EXCEPT ![exec.task] = <<Terminal("eos")>>]
        /\ UNCHANGED grants
     \/ /\ journal' = [journal EXCEPT ![exec.task] = <<>>]
        /\ grants' = grants \cup {exec.task}
  /\ exec' = [exec EXCEPT !.pc = "flushed"]
  /\ UNCHANGED <<phase, todo, ship, requests, drain, claim, final, scope, staging,
                 order, archive, told, acked>>

(* A claim that ends before its journal exists: it was fenced in between, or  *)
(* spawn_claimed failed and ProcessSetupFailed was elected.                   *)
NotLaunched ==
  /\ exec.pc \in {"claimed", "scoped"} /\ Fault
  /\ claim' = [claim EXCEPT ![exec.task] = "settled"]
  /\ exec' = Idle
  /\ UNCHANGED <<phase, todo, ship, grants, requests, drain, journal, final, scope, staging,
                 order, archive, told, acked>>

(* A dispatch cancelled before anybody claimed it: it ends with generation 0. *)
CancelPending(t) ==
  /\ phase = "up" /\ claim[t] = "pending" /\ Fault
  /\ claim' = [claim EXCEPT ![t] = "cancelled"]
  /\ UNCHANGED <<volatile, journal, final, scope, staging, order, archive, told, acked>>

(* The process ends, by itself or by a cancellation: its grant goes first.    *)
Exit ==
  /\ exec.pc = "running" /\ ~ship.finishing
  /\ grants' = grants \ {exec.task}
  /\ ship' = [ship EXCEPT !.finishing = TRUE]
  /\ UNCHANGED <<phase, todo, exec, requests, drain, durable, told, acked, faults>>

Settle ==
  /\ exec.pc = "flushed"
  /\ claim' = [claim EXCEPT ![exec.task] = "settled"]
  /\ exec' = Idle
  /\ UNCHANGED <<phase, todo, ship, grants, requests, drain, journal, final, scope, staging,
                 order, archive, told, acked, faults>>

(* A claim an earlier incarnation left is settled as LivenessExpired.         *)
Expire(t) ==
  /\ phase = "up" /\ claim[t] = "claimed" /\ exec.task # t
  /\ claim' = [claim EXCEPT ![t] = "settled"]
  /\ UNCHANGED <<volatile, journal, final, scope, staging, order, archive, told, acked, faults>>

-----------------------------------------------------------------------------
(* The log shipper.                                                           *)

(* record_gap: the evicted record extends the last gap or opens a new one.    *)
WithGap(gaps, n) ==
  IF gaps # <<>> /\ n - 1 \in gaps[Len(gaps)]
  THEN [gaps EXCEPT ![Len(gaps)] = @ \cup {n}]
  ELSE Append(gaps, {n})

(* Mutant of push: the buffer grows instead of giving up its oldest record.   *)
PushUnbounded(s) == [s EXCEPT !.next = @ + 1, !.buf = Append(@, s.next)]

push(s) ==
  LET full == Len(s.buf) >= Capacity
  IN  [s EXCEPT !.next = @ + 1,
                !.buf = Append(IF full THEN Tail(@) ELSE @, s.next),
                !.gaps = IF full THEN WithGap(@, Head(s.buf)) ELSE @]

Read ==
  /\ ship.open /\ ship.next < Output[exec.task]
  /\ ship' = push(ship)
  /\ told' = [told EXCEPT ![exec.task].read = @ + 1]
  /\ UNCHANGED <<phase, todo, exec, grants, requests, drain, durable, acked, faults>>

EndOfOutput ==
  /\ ship.open /\ ship.finishing
  /\ ship' = [ship EXCEPT !.open = FALSE]
  /\ UNCHANGED <<phase, todo, exec, grants, requests, drain, durable, told, acked, faults>>

(* next_item: the gap first if it is older than the oldest buffered record.   *)
GapIsFirst(s) ==
  /\ s.gaps # <<>>
  /\ s.buf # <<>> => \A n \in Head(s.gaps) : n < Head(s.buf)

next_item(s) ==
  IF GapIsFirst(s) THEN [s EXCEPT !.gaps = Tail(@), !.item = Gap(Head(s.gaps))]
  ELSE [s EXCEPT !.buf = Tail(@), !.item = Accepted(Head(s.buf))]

TakeItem ==
  /\ exec.pc = "running" /\ ship.item = Absent /\ (ship.buf # <<>> \/ ship.gaps # <<>>)
  /\ ship' = next_item(ship)
  /\ UNCHANGED <<phase, todo, exec, grants, requests, drain, durable, told, acked, faults>>

Applied(s) ==
  IF s.item.kind = "gap" THEN apply_gap(s.st, s.item.seqs)
  ELSE apply_accepted(s.st, CHOOSE n \in s.item.seqs : TRUE)

(* accept, declare_pre_acceptance_gap: the frame is in the file and synced    *)
(* before the state changes and the caller is told.                           *)
Accept ==
  /\ ship.item # Absent /\ Applied(ship).ok
  /\ journal' = [journal EXCEPT ![exec.task] = Append(@, ship.item)]
  /\ ship' = [ship EXCEPT !.item = Absent, !.st = Applied(ship).st]
  /\ told' = [told EXCEPT ![exec.task].accepted = @ \cup (Applied(ship).st.accepted)]
  /\ UNCHANGED <<phase, todo, exec, grants, requests, drain, claim, final, scope, staging,
                 order, archive, acked, faults>>

(* A failed append leaves nothing, the whole frame or a part of it; the item  *)
(* is tried again.                                                            *)
Left(frames, frame, how) ==
  CASE how = "lost"     -> frames
    [] how = "unsynced" -> Append(frames, frame)
    [] how = "torn"     -> Append(frames, Torn)
    [] how = "garbled"  -> Append(frames, Garbled)

AcceptFails ==
  /\ ship.item # Absent /\ Fault
  /\ \E how \in AppendFaults :
       /\ journal' = [journal EXCEPT ![exec.task] = Left(@, ship.item, how)]
       /\ told' = [told EXCEPT ![exec.task].torn = @ \/ how \in {"torn", "garbled"}]
  /\ UNCHANGED <<volatile, claim, final, scope, staging, order, archive, acked>>

Flushed(s) == s.finishing /\ ~s.open /\ s.buf = <<>> /\ s.gaps = <<>> /\ s.item = Absent

(* A publisher that has ended may still lose the race with the deadline.      *)
Ending(s) == IF Flushed(s) THEN {"eos", "abnormal"} ELSE {"abnormal"}

(* finish: cleanly once the publisher has ended, abnormally at the deadline   *)
(* or at shutdown.  A terminal record that cannot be written is only logged.  *)
Finish ==
  /\ ship.finishing
  /\ \E h \in Ending(ship) :
       \/ /\ journal' = IF apply_terminal(ship.st, h).ok
                        THEN [journal EXCEPT ![exec.task] = Append(@, Terminal(h))]
                        ELSE journal
          /\ UNCHANGED faults
       \/ /\ Fault
          /\ \E how \in AppendFaults :
               journal' = [journal EXCEPT ![exec.task] = Left(@, Terminal(h), how)]
  /\ ship' = NoShip
  /\ exec' = [exec EXCEPT !.pc = "flushed"]
  /\ UNCHANGED <<phase, todo, grants, requests, drain, claim, final, scope, staging, order,
                 archive, told, acked>>

-----------------------------------------------------------------------------
(* The tickr-ctx endpoint and its writer.  Each process puts one value and    *)
(* may delete it; every mutation has a claim of its own.                      *)

Send(t, op) ==
  /\ exec = [pc |-> "running", task |-> t] /\ t \in grants \cap Users
  /\ op = "delete" => "put" \in told[t].answered
  /\ requests' = requests \cup {<<t, op>>}
  /\ told' = [told EXCEPT ![t].sent = @ \cup {op}]
  /\ <<requests', told'>> # <<requests, told>>
  /\ UNCHANGED <<phase, todo, exec, ship, grants, drain, durable, acked, faults>>

(* Mutant of Mutated: the claim of the mutation is not looked up.             *)
MutatedAgain(sc, t, op) ==
  IF sc.state # "active" THEN sc
  ELSE [sc EXCEPT !.values = IF op = "put" THEN @ \cup {t} ELSE @ \ {t},
                  !.claims = @ \cup {<<t, op>>}]

(* write_tickr_ctx_scope, delete_tickr_ctx_scope_value: a claim that is known *)
(* is answered as before, a scope that is not active refuses.                 *)
Mutated(sc, t, op) ==
  IF sc.state # "active" \/ <<t, op>> \in sc.claims THEN sc
  ELSE [sc EXCEPT !.values = IF op = "put" THEN @ \cup {t} ELSE @ \ {t},
                  !.claims = @ \cup {<<t, op>>}]

Answers(sc, t, op) ==
  sc.state = "active" \/ (<<t, op>> \in sc.claims /\ sc.state # "quarantined")

Mutate(t, op) ==
  /\ phase = "up" /\ <<t, op>> \in requests
  /\ LET sc == scope[RunOf[t]] IN
       /\ scope' = [scope EXCEPT ![RunOf[t]] = Mutated(sc, t, op)]
       /\ told' = [told EXCEPT ![t].answered = @ \cup (IF Answers(sc, t, op) THEN {op} ELSE {})]
  /\ \E again \in BOOLEAN :    \* a retry of the request may still be queued
       requests' = IF again THEN requests ELSE requests \ {<<t, op>>}
  /\ UNCHANGED <<phase, todo, exec, ship, grants, drain, claim, journal, final, staging, order,
                 archive, acked, faults>>

(* An active scope outlives MAX_SCOPE_AGE_SECONDS: it answers the claims it   *)
(* knows and nothing else.                                                    *)
Age(r) ==
  /\ scope[r].state = "active" /\ Fault
  /\ scope' = [scope EXCEPT ![r].state = "aged"]
  /\ UNCHANGED <<volatile, claim, journal, final, staging, order, archive, told, acked>>

(* A read, or the snapshot, finds a stored value that is no valid envelope.   *)
Quarantine(r) ==
  /\ phase \in {"recovering", "up"} /\ scope[r].state = "active" /\ Fault
  /\ scope' = [scope EXCEPT ![r].state = "quarantined"]
  /\ UNCHANGED <<volatile, claim, journal, final, staging, order, archive, told, acked>>

-----------------------------------------------------------------------------
(* Staging.                                                                   *)

(* stage_for_relay: ensure the scope, insert the row or compare its digest,   *)
(* and acknowledge.  The Control plane ships the envelope of a run that has   *)
(* ended, again and again if it likes.  A crash between the two transactions  *)
(* leaves at most an empty scope, which the next delivery finds.              *)
Stage(r, p) ==
  /\ phase = "up" /\ \A t \in TasksOf(r) : claim[t] \in {"settled", "cancelled"}
  /\ scope' = [scope EXCEPT ![r] = Created(r)]
  /\ LET fresh == staging[r].state = "none" IN
       /\ staging' = IF fresh THEN [staging EXCEPT ![r] = [state |-> "staged", payload |-> p]]
                     ELSE staging
       /\ order' = IF fresh THEN Append(order, r) ELSE order
       /\ acked' = IF fresh \/ staging[r].payload = p
                   THEN [acked EXCEPT ![r] = @ \cup {p}] ELSE acked
  /\ UNCHANGED <<volatile, claim, journal, final, archive, told, faults>>

-----------------------------------------------------------------------------
(* The drain.                                                                 *)

(* Mutant of Unfinished: a row whose archive is committed is not resumed.     *)
UnfinishedStaged == {i \in DOMAIN order : staging[order[i]].state = "staged"}

Unfinished == {i \in DOMAIN order : staging[order[i]].state \in {"staged", "complete"}}
Oldest == order[CHOOSE i \in Unfinished : \A j \in Unfinished : i <= j]
PickedUp(t) == claim[t] \in {"claimed", "settled"}   \* pickup_generation > 0
Streams(r) == {t \in TasksOf(r) : PickedUp(t)}

(* The projection lists the run's task instances, whatever became of them.    *)
validate_streams(r) == Streams(r) = TasksOf(r)

Drains == phase \in {"recovering", "up"}
AtStep(s) == Drains /\ drain.pc = s

(* The drain's error ends the formation.                                      *)
DrainFails == Stop /\ UNCHANGED <<durable, told, acked, faults>>

GoTo(s, left) == drain' = [drain EXCEPT !.pc = s, !.left = left,
                             !.seal = IF s = "exit" THEN @ ELSE NoSeal]

KeepForDrain == UNCHANGED <<phase, todo, exec, ship, grants, requests, claim, told, acked, faults>>

(* The oldest unfinished row; validate_streams compares the projection's      *)
(* task instances with the claims that were picked up.                        *)
Select ==
  /\ AtStep("idle") /\ Unfinished # {}
  /\ LET r == Oldest IN
       IF validate_streams(r)
       THEN /\ drain' = [pc   |-> IF staging[r].state = "staged" THEN "snapshot" ELSE "verify",
                         run  |-> r,
                         left |-> Streams(r), seal |-> NoSeal]
            /\ KeepForDrain /\ UNCHANGED <<journal, final, scope, staging, order, archive>>
       ELSE DrainFails

Snapshotted(sc) ==
  IF sc.state = "active" THEN [sc EXCEPT !.state = "snapshotted", !.snapshot = sc.values] ELSE sc

(* A scope that has been snapshotted is not checked for its age again. *)
Lost(r) == scope[r].state \in {"aged", "quarantined"}

Snapshot ==
  /\ AtStep("snapshot")
  /\ IF Lost(drain.run) THEN DrainFails
     ELSE /\ scope' = [scope EXCEPT ![drain.run] = Snapshotted(@)]
          /\ GoTo(IF drain.left = {} THEN "commit" ELSE "seal", drain.left)
          /\ KeepForDrain /\ UNCHANGED <<journal, final, staging, order, archive>>

(* The streams are treated one by one, in the order of their identities.      *)
Stream == CHOOSE t \in drain.left : TRUE

Openable(t) == journal[t] # NoJournal /\ recover(journal[t]).ok

SealStream ==
  /\ AtStep("seal")
  /\ LET t == Stream IN
       \E opened \in {recover(journal[t])} :
         IF journal[t] # NoJournal /\ opened.ok /\ opened.st.terminal # "none"
         THEN /\ journal' = [journal EXCEPT ![t] = IF opened.st.seal # "none" THEN @
                               ELSE Append(Readable(@), Seal(opened.st.accepted))]
              /\ drain' = [drain EXCEPT !.pc = "log",
                   !.seal = [holds |-> opened.st.accepted, how |-> opened.st.terminal]]
              /\ KeepForDrain /\ UNCHANGED <<final, scope, staging, order, archive>>
         ELSE DrainFails

Expected(f) == IF f = "log" THEN [state |-> "installed", holds |-> drain.seal.holds, how |-> "none"]
               ELSE [state |-> "installed", holds |-> {}, how |-> drain.seal.how]

Whole(f) == [Expected(f) EXCEPT !.state = "written"]

(* install_final_file: write the temporary file, then rename it.  A temporary *)
(* file of an earlier attempt that is not whole is set aside and fails this   *)
(* one.                                                                       *)
AfterFile(f) ==
  IF f = "log" THEN GoTo("exit", drain.left)
  ELSE GoTo(IF drain.left = {Stream} THEN "commit" ELSE "seal", drain.left \ {Stream})

InstallFile(f) ==
  /\ AtStep(f)
  /\ LET t == Stream
         file == final[t][f] IN
       \/ /\ file.state = "installed"
          /\ IF file = Expected(f)
             THEN /\ AfterFile(f)
                  /\ KeepForDrain /\ UNCHANGED <<journal, final, scope, staging, order, archive>>
             ELSE DrainFails
       \/ /\ file.state \in {"partial", "written"} /\ file # Whole(f)
          /\ final' = [final EXCEPT ![t][f] = NoFile]
          /\ Stop /\ UNCHANGED <<claim, journal, scope, staging, order, archive, told, acked, faults>>
       \/ /\ file.state = "none"
          /\ final' = [final EXCEPT ![t][f] = Whole(f)]
          /\ KeepForDrain /\ UNCHANGED <<drain, journal, scope, staging, order, archive>>
       \/ /\ file = Whole(f)
          /\ final' = [final EXCEPT ![t][f] = Expected(f)]
          /\ AfterFile(f)
          /\ KeepForDrain /\ UNCHANGED <<journal, scope, staging, order, archive>>

(* One transaction: the archive and the row's completion.                     *)
CommitArchive ==
  /\ AtStep("commit")
  /\ LET r == drain.run IN
       IF staging[r].state = "staged"
       THEN /\ archive' = [archive EXCEPT ![r] =
                 [payload |-> staging[r].payload, scope |-> scope[r].snapshot,
                  logs |-> [t \in Streams(r) |-> final[t]]]]
            /\ staging' = [staging EXCEPT ![r].state = "complete"]
            /\ GoTo("verify", Streams(r))
            /\ KeepForDrain /\ UNCHANGED <<journal, final, scope, order>>
       ELSE DrainFails

(* finish_cleanup: snapshot and final Logs must be what the archive refers to.*)
Verify ==
  /\ AtStep("verify")
  /\ LET r == drain.run IN
       IF /\ scope[r].state \in {"snapshotted", "cleaned"} /\ scope[r].snapshot = archive[r].scope
          /\ \A t \in drain.left : final[t] = archive[r].logs[t]
       THEN /\ GoTo("clean", drain.left)
            /\ KeepForDrain /\ UNCHANGED <<journal, final, scope, staging, order, archive>>
       ELSE DrainFails

Cleaned(sc) == [sc EXCEPT !.state = "cleaned", !.values = {}, !.claims = {}]

CleanScope ==
  /\ AtStep("clean")
  /\ scope' = [scope EXCEPT ![drain.run] = Cleaned(@)]
  /\ GoTo(IF drain.left = {} THEN "unstage" ELSE "purge", drain.left)
  /\ KeepForDrain /\ UNCHANGED <<journal, final, staging, order, archive>>

PurgeJournal ==
  /\ AtStep("purge")
  /\ journal' = [journal EXCEPT ![Stream] = NoJournal]
  /\ GoTo(IF drain.left = {Stream} THEN "unstage" ELSE "purge", drain.left \ {Stream})
  /\ KeepForDrain /\ UNCHANGED <<final, scope, staging, order, archive>>

PurgeStaging ==
  /\ AtStep("unstage")
  /\ staging' = [staging EXCEPT ![drain.run].state = "purged"]
  /\ drain' = Resting
  /\ KeepForDrain /\ UNCHANGED <<journal, final, scope, order, archive>>

-----------------------------------------------------------------------------
(* Crash and start.                                                           *)

(* What the crash leaves of the append and of the temporary file under way.   *)
TornJournal ==
  IF ship.item = Absent THEN {journal}
  ELSE {[journal EXCEPT ![exec.task] = Left(@, ship.item, how)] : how \in {"lost", "unsynced", "torn"}}

TornFinal ==
  IF drain.pc \in {"log", "exit"} /\ final[Stream][drain.pc].state = "none"
  THEN {final, [final EXCEPT ![Stream][drain.pc].state = "partial"]}
  ELSE {final}

Crash ==
  /\ phase # "down" /\ Fault
  /\ journal' \in TornJournal /\ final' \in TornFinal
  /\ Stop
  /\ UNCHANGED <<claim, scope, staging, order, archive, told, acked>>

Start ==
  /\ phase = "down"
  /\ phase' = "journals" /\ todo' = {t \in Tasks : PickedUp(t)}
  /\ UNCHANGED <<exec, ship, grants, requests, drain, durable, told, acked, faults>>

(* read_final_log: absent, complete, or an error if the exit file is missing. *)
FinalLog(t) ==
  IF final[t].log.state # "installed" THEN "absent"
  ELSE IF final[t].exit.state = "installed" THEN "present" ELSE "error"

(* Mutant of Closed: an interrupted stream is given a clean end.              *)
ClosedCleanly(frames) ==
  IF recover(frames).st.terminal # "none" THEN Readable(frames)
  ELSE Append(Readable(frames), Terminal("eos"))

Closed(frames) ==
  IF recover(frames).st.terminal # "none" THEN Readable(frames)
  ELSE Append(Readable(frames), Terminal("abnormal"))

Recoverable(t) == FinalLog(t) = "present" \/ (FinalLog(t) = "absent" /\ Openable(t))

(* recover_local_journals, one stream.                                        *)
RecoverJournal(t) ==
  /\ phase = "journals" /\ t \in todo
  /\ IF Recoverable(t)
     THEN /\ journal' = IF FinalLog(t) = "present" THEN journal
                        ELSE [journal EXCEPT ![t] = Closed(@)]
          /\ todo' = todo \ {t}
          /\ UNCHANGED <<phase, exec, ship, grants, requests, drain, claim, final, scope,
                         staging, order, archive>>
     ELSE Stop /\ UNCHANGED durable
  /\ UNCHANGED <<told, acked, faults>>

StartDrain ==
  /\ phase = "journals" /\ todo = {}
  /\ phase' = "recovering"
  /\ UNCHANGED <<todo, exec, ship, grants, requests, drain, durable, told, acked, faults>>

Admit ==
  /\ phase = "recovering" /\ drain = Resting /\ Unfinished = {}
  /\ phase' = "up"
  /\ UNCHANGED <<todo, exec, ship, grants, requests, drain, durable, told, acked, faults>>

-----------------------------------------------------------------------------
DrainStep ==
  \/ Select \/ Snapshot \/ SealStream \/ InstallFile("log") \/ InstallFile("exit")
  \/ CommitArchive \/ Verify \/ CleanScope \/ PurgeJournal \/ PurgeStaging

StartStep == Start \/ StartDrain \/ Admit \/ \E t \in Tasks : RecoverJournal(t)

Next ==
  \/ \E t \in Tasks : Claim(t) \/ Expire(t) \/ CancelPending(t)
  \/ EnsureScope \/ Spawn \/ SpawnFails \/ NotLaunched \/ Exit \/ Settle
  \/ Read \/ EndOfOutput \/ TakeItem \/ Accept \/ AcceptFails \/ Finish
  \/ \E t \in Tasks, op \in Ops : Send(t, op) \/ Mutate(t, op)
  \/ \E r \in Runs, p \in Payloads : Stage(r, p)
  \/ \E r \in Runs : Age(r) \/ Quarantine(r)
  \/ DrainStep
  \/ StartStep
  \/ Crash

Spec == Init /\ [][Next]_vars

(* The operator starts a formation that went down; a start and a drain go on. *)
FairSpec == Spec /\ WF_vars(StartStep) /\ WF_vars(DrainStep)

-----------------------------------------------------------------------------
Chunks == {0} \cup UNION {1 .. Output[t] : t \in Tasks}
Hows == {"none", "eos", "abnormal"}
IsFrame(f) == /\ f.kind \in {"accepted", "gap", "terminal", "seal", "torn", "garbled", "absent"}
              /\ f.seqs \subseteq Chunks /\ f.how \in Hows
IsFile(f) == /\ f.state \in {"none", "partial", "written", "installed"}
             /\ f.holds \subseteq Chunks /\ f.how \in Hows
DrainSteps == {"idle", "snapshot", "seal", "log", "exit", "commit", "verify", "clean", "purge",
               "unstage"}

(* The values of every variable; the shipper's buffer keeps to its capacity,  *)
(* its gaps are disjoint from what it has accepted, and a drain step that     *)
(* treats a stream has one.                                                   *)
TypeOK ==
  /\ phase \in {"down", "journals", "recovering", "up"} /\ todo \subseteq Tasks
  /\ exec \in [pc : {"idle", "claimed", "scoped", "running", "flushed"}, task : Tasks \cup {NoTask}]
  /\ ship.next \in Chunks /\ IsFrame(ship.item) /\ Covered(ship.st) \subseteq Chunks
  /\ ship.open \in BOOLEAN /\ ship.finishing \in BOOLEAN
  /\ Len(ship.buf) <= Capacity /\ ToSet(ship.buf) \subseteq Chunks
  /\ \A g \in ToSet(ship.gaps) : g \subseteq Chunks \ Covered(ship.st)
  /\ grants \subseteq Tasks /\ requests \subseteq Tasks \X Ops
  /\ drain.pc \in DrainSteps /\ drain.left \subseteq Tasks
  /\ drain.pc \in {"seal", "log", "exit", "purge"} => drain.left # {}
  /\ claim \in [Tasks -> {"pending", "claimed", "settled", "cancelled"}]
  /\ \A t \in Tasks : /\ \A f \in ToSet(journal[t]) : IsFrame(f)
                       /\ IsFile(final[t].log) /\ IsFile(final[t].exit)
  /\ \A r \in Runs :
       /\ scope[r].state \in {"none", "active", "aged", "quarantined", "snapshotted", "cleaned"}
       /\ scope[r].values \subseteq TasksOf(r) /\ scope[r].snapshot \subseteq TasksOf(r)
       /\ scope[r].claims \subseteq TasksOf(r) \X Ops
       /\ staging[r].state \in {"none", "staged", "complete", "purged"}
       /\ staging[r].payload \in Payloads \cup {"none"}
  /\ ToSet(order) = {r \in Runs : staging[r].state # "none"}
  /\ acked \in [Runs -> SUBSET Payloads] /\ faults \in 0 .. MaxFaults

Archived(r) == archive[r].payload # "none"

KeptLog(t) ==
  IF Archived(RunOf[t]) THEN archive[RunOf[t]].logs[t].log.holds
  ELSE IF journal[t] = NoJournal THEN {} ELSE recover(journal[t]).st.accepted

KeptValues(r) ==
  IF Archived(r) THEN archive[r].scope
  ELSE IF scope[r].state = "active" \/ Lost(r) THEN scope[r].values ELSE scope[r].snapshot

(* Whatever Tickr Lite has acknowledged it still has: the records the journal *)
(* accepted, the mutations the tickr-ctx endpoint answered and the envelope   *)
(* behind a COMPACTION_ACK are in the sources until the archive holds them    *)
(* and in the archive from then on, through crashes, failed appends, repeated *)
(* requests and redelivered envelopes.  The exception is a stream whose       *)
(* shipper went on behind an append that was cut short.                       *)
AcknowledgedIsKept ==
  /\ \A t \in Tasks :
       /\ told[t].accepted \subseteq KeptLog(t) \/ told[t].torn
       /\ "put" \in told[t].answered /\ "delete" \notin told[t].sent => t \in KeptValues(RunOf[t])
       /\ "delete" \in told[t].answered => t \notin KeptValues(RunOf[t])
  /\ \A r \in Runs :
       /\ acked[r] \subseteq {staging[r].payload}
       /\ Archived(r) => archive[r].payload = staging[r].payload

(* task-log-shipper.md: "Reopening a local journal after a partial trailing   *)
(* write truncates only that incomplete, unaccepted tail."  What the journal  *)
(* accepted survives every reopening of it.                                   *)
AcceptedIsKept == \A t \in Tasks : told[t].accepted \subseteq KeptLog(t)

(* A journal that ends with a controlled End-of-stream accounts for every     *)
(* chunk that was read from the process: each is an accepted record or lies   *)
(* in a declared gap, never both.  An interrupted stream is never closed so.  *)
CleanEndTellsLoss ==
  \A t \in Tasks :
    journal[t] # NoJournal /\ recover(journal[t]).st.terminal = "eos" =>
      LET st == recover(journal[t]).st IN
        /\ Covered(st) = 0 .. told[t].read - 1
        /\ st.accepted \cap UNION st.gaps = {}

(* The archive of a run is written once: no redelivery, second drain or       *)
(* restart changes it, its final Logs or the way its staging row goes.        *)
Rank == [none |-> 0, staged |-> 1, complete |-> 2, purged |-> 3]
ArchiveIsFinal ==
  [][\A r \in Runs :
       /\ Archived(r) => /\ archive'[r] = archive[r]
                         /\ \A t \in TasksOf(r) : final'[t] = final[t]
       /\ Rank[staging'[r].state] >= Rank[staging[r].state]
       /\ scope[r].state \in {"snapshotted", "cleaned"} => scope'[r].snapshot = scope[r].snapshot]_vars

(* A formation that is down can be started again: every claim's journal can   *)
(* be closed or is already final, and the drain can treat every staged run    *)
(* and snapshot its scope.                                                    *)
RestartIsAdmitted ==
  phase = "down" =>
    /\ \A t \in Tasks : PickedUp(t) => Recoverable(t)
    /\ \A r \in Runs : staging[r].state = "staged" => validate_streams(r) /\ ~Lost(r)

(* A staged envelope is archived and purged, whatever crashes come between,   *)
(* unless the formation is down in a state no start recovers from.            *)
StagedIsPurged ==
  \A r \in Runs : staging[r].state = "staged" ~> (staging[r].state = "purged" \/ ~RestartIsAdmitted)
=============================================================================
