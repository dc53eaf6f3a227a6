----------------------- MODULE CompactionDrainProofs -----------------------
(***************************************************************************)
(* Theorems about CompactionDrain, for any number of Tasks, runs, chunks,  *)
(* payloads and faults, and for every way an append to a journal may fail. *)
(***************************************************************************)
EXTENDS CompactionDrain, IterationProofs, SequenceTheorems

-----------------------------------------------------------------------------
(* Types *)

Frame  == [kind : {"accepted", "gap", "terminal", "seal", "torn", "garbled", "absent"},
           seqs : SUBSET Chunks, how : Hows]
File   == [state : {"none", "partial", "written", "installed"}, holds : SUBSET Chunks, how : Hows]
Item   == [kind : {"accepted", "gap", "absent"}, seqs : SUBSET Nat, how : {"none"}]
Shown  == [accepted : SUBSET Nat, gaps : SUBSET SUBSET Nat, terminal : {"none"}, seal : {"none"}]
Ship   == [next : Nat, buf : Seq(Nat), gaps : Seq(SUBSET Nat), item : Item, open : BOOLEAN,
           finishing : BOOLEAN, st : Shown]
Scope  == [state : {"none", "active", "aged", "quarantined", "snapshotted", "cleaned"},
           values : SUBSET Tasks, claims : SUBSET (Tasks \X Ops), snapshot : SUBSET Tasks]
Row    == [state : {"none", "staged", "complete", "purged"}, payload : Payloads \cup {"none"}]
Told   == [read : Nat, accepted : SUBSET Nat, sent : SUBSET Ops, answered : SUBSET Ops,
           torn : BOOLEAN]
Files  == {"log", "exit"}

Typed ==
  /\ phase \in {"down", "journals", "recovering", "up"} /\ todo \subseteq Tasks
  /\ exec \in [pc : {"idle", "claimed", "scoped", "running", "flushed"}, task : Tasks \cup {NoTask}]
  /\ ship \in Ship
  /\ grants \subseteq Tasks /\ requests \subseteq Tasks \X Ops
  /\ drain \in [pc : DrainSteps, run : Runs \cup {NoTask}, left : SUBSET Tasks,
                seal : [holds : SUBSET Chunks, how : Hows]]
  /\ claim \in [Tasks -> {"pending", "claimed", "settled", "cancelled"}]
  /\ journal \in [Tasks -> Seq(Frame)]
  /\ final \in [Tasks -> [log : File, exit : File]]
  /\ scope \in [Runs -> Scope]
  /\ staging \in [Runs -> Row]
  /\ order \in Seq(Runs) /\ ToSet(order) = {r \in Runs : staging[r].state # "none"}
  /\ archive = [r \in Runs |-> archive[r]]
  /\ told \in [Tasks -> Told]
  /\ acked \in [Runs -> SUBSET Payloads] /\ faults \in 0 .. MaxFaults
-----------------------------------------------------------------------------
(* Journals                                                                   *)

Of(f, k)  == {i \in DOMAIN f : f[i].kind = k}
Acc(f)    == UNION {f[i].seqs : i \in Of(f, "accepted")}
Gaps(f)   == {f[i].seqs : i \in Of(f, "gap")}
Term(f)   == IF Of(f, "terminal") = {} THEN "none" ELSE f[CHOOSE i \in Of(f, "terminal") : TRUE].how
Sealed(f) == IF Of(f, "seal") = {} THEN "none" ELSE "sealed"
View(f)   == [accepted |-> Acc(f), gaps |-> Gaps(f), terminal |-> Term(f), seal |-> Sealed(f)]

Apart(S, G) == S \cap UNION G = {} /\ \A g, h \in G : g = h \/ g \cap h = {}

(* A journal without an end: records and gaps only. *)
Body(f) == \A i \in DOMAIN f : f[i].kind \in {"accepted", "gap"}

(* What a start and the drain can open. *)
Clean(f) == \A i \in DOMAIN f : /\ f[i].kind \in {"accepted", "gap", "terminal", "seal"}
                                /\ f[i].kind = "terminal" => f[i].how # "none"
Opens(f) == Clean(Readable(f)) /\ recover(f).ok

-----------------------------------------------------------------------------
(* The inductive invariant                                                    *)

(* The executor works on a claim of its own, and only a running process has a *)
(* shipper.                                                                   *)
ExecSound ==
  /\ exec.pc = "idle" => exec = Idle
  /\ exec.pc # "idle" => phase = "up" /\ exec.task \in Tasks /\ claim[exec.task] = "claimed"
  /\ exec.pc # "running" => ship = NoShip
  /\ exec.pc = "running" => /\ ship.next = told[exec.task].read /\ ship.next <= Output[exec.task]
                            /\ ship.st.accepted = told[exec.task].accepted

(* A claim that has not been launched has nothing to tell. *)
Unlaunched(t) == claim[t] = "pending" \/ (exec.task = t /\ exec.pc \in {"claimed", "scoped"})
NothingYet == \A t \in Tasks : Unlaunched(t) =>
  journal[t] = NoJournal /\ told[t].read = 0 /\ told[t].accepted = {} /\ ~told[t].torn

(* Every chunk read is in exactly one place: the buffer, a gap, the item on   *)
(* its way or the stream.                                                     *)
Single(s) == \A i, j \in DOMAIN s : s[i] = s[j] => i = j
Spread(s) == \A i, j \in DOMAIN s : i # j => s[i] \cap s[j] = {}
Evicted(s) == UNION ToSet(s.gaps)
InPlace(s) ==
  /\ ToSet(s.buf) \cup Evicted(s) \cup s.item.seqs \cup Covered(s.st) = 0 .. s.next - 1
  /\ ToSet(s.buf) \cap Evicted(s) = {} /\ ToSet(s.buf) \cap s.item.seqs = {}
  /\ ToSet(s.buf) \cap Covered(s.st) = {} /\ Evicted(s) \cap s.item.seqs = {}
  /\ Evicted(s) \cap Covered(s.st) = {} /\ s.item.seqs \cap Covered(s.st) = {}
ItemIs(x) == x = Absent \/ (\E n \in Nat : x = Accepted(n)) \/ \E g \in SUBSET Nat : x = Gap(g)
ShipOK(s) == /\ InPlace(s) /\ Single(s.buf) /\ Spread(s.gaps) /\ Apart(s.st.accepted, s.st.gaps)
             /\ Len(s.buf) <= Capacity /\ ItemIs(s.item)
ShipSound == ShipOK(ship)

(* The journal of a running process is what the shipper believes it is, and   *)
(* perhaps the item whose append was not confirmed.                           *)
RunningJournal ==
  exec.pc = "running" /\ ~told[exec.task].torn =>
    LET j == journal[exec.task] IN
      /\ Body(j)
      /\ \/ Acc(j) = ship.st.accepted
         \/ ship.item.kind = "accepted" /\ Acc(j) = ship.st.accepted \cup ship.item.seqs
      /\ \/ Gaps(j) = ship.st.gaps
         \/ ship.item.kind = "gap" /\ Gaps(j) = ship.st.gaps \cup {ship.item.seqs}

JournalsOpen == \A t \in Tasks : told[t].torn \/ journal[t] = NoJournal \/ Opens(journal[t])

(* Behind an append that was cut short nothing can be read, so no reopening   *)
(* finds a controlled End-of-stream.                                          *)
EndsClean(x) == x.kind = "terminal" /\ x.how = "eos"
NoCleanEnd(f) == \A i \in DOMAIN Readable(f) : ~EndsClean(Readable(f)[i])
ScarsStay ==
  \A t \in Tasks : told[t].torn =>
    /\ NoCleanEnd(journal[t])
    /\ exec.pc = "running" /\ exec.task = t => Broken(journal[t]) # {}

LogsKept == \A t \in Tasks : told[t].torn \/ told[t].accepted \subseteq KeptLog(t)

(* What a file that is not archived yet is about cannot change any more. *)
Ended(t, holds) == /\ journal[t] # NoJournal /\ recover(journal[t]).st.terminal # "none"
                   /\ holds = recover(journal[t]).st.accepted
FilesSound ==
  \A t \in Tasks :
    ~told[t].torn /\ ~Archived(RunOf[t]) /\ final[t].log.state \in {"written", "installed"} =>
      Ended(t, final[t].log.holds)

(* The drain's place tells the state of the row, the scope and the files.     *)
Staging   == {"snapshot", "seal", "log", "exit", "commit"}
Archiving == {"verify", "clean", "purge", "unstage"}
DrainPlace ==
  /\ drain.pc # "idle" => /\ Drains /\ drain.run \in Runs /\ drain.left \subseteq TasksOf(drain.run)
                          /\ validate_streams(drain.run)
  /\ drain.pc \in Staging => staging[drain.run].state = "staged"
  /\ drain.pc \in Archiving => staging[drain.run].state = "complete"
  /\ drain.pc \in {"seal", "log", "exit", "purge"} => drain.left # {}
  /\ drain.pc = "commit" => drain.left = {}
DrainFiles ==
  /\ drain.pc = "snapshot" => TasksOf(drain.run) \subseteq drain.left
  /\ drain.pc \in {"seal", "log", "exit", "commit"} =>
       /\ scope[drain.run].state = "snapshotted"
       /\ \A t \in TasksOf(drain.run) \ drain.left : final[t].log.state = "installed"
  /\ drain.pc = "exit" => final[Stream].log.state = "installed"
SealSound == drain.pc \in {"log", "exit"} => told[Stream].torn \/ Ended(Stream, drain.seal.holds)

RowsSound ==
  \A r \in Runs :
    /\ staging[r].state # "none" => /\ scope[r].state # "none" /\ staging[r].payload \in Payloads
                                    /\ \A t \in TasksOf(r) : claim[t] \in {"settled", "cancelled"}
    /\ Archived(r) <=> staging[r].state \in {"complete", "purged"}
    /\ Archived(r) => archive[r].payload = staging[r].payload
    /\ acked[r] \subseteq {staging[r].payload} /\ (staging[r].state = "none" => acked[r] = {})

(* A snapshot is what the scope held, and the archive has the snapshot. *)
SnapshotsSound ==
  \A r \in Runs :
    /\ Archived(r) => /\ scope[r].state \in {"snapshotted", "cleaned"}
                      /\ archive[r].scope = scope[r].snapshot
    /\ scope[r].state = "cleaned" => Archived(r)
    /\ scope[r].state = "snapshotted" => scope[r].snapshot = scope[r].values
    /\ scope[r].state \in {"none", "cleaned"} => scope[r].claims = {}

(* Only the processes of a run change its scope. *)
ScopeOfRun ==
  \A r \in Runs : /\ scope[r].values \subseteq TasksOf(r) /\ scope[r].snapshot \subseteq TasksOf(r)
                 /\ scope[r].claims \subseteq TasksOf(r) \X Ops

(* The claims of a scope decide what it holds. *)
ClaimsSound ==
  \A t \in Tasks : LET sc == scope[RunOf[t]] IN
    /\ <<t, "delete">> \in sc.claims => /\ <<t, "put">> \in sc.claims /\ t \notin sc.values
                                        /\ "delete" \in told[t].sent
    /\ <<t, "put">> \in sc.claims /\ <<t, "delete">> \notin sc.claims => t \in sc.values
    /\ sc.state # "cleaned" => \A op \in told[t].answered : <<t, op>> \in sc.claims
RequestsSound ==
  \A t \in Tasks, op \in Ops : <<t, op>> \in requests =>
    op \in told[t].sent /\ (op = "delete" => "put" \in told[t].answered)

ValuesKept ==
  \A t \in Tasks :
    /\ "put" \in told[t].answered /\ "delete" \notin told[t].sent => t \in KeptValues(RunOf[t])
    /\ "delete" \in told[t].answered => t \notin KeptValues(RunOf[t])

(* What does not look into the journals, and what does. *)
Plain == /\ Typed /\ ExecSound /\ NothingYet /\ ShipSound /\ DrainPlace /\ DrainFiles
         /\ RowsSound /\ SnapshotsSound /\ ClaimsSound /\ RequestsSound /\ ValuesKept /\ ScopeOfRun
LogInv == /\ RunningJournal /\ JournalsOpen /\ ScarsStay /\ LogsKept /\ FilesSound /\ SealSound
          /\ CleanEndTellsLoss

-----------------------------------------------------------------------------
(* The steps, with the ways the formation goes down set apart *)

KeepSources == UNCHANGED <<journal, final, scope, staging, order, archive>>

Selects(r) ==
  /\ AtStep("idle") /\ r \in Runs /\ staging[r].state \in {"staged", "complete"}
  /\ validate_streams(r)
  /\ drain' = [pc |-> IF staging[r].state = "staged" THEN "snapshot" ELSE "verify", run |-> r,
               left |-> Streams(r), seal |-> NoSeal]
  /\ KeepForDrain /\ KeepSources

Snapshots ==
  /\ AtStep("snapshot") /\ ~Lost(drain.run)
  /\ scope' = [scope EXCEPT ![drain.run] = Snapshotted(@)]
  /\ GoTo(IF drain.left = {} THEN "commit" ELSE "seal", drain.left)
  /\ KeepForDrain /\ UNCHANGED <<journal, final, staging, order, archive>>

Seals(t) ==
  /\ AtStep("seal") /\ t = Stream
  /\ journal[t] # NoJournal /\ recover(journal[t]).ok /\ recover(journal[t]).st.terminal # "none"
  /\ journal' = [journal EXCEPT ![t] = IF recover(journal[t]).st.seal # "none" THEN @
                   ELSE Append(Readable(@), Seal(recover(journal[t]).st.accepted))]
  /\ drain' = [drain EXCEPT !.pc = "log", !.seal = [holds |-> recover(journal[t]).st.accepted,
                                                    how |-> recover(journal[t]).st.terminal]]
  /\ KeepForDrain /\ UNCHANGED <<final, scope, staging, order, archive>>

HasFile(t, f) ==
  /\ AtStep(f) /\ t = Stream /\ final[t][f] = Expected(f)
  /\ AfterFile(f) /\ KeepForDrain /\ KeepSources

WritesFile(t, f) ==
  /\ AtStep(f) /\ t = Stream /\ final[t][f].state = "none"
  /\ final' = [final EXCEPT ![t][f] = Whole(f)]
  /\ KeepForDrain /\ UNCHANGED <<drain, journal, scope, staging, order, archive>>

RenamesFile(t, f) ==
  /\ AtStep(f) /\ t = Stream /\ final[t][f] = Whole(f)
  /\ final' = [final EXCEPT ![t][f] = Expected(f)]
  /\ AfterFile(f) /\ KeepForDrain /\ UNCHANGED <<journal, scope, staging, order, archive>>

Commits ==
  /\ AtStep("commit") /\ staging[drain.run].state = "staged"
  /\ archive' = [archive EXCEPT ![drain.run] =
       [payload |-> staging[drain.run].payload, scope |-> scope[drain.run].snapshot,
        logs |-> [t \in Streams(drain.run) |-> final[t]]]]
  /\ staging' = [staging EXCEPT ![drain.run].state = "complete"]
  /\ GoTo("verify", Streams(drain.run))
  /\ KeepForDrain /\ UNCHANGED <<journal, final, scope, order>>

Verifies == AtStep("verify") /\ GoTo("clean", drain.left) /\ KeepForDrain /\ KeepSources

Recovers(t) ==
  /\ phase = "journals" /\ t \in todo /\ Recoverable(t)
  /\ journal' = IF FinalLog(t) = "present" THEN journal ELSE [journal EXCEPT ![t] = Closed(@)]
  /\ todo' = todo \ {t}
  /\ UNCHANGED <<phase, exec, ship, grants, requests, drain, claim, final, scope, staging, order,
                 archive, told, acked, faults>>

(* A scope is too old, or one of its values is not valid any more. *)
Loses(r) ==
  /\ scope[r].state = "active" /\ faults' \in 0 .. MaxFaults
  /\ \E s \in {"aged", "quarantined"} : scope' = [scope EXCEPT ![r].state = s]
  /\ UNCHANGED <<volatile, claim, journal, final, staging, order, archive, told, acked>>

(* What a stop leaves in the files. *)
Sets(t, f) ==
  /\ drain.pc = f /\ t = Stream
  /\ \/ final' = [final EXCEPT ![t][f] = NoFile]
     \/ final[t][f].state = "none" /\ final' = [final EXCEPT ![t][f].state = "partial"]
Stops ==
  /\ Stop /\ UNCHANGED <<claim, scope, staging, order, archive, told, acked>>
  /\ faults' \in 0 .. MaxFaults
  /\ \/ journal' = journal
     \/ /\ ship.item # Absent
        /\ \E how \in {"lost", "unsynced", "torn"} :
             journal' = [journal EXCEPT ![exec.task] = Left(@, ship.item, how)]
  /\ final' = final \/ \E f \in Files : Sets(Stream, f)

(* The oldest unfinished row is one. *)
LEMMA OldestIs ==
  ASSUME Typed, Unfinished # {}
  PROVE  Oldest \in Runs /\ staging[Oldest].state \in {"staged", "complete"}
<1>1. order \in Seq(Runs) /\ Unfinished \in SUBSET Nat
  BY DEF Typed, Unfinished
<1>2. \E i \in Unfinished : \A j \in Unfinished : i <= j
  BY <1>1, LeastNumber
<1>3. PICK i \in Unfinished : Oldest = order[i]
  BY <1>2 DEF Oldest
<1> QED
  BY <1>1, <1>3 DEF Unfinished

LEMMA FaultIs == ASSUME Typed, Fault PROVE faults' \in 0 .. MaxFaults
  BY SizeAssumption DEF Typed, Fault

LEMMA FailsIs == ASSUME Typed, DrainFails PROVE Stops
  BY DEF Typed, DrainFails, Stops, durable

(* A step without a stop is one of these; t and r are the task and the run of *)
(* the step where it has one.                                                 *)
LEMMA Kinds ==
  ASSUME Typed, Next
  PROVE  \/ Stops \/ (\E t \in Tasks : Claim(t) \/ Expire(t) \/ CancelPending(t) \/ Recovers(t))
         \/ EnsureScope \/ Spawn \/ SpawnFails \/ NotLaunched \/ Exit \/ Settle
         \/ Read \/ EndOfOutput \/ TakeItem \/ Accept \/ AcceptFails \/ Finish
         \/ (\E t \in Tasks, op \in Ops : Send(t, op) \/ Mutate(t, op))
         \/ (\E r \in Runs, p \in Payloads : Stage(r, p)) \/ (\E r \in Runs : Selects(r) \/ Loses(r))
         \/ Snapshots \/ Seals(Stream) \/ Commits \/ Verifies \/ CleanScope \/ PurgeJournal
         \/ PurgeStaging \/ Start \/ StartDrain \/ Admit
         \/ \E f \in Files : HasFile(Stream, f) \/ WritesFile(Stream, f) \/ RenamesFile(Stream, f)
<1>1. Select => Stops \/ \E r \in Runs : Selects(r)
  <2>1. ASSUME Select PROVE Stops \/ Selects(Oldest)
    <3>1. Oldest \in Runs /\ staging[Oldest].state \in {"staged", "complete"}
      BY <2>1, OldestIs DEF Select
    <3> QED
      BY <2>1, <3>1, FailsIs DEF Select, Selects, KeepSources
  <2>2. Select => Oldest \in Runs
    BY OldestIs DEF Select
  <2> QED
    BY <2>1, <2>2
<1>2. SealStream => Stops \/ Seals(Stream)
  BY FailsIs DEF SealStream, Seals
<1>3. ASSUME NEW f \in Files, InstallFile(f)
      PROVE  Stops \/ HasFile(Stream, f) \/ WritesFile(Stream, f) \/ RenamesFile(Stream, f)
  <2>1. AtStep(f) => drain.pc = f
    BY DEF AtStep
  <2>2. ASSUME final' = [final EXCEPT ![Stream][f] = NoFile], Stop, AtStep(f),
               UNCHANGED <<claim, journal, scope, staging, order, archive, told, acked, faults>>
        PROVE  Stops
    BY <2>1, <2>2 DEF Stops, Sets, Typed
  <2> QED
    BY <1>3, <2>2, FailsIs DEF InstallFile, HasFile, WritesFile, RenamesFile, KeepSources
<1>4. CommitArchive => Stops \/ Commits
  BY FailsIs DEF CommitArchive, Commits
<1>5. Verify => Stops \/ Verifies
  BY FailsIs DEF Verify, Verifies, KeepSources
<1>6. ASSUME NEW t \in Tasks, RecoverJournal(t) PROVE Stops \/ Recovers(t)
  <2>1. CASE Recoverable(t)
    BY <1>6, <2>1 DEF RecoverJournal, Recovers
  <2>2. CASE ~Recoverable(t)
    BY <1>6, <2>2 DEF RecoverJournal, Stops, durable, Typed
  <2> QED
    BY <2>1, <2>2
<1>7. Crash => Stops
  <2>1. SUFFICES ASSUME Crash PROVE Stops
    OBVIOUS
  <2>2. faults' \in 0 .. MaxFaults
    BY <2>1, FaultIs DEF Crash
  <2>3. \/ journal' = journal
        \/ /\ ship.item # Absent
           /\ \E how \in {"lost", "unsynced", "torn"} :
                journal' = [journal EXCEPT ![exec.task] = Left(@, ship.item, how)]
    BY <2>1 DEF Crash, TornJournal
  <2>4. final' = final \/ \E f \in Files : Sets(Stream, f)
    BY <2>1 DEF Crash, TornFinal, Sets, Files
  <2> QED
    BY <2>1, <2>2, <2>3, <2>4 DEF Crash, Stops
<1>8. "log" \in Files /\ "exit" \in Files
  BY DEF Files
<1>9. Snapshot => Stops \/ Snapshots
  BY FailsIs DEF Snapshot, Snapshots
<1>10. ASSUME NEW r \in Runs, Age(r) \/ Quarantine(r) PROVE Loses(r)
  BY <1>10, FaultIs DEF Age, Quarantine, Loses
<1> QED
  BY <1>1, <1>2, <1>3, <1>4, <1>5, <1>6, <1>7, <1>8, <1>9, <1>10 DEF Next, DrainStep, StartStep

(* What a lost scope keeps. *)
LEMMA LosesScope ==
  ASSUME Typed, NEW r \in Runs, Loses(r)
  PROVE  /\ \A q \in Runs : q # r => scope'[q] = scope[q]
         /\ scope[r].state = "active" /\ scope'[r].state \in {"aged", "quarantined"}
         /\ scope'[r].values = scope[r].values /\ scope'[r].claims = scope[r].claims
         /\ scope'[r].snapshot = scope[r].snapshot
         /\ scope' \in [Runs -> Scope]
         /\ UNCHANGED <<volatile, claim, journal, final, staging, order, archive, told, acked>>
<1>1. PICK s \in {"aged", "quarantined"} : scope' = [scope EXCEPT ![r].state = s]
  BY DEF Loses
<1> DEFINE new == [scope[r] EXCEPT !.state = s]
<1>2. scope \in [Runs -> Scope] /\ scope' = [scope EXCEPT ![r] = new]
  BY <1>1 DEF Typed
<1>3. /\ new \in Scope /\ new.state = s /\ new.values = scope[r].values
      /\ new.claims = scope[r].claims /\ new.snapshot = scope[r].snapshot
  BY <1>2 DEF Scope
<1> HIDE DEF new
<1>4. scope[r].state = "active"
        /\ UNCHANGED <<volatile, claim, journal, final, staging, order, archive, told, acked>>
  BY DEF Loses
<1> QED
  BY <1>1, <1>2, <1>3, <1>4

(* A failed append changes what is told of one stream only. *)
LEMMA FailsTold ==
  ASSUME Typed, AcceptFails
  PROVE  \A u \in Tasks : /\ told'[u].read = told[u].read /\ told'[u].accepted = told[u].accepted
                          /\ told'[u].sent = told[u].sent /\ told'[u].answered = told[u].answered
                          /\ u # exec.task => told'[u].torn = told[u].torn
<1>1. PICK b : told' = [told EXCEPT ![exec.task].torn = b]
  BY DEF AcceptFails
<1> QED
  BY <1>1 DEF Typed, Told

-----------------------------------------------------------------------------
(* The shipper's buffer *)

LEMMA InSeq == ASSUME NEW S, NEW s \in Seq(S) PROVE \A x \in ToSet(s) : x \in S
  BY DEF ToSet

LEMMA ToSetAppend ==
  ASSUME NEW S, NEW s \in Seq(S), NEW x \in S
  PROVE  ToSet(Append(s, x)) = ToSet(s) \cup {x}
<1>1. Append(s, x) \in Seq(S) /\ DOMAIN Append(s, x) = DOMAIN s \cup {Len(s) + 1}
  OBVIOUS
<1>2. \A i \in DOMAIN s : Append(s, x)[i] = s[i]
  OBVIOUS
<1>3. Append(s, x)[Len(s) + 1] = x
  OBVIOUS
<1> QED
  BY <1>1, <1>2, <1>3 DEF ToSet

LEMMA TailIs ==
  ASSUME NEW S, NEW s \in Seq(S), s # <<>>
  PROVE  /\ Head(s) \in S /\ Tail(s) \in Seq(S) /\ Len(Tail(s)) = Len(s) - 1
         /\ ToSet(s) = {Head(s)} \cup ToSet(Tail(s))
         /\ Single(s) => Single(Tail(s)) /\ Head(s) \notin ToSet(Tail(s))
         /\ Spread(s) => Spread(Tail(s)) /\ \A x \in ToSet(Tail(s)) : Head(s) \cap x = {}
<1>1. /\ Head(s) \in S /\ Tail(s) \in Seq(S) /\ Len(Tail(s)) = Len(s) - 1
      /\ Head(s) = s[1] /\ 1 \in DOMAIN s /\ Len(s) \in Nat /\ DOMAIN s = 1 .. Len(s)
  OBVIOUS
<1>2. DOMAIN Tail(s) = 1 .. Len(s) - 1 /\ \A i \in DOMAIN Tail(s) : Tail(s)[i] = s[i + 1]
  BY <1>1
<1>3. \A i \in DOMAIN s : i = 1 \/ (i - 1 \in DOMAIN Tail(s) /\ Tail(s)[i - 1] = s[i])
  BY <1>1, <1>2
<1>4. \A i \in DOMAIN Tail(s) : i + 1 \in DOMAIN s /\ i + 1 # 1 /\ Tail(s)[i] = s[i + 1]
  BY <1>1, <1>2
<1>5. ToSet(s) = {Head(s)} \cup ToSet(Tail(s))
  <2>1. ASSUME NEW i \in DOMAIN s PROVE s[i] \in {Head(s)} \cup ToSet(Tail(s))
    BY <1>1, <1>3 DEF ToSet
  <2>2. ASSUME NEW i \in DOMAIN Tail(s) PROVE Tail(s)[i] \in ToSet(s)
    BY <1>4 DEF ToSet
  <2>3. Head(s) \in ToSet(s)
    BY <1>1 DEF ToSet
  <2>4. \A x \in ToSet(s) : x \in {Head(s)} \cup ToSet(Tail(s))
    BY <2>1 DEF ToSet
  <2>5. \A x \in ToSet(Tail(s)) : x \in ToSet(s)
    BY <2>2 DEF ToSet
  <2> QED
    BY <2>3, <2>4, <2>5
<1>6. ASSUME Single(s) PROVE Single(Tail(s)) /\ Head(s) \notin ToSet(Tail(s))
  <2>1. ASSUME NEW i \in DOMAIN Tail(s), NEW j \in DOMAIN Tail(s), Tail(s)[i] = Tail(s)[j]
        PROVE  i = j
    BY <1>2, <1>4, <1>6, <2>1 DEF Single
  <2>2. ASSUME NEW i \in DOMAIN Tail(s) PROVE Tail(s)[i] # Head(s)
    BY <1>1, <1>4, <1>6 DEF Single
  <2> QED
    BY <2>1, <2>2 DEF Single, ToSet
<1>7. ASSUME Spread(s) PROVE Spread(Tail(s)) /\ \A x \in ToSet(Tail(s)) : Head(s) \cap x = {}
  <2>1. ASSUME NEW i \in DOMAIN Tail(s), NEW j \in DOMAIN Tail(s), i # j
        PROVE  Tail(s)[i] \cap Tail(s)[j] = {}
    <3>1. i + 1 # j + 1
      BY <1>2, <2>1
    <3> QED
      BY <1>4, <1>7, <3>1 DEF Spread
  <2>2. ASSUME NEW i \in DOMAIN Tail(s) PROVE Head(s) \cap Tail(s)[i] = {}
    BY <1>1, <1>4, <1>7 DEF Spread
  <2> QED
    BY <2>1, <2>2 DEF Spread, ToSet
<1> QED
  BY <1>1, <1>5, <1>6, <1>7

LEMMA SingleAppend ==
  ASSUME NEW S, NEW s \in Seq(S), NEW x \in S, Single(s), x \notin ToSet(s)
  PROVE  Single(Append(s, x))
<1>1. DOMAIN Append(s, x) = DOMAIN s \cup {Len(s) + 1} /\ Append(s, x)[Len(s) + 1] = x
  OBVIOUS
<1>2. \A i \in DOMAIN s : Append(s, x)[i] = s[i] /\ s[i] # x
  BY DEF ToSet
<1> QED
  BY <1>1, <1>2 DEF Single

(* A gap that takes one more record: nothing else changes. *)
LEMMA WithGapIs ==
  ASSUME NEW gaps \in Seq(SUBSET Nat), NEW n \in Nat, Spread(gaps), n \notin UNION ToSet(gaps)
  PROVE  /\ WithGap(gaps, n) \in Seq(SUBSET Nat) /\ Spread(WithGap(gaps, n))
         /\ UNION ToSet(WithGap(gaps, n)) = (UNION ToSet(gaps)) \cup {n}
<1>1. CASE gaps # <<>> /\ n - 1 \in gaps[Len(gaps)]
  <2> DEFINE k == Len(gaps)
             w == [gaps EXCEPT ![k] = @ \cup {n}]
  <2>1. WithGap(gaps, n) = w
    BY <1>1 DEF WithGap
  <2>2. k \in DOMAIN gaps /\ DOMAIN w = DOMAIN gaps /\ w \in Seq(SUBSET Nat)
    BY <1>1
  <2>3. w[k] = gaps[k] \cup {n} /\ \A i \in DOMAIN gaps : i # k => w[i] = gaps[i]
    BY <2>2
  <2>4. \A i \in DOMAIN gaps : n \notin gaps[i]
    BY DEF ToSet
  <2> HIDE DEF w, k
  <2>5. Spread(w)
    BY <2>2, <2>3, <2>4 DEF Spread
  <2>6. ASSUME NEW m PROVE m \in UNION ToSet(w) <=> m \in (UNION ToSet(gaps)) \cup {n}
    BY <2>2, <2>3 DEF ToSet
  <2> QED
    BY <2>1, <2>2, <2>5, <2>6
<1>2. CASE ~(gaps # <<>> /\ n - 1 \in gaps[Len(gaps)])
  <2>1. WithGap(gaps, n) = Append(gaps, {n}) /\ {n} \in SUBSET Nat
    BY <1>2 DEF WithGap
  <2>2. ToSet(Append(gaps, {n})) = ToSet(gaps) \cup {{n}}
    BY <2>1, ToSetAppend
  <2>3. DOMAIN Append(gaps, {n}) = DOMAIN gaps \cup {Len(gaps) + 1}
        /\ Append(gaps, {n})[Len(gaps) + 1] = {n} /\ Append(gaps, {n}) \in Seq(SUBSET Nat)
    BY <2>1
  <2>4. \A i \in DOMAIN gaps : Append(gaps, {n})[i] = gaps[i] /\ n \notin gaps[i]
    BY <2>1 DEF ToSet
  <2>5. Spread(Append(gaps, {n}))
    BY <2>3, <2>4 DEF Spread
  <2>6. UNION (ToSet(gaps) \cup {{n}}) = (UNION ToSet(gaps)) \cup {n}
    OBVIOUS
  <2> QED
    BY <2>1, <2>2, <2>3, <2>5, <2>6
<1> QED
  BY <1>1, <1>2

LEMMA NoShipOK == ShipOK(NoShip) /\ NoShip \in Ship
<1>1. ToSet(<<>>) = {} /\ Len(<<>>) = 0 /\ <<>> \in Seq(Nat) /\ <<>> \in Seq(SUBSET Nat)
  BY DEF ToSet
<1>2. 0 .. 0 - 1 = {}
  OBVIOUS
<1>3. Single(<<>>) /\ Spread(<<>>)
  BY DEF Single, Spread
<1>4. NoShip \in Ship
  BY <1>1 DEF NoShip, Ship, Item, Shown, Absent, NewStream
<1>5. Covered(NewStream) = {}
  BY DEF Covered, NewStream
<1>6. InPlace(NoShip)
  BY <1>1, <1>2, <1>5 DEF InPlace, NoShip, Evicted, Absent
<1> QED
  BY <1>1, <1>3, <1>4, <1>6, SizeAssumption DEF ShipOK, NoShip, Apart, NewStream, ItemIs

(* push: the record enters the buffer, and the one it drives out a gap. *)
LEMMA PushOK ==
  ASSUME NEW s \in Ship, ShipOK(s)
  PROVE  /\ push(s) \in Ship /\ ShipOK(push(s)) /\ push(s).next = s.next + 1
         /\ push(s).st = s.st /\ push(s).item = s.item
         /\ push(s).open = s.open /\ push(s).finishing = s.finishing
<1>1. /\ s.next \in Nat /\ s.buf \in Seq(Nat) /\ s.gaps \in Seq(SUBSET Nat) /\ s.item \in Item
      /\ s.st \in Shown /\ s.open \in BOOLEAN /\ s.finishing \in BOOLEAN
  BY DEF Ship
<1>2. Capacity \in Nat \ {0}
  BY SizeAssumption
<1>3. 0 .. (s.next + 1) - 1 = (0 .. s.next - 1) \cup {s.next} /\ s.next \notin 0 .. s.next - 1
  BY <1>1
<1>4. s.next \notin ToSet(s.buf)
  BY <1>3 DEF ShipOK, InPlace
<1>5. CASE Len(s.buf) >= Capacity
  <2>1. s.buf # <<>>
    BY <1>1, <1>2, <1>5
  <2> DEFINE b == Tail(s.buf)
             h == Head(s.buf)
  <2>2. /\ h \in Nat /\ b \in Seq(Nat) /\ Len(b) = Len(s.buf) - 1 /\ ToSet(s.buf) = {h} \cup ToSet(b)
        /\ Single(b) /\ h \notin ToSet(b)
    BY <1>1, <2>1, TailIs DEF ShipOK
  <2> HIDE DEF b, h
  <2>3. h \notin Evicted(s) /\ Spread(s.gaps)
    BY <2>2 DEF ShipOK, InPlace
  <2>4. /\ WithGap(s.gaps, h) \in Seq(SUBSET Nat) /\ Spread(WithGap(s.gaps, h))
        /\ UNION ToSet(WithGap(s.gaps, h)) = Evicted(s) \cup {h}
    BY <1>1, <2>2, <2>3, WithGapIs DEF Evicted
  <2>5. ToSet(Append(b, s.next)) = ToSet(b) \cup {s.next} /\ Append(b, s.next) \in Seq(Nat)
        /\ Single(Append(b, s.next)) /\ Len(Append(b, s.next)) = Len(s.buf)
    BY <1>1, <1>4, <2>2, ToSetAppend, SingleAppend
  <2>6. push(s) = [s EXCEPT !.next = s.next + 1, !.buf = Append(b, s.next),
                            !.gaps = WithGap(s.gaps, h)]
    BY <1>5 DEF push, b, h
  <2>a. s.next + 1 \in Nat
    BY <1>1
  <2> DEFINE p == push(s)
  <2>7. /\ p \in Ship /\ p.next = s.next + 1 /\ p.buf = Append(b, s.next)
        /\ p.gaps = WithGap(s.gaps, h) /\ p.st = s.st /\ p.item = s.item
        /\ p.open = s.open /\ p.finishing = s.finishing
    <3> DEFINE n == s.next + 1
               bb == Append(b, s.next)
               gg == WithGap(s.gaps, h)
    <3>1. n \in Nat /\ bb \in Seq(Nat) /\ gg \in Seq(SUBSET Nat)
      BY <2>4, <2>5, <2>6, <2>a
    <3>2. p = [s EXCEPT !.next = n, !.buf = bb, !.gaps = gg]
      BY <2>4, <2>5, <2>6, <2>a
    <3> HIDE DEF n, bb, gg, p
    <3>3. /\ p \in Ship /\ p.next = n /\ p.buf = bb /\ p.gaps = gg /\ p.st = s.st
          /\ p.item = s.item /\ p.open = s.open /\ p.finishing = s.finishing
      BY <3>1, <3>2 DEF Ship
    <3> QED
      BY <3>3 DEF n, bb, gg
  <2> HIDE DEF p
  <2>8. ToSet(p.buf) = ToSet(b) \cup {s.next} /\ Evicted(p) = Evicted(s) \cup {h}
    BY <2>4, <2>5, <2>7 DEF Evicted
  <2>9. InPlace(p)
    BY <1>3, <2>2, <2>7, <2>8 DEF ShipOK, InPlace
  <2> QED
    BY <2>4, <2>5, <2>7, <2>9 DEF ShipOK, p
<1>6. CASE ~(Len(s.buf) >= Capacity)
  <2>1. push(s) = [s EXCEPT !.next = s.next + 1, !.buf = Append(s.buf, s.next), !.gaps = s.gaps]
    BY <1>6 DEF push
  <2>a. s.next + 1 \in Nat
    BY <1>1
  <2>2. ToSet(Append(s.buf, s.next)) = ToSet(s.buf) \cup {s.next} /\ Append(s.buf, s.next) \in Seq(Nat)
        /\ Single(Append(s.buf, s.next)) /\ Len(Append(s.buf, s.next)) <= Capacity
    BY <1>1, <1>2, <1>4, <1>6, ToSetAppend, SingleAppend DEF ShipOK
  <2> DEFINE p == push(s)
  <2>3. /\ p \in Ship /\ p.next = s.next + 1 /\ p.buf = Append(s.buf, s.next)
        /\ p.gaps = s.gaps /\ p.st = s.st /\ p.item = s.item
        /\ p.open = s.open /\ p.finishing = s.finishing
    <3> DEFINE n == s.next + 1
               bb == Append(s.buf, s.next)
               gg == s.gaps
    <3>1. n \in Nat /\ bb \in Seq(Nat) /\ gg \in Seq(SUBSET Nat)
      BY <1>1, <2>1, <2>2, <2>a
    <3>2. p = [s EXCEPT !.next = n, !.buf = bb, !.gaps = gg]
      BY <1>1, <2>1, <2>2, <2>a
    <3> HIDE DEF n, bb, gg, p
    <3>3. /\ p \in Ship /\ p.next = n /\ p.buf = bb /\ p.gaps = gg /\ p.st = s.st
          /\ p.item = s.item /\ p.open = s.open /\ p.finishing = s.finishing
      BY <3>1, <3>2 DEF Ship
    <3> QED
      BY <3>3 DEF n, bb, gg
  <2> HIDE DEF p
  <2>4. InPlace(p)
    <3>1. Evicted(p) = Evicted(s) /\ ToSet(p.buf) = ToSet(s.buf) \cup {s.next} /\ InPlace(s)
      BY <2>2, <2>3 DEF Evicted, ShipOK
    <3> QED
      BY <1>3, <2>3, <3>1 DEF InPlace
  <2> QED
    BY <2>2, <2>3, <2>4 DEF ShipOK, p
<1> QED
  BY <1>5, <1>6

(* next_item: a gap or a record moves to the item. *)
LEMMA TakeOK ==
  ASSUME NEW s \in Ship, ShipOK(s), s.item = Absent, s.buf # <<>> \/ s.gaps # <<>>
  PROVE  /\ next_item(s) \in Ship /\ ShipOK(next_item(s)) /\ next_item(s).next = s.next
         /\ next_item(s).st = s.st /\ next_item(s).open = s.open
         /\ next_item(s).finishing = s.finishing
<1> DEFINE p == next_item(s)
<1>1. /\ s.next \in Nat /\ s.buf \in Seq(Nat) /\ s.gaps \in Seq(SUBSET Nat) /\ s.item.seqs = {}
      /\ s.st \in Shown /\ s.open \in BOOLEAN /\ s.finishing \in BOOLEAN
  BY DEF Ship, Absent
<1>2. CASE GapIsFirst(s)
  <2> DEFINE h == Head(s.gaps)
             g == Tail(s.gaps)
  <2>1. /\ h \in SUBSET Nat /\ g \in Seq(SUBSET Nat) /\ ToSet(s.gaps) = {h} \cup ToSet(g)
        /\ Spread(g) /\ \A x \in ToSet(g) : h \cap x = {}
    BY <1>1, <1>2, TailIs DEF GapIsFirst, ShipOK
  <2>2. p = [s EXCEPT !.gaps = g, !.item = Gap(h)]
    BY <1>2 DEF next_item
  <2> HIDE DEF h, g
  <2>3. Gap(h) \in Item /\ Gap(h).seqs = h
    BY <2>1 DEF Gap, Item
  <2>4. /\ p \in Ship /\ p.next = s.next /\ p.buf = s.buf /\ p.gaps = g /\ p.st = s.st
        /\ p.item = Gap(h) /\ p.open = s.open /\ p.finishing = s.finishing
    BY <1>1, <2>1, <2>2, <2>3 DEF Ship
  <2> HIDE DEF p
  <2>5. Evicted(s) = h \cup Evicted(p) /\ h \cap Evicted(p) = {}
    BY <2>1, <2>4 DEF Evicted
  <2>6. InPlace(p)
    BY <1>1, <2>3, <2>4, <2>5 DEF ShipOK, InPlace
  <2> QED
    BY <2>1, <2>4, <2>6 DEF ShipOK, p, ItemIs
<1>3. CASE ~GapIsFirst(s)
  <2>1. s.buf # <<>>
    BY <1>3 DEF GapIsFirst
  <2> DEFINE h == Head(s.buf)
             b == Tail(s.buf)
  <2>2. /\ h \in Nat /\ b \in Seq(Nat) /\ Len(b) = Len(s.buf) - 1 /\ ToSet(s.buf) = {h} \cup ToSet(b)
        /\ Single(b) /\ h \notin ToSet(b)
    BY <1>1, <2>1, TailIs DEF ShipOK
  <2>3. p = [s EXCEPT !.buf = b, !.item = Accepted(h)]
    BY <1>3 DEF next_item
  <2> HIDE DEF h, b
  <2>4. Accepted(h) \in Item /\ Accepted(h).seqs = {h}
    BY <2>2 DEF Accepted, Item
  <2>5. /\ p \in Ship /\ p.next = s.next /\ p.buf = b /\ p.gaps = s.gaps /\ p.st = s.st
        /\ p.item = Accepted(h) /\ p.open = s.open /\ p.finishing = s.finishing
    BY <1>1, <2>2, <2>3, <2>4 DEF Ship
  <2> HIDE DEF p
  <2>6. InPlace(p)
    BY <1>1, <2>2, <2>4, <2>5 DEF ShipOK, InPlace, Evicted
  <2>7. Len(b) <= Capacity
    BY <1>1, <2>2, SizeAssumption DEF ShipOK
  <2> QED
    BY <2>2, <2>5, <2>6, <2>7 DEF ShipOK, p, ItemIs
<1> QED
  BY <1>2, <1>3

(* Accept: the item moves to the stream. *)
LEMMA AcceptOK ==
  ASSUME NEW s \in Ship, ShipOK(s), s.item # Absent, Applied(s).ok,
         NEW p, p = [s EXCEPT !.item = Absent, !.st = Applied(s).st]
  PROVE  /\ p \in Ship /\ ShipOK(p) /\ p.next = s.next /\ p.item = Absent
         /\ p.st.accepted = IF s.item.kind = "accepted" THEN s.st.accepted \cup s.item.seqs
                            ELSE s.st.accepted
         /\ p.st.gaps = IF s.item.kind = "gap" THEN s.st.gaps \cup {s.item.seqs} ELSE s.st.gaps
<1>1. /\ s.next \in Nat /\ s.buf \in Seq(Nat) /\ s.gaps \in Seq(SUBSET Nat) /\ s.item \in Item
      /\ s.st \in Shown /\ s.open \in BOOLEAN /\ s.finishing \in BOOLEAN /\ Absent \in Item
  BY DEF Ship, Absent, Item
<1> DEFINE x == Applied(s).st
<1>2. /\ x \in Shown
      /\ x.accepted = IF s.item.kind = "accepted" THEN s.st.accepted \cup s.item.seqs
                      ELSE s.st.accepted
      /\ x.gaps = IF s.item.kind = "gap" THEN s.st.gaps \cup {s.item.seqs} ELSE s.st.gaps
      /\ s.item.kind \in {"accepted", "gap"}
  <2>1. CASE \E n \in Nat : s.item = Accepted(n)
    <3>1. PICK n \in Nat : s.item = Accepted(n)
      BY <2>1
    <3>2. s.item.kind = "accepted" /\ s.item.seqs = {n} /\ (CHOOSE m \in {n} : TRUE) = n
      BY <3>1 DEF Accepted
    <3>3. Applied(s) = apply_accepted(s.st, n)
      BY <3>2 DEF Applied
    <3>4. x = [s.st EXCEPT !.accepted = @ \cup {n}]
      BY <3>3 DEF apply_accepted, Good, Bad
    <3>5. s.st.accepted \cup {n} \in SUBSET Nat
      BY <1>1 DEF Shown
    <3>6. x \in Shown /\ x.accepted = s.st.accepted \cup {n} /\ x.gaps = s.st.gaps
      BY <1>1, <3>4, <3>5 DEF Shown
    <3> HIDE DEF x
    <3> QED
      BY <3>2, <3>6
  <2>2. CASE \E g \in SUBSET Nat : s.item = Gap(g)
    <3>1. PICK g \in SUBSET Nat : s.item = Gap(g)
      BY <2>2
    <3>2. s.item.kind = "gap" /\ s.item.seqs = g
      BY <3>1 DEF Gap
    <3>3. Applied(s) = apply_gap(s.st, g)
      BY <3>2 DEF Applied
    <3>4. x = [s.st EXCEPT !.gaps = @ \cup {g}]
      BY <3>3 DEF apply_gap, Good, Bad
    <3> QED
      BY <1>1, <3>2, <3>4 DEF Shown
  <2> QED
    BY <2>1, <2>2 DEF ShipOK, ItemIs
<1> HIDE DEF x
<1>3. /\ p \in Ship /\ p.next = s.next /\ p.buf = s.buf /\ p.gaps = s.gaps /\ p.item = Absent
      /\ p.st = x
  <2>1. p = [s EXCEPT !.item = Absent, !.st = x]
    BY DEF x
  <2> QED
    BY <1>1, <1>2, <2>1 DEF Ship
<1>4. Absent.seqs = {}
  BY DEF Absent
<1>5. s.item.seqs \cap Covered(s.st) = {} /\ Apart(s.st.accepted, s.st.gaps)
  BY DEF ShipOK, InPlace
<1>6. Covered(x) = Covered(s.st) \cup s.item.seqs
  BY <1>2 DEF Covered
<1>7. Apart(x.accepted, x.gaps)
  BY <1>2, <1>5 DEF Apart, Covered
<1>8. InPlace(p)
  BY <1>3, <1>4, <1>6 DEF ShipOK, InPlace, Evicted
<1> QED
  BY <1>2, <1>3, <1>7, <1>8 DEF ShipOK, ItemIs

-----------------------------------------------------------------------------
(* What reopening keeps of a journal *)

Intact(f) == \A i \in DOMAIN f : f[i] \notin {Torn, Garbled}

LEMMA ReadableIs ==
  ASSUME NEW S, NEW f \in Seq(S)
  PROVE  /\ Readable(f) \in Seq(S) /\ Intact(Readable(f))
         /\ \A i \in DOMAIN Readable(f) : i \in DOMAIN f /\ Readable(f)[i] = f[i]
         /\ Intact(f) => Readable(f) = f
<1> DEFINE torn == Broken(f)
<1>1. CASE torn = {}
  BY <1>1 DEF Readable, Intact, Broken
<1>2. CASE torn # {}
  <2>1. torn \in SUBSET Nat
    BY DEF Broken
  <2>2. \E i \in torn : \A j \in torn : i <= j
    <3> HIDE DEF torn
    <3> QED
      BY <1>2, <2>1, LeastNumber
  <2>3. PICK k \in torn : /\ \A j \in torn : k <= j
                          /\ Readable(f) = SubSeq(f, 1, k - 1)
    BY <1>2, <2>2 DEF Readable, FirstBroken
  <2>4. k \in 1 .. Len(f) /\ Len(f) \in Nat
    BY <2>3 DEF Broken
  <2>5. /\ SubSeq(f, 1, k - 1) \in Seq(S) /\ Len(SubSeq(f, 1, k - 1)) = k - 1
        /\ \A i \in 1 .. k - 1 : SubSeq(f, 1, k - 1)[i] = f[i]
    BY <2>4
  <2>6. DOMAIN Readable(f) = 1 .. k - 1 /\ \A i \in 1 .. k - 1 : i \in DOMAIN f /\ Readable(f)[i] = f[i]
    BY <2>3, <2>4, <2>5
  <2>7. \A i \in 1 .. k - 1 : f[i] \notin {Torn, Garbled}
    BY <2>3, <2>4 DEF Broken
  <2> QED
    BY <1>2, <2>3, <2>5, <2>6, <2>7 DEF Intact, Broken
<1> QED
  BY <1>1, <1>2

(* A frame cut short at the end of a journal: it is left out. *)
LEMMA ReadableTorn ==
  ASSUME NEW S, NEW f \in Seq(S), NEW x \in S, x \in {Torn, Garbled}, Intact(f)
  PROVE  Readable(Append(f, x)) = f /\ Decodes(Append(f, x))
<1> DEFINE a == Append(f, x)
           n == Len(f)
<1>1. /\ a \in Seq(S) /\ Len(a) = n + 1 /\ n \in Nat /\ a[n + 1] = x
      /\ \A i \in 1 .. n : a[i] = f[i]
  OBVIOUS
<1>2. Broken(a) = {n + 1}
  BY <1>1 DEF Intact, Broken
<1>3. (CHOOSE i \in {n + 1} : \A j \in {n + 1} : i <= j) = n + 1
  BY <1>1
<1> HIDE DEF a
<1>4. FirstBroken(a) = n + 1
  BY <1>2, <1>3 DEF FirstBroken
<1>5. Readable(a) = SubSeq(a, 1, (n + 1) - 1)
  BY <1>2, <1>4 DEF Readable
<1>6. (n + 1) - 1 = n
  BY <1>1
<1>7. SubSeq(a, 1, n) \in Seq(S) /\ Len(SubSeq(a, 1, n)) = n /\ \A i \in 1 .. n : SubSeq(a, 1, n)[i] = a[i]
  BY <1>1
<1>8. SubSeq(a, 1, n) = f
  BY <1>1, <1>7
<1>9. Decodes(a)
  BY <1>1, <1>4 DEF Decodes
<1> QED
  BY <1>5, <1>6, <1>8, <1>9 DEF a

(* Nothing that follows a frame cut short can be read. *)
LEMMA BrokenStays ==
  ASSUME NEW S, NEW f \in Seq(S), NEW x \in S, Broken(f) # {}
  PROVE  Broken(Append(f, x)) # {} /\ Readable(Append(f, x)) = Readable(f)
<1> DEFINE a == Append(f, x)
           n == Len(f)
<1>1. /\ a \in Seq(S) /\ Len(a) = n + 1 /\ n \in Nat /\ \A i \in 1 .. n : a[i] = f[i]
      /\ DOMAIN f = 1 .. n /\ DOMAIN a = 1 .. n + 1
  OBVIOUS
<1> HIDE DEF a
<1>2. Broken(f) \subseteq 1 .. n /\ Broken(f) \subseteq Broken(a) /\ Broken(a) \subseteq Broken(f) \cup {n + 1}
  BY <1>1 DEF Broken
<1>3. Broken(f) \in SUBSET Nat /\ n \in Nat
  BY <1>1, <1>2
<1>4. \E i \in Broken(f) : \A j \in Broken(f) : i <= j
  BY <1>3, LeastNumber
<1>5. PICK k \in Broken(f) : k = FirstBroken(f) /\ \A j \in Broken(f) : k <= j
  BY <1>4 DEF FirstBroken
<1>6. k \in 1 .. n /\ k \in Broken(a) /\ \A j \in Broken(a) : k <= j /\ j \in Nat
  BY <1>2, <1>3, <1>5
<1>7. PICK p \in Broken(a) : p = FirstBroken(a) /\ \A j \in Broken(a) : p <= j
  BY <1>6 DEF FirstBroken
<1>8. FirstBroken(a) = k
  <2>1. p <= k /\ k <= p /\ p \in Nat /\ k \in Nat
    BY <1>6, <1>7
  <2> QED
    BY <1>7, <2>1
<1>9. Readable(a) = SubSeq(a, 1, k - 1) /\ Readable(f) = SubSeq(f, 1, k - 1)
  BY <1>5, <1>6, <1>8 DEF Readable
<1>10. SubSeq(a, 1, k - 1) = SubSeq(f, 1, k - 1)
  <2>1. /\ SubSeq(a, 1, k - 1) \in Seq(S) /\ Len(SubSeq(a, 1, k - 1)) = k - 1
        /\ \A i \in 1 .. k - 1 : SubSeq(a, 1, k - 1)[i] = a[i]
    BY <1>1, <1>6
  <2>2. /\ SubSeq(f, 1, k - 1) \in Seq(S) /\ Len(SubSeq(f, 1, k - 1)) = k - 1
        /\ \A i \in 1 .. k - 1 : SubSeq(f, 1, k - 1)[i] = f[i]
    BY <1>6
  <2>3. \A i \in 1 .. k - 1 : a[i] = f[i]
    BY <1>1, <1>6
  <2> QED
    BY <2>1, <2>2, <2>3
<1> QED
  BY <1>6, <1>9, <1>10 DEF a

(* What recover finds, or nothing. *)
OkView(f) ==
  LET st == View(f)
  IN  /\ Apart(Acc(f), Gaps(f))
      /\ \A i \in Of(f, "terminal") : i + 1 .. Len(f) \subseteq Of(f, "seal")
      /\ \A i \in Of(f, "seal") : i = Len(f) /\ Term(f) # "none" /\ f[i].seqs = Acc(f)
      /\ Term(f) = "eos" => ~frontier_has_hole(st)

LEMMA RecoverIs ==
  ASSUME NEW f
  PROVE  /\ recover(f).ok <=> Decodes(f) /\ OkView(Readable(f))
         /\ recover(f).st = IF Decodes(f) /\ OkView(Readable(f)) THEN View(Readable(f)) ELSE NewStream
  BY DEF recover, OkView, View, Acc, Gaps, Term, Sealed, Of, Apart, Good, Bad

LEMMA ChunksAre == Chunks \subseteq Nat /\ 0 \in Chunks
  BY ProcessAssumption DEF Chunks

LEMMA RecoverType ==
  ASSUME NEW f \in Seq(Frame)
  PROVE  recover(f).st.accepted \subseteq Chunks /\ recover(f).st.terminal \in Hows
<1> DEFINE r == Readable(f)
<1>1. r \in Seq(Frame)
  BY ReadableIs
<1> HIDE DEF r
<1>2. \A i \in DOMAIN r : r[i].seqs \subseteq Chunks /\ r[i].how \in Hows
  <2>1. \A i \in DOMAIN r : r[i] \in Frame
    BY <1>1
  <2> QED
    BY <2>1 DEF Frame
<1>3. Acc(r) \subseteq Chunks
  BY <1>2 DEF Acc, Of
<1>4. Term(r) \in Hows
  <2>1. CASE Of(r, "terminal") = {}
    BY <2>1 DEF Term, Hows
  <2>2. CASE Of(r, "terminal") # {}
    BY <1>2, <2>2 DEF Term, Of
  <2> QED
    BY <2>1, <2>2
<1>5. NewStream.accepted = {} /\ NewStream.terminal \in Hows
  BY DEF NewStream, Hows
<1>6. View(r).accepted = Acc(r) /\ View(r).terminal = Term(r)
  BY DEF View
<1>7. recover(f).st = IF Decodes(f) /\ OkView(r) THEN View(r) ELSE NewStream
  BY RecoverIs DEF r
<1> QED
  BY <1>3, <1>4, <1>5, <1>6, <1>7

-----------------------------------------------------------------------------
(* Types, the executor and the shipper *)

LEMMA ItemFrame ==
  ASSUME Typed, ExecSound, ShipSound, exec.pc = "running"
  PROVE  /\ exec.task \in Tasks /\ ship.item \in Frame /\ 0 .. ship.next - 1 \subseteq Chunks
         /\ ship.next \in Chunks
<1>1. exec.task \in Tasks /\ ship.next \in Nat /\ ship.next <= Output[exec.task]
  BY DEF Typed, ExecSound, Ship
<1>2. Output[exec.task] \in Nat
  BY <1>1, ProcessAssumption
<1>3. \A n \in Nat : n <= Output[exec.task] => n \in Chunks
  BY <1>1, <1>2 DEF Chunks
<1>4. 0 .. ship.next - 1 \subseteq Chunks /\ ship.next \in Chunks
  BY <1>1, <1>2, <1>3
<1>5. ship.item \in Item /\ ship.item.seqs \subseteq 0 .. ship.next - 1
  BY DEF Typed, Ship, ShipSound, ShipOK, InPlace
<1>6. ship.item \in Frame
  BY <1>4, <1>5 DEF Item, Frame, Hows
<1> QED
  BY <1>1, <1>4, <1>6

LEMMA ConstTypes == /\ Torn \in Frame /\ Garbled \in Frame /\ Absent \in Frame /\ \A h \in Hows : Terminal(h) \in Frame
                    /\ \A S \in SUBSET Chunks : Seal(S) \in Frame
                    /\ NoJournal \in Seq(Frame) /\ <<>> \in Seq(Frame)
<1>1. Torn \in Frame /\ Garbled \in Frame /\ Absent \in Frame
  BY DEF Torn, Garbled, Absent, Frame, Hows
<1>2. \A h \in Hows : Terminal(h) \in Frame
  BY DEF Terminal, Frame
<1>3. \A S \in SUBSET Chunks : Seal(S) \in Frame
  BY DEF Seal, Frame, Hows
<1> QED
  BY <1>1, <1>2, <1>3 DEF NoJournal

LEMMA LeftType ==
  ASSUME NEW f \in Seq(Frame), NEW x \in Frame, NEW how \in {"lost", "unsynced", "torn", "garbled"}
  PROVE  Left(f, x, how) \in Seq(Frame)
<1>1. Torn \in Frame /\ Garbled \in Frame
  BY ConstTypes
<1>2. how = "lost" => Left(f, x, how) = f
  BY DEF Left
<1>3. how = "unsynced" => Left(f, x, how) = Append(f, x)
  BY DEF Left
<1>4. how = "torn" => Left(f, x, how) = Append(f, Torn)
  BY DEF Left
<1>5. how = "garbled" => Left(f, x, how) = Append(f, Garbled)
  BY DEF Left
<1> QED
  BY <1>1, <1>2, <1>3, <1>4, <1>5

LEMMA ShipSame ==
  ASSUME NEW s \in Ship, ShipOK(s), NEW b \in BOOLEAN, NEW p,
         p = [s EXCEPT !.open = b] \/ p = [s EXCEPT !.finishing = b]
  PROVE  p \in Ship /\ ShipOK(p)
<1>1. /\ p \in Ship /\ p.next = s.next /\ p.buf = s.buf /\ p.gaps = s.gaps /\ p.item = s.item
      /\ p.st = s.st
  BY DEF Ship
<1> QED
  BY <1>1 DEF ShipOK, InPlace, Evicted

(* The shipper keeps every chunk in one place. *)
LEMMA ShipNext ==
  ASSUME Typed, ExecSound, ShipSound, [Next]_vars
  PROVE  (ship \in Ship /\ ShipSound)'
<1> DEFINE C == (ship \in Ship /\ ShipSound)'
<1> SUFFICES C
  OBVIOUS
<1>q. UNCHANGED ship => C
  BY DEF Typed, ShipSound
<1>z. UNCHANGED vars => C
  BY <1>q DEF vars, volatile, durable
<1>y. ASSUME NEW r \in Runs, Loses(r) PROVE C
  BY <1>q, <1>y DEF Loses, volatile, durable
<1>1. ASSUME Stops PROVE C
  BY <1>1, NoShipOK DEF Stops, Stop, ShipSound
<1>2. ASSUME Spawn PROVE C
  <2>1. NoShip \in Ship /\ ShipOK(NoShip)
    BY NoShipOK
  <2>2. ship' \in Ship /\ ship' = [NoShip EXCEPT !.open = TRUE]
    BY <1>2, <2>1 DEF Spawn, Ship
  <2> QED
    BY <2>1, <2>2 DEF ShipSound, ShipOK, InPlace, Evicted, NoShip
<1>3. ASSUME Exit PROVE C
  <2>1. ship \in Ship /\ ShipOK(ship) /\ ship' = [ship EXCEPT !.finishing = TRUE]
    BY <1>3 DEF Exit, Typed, ShipSound
  <2> QED
    BY <2>1, ShipSame DEF ShipSound
<1>4. ASSUME Read PROVE C
  BY <1>4, PushOK DEF Read, Typed, ShipSound
<1>5. ASSUME EndOfOutput PROVE C
  <2>1. ship \in Ship /\ ShipOK(ship) /\ ship' = [ship EXCEPT !.open = FALSE]
    BY <1>5 DEF EndOfOutput, Typed, ShipSound
  <2> QED
    BY <2>1, ShipSame DEF ShipSound
<1>6. ASSUME TakeItem PROVE C
  BY <1>6, TakeOK DEF TakeItem, Typed, ShipSound
<1>7. ASSUME Accept PROVE C
  BY <1>7, AcceptOK DEF Accept, Typed, ShipSound
<1>8. ASSUME Finish PROVE C
  BY <1>8, NoShipOK DEF Finish, ShipSound
<1>9. ASSUME EnsureScope \/ SpawnFails \/ NotLaunched \/ Settle \/ AcceptFails \/
             Snapshots \/ Seals(Stream) \/ Commits
      PROVE  C
  BY <1>q, <1>9 DEF EnsureScope, SpawnFails, NotLaunched, Settle, AcceptFails, Snapshots, Seals,
     Commits, KeepForDrain, KeepSources, volatile, durable
<1>10. ASSUME Verifies \/ CleanScope \/ PurgeJournal \/ PurgeStaging \/ Start \/
             StartDrain \/ Admit
      PROVE  C
  BY <1>q, <1>10 DEF Verifies, CleanScope, PurgeJournal, PurgeStaging, Start, StartDrain,
     Admit, KeepForDrain, KeepSources, volatile, durable
<1>11. ASSUME NEW f \in Files, HasFile(Stream, f) \/ WritesFile(Stream, f) \/
             RenamesFile(Stream, f)
      PROVE  C
  BY <1>q, <1>11 DEF HasFile, WritesFile, RenamesFile, KeepForDrain, KeepSources, volatile,
     durable
<1>12. ASSUME NEW r \in Runs, Selects(r)
      PROVE  C
  BY <1>q, <1>12 DEF Selects, KeepForDrain, KeepSources, volatile, durable
<1>13. ASSUME NEW r \in Runs, NEW p \in Payloads, Stage(r, p)
      PROVE  C
  BY <1>q, <1>13 DEF Stage, KeepForDrain, KeepSources, volatile, durable
<1>14. ASSUME NEW t \in Tasks, Claim(t) \/ Expire(t) \/ CancelPending(t) \/
             Recovers(t)
      PROVE  C
  BY <1>q, <1>14 DEF Claim, Expire, CancelPending, Recovers, KeepForDrain, KeepSources,
     volatile, durable
<1>15. ASSUME NEW t \in Tasks, NEW op \in Ops, Send(t, op) \/ Mutate(t, op)
      PROVE  C
  BY <1>q, <1>15 DEF Send, Mutate, KeepForDrain, KeepSources, volatile, durable
<1> HIDE DEF C
<1> QED
  BY <1>q, <1>y, <1>z, <1>1, <1>2, <1>3, <1>4, <1>5, <1>6, <1>7, <1>8, <1>9, <1>10, <1>11, <1>12,
     <1>13, <1>14, <1>15, Kinds

(* The executor keeps to its claim. *)
LEMMA ExecNext ==
  ASSUME Typed, ExecSound, ShipSound, NothingYet, [Next]_vars
  PROVE  ExecSound'
<1> DEFINE C == ExecSound'
<1> SUFFICES C
  OBVIOUS
<1>q. UNCHANGED <<phase, exec, ship, claim, told>> => C
  BY DEF ExecSound
<1>z. UNCHANGED vars => C
  BY <1>q DEF vars, volatile, durable
<1>y. ASSUME NEW r \in Runs, Loses(r) PROVE C
  BY <1>q, <1>y DEF Loses, volatile, durable
<1>f. ASSUME AcceptFails PROVE C
  <2>1. UNCHANGED <<phase, exec, ship, claim>>
    BY <1>f DEF AcceptFails, volatile
  <2> QED
    BY <1>f, <2>1, FailsTold DEF ExecSound
<1>1. ASSUME Stops PROVE C
  BY <1>1 DEF Stops, Stop, ExecSound, Idle
<1>2. ASSUME NEW t \in Tasks, Claim(t) PROVE C
  BY <1>2 DEF Claim, ExecSound, Typed, Idle
<1>3. ASSUME NEW t \in Tasks, Expire(t) PROVE C
  BY <1>3 DEF Expire, ExecSound, Typed, volatile
<1>4. ASSUME NEW t \in Tasks, CancelPending(t) PROVE C
  BY <1>4 DEF CancelPending, ExecSound, Typed, volatile
<1>5. ASSUME EnsureScope PROVE C
  BY <1>5 DEF EnsureScope, ExecSound, Typed, Idle
<1>6. ASSUME Spawn PROVE C
  <2>1. Unlaunched(exec.task) /\ exec.task \in Tasks
    BY <1>6 DEF Spawn, ExecSound, Unlaunched
  <2>2. told[exec.task].read = 0 /\ told[exec.task].accepted = {} /\ 0 <= Output[exec.task]
    BY <2>1, ProcessAssumption DEF NothingYet
  <2>3. ship'.next = 0 /\ ship'.st.accepted = {}
    BY <1>6 DEF Spawn, NoShip, NewStream
  <2>4. exec'.pc = "running" /\ exec'.task = exec.task /\ UNCHANGED <<phase, claim, told>>
    BY <1>6 DEF Spawn, Typed
  <2> QED
    BY <2>1, <2>2, <2>3, <2>4, <1>6 DEF ExecSound, Spawn
<1>7. ASSUME SpawnFails PROVE C
  BY <1>7 DEF SpawnFails, ExecSound, Typed, Idle
<1>8. ASSUME NotLaunched PROVE C
  BY <1>8 DEF NotLaunched, ExecSound, Typed, Idle
<1>9. ASSUME Exit PROVE C
  BY <1>9 DEF Exit, ExecSound, Typed, Ship, durable
<1>10. ASSUME Settle PROVE C
  BY <1>10 DEF Settle, ExecSound, Typed, Idle
<1>11. ASSUME Read PROVE C
  <2>1. exec.pc = "running" /\ exec.task \in Tasks
    BY <1>11 DEF Read, ExecSound, NoShip
  <2>2. ship'.next = ship.next + 1 /\ ship'.st = ship.st
    BY <1>11, PushOK DEF Read, Typed, ShipSound
  <2>3. told'[exec.task].read = told[exec.task].read + 1
        /\ told'[exec.task].accepted = told[exec.task].accepted
    BY <1>11, <2>1 DEF Read, Typed, Told
  <2>4. ship.next + 1 <= Output[exec.task]
    <3>1. ship.next \in Nat /\ Output[exec.task] \in Nat /\ ship.next < Output[exec.task]
      BY <1>11, <2>1, ProcessAssumption DEF Read, Typed, Ship
    <3> QED
      BY <3>1
  <2>5. UNCHANGED <<phase, exec, claim>>
    BY <1>11 DEF Read, durable
  <2> QED
    BY <2>1, <2>2, <2>3, <2>4, <2>5 DEF ExecSound
<1>12. ASSUME EndOfOutput PROVE C
  <2>1. exec.pc = "running"
    BY <1>12 DEF EndOfOutput, ExecSound, NoShip
  <2> QED
    BY <1>12, <2>1 DEF EndOfOutput, ExecSound, Typed, Ship, durable
<1>13. ASSUME TakeItem PROVE C
  <2>1. ship'.next = ship.next /\ ship'.st = ship.st /\ exec.pc = "running"
    BY <1>13, TakeOK DEF TakeItem, Typed, ShipSound
  <2> QED
    BY <1>13, <2>1 DEF TakeItem, ExecSound, durable
<1>14. ASSUME Accept PROVE C
  <2>1. exec.pc = "running" /\ exec.task \in Tasks
    BY <1>14 DEF Accept, ExecSound, NoShip
  <2>2. ship'.next = ship.next /\ ship.st.accepted \subseteq ship'.st.accepted
        /\ ship'.st = Applied(ship).st
    <3> DEFINE p == ship'
    <3>1. ship \in Ship /\ ShipOK(ship) /\ ship.item # Absent /\ Applied(ship).ok
          /\ p = [ship EXCEPT !.item = Absent, !.st = Applied(ship).st]
      BY <1>14 DEF Accept, Typed, ShipSound
    <3>2. p.st = Applied(ship).st
      BY <3>1 DEF Ship
    <3> HIDE DEF p
    <3>3. /\ p.next = ship.next
          /\ p.st.accepted = IF ship.item.kind = "accepted"
                             THEN ship.st.accepted \cup ship.item.seqs ELSE ship.st.accepted
      BY <3>1, AcceptOK
    <3> QED
      BY <3>2, <3>3 DEF p
  <2>3. told'[exec.task].read = told[exec.task].read
        /\ told'[exec.task].accepted = told[exec.task].accepted \cup ship'.st.accepted
    BY <1>14, <2>1, <2>2 DEF Accept, Typed, Told
  <2>4. UNCHANGED <<phase, exec, claim>>
    BY <1>14 DEF Accept
  <2> QED
    BY <2>1, <2>2, <2>3, <2>4 DEF ExecSound
<1>15. ASSUME Finish PROVE C
  <2>1. exec.pc = "running"
    BY <1>15 DEF Finish, ExecSound, NoShip
  <2> QED
    BY <1>15, <2>1 DEF Finish, ExecSound, Typed, Idle
<1>16. ASSUME NEW t \in Tasks, NEW op \in Ops, Send(t, op) PROVE C
  <2>1. \A u \in Tasks : told'[u].read = told[u].read /\ told'[u].accepted = told[u].accepted
    BY <1>16 DEF Send, Typed, Told
  <2> QED
    BY <1>16, <2>1 DEF Send, ExecSound, durable
<1>17. ASSUME NEW t \in Tasks, NEW op \in Ops, Mutate(t, op) PROVE C
  <2>1. \A u \in Tasks : told'[u].read = told[u].read /\ told'[u].accepted = told[u].accepted
    BY <1>17 DEF Mutate, Typed, Told
  <2> QED
    BY <1>17, <2>1 DEF Mutate, ExecSound
<1>18. ASSUME Start PROVE C
  BY <1>18 DEF Start, ExecSound, durable
<1>19. ASSUME StartDrain PROVE C
  BY <1>19 DEF StartDrain, ExecSound, durable
<1>20. ASSUME Admit PROVE C
  BY <1>20 DEF Admit, ExecSound, durable
<1>21. ASSUME Snapshots \/ Seals(Stream) \/ Commits \/ Verifies \/
             CleanScope \/ PurgeJournal \/ PurgeStaging
      PROVE  C
  BY <1>q, <1>21 DEF Snapshots, Seals, Commits, Verifies, CleanScope, PurgeJournal,
     PurgeStaging, KeepForDrain, KeepSources, volatile, durable
<1>22. ASSUME NEW f \in Files, HasFile(Stream, f) \/ WritesFile(Stream, f) \/
             RenamesFile(Stream, f)
      PROVE  C
  BY <1>q, <1>22 DEF HasFile, WritesFile, RenamesFile, KeepForDrain, KeepSources, volatile,
     durable
<1>23. ASSUME NEW r \in Runs, Selects(r)
      PROVE  C
  BY <1>q, <1>23 DEF Selects, KeepForDrain, KeepSources, volatile, durable
<1>24. ASSUME NEW r \in Runs, NEW p \in Payloads, Stage(r, p)
      PROVE  C
  BY <1>q, <1>24 DEF Stage, KeepForDrain, KeepSources, volatile, durable
<1>25. ASSUME NEW t \in Tasks, Recovers(t)
      PROVE  C
  BY <1>q, <1>25 DEF Recovers, KeepForDrain, KeepSources, volatile, durable
<1> HIDE DEF C
<1> QED
  BY <1>f, <1>q, <1>y, <1>z, <1>1, <1>2, <1>3, <1>4, <1>5, <1>6, <1>7, <1>8, <1>9, <1>10, <1>11, <1>12,
     <1>13, <1>14, <1>15, <1>16, <1>17, <1>18, <1>19, <1>20, <1>21, <1>22, <1>23, <1>24, <1>25,
     Kinds

-----------------------------------------------------------------------------
(* Type correctness *)

(* The stream the drain treats is one of its run. *)
LEMMA StreamIs ==
  ASSUME Plain, drain.pc \in {"seal", "log", "exit", "purge"}
  PROVE  /\ Stream \in drain.left /\ Stream \in Tasks /\ RunOf[Stream] = drain.run
         /\ drain.run \in Runs
<1>1. drain.left # {} /\ drain.left \subseteq TasksOf(drain.run) /\ drain.run \in Runs
  BY DEF Plain, DrainPlace
<1>2. Stream \in drain.left
  BY <1>1 DEF Stream
<1> QED
  BY <1>1, <1>2 DEF TasksOf

LEMMA MemoryType ==
  ASSUME Plain, [Next]_vars
  PROVE  (/\ phase \in {"down", "journals", "recovering", "up"} /\ todo \subseteq Tasks
                /\ exec \in [pc : {"idle", "claimed", "scoped", "running", "flushed"},
                            task : Tasks \cup {NoTask}]
                /\ grants \subseteq Tasks /\ requests \subseteq Tasks \X Ops)'
<1> USE DEF Plain
<1> DEFINE C == (/\ phase \in {"down", "journals", "recovering", "up"} /\ todo \subseteq Tasks
                /\ exec \in [pc : {"idle", "claimed", "scoped", "running", "flushed"},
                            task : Tasks \cup {NoTask}]
                /\ grants \subseteq Tasks /\ requests \subseteq Tasks \X Ops)'
<1> SUFFICES C
  OBVIOUS
<1>q. UNCHANGED <<phase, todo, exec, grants, requests>> => C
  BY DEF Typed
<1>z. UNCHANGED vars => C
  BY <1>q DEF vars, volatile, durable
<1>y. ASSUME NEW r \in Runs, Loses(r) PROVE C
  BY <1>q, <1>y DEF Loses, volatile, durable
<1>1. ASSUME Stops PROVE C
  BY <1>1 DEF Typed, Stops, Stop, Idle
<1>2. ASSUME NEW t \in Tasks, Claim(t) PROVE C
  BY <1>2 DEF Typed, Claim
<1>3. ASSUME NEW t \in Tasks, Recovers(t) PROVE C
  BY <1>3 DEF Typed, Recovers
<1>4. ASSUME EnsureScope PROVE C
  BY <1>4 DEF Typed, EnsureScope
<1>5. ASSUME Spawn PROVE C
  <2>1. exec.task \in Tasks
    BY <1>5 DEF Spawn, ExecSound
  <2> QED
    BY <1>5, <2>1 DEF Typed, Spawn
<1>6. ASSUME SpawnFails PROVE C
  <2>1. exec.task \in Tasks
    BY <1>6 DEF SpawnFails, ExecSound
  <2> QED
    BY <1>6, <2>1 DEF Typed, SpawnFails
<1>7. ASSUME NotLaunched PROVE C
  BY <1>7 DEF Typed, NotLaunched, Idle
<1>8. ASSUME Exit PROVE C
  BY <1>8 DEF Typed, Exit
<1>9. ASSUME Settle PROVE C
  BY <1>9 DEF Typed, Settle, Idle
<1>10. ASSUME Finish PROVE C
  BY <1>10 DEF Typed, Finish
<1>11. ASSUME NEW t \in Tasks, NEW op \in Ops, Send(t, op) PROVE C
  BY <1>11 DEF Typed, Send
<1>12. ASSUME NEW t \in Tasks, NEW op \in Ops, Mutate(t, op) PROVE C
  BY <1>12 DEF Typed, Mutate
<1>13. ASSUME Start PROVE C
  BY <1>13 DEF Typed, Start
<1>14. ASSUME StartDrain PROVE C
  BY <1>14 DEF Typed, StartDrain
<1>15. ASSUME Admit PROVE C
  BY <1>15 DEF Typed, Admit
<1>16. ASSUME Read \/ EndOfOutput \/ TakeItem \/ Accept \/ AcceptFails \/ Snapshots \/
             Seals(Stream) \/ Commits
      PROVE  C
  BY <1>q, <1>16 DEF Read, EndOfOutput, TakeItem, Accept, AcceptFails, Snapshots, Seals,
     Commits, KeepForDrain, KeepSources, volatile, durable
<1>17. ASSUME Verifies \/ CleanScope \/ PurgeJournal \/ PurgeStaging
      PROVE  C
  BY <1>q, <1>17 DEF Verifies, CleanScope, PurgeJournal, PurgeStaging, KeepForDrain,
     KeepSources, volatile, durable
<1>18. ASSUME NEW f \in Files, HasFile(Stream, f) \/ WritesFile(Stream, f) \/
             RenamesFile(Stream, f)
      PROVE  C
  BY <1>q, <1>18 DEF HasFile, WritesFile, RenamesFile, KeepForDrain, KeepSources, volatile,
     durable
<1>19. ASSUME NEW r \in Runs, Selects(r)
      PROVE  C
  BY <1>q, <1>19 DEF Selects, KeepForDrain, KeepSources, volatile, durable
<1>20. ASSUME NEW r \in Runs, NEW p \in Payloads, Stage(r, p)
      PROVE  C
  BY <1>q, <1>20 DEF Stage, KeepForDrain, KeepSources, volatile, durable
<1>21. ASSUME NEW t \in Tasks, Expire(t) \/ CancelPending(t)
      PROVE  C
  BY <1>q, <1>21 DEF Expire, CancelPending, KeepForDrain, KeepSources, volatile, durable
<1> HIDE DEF C
<1> QED
  BY <1>q, <1>y, <1>z, <1>1, <1>2, <1>3, <1>4, <1>5, <1>6, <1>7, <1>8, <1>9, <1>10, <1>11, <1>12,
     <1>13, <1>14, <1>15, <1>16, <1>17, <1>18, <1>19, <1>20, <1>21, Kinds

LEMMA DrainType ==
  ASSUME Plain, [Next]_vars
  PROVE  (drain \in [pc : DrainSteps, run : Runs \cup {NoTask}, left : SUBSET Tasks,
                         seal : [holds : SUBSET Chunks, how : Hows]])'
<1> USE DEF Plain
<1>n. NoSeal \in [holds : SUBSET Chunks, how : Hows]
  BY DEF NoSeal, Hows
<1> DEFINE C == (drain \in [pc : DrainSteps, run : Runs \cup {NoTask}, left : SUBSET Tasks,
                         seal : [holds : SUBSET Chunks, how : Hows]])'
<1> SUFFICES C
  OBVIOUS
<1>q. UNCHANGED drain => C
  BY DEF Typed
<1>z. UNCHANGED vars => C
  BY <1>q DEF vars, volatile, durable
<1>y. ASSUME NEW r \in Runs, Loses(r) PROVE C
  BY <1>q, <1>y DEF Loses, volatile, durable
<1>1. ASSUME Stops PROVE C
  BY <1>1, <1>n DEF Stops, Stop, Resting, DrainSteps
<1>2. ASSUME NEW r \in Runs, Selects(r) PROVE C
  BY <1>2, <1>n DEF Selects, Typed, GoTo, DrainSteps, Streams, TasksOf
<1>3. ASSUME Snapshots PROVE C
  BY <1>3, <1>n DEF Snapshots, Typed, GoTo, DrainSteps
<1>4. ASSUME Seals(Stream) PROVE C
  <2>1. Stream \in Tasks
    BY <1>4, StreamIs DEF Seals, AtStep
  <2>2. recover(journal[Stream]).st.accepted \subseteq Chunks
        /\ recover(journal[Stream]).st.terminal \in Hows
    BY <2>1, RecoverType DEF Typed
  <2> QED
    BY <1>4, <2>2 DEF Seals, Typed, DrainSteps
<1>5. ASSUME NEW f \in Files, HasFile(Stream, f) PROVE C
  <2>1. PICK s \in {"exit", "commit", "seal"}, l \in SUBSET Tasks : GoTo(s, l)
    BY <1>5 DEF HasFile, AfterFile, Files, Typed
  <2> QED
    BY <1>n, <2>1 DEF GoTo, Typed, DrainSteps
<1>6. ASSUME NEW f \in Files, RenamesFile(Stream, f) PROVE C
  <2>1. PICK s \in {"exit", "commit", "seal"}, l \in SUBSET Tasks : GoTo(s, l)
    BY <1>6 DEF RenamesFile, AfterFile, Files, Typed
  <2> QED
    BY <1>n, <2>1 DEF GoTo, Typed, DrainSteps
<1>7. ASSUME Commits PROVE C
  BY <1>7, <1>n DEF Commits, Typed, GoTo, DrainSteps, Streams, TasksOf
<1>8. ASSUME Verifies PROVE C
  BY <1>8, <1>n DEF Verifies, Typed, GoTo, DrainSteps
<1>9. ASSUME CleanScope PROVE C
  BY <1>9, <1>n DEF CleanScope, Typed, GoTo, DrainSteps
<1>10. ASSUME PurgeJournal PROVE C
  BY <1>10, <1>n DEF PurgeJournal, Typed, GoTo, DrainSteps
<1>11. ASSUME PurgeStaging PROVE C
  BY <1>11, <1>n DEF PurgeStaging, Resting, DrainSteps
<1>12. ASSUME EnsureScope \/ Spawn \/ SpawnFails \/ NotLaunched \/ Exit \/ Settle \/
             Read \/ EndOfOutput
      PROVE  C
  BY <1>q, <1>12 DEF EnsureScope, Spawn, SpawnFails, NotLaunched, Exit, Settle, Read,
     EndOfOutput, KeepForDrain, KeepSources, volatile, durable
<1>13. ASSUME TakeItem \/ Accept \/ AcceptFails \/ Finish \/ Start \/ StartDrain \/
             Admit
      PROVE  C
  BY <1>q, <1>13 DEF TakeItem, Accept, AcceptFails, Finish, Start, StartDrain, Admit,
     KeepForDrain, KeepSources, volatile, durable
<1>14. ASSUME NEW f \in Files, WritesFile(Stream, f)
      PROVE  C
  BY <1>q, <1>14 DEF WritesFile, KeepForDrain, KeepSources, volatile, durable
<1>15. ASSUME NEW r \in Runs, NEW p \in Payloads, Stage(r, p)
      PROVE  C
  BY <1>q, <1>15 DEF Stage, KeepForDrain, KeepSources, volatile, durable
<1>16. ASSUME NEW t \in Tasks, Claim(t) \/ Expire(t) \/ CancelPending(t) \/
             Recovers(t)
      PROVE  C
  BY <1>q, <1>16 DEF Claim, Expire, CancelPending, Recovers, KeepForDrain, KeepSources,
     volatile, durable
<1>17. ASSUME NEW t \in Tasks, NEW op \in Ops, Send(t, op) \/ Mutate(t, op)
      PROVE  C
  BY <1>q, <1>17 DEF Send, Mutate, KeepForDrain, KeepSources, volatile, durable
<1> HIDE DEF C
<1> QED
  BY <1>q, <1>y, <1>z, <1>1, <1>2, <1>3, <1>4, <1>5, <1>6, <1>7, <1>8, <1>9, <1>10, <1>11, <1>12,
     <1>13, <1>14, <1>15, <1>16, <1>17, Kinds

LEMMA ClaimType ==
  ASSUME Plain, [Next]_vars
  PROVE  (claim \in [Tasks -> {"pending", "claimed", "settled", "cancelled"}])'
<1> USE DEF Plain
<1> DEFINE C == (claim \in [Tasks -> {"pending", "claimed", "settled", "cancelled"}])'
<1> SUFFICES C
  OBVIOUS
<1>q. UNCHANGED claim => C
  BY DEF Typed
<1>z. UNCHANGED vars => C
  BY <1>q DEF vars, volatile, durable
<1>y. ASSUME NEW r \in Runs, Loses(r) PROVE C
  BY <1>q, <1>y DEF Loses, volatile, durable
<1>1. ASSUME NEW t \in Tasks, Claim(t) PROVE C
  BY <1>1 DEF Typed, Claim
<1>2. ASSUME NEW t \in Tasks, Expire(t) PROVE C
  BY <1>2 DEF Typed, Expire
<1>3. ASSUME NEW t \in Tasks, CancelPending(t) PROVE C
  BY <1>3 DEF Typed, CancelPending
<1>4. ASSUME NotLaunched PROVE C
  BY <1>4 DEF Typed, NotLaunched
<1>5. ASSUME Settle PROVE C
  BY <1>5 DEF Typed, Settle
<1>6. ASSUME Stops \/ EnsureScope \/ Spawn \/ SpawnFails \/ Exit \/ Read \/
             EndOfOutput \/ TakeItem
      PROVE  C
  BY <1>q, <1>6 DEF Stops, EnsureScope, Spawn, SpawnFails, Exit, Read, EndOfOutput, TakeItem,
     KeepForDrain, KeepSources, volatile, durable
<1>7. ASSUME Accept \/ AcceptFails \/ Finish \/ Snapshots \/ Seals(Stream) \/ Commits
             \/ Verifies \/ CleanScope
      PROVE  C
  BY <1>q, <1>7 DEF Accept, AcceptFails, Finish, Snapshots, Seals, Commits, Verifies,
     CleanScope, KeepForDrain, KeepSources, volatile, durable
<1>8. ASSUME PurgeJournal \/ PurgeStaging \/ Start \/ StartDrain \/ Admit
      PROVE  C
  BY <1>q, <1>8 DEF PurgeJournal, PurgeStaging, Start, StartDrain, Admit, KeepForDrain,
     KeepSources, volatile, durable
<1>9. ASSUME NEW f \in Files, HasFile(Stream, f) \/ WritesFile(Stream, f) \/
             RenamesFile(Stream, f)
      PROVE  C
  BY <1>q, <1>9 DEF HasFile, WritesFile, RenamesFile, KeepForDrain, KeepSources, volatile,
     durable
<1>10. ASSUME NEW r \in Runs, Selects(r)
      PROVE  C
  BY <1>q, <1>10 DEF Selects, KeepForDrain, KeepSources, volatile, durable
<1>11. ASSUME NEW r \in Runs, NEW p \in Payloads, Stage(r, p)
      PROVE  C
  BY <1>q, <1>11 DEF Stage, KeepForDrain, KeepSources, volatile, durable
<1>12. ASSUME NEW t \in Tasks, Recovers(t)
      PROVE  C
  BY <1>q, <1>12 DEF Recovers, KeepForDrain, KeepSources, volatile, durable
<1>13. ASSUME NEW t \in Tasks, NEW op \in Ops, Send(t, op) \/ Mutate(t, op)
      PROVE  C
  BY <1>q, <1>13 DEF Send, Mutate, KeepForDrain, KeepSources, volatile, durable
<1> HIDE DEF C
<1> QED
  BY <1>q, <1>y, <1>z, <1>1, <1>2, <1>3, <1>4, <1>5, <1>6, <1>7, <1>8, <1>9, <1>10, <1>11, <1>12,
     <1>13, Kinds

LEMMA JournalType ==
  ASSUME Plain, [Next]_vars
  PROVE  (journal \in [Tasks -> Seq(Frame)])'
<1> USE DEF Plain
<1>t. journal \in [Tasks -> Seq(Frame)]
  BY DEF Typed
<1> DEFINE C == (journal \in [Tasks -> Seq(Frame)])'
<1> SUFFICES C
  OBVIOUS
<1>q. UNCHANGED journal => C
  BY DEF Typed
<1>z. UNCHANGED vars => C
  BY <1>q DEF vars, volatile, durable
<1>y. ASSUME NEW r \in Runs, Loses(r) PROVE C
  BY <1>q, <1>y DEF Loses, volatile, durable
<1>1. ASSUME Stops PROVE C
  <2>1. CASE journal' = journal
    BY <2>1, <1>t
  <2>2. CASE ship.item # Absent
    <3>1. exec.pc = "running"
      BY <2>2 DEF ExecSound, NoShip
    <3>2. exec.task \in Tasks /\ ship.item \in Frame
      BY <3>1, ItemFrame
    <3>3. \A how \in {"lost", "unsynced", "torn"} :
            Left(journal[exec.task], ship.item, how) \in Seq(Frame)
      BY <1>t, <3>2, LeftType
    <3> QED
      BY <1>1, <1>t, <3>2, <3>3 DEF Stops
  <2> QED
    BY <1>1, <2>1, <2>2 DEF Stops
<1>2. ASSUME NEW t \in Tasks, Recovers(t) PROVE C
  <2>1. Readable(journal[t]) \in Seq(Frame) /\ t \in Tasks
    BY <1>t, ReadableIs
  <2>2. Terminal("abnormal") \in Frame
    BY ConstTypes DEF Hows
  <2>3. Closed(journal[t]) \in Seq(Frame)
    BY <2>1, <2>2 DEF Closed
  <2> QED
    BY <1>2, <1>t, <2>1, <2>3 DEF Recovers
<1>3. ASSUME Spawn PROVE C
  BY <1>3, <1>t, ConstTypes DEF Spawn
<1>4. ASSUME SpawnFails PROVE C
  <2>1. <<Terminal("eos")>> \in Seq(Frame)
    BY ConstTypes DEF Hows
  <2> QED
    BY <1>4, <1>t, <2>1, ConstTypes DEF SpawnFails
<1>5. ASSUME Accept PROVE C
  <2>1. exec.pc = "running"
    BY <1>5 DEF Accept, ExecSound, NoShip
  <2>2. exec.task \in Tasks /\ ship.item \in Frame
    BY <2>1, ItemFrame
  <2> QED
    BY <1>5, <1>t, <2>2 DEF Accept
<1>6. ASSUME AcceptFails PROVE C
  <2>1. exec.pc = "running"
    BY <1>6 DEF AcceptFails, ExecSound, NoShip
  <2>2. exec.task \in Tasks /\ ship.item \in Frame
    BY <2>1, ItemFrame
  <2>3. \A how \in AppendFaults : Left(journal[exec.task], ship.item, how) \in Seq(Frame)
    <3>1. journal[exec.task] \in Seq(Frame) /\ AppendFaults \subseteq {"lost", "unsynced", "torn", "garbled"}
      BY <1>t, <2>2, AppendAssumption
    <3> QED
      BY <2>2, <3>1, LeftType
  <2> QED
    BY <1>6, <1>t, <2>2, <2>3 DEF AcceptFails
<1>7. ASSUME Finish PROVE C
  <2>1. exec.pc = "running"
    BY <1>7 DEF Finish, ExecSound, NoShip
  <2>2. exec.task \in Tasks /\ ship.item \in Frame
    BY <2>1, ItemFrame
  <2>3. ASSUME NEW h \in {"eos", "abnormal"}
        PROVE  /\ Append(journal[exec.task], Terminal(h)) \in Seq(Frame)
               /\ \A how \in AppendFaults : Left(journal[exec.task], Terminal(h), how) \in Seq(Frame)
    <3>1. Terminal(h) \in Frame
      BY ConstTypes DEF Hows
    <3>2. journal[exec.task] \in Seq(Frame) /\ AppendFaults \subseteq {"lost", "unsynced", "torn", "garbled"}
      BY <1>t, <2>2, AppendAssumption
    <3>3. \A how \in AppendFaults : Left(journal[exec.task], Terminal(h), how) \in Seq(Frame)
      BY <3>1, <3>2, LeftType
    <3> QED
      BY <3>1, <3>2, <3>3
  <2>4. Ending(ship) \subseteq {"eos", "abnormal"}
    BY DEF Ending
  <2>5. PICK h \in Ending(ship) :
          \/ journal' = journal
          \/ journal' = [journal EXCEPT ![exec.task] = Append(@, Terminal(h))]
          \/ \E how \in AppendFaults :
               journal' = [journal EXCEPT ![exec.task] = Left(@, Terminal(h), how)]
    BY <1>7 DEF Finish
  <2> QED
    BY <1>t, <2>2, <2>3, <2>4, <2>5
<1>8. ASSUME Seals(Stream) PROVE C
  <2>1. Stream \in Tasks
    BY <1>8, StreamIs DEF Seals, AtStep
  <2>2. recover(journal[Stream]).st.accepted \in SUBSET Chunks /\ Readable(journal[Stream]) \in Seq(Frame)
    BY <1>t, <2>1, RecoverType, ReadableIs
  <2>3. Seal(recover(journal[Stream]).st.accepted) \in Frame
    BY <2>2, ConstTypes
  <2> QED
    BY <1>8, <1>t, <2>1, <2>2, <2>3 DEF Seals
<1>9. ASSUME PurgeJournal PROVE C
  BY <1>9, <1>t, ConstTypes DEF PurgeJournal
<1>10. ASSUME EnsureScope \/ NotLaunched \/ Exit \/ Settle \/ Read \/ EndOfOutput \/
             TakeItem \/ Snapshots
      PROVE  C
  BY <1>q, <1>10 DEF EnsureScope, NotLaunched, Exit, Settle, Read, EndOfOutput, TakeItem,
     Snapshots, KeepForDrain, KeepSources, volatile, durable
<1>11. ASSUME Commits \/ Verifies \/ CleanScope \/ PurgeStaging \/ Start \/
             StartDrain \/ Admit
      PROVE  C
  BY <1>q, <1>11 DEF Commits, Verifies, CleanScope, PurgeStaging, Start, StartDrain, Admit,
     KeepForDrain, KeepSources, volatile, durable
<1>12. ASSUME NEW f \in Files, HasFile(Stream, f) \/ WritesFile(Stream, f) \/
             RenamesFile(Stream, f)
      PROVE  C
  BY <1>q, <1>12 DEF HasFile, WritesFile, RenamesFile, KeepForDrain, KeepSources, volatile,
     durable
<1>13. ASSUME NEW r \in Runs, Selects(r)
      PROVE  C
  BY <1>q, <1>13 DEF Selects, KeepForDrain, KeepSources, volatile, durable
<1>14. ASSUME NEW r \in Runs, NEW p \in Payloads, Stage(r, p)
      PROVE  C
  BY <1>q, <1>14 DEF Stage, KeepForDrain, KeepSources, volatile, durable
<1>15. ASSUME NEW t \in Tasks, Claim(t) \/ Expire(t) \/ CancelPending(t)
      PROVE  C
  BY <1>q, <1>15 DEF Claim, Expire, CancelPending, KeepForDrain, KeepSources, volatile, durable
<1>16. ASSUME NEW t \in Tasks, NEW op \in Ops, Send(t, op) \/ Mutate(t, op)
      PROVE  C
  BY <1>q, <1>16 DEF Send, Mutate, KeepForDrain, KeepSources, volatile, durable
<1> HIDE DEF C
<1> QED
  BY <1>q, <1>y, <1>z, <1>1, <1>2, <1>3, <1>4, <1>5, <1>6, <1>7, <1>8, <1>9, <1>10, <1>11, <1>12,
     <1>13, <1>14, <1>15, <1>16, Kinds

LEMMA FinalType ==
  ASSUME Plain, [Next]_vars
  PROVE  (final \in [Tasks -> [log : File, exit : File]])'
<1> USE DEF Plain
<1>t. final \in [Tasks -> [log : File, exit : File]] /\ drain.seal \in [holds : SUBSET Chunks, how : Hows]
  BY DEF Typed
<1>e. \A f \in Files : Expected(f) \in File /\ Whole(f) \in File
  BY <1>t DEF Expected, Whole, File, Hows
<1>f. NoFile \in File
  BY DEF NoFile, File, Hows
<1> DEFINE C == (final \in [Tasks -> [log : File, exit : File]])'
<1> SUFFICES C
  OBVIOUS
<1>q. UNCHANGED final => C
  BY DEF Typed
<1>z. UNCHANGED vars => C
  BY <1>q DEF vars, volatile, durable
<1>y. ASSUME NEW r \in Runs, Loses(r) PROVE C
  BY <1>q, <1>y DEF Loses, volatile, durable
<1>1. ASSUME Stops PROVE C
  <2>1. ASSUME NEW f \in Files, Sets(Stream, f) PROVE C
    <3>1. Stream \in Tasks
      BY <2>1, StreamIs DEF Sets, Files
    <3>2. CASE final' = [final EXCEPT ![Stream][f] = NoFile]
      BY <1>t, <1>f, <3>1, <3>2 DEF Files
    <3>3. CASE final' = [final EXCEPT ![Stream][f].state = "partial"]
      <4>1. final[Stream][f] \in File
        BY <1>t, <3>1 DEF Files
      <4>2. [final[Stream][f] EXCEPT !.state = "partial"] \in File
        BY <4>1 DEF File
      <4>3. final' = [final EXCEPT ![Stream][f] = [final[Stream][f] EXCEPT !.state = "partial"]]
        BY <3>3
      <4> QED
        BY <1>t, <3>1, <4>2, <4>3 DEF Files
    <3> QED
      BY <2>1, <3>2, <3>3 DEF Sets
  <2> HIDE DEF C
  <2> QED
    BY <1>1, <1>q, <2>1 DEF Stops
<1>2. ASSUME NEW f \in Files, WritesFile(Stream, f) PROVE C
  <2>1. Stream \in Tasks
    BY <1>2, StreamIs DEF WritesFile, AtStep, Files
  <2> QED
    BY <1>2, <1>t, <1>e, <2>1 DEF WritesFile, Files
<1>3. ASSUME NEW f \in Files, RenamesFile(Stream, f) PROVE C
  <2>1. Stream \in Tasks
    BY <1>3, StreamIs DEF RenamesFile, AtStep, Files
  <2> QED
    BY <1>3, <1>t, <1>e, <2>1 DEF RenamesFile, Files
<1>4. ASSUME EnsureScope \/ Spawn \/ SpawnFails \/ NotLaunched \/ Exit \/ Settle \/
             Read \/ EndOfOutput
      PROVE  C
  BY <1>q, <1>4 DEF EnsureScope, Spawn, SpawnFails, NotLaunched, Exit, Settle, Read,
     EndOfOutput, KeepForDrain, KeepSources, volatile, durable
<1>5. ASSUME TakeItem \/ Accept \/ AcceptFails \/ Finish \/ Snapshots \/ Seals(Stream)
             \/ Commits \/ Verifies
      PROVE  C
  BY <1>q, <1>5 DEF TakeItem, Accept, AcceptFails, Finish, Snapshots, Seals, Commits, Verifies,
     KeepForDrain, KeepSources, volatile, durable
<1>6. ASSUME CleanScope \/ PurgeJournal \/ PurgeStaging \/ Start \/ StartDrain \/
             Admit
      PROVE  C
  BY <1>q, <1>6 DEF CleanScope, PurgeJournal, PurgeStaging, Start, StartDrain, Admit,
     KeepForDrain, KeepSources, volatile, durable
<1>7. ASSUME NEW f \in Files, HasFile(Stream, f)
      PROVE  C
  BY <1>q, <1>7 DEF HasFile, KeepForDrain, KeepSources, volatile, durable
<1>8. ASSUME NEW r \in Runs, Selects(r)
      PROVE  C
  BY <1>q, <1>8 DEF Selects, KeepForDrain, KeepSources, volatile, durable
<1>9. ASSUME NEW r \in Runs, NEW p \in Payloads, Stage(r, p)
      PROVE  C
  BY <1>q, <1>9 DEF Stage, KeepForDrain, KeepSources, volatile, durable
<1>10. ASSUME NEW t \in Tasks, Claim(t) \/ Expire(t) \/ CancelPending(t) \/
             Recovers(t)
      PROVE  C
  BY <1>q, <1>10 DEF Claim, Expire, CancelPending, Recovers, KeepForDrain, KeepSources,
     volatile, durable
<1>11. ASSUME NEW t \in Tasks, NEW op \in Ops, Send(t, op) \/ Mutate(t, op)
      PROVE  C
  BY <1>q, <1>11 DEF Send, Mutate, KeepForDrain, KeepSources, volatile, durable
<1> HIDE DEF C
<1> QED
  BY <1>q, <1>y, <1>z, <1>1, <1>2, <1>3, <1>4, <1>5, <1>6, <1>7, <1>8, <1>9, <1>10, <1>11, Kinds

LEMMA ScopeType ==
  ASSUME Plain, [Next]_vars
  PROVE  (scope \in [Runs -> Scope])'
<1> USE DEF Plain
<1>t. scope \in [Runs -> Scope]
  BY DEF Typed
<1>c. \A r \in Runs : Created(r) \in Scope
  BY <1>t DEF Created, NoScope, Scope
<1> DEFINE C == (scope \in [Runs -> Scope])'
<1> SUFFICES C
  OBVIOUS
<1>q. UNCHANGED scope => C
  BY DEF Typed
<1>z. UNCHANGED vars => C
  BY <1>q DEF vars, volatile, durable
<1>y. ASSUME NEW r \in Runs, Loses(r) PROVE C
  BY <1>y, LosesScope
<1>1. ASSUME EnsureScope PROVE C
  BY <1>1, <1>t, <1>c, RunsAssumption DEF EnsureScope, ExecSound
<1>2. ASSUME NEW t \in Tasks, NEW op \in Ops, Mutate(t, op) PROVE C
  <2>1. \A sc \in Scope : Mutated(sc, t, op) \in Scope
    <3>1. SUFFICES ASSUME NEW sc \in Scope PROVE Mutated(sc, t, op) \in Scope
      OBVIOUS
    <3>2. sc.values \cup {t} \in SUBSET Tasks /\ sc.values \ {t} \in SUBSET Tasks
          /\ sc.claims \cup {<<t, op>>} \in SUBSET (Tasks \X Ops)
      BY <3>1 DEF Scope
    <3> QED
      BY <3>1, <3>2 DEF Mutated, Scope
  <2> QED
    BY <1>2, <1>t, <2>1, RunsAssumption DEF Mutate
<1>3. ASSUME NEW r \in Runs, NEW p \in Payloads, Stage(r, p) PROVE C
  BY <1>3, <1>t, <1>c DEF Stage
<1>4. ASSUME Snapshots PROVE C
  <2>1. \A sc \in Scope : Snapshotted(sc) \in Scope
    BY DEF Snapshotted, Scope
  <2> QED
    BY <1>4, <1>t, <2>1 DEF Snapshots
<1>5. ASSUME CleanScope PROVE C
  <2>1. \A sc \in Scope : Cleaned(sc) \in Scope
    BY DEF Cleaned, Scope
  <2> QED
    BY <1>5, <1>t, <2>1 DEF CleanScope
<1>6. ASSUME Stops \/ Spawn \/ SpawnFails \/ NotLaunched \/ Exit \/ Settle \/ Read \/
             EndOfOutput
      PROVE  C
  BY <1>q, <1>6 DEF Stops, Spawn, SpawnFails, NotLaunched, Exit, Settle, Read, EndOfOutput,
     KeepForDrain, KeepSources, volatile, durable
<1>7. ASSUME TakeItem \/ Accept \/ AcceptFails \/ Finish \/ Seals(Stream) \/ Commits
             \/ Verifies \/ PurgeJournal
      PROVE  C
  BY <1>q, <1>7 DEF TakeItem, Accept, AcceptFails, Finish, Seals, Commits, Verifies,
     PurgeJournal, KeepForDrain, KeepSources, volatile, durable
<1>8. ASSUME PurgeStaging \/ Start \/ StartDrain \/ Admit
      PROVE  C
  BY <1>q, <1>8 DEF PurgeStaging, Start, StartDrain, Admit, KeepForDrain, KeepSources,
     volatile, durable
<1>9. ASSUME NEW f \in Files, HasFile(Stream, f) \/ WritesFile(Stream, f) \/
             RenamesFile(Stream, f)
      PROVE  C
  BY <1>q, <1>9 DEF HasFile, WritesFile, RenamesFile, KeepForDrain, KeepSources, volatile,
     durable
<1>10. ASSUME NEW r \in Runs, Selects(r)
      PROVE  C
  BY <1>q, <1>10 DEF Selects, KeepForDrain, KeepSources, volatile, durable
<1>11. ASSUME NEW t \in Tasks, Claim(t) \/ Expire(t) \/ CancelPending(t) \/
             Recovers(t)
      PROVE  C
  BY <1>q, <1>11 DEF Claim, Expire, CancelPending, Recovers, KeepForDrain, KeepSources,
     volatile, durable
<1>12. ASSUME NEW t \in Tasks, NEW op \in Ops, Send(t, op)
      PROVE  C
  BY <1>q, <1>12 DEF Send, KeepForDrain, KeepSources, volatile, durable
<1> HIDE DEF C
<1> QED
  BY <1>q, <1>y, <1>z, <1>1, <1>2, <1>3, <1>4, <1>5, <1>6, <1>7, <1>8, <1>9, <1>10, <1>11, <1>12,
     Kinds

LEMMA StagingType ==
  ASSUME Plain, [Next]_vars
  PROVE  (/\ staging \in [Runs -> Row] /\ order \in Seq(Runs)
                /\ ToSet(order) = {r \in Runs : staging[r].state # "none"})'
<1> USE DEF Plain
<1>t. staging \in [Runs -> Row] /\ order \in Seq(Runs)
      /\ ToSet(order) = {r \in Runs : staging[r].state # "none"}
  BY DEF Typed
<1> DEFINE C == (/\ staging \in [Runs -> Row] /\ order \in Seq(Runs)
                /\ ToSet(order) = {r \in Runs : staging[r].state # "none"})'
<1> SUFFICES C
  OBVIOUS
<1>q. UNCHANGED <<staging, order>> => C
  BY DEF Typed
<1>z. UNCHANGED vars => C
  BY <1>q DEF vars, volatile, durable
<1>y. ASSUME NEW r \in Runs, Loses(r) PROVE C
  BY <1>q, <1>y DEF Loses, volatile, durable
<1>1. ASSUME NEW r \in Runs, NEW p \in Payloads, Stage(r, p) PROVE C
  <2>1. CASE staging[r].state = "none"
    <3>1. staging' = [staging EXCEPT ![r] = [state |-> "staged", payload |-> p]]
          /\ order' = Append(order, r)
      BY <1>1, <2>1 DEF Stage
    <3>2. ToSet(order') = ToSet(order) \cup {r}
      BY <1>t, <3>1, ToSetAppend
    <3>3. staging' \in [Runs -> Row] /\ order' \in Seq(Runs)
      BY <1>t, <3>1 DEF Row
    <3>4. \A u \in Runs : staging'[u].state # "none" <=> (u = r \/ staging[u].state # "none")
      BY <1>t, <3>1
    <3> QED
      BY <1>t, <3>2, <3>3, <3>4
  <2>2. CASE staging[r].state # "none"
    BY <1>1, <1>q, <2>2 DEF Stage
  <2> QED
    BY <2>1, <2>2
<1>2. ASSUME Commits PROVE C
  <2>1. drain.run \in Runs /\ staging[drain.run].state # "none" /\ order' = order
    BY <1>2 DEF Commits, AtStep, DrainPlace, Staging, Archiving
  <2>2. staging' \in [Runs -> Row]
    BY <1>2, <1>t, <2>1 DEF Commits, Row
  <2>3. \A r \in Runs : staging'[r].state # "none" <=> staging[r].state # "none"
    BY <1>2, <1>t, <2>1 DEF Commits, Row
  <2> QED
    BY <1>t, <2>1, <2>2, <2>3
<1>3. ASSUME PurgeStaging PROVE C
  <2>1. drain.run \in Runs /\ staging[drain.run].state # "none" /\ order' = order
    BY <1>3 DEF PurgeStaging, AtStep, DrainPlace, Staging, Archiving
  <2>2. staging' \in [Runs -> Row]
    BY <1>3, <1>t, <2>1 DEF PurgeStaging, Row
  <2>3. \A r \in Runs : staging'[r].state # "none" <=> staging[r].state # "none"
    BY <1>3, <1>t, <2>1 DEF PurgeStaging, Row
  <2> QED
    BY <1>t, <2>1, <2>2, <2>3
<1>4. ASSUME Stops \/ EnsureScope \/ Spawn \/ SpawnFails \/ NotLaunched \/ Exit \/
             Settle \/ Read
      PROVE  C
  BY <1>q, <1>4 DEF Stops, EnsureScope, Spawn, SpawnFails, NotLaunched, Exit, Settle, Read,
     KeepForDrain, KeepSources, volatile, durable
<1>5. ASSUME EndOfOutput \/ TakeItem \/ Accept \/ AcceptFails \/ Finish \/ Snapshots
             \/ Seals(Stream) \/ Verifies
      PROVE  C
  BY <1>q, <1>5 DEF EndOfOutput, TakeItem, Accept, AcceptFails, Finish, Snapshots, Seals,
     Verifies, KeepForDrain, KeepSources, volatile, durable
<1>6. ASSUME CleanScope \/ PurgeJournal \/ Start \/ StartDrain \/ Admit
      PROVE  C
  BY <1>q, <1>6 DEF CleanScope, PurgeJournal, Start, StartDrain, Admit, KeepForDrain,
     KeepSources, volatile, durable
<1>7. ASSUME NEW f \in Files, HasFile(Stream, f) \/ WritesFile(Stream, f) \/
             RenamesFile(Stream, f)
      PROVE  C
  BY <1>q, <1>7 DEF HasFile, WritesFile, RenamesFile, KeepForDrain, KeepSources, volatile,
     durable
<1>8. ASSUME NEW r \in Runs, Selects(r)
      PROVE  C
  BY <1>q, <1>8 DEF Selects, KeepForDrain, KeepSources, volatile, durable
<1>9. ASSUME NEW t \in Tasks, Claim(t) \/ Expire(t) \/ CancelPending(t) \/
             Recovers(t)
      PROVE  C
  BY <1>q, <1>9 DEF Claim, Expire, CancelPending, Recovers, KeepForDrain, KeepSources,
     volatile, durable
<1>10. ASSUME NEW t \in Tasks, NEW op \in Ops, Send(t, op) \/ Mutate(t, op)
      PROVE  C
  BY <1>q, <1>10 DEF Send, Mutate, KeepForDrain, KeepSources, volatile, durable
<1> HIDE DEF C
<1> QED
  BY <1>q, <1>y, <1>z, <1>1, <1>2, <1>3, <1>4, <1>5, <1>6, <1>7, <1>8, <1>9, <1>10, Kinds

LEMMA ToldType ==
  ASSUME Plain, [Next]_vars
  PROVE  (told \in [Tasks -> Told])'
<1> USE DEF Plain
<1> DEFINE C == (told \in [Tasks -> Told])'
<1> SUFFICES C
  OBVIOUS
<1>q. UNCHANGED told => C
  BY DEF Typed
<1>z. UNCHANGED vars => C
  BY <1>q DEF vars, volatile, durable
<1>y. ASSUME NEW r \in Runs, Loses(r) PROVE C
  BY <1>q, <1>y DEF Loses, volatile, durable
<1>f. ASSUME AcceptFails PROVE C
  <2>1. exec.task \in Tasks
    BY <1>f DEF AcceptFails, ExecSound, NoShip
  <2>2. PICK how : told' = [told EXCEPT ![exec.task].torn = @ \/ how \in {"torn", "garbled"}]
    BY <1>f DEF AcceptFails
  <2>3. told \in [Tasks -> Told] /\ told[exec.task].torn \in BOOLEAN
    BY <2>1 DEF Typed, Told
  <2> DEFINE b == told[exec.task].torn \/ how \in {"torn", "garbled"}
  <2>4. b \in BOOLEAN
    BY <2>3
  <2>5. told' = [told EXCEPT ![exec.task].torn = b]
    BY <2>2
  <2> HIDE DEF b
  <2>6. [told[exec.task] EXCEPT !.torn = b] \in Told
    BY <2>1, <2>3, <2>4 DEF Told
  <2> QED
    BY <2>1, <2>3, <2>5, <2>6
<1>1. ASSUME Read PROVE C
  <2>1. exec.task \in Tasks
    BY <1>1 DEF Read, ExecSound, NoShip
  <2>2. told \in [Tasks -> Told] /\ told' = [told EXCEPT ![exec.task].read = @ + 1]
    BY <1>1 DEF Read, Typed
  <2>3. [told[exec.task] EXCEPT !.read = @ + 1] \in Told
    BY <2>1, <2>2 DEF Told
  <2> QED
    BY <2>1, <2>2, <2>3
<1>2. ASSUME Accept PROVE C
  <2>1. exec.task \in Tasks
    BY <1>2 DEF Accept, ExecSound, NoShip
  <2>2. ship \in Ship /\ ship' = [ship EXCEPT !.item = Absent, !.st = Applied(ship).st]
    BY <1>2 DEF Accept, Typed
  <2>3. ship'.st = Applied(ship).st
    BY <2>2 DEF Ship
  <2>4. ship' \in Ship
    BY ShipNext
  <2>5. Applied(ship).st.accepted \subseteq Nat
    BY <2>3, <2>4 DEF Ship, Shown
  <2>6. told \in [Tasks -> Told]
        /\ told' = [told EXCEPT ![exec.task].accepted = @ \cup Applied(ship).st.accepted]
    BY <1>2 DEF Accept, Typed
  <2>7. [told[exec.task] EXCEPT !.accepted = @ \cup Applied(ship).st.accepted] \in Told
    BY <2>1, <2>5, <2>6 DEF Told
  <2> QED
    BY <2>1, <2>6, <2>7
<1>3. ASSUME NEW t \in Tasks, NEW op \in Ops, Send(t, op) PROVE C
  <2>1. told \in [Tasks -> Told] /\ told' = [told EXCEPT ![t].sent = @ \cup {op}]
    BY <1>3 DEF Send, Typed
  <2>2. [told[t] EXCEPT !.sent = @ \cup {op}] \in Told
    BY <2>1 DEF Told
  <2> QED
    BY <2>1, <2>2
<1>4. ASSUME NEW t \in Tasks, NEW op \in Ops, Mutate(t, op) PROVE C
  <2>1. PICK S \in SUBSET Ops : told' = [told EXCEPT ![t].answered = @ \cup S]
    <3>1. (IF Answers(scope[RunOf[t]], t, op) THEN {op} ELSE {}) \in SUBSET Ops
      OBVIOUS
    <3> QED
      BY <1>4, <3>1 DEF Mutate
  <2>2. told \in [Tasks -> Told]
    BY DEF Typed
  <2>3. [told[t] EXCEPT !.answered = @ \cup S] \in Told
    BY <2>1, <2>2 DEF Told
  <2> QED
    BY <2>1, <2>2, <2>3
<1>5. ASSUME Stops \/ EnsureScope \/ Spawn \/ SpawnFails \/ NotLaunched \/ Exit \/
             Settle \/ EndOfOutput
      PROVE  C
  BY <1>q, <1>5 DEF Stops, EnsureScope, Spawn, SpawnFails, NotLaunched, Exit, Settle,
     EndOfOutput, KeepForDrain, KeepSources, volatile, durable
<1>6. ASSUME TakeItem \/ Finish \/ Snapshots \/ Seals(Stream) \/
             Commits \/ Verifies \/ CleanScope
      PROVE  C
  BY <1>q, <1>6 DEF TakeItem, Finish, Snapshots, Seals, Commits, Verifies,
     CleanScope, KeepForDrain, KeepSources, volatile, durable
<1>7. ASSUME PurgeJournal \/ PurgeStaging \/ Start \/ StartDrain \/ Admit
      PROVE  C
  BY <1>q, <1>7 DEF PurgeJournal, PurgeStaging, Start, StartDrain, Admit, KeepForDrain,
     KeepSources, volatile, durable
<1>8. ASSUME NEW f \in Files, HasFile(Stream, f) \/ WritesFile(Stream, f) \/
             RenamesFile(Stream, f)
      PROVE  C
  BY <1>q, <1>8 DEF HasFile, WritesFile, RenamesFile, KeepForDrain, KeepSources, volatile,
     durable
<1>9. ASSUME NEW r \in Runs, Selects(r)
      PROVE  C
  BY <1>q, <1>9 DEF Selects, KeepForDrain, KeepSources, volatile, durable
<1>10. ASSUME NEW r \in Runs, NEW p \in Payloads, Stage(r, p)
      PROVE  C
  BY <1>q, <1>10 DEF Stage, KeepForDrain, KeepSources, volatile, durable
<1>11. ASSUME NEW t \in Tasks, Claim(t) \/ Expire(t) \/ CancelPending(t) \/
             Recovers(t)
      PROVE  C
  BY <1>q, <1>11 DEF Claim, Expire, CancelPending, Recovers, KeepForDrain, KeepSources,
     volatile, durable
<1> HIDE DEF C
<1> QED
  BY <1>f, <1>q, <1>y, <1>z, <1>1, <1>2, <1>3, <1>4, <1>5, <1>6, <1>7, <1>8, <1>9, <1>10, <1>11, Kinds

LEMMA RestType ==
  ASSUME Plain, [Next]_vars
  PROVE  (/\ archive = [r \in Runs |-> archive[r]] /\ acked \in [Runs -> SUBSET Payloads]
                /\ faults \in 0 .. MaxFaults)'
<1> USE DEF Plain
<1> DEFINE C == (/\ archive = [r \in Runs |-> archive[r]] /\ acked \in [Runs -> SUBSET Payloads]
                /\ faults \in 0 .. MaxFaults)'
<1> SUFFICES C
  OBVIOUS
<1>q. UNCHANGED <<archive, acked, faults>> => C
  BY DEF Typed
<1>z. UNCHANGED vars => C
  BY <1>q DEF vars, volatile, durable
<1>y. ASSUME NEW r \in Runs, Loses(r) PROVE C
  BY <1>y DEF Typed, Loses
<1>1. ASSUME Stops PROVE C
  BY <1>1 DEF Typed, Stops
<1>2. ASSUME NEW t \in Tasks, CancelPending(t) PROVE C
  BY <1>2, FaultIs DEF Typed, CancelPending
<1>3. ASSUME SpawnFails PROVE C
  BY <1>3, FaultIs DEF Typed, SpawnFails
<1>4. ASSUME NotLaunched PROVE C
  BY <1>4, FaultIs DEF Typed, NotLaunched
<1>5. ASSUME AcceptFails PROVE C
  BY <1>5, FaultIs DEF Typed, AcceptFails
<1>6. ASSUME Finish PROVE C
  BY <1>6, FaultIs DEF Typed, Finish
<1>7. ASSUME NEW r \in Runs, NEW p \in Payloads, Stage(r, p) PROVE C
  BY <1>7 DEF Typed, Stage
<1>8. ASSUME Commits PROVE C
  <2>1. \E x : archive' = [archive EXCEPT ![drain.run] = x]
    BY <1>8 DEF Commits
  <2>2. PICK x : archive' = [archive EXCEPT ![drain.run] = x]
    BY <2>1
  <2>3. archive' = [r \in Runs |-> IF r = drain.run THEN x ELSE archive[r]]
    BY <2>2 DEF Typed
  <2> QED
    BY <1>8, <2>3 DEF Commits, KeepForDrain, Typed
<1>9. ASSUME EnsureScope \/ Spawn \/ Exit \/ Settle \/ Read \/ EndOfOutput \/
             TakeItem \/ Accept
      PROVE  C
  BY <1>q, <1>9 DEF EnsureScope, Spawn, Exit, Settle, Read, EndOfOutput, TakeItem, Accept,
     KeepForDrain, KeepSources, volatile, durable
<1>10. ASSUME Snapshots \/ Seals(Stream) \/ Verifies \/ CleanScope \/ PurgeJournal \/
             PurgeStaging \/ Start \/ StartDrain
      PROVE  C
  BY <1>q, <1>10 DEF Snapshots, Seals, Verifies, CleanScope, PurgeJournal, PurgeStaging, Start,
     StartDrain, KeepForDrain, KeepSources, volatile, durable
<1>11. ASSUME Admit
      PROVE  C
  BY <1>q, <1>11 DEF Admit, KeepForDrain, KeepSources, volatile, durable
<1>12. ASSUME NEW f \in Files, HasFile(Stream, f) \/ WritesFile(Stream, f) \/
             RenamesFile(Stream, f)
      PROVE  C
  BY <1>q, <1>12 DEF HasFile, WritesFile, RenamesFile, KeepForDrain, KeepSources, volatile,
     durable
<1>13. ASSUME NEW r \in Runs, Selects(r)
      PROVE  C
  BY <1>q, <1>13 DEF Selects, KeepForDrain, KeepSources, volatile, durable
<1>14. ASSUME NEW t \in Tasks, Claim(t) \/ Expire(t) \/ Recovers(t)
      PROVE  C
  BY <1>q, <1>14 DEF Claim, Expire, Recovers, KeepForDrain, KeepSources, volatile, durable
<1>15. ASSUME NEW t \in Tasks, NEW op \in Ops, Send(t, op) \/ Mutate(t, op)
      PROVE  C
  BY <1>q, <1>15 DEF Send, Mutate, KeepForDrain, KeepSources, volatile, durable
<1> HIDE DEF C
<1> QED
  BY <1>q, <1>y, <1>z, <1>1, <1>2, <1>3, <1>4, <1>5, <1>6, <1>7, <1>8, <1>9, <1>10, <1>11, <1>12,
     <1>13, <1>14, <1>15, Kinds

LEMMA TypedNext ==
  ASSUME Plain, [Next]_vars
  PROVE  Typed'
<1>1. (ship \in Ship)'
  BY ShipNext DEF Plain
<1> QED
  BY <1>1, MemoryType, DrainType, ClaimType, JournalType, FinalType, ScopeType, StagingType,
     ToldType, RestType DEF Typed

-----------------------------------------------------------------------------
(* The executor's claims and the drain's place *)

(* A dispatch is picked up once and ends once. *)
LEMMA ClaimsMove ==
  ASSUME Plain, [Next]_vars
  PROVE  \A u \in Tasks :
           /\ claim[u] \in {"settled", "cancelled"} => claim'[u] = claim[u]
           /\ PickedUp(u) => PickedUp(u)'
<1> USE DEF Plain
<1> DEFINE C == \A u \in Tasks :
           /\ claim[u] \in {"settled", "cancelled"} => claim'[u] = claim[u]
           /\ PickedUp(u) => PickedUp(u)'
<1> SUFFICES C
  OBVIOUS
<1>q. UNCHANGED claim => C
  BY DEF PickedUp
<1>z. UNCHANGED vars => C
  BY <1>q DEF vars, volatile, durable
<1>y. ASSUME NEW r \in Runs, Loses(r) PROVE C
  BY <1>q, <1>y DEF Loses, volatile, durable
<1>1. ASSUME NEW t \in Tasks, Claim(t) PROVE C
  BY <1>1 DEF Claim, Typed, PickedUp
<1>2. ASSUME NEW t \in Tasks, Expire(t) PROVE C
  BY <1>2 DEF Expire, Typed, PickedUp
<1>3. ASSUME NEW t \in Tasks, CancelPending(t) PROVE C
  BY <1>3 DEF CancelPending, Typed, PickedUp
<1>4. ASSUME NotLaunched PROVE C
  BY <1>4 DEF NotLaunched, Typed, PickedUp, ExecSound
<1>5. ASSUME Settle PROVE C
  BY <1>5 DEF Settle, Typed, PickedUp, ExecSound
<1>6. ASSUME Stops \/ EnsureScope \/ Spawn \/ SpawnFails \/ Exit \/ Read \/
             EndOfOutput \/ TakeItem
      PROVE  C
  BY <1>q, <1>6 DEF Stops, EnsureScope, Spawn, SpawnFails, Exit, Read, EndOfOutput, TakeItem,
     KeepForDrain, KeepSources, volatile, durable
<1>7. ASSUME Accept \/ AcceptFails \/ Finish \/ Snapshots \/ Seals(Stream) \/ Commits
             \/ Verifies \/ CleanScope
      PROVE  C
  BY <1>q, <1>7 DEF Accept, AcceptFails, Finish, Snapshots, Seals, Commits, Verifies,
     CleanScope, KeepForDrain, KeepSources, volatile, durable
<1>8. ASSUME PurgeJournal \/ PurgeStaging \/ Start \/ StartDrain \/ Admit
      PROVE  C
  BY <1>q, <1>8 DEF PurgeJournal, PurgeStaging, Start, StartDrain, Admit, KeepForDrain,
     KeepSources, volatile, durable
<1>9. ASSUME NEW f \in Files, HasFile(Stream, f) \/ WritesFile(Stream, f) \/
             RenamesFile(Stream, f)
      PROVE  C
  BY <1>q, <1>9 DEF HasFile, WritesFile, RenamesFile, KeepForDrain, KeepSources, volatile,
     durable
<1>10. ASSUME NEW r \in Runs, Selects(r)
      PROVE  C
  BY <1>q, <1>10 DEF Selects, KeepForDrain, KeepSources, volatile, durable
<1>11. ASSUME NEW r \in Runs, NEW p \in Payloads, Stage(r, p)
      PROVE  C
  BY <1>q, <1>11 DEF Stage, KeepForDrain, KeepSources, volatile, durable
<1>12. ASSUME NEW t \in Tasks, Recovers(t)
      PROVE  C
  BY <1>q, <1>12 DEF Recovers, KeepForDrain, KeepSources, volatile, durable
<1>13. ASSUME NEW t \in Tasks, NEW op \in Ops, Send(t, op) \/ Mutate(t, op)
      PROVE  C
  BY <1>q, <1>13 DEF Send, Mutate, KeepForDrain, KeepSources, volatile, durable
<1> HIDE DEF C
<1> QED
  BY <1>q, <1>y, <1>z, <1>1, <1>2, <1>3, <1>4, <1>5, <1>6, <1>7, <1>8, <1>9, <1>10, <1>11, <1>12,
     <1>13, Kinds

LEMMA NothingNext ==
  ASSUME Plain, [Next]_vars
  PROVE  NothingYet'
<1> USE DEF Plain
<1>t. /\ claim \in [Tasks -> {"pending", "claimed", "settled", "cancelled"}]
      /\ journal \in [Tasks -> Seq(Frame)] /\ told \in [Tasks -> Told]
  BY DEF Typed
<1>r. exec.pc # "idle" => ~Unlaunched(exec.task) \/ exec.pc \in {"claimed", "scoped"}
  BY DEF ExecSound, Unlaunched
<1> DEFINE C == NothingYet'
<1> SUFFICES C
  OBVIOUS
<1>q. UNCHANGED <<claim, exec, journal, told>> => C
  BY DEF NothingYet, Unlaunched
<1>z. UNCHANGED vars => C
  BY <1>q DEF vars, volatile, durable
<1>y. ASSUME NEW r \in Runs, Loses(r) PROVE C
  BY <1>q, <1>y DEF Loses, volatile, durable
<1>1. ASSUME Stops PROVE C
  <2>1. \A u \in Tasks : claim[u] = "pending" => journal'[u] = journal[u]
    <3>1. CASE ship.item # Absent
      <4>1. claim[exec.task] = "claimed"
        BY <3>1 DEF ExecSound, NoShip
      <4> QED
        BY <1>1, <1>t, <4>1 DEF Stops
    <3>2. CASE ship.item = Absent
      BY <1>1, <3>2 DEF Stops
    <3> QED
      BY <3>1, <3>2
  <2>2. \A u \in Tasks : Unlaunched(u)' => claim[u] = "pending"
    BY <1>1 DEF Stops, Stop, Idle, Unlaunched
  <2>3. told' = told
    BY <1>1 DEF Stops
  <2> QED
    BY <2>1, <2>2, <2>3 DEF NothingYet, Unlaunched
<1>2. ASSUME NEW t \in Tasks, Claim(t) PROVE C
  BY <1>2, <1>t DEF Claim, NothingYet, Unlaunched
<1>3. ASSUME NEW t \in Tasks, Expire(t) PROVE C
  BY <1>3, <1>t DEF Expire, NothingYet, Unlaunched, volatile
<1>4. ASSUME NEW t \in Tasks, CancelPending(t) PROVE C
  BY <1>4, <1>t DEF CancelPending, NothingYet, Unlaunched, volatile
<1>5. ASSUME NEW t \in Tasks, Recovers(t) PROVE C
  <2>1. journal'[t] = journal[t] \/ journal[t] # NoJournal
    BY <1>5 DEF Recovers, Recoverable, Openable
  <2>2. \A u \in Tasks : u # t => journal'[u] = journal[u]
    BY <1>5, <1>t DEF Recovers
  <2>3. UNCHANGED <<claim, exec, told>>
    BY <1>5 DEF Recovers
  <2> QED
    BY <2>1, <2>2, <2>3 DEF NothingYet, Unlaunched
<1>6. ASSUME EnsureScope PROVE C
  BY <1>6, <1>t DEF EnsureScope, NothingYet, Unlaunched, Typed
<1>7. ASSUME Spawn PROVE C
  BY <1>7, <1>t DEF Spawn, NothingYet, Unlaunched, Typed, ExecSound
<1>8. ASSUME SpawnFails PROVE C
  BY <1>8, <1>t DEF SpawnFails, NothingYet, Unlaunched, Typed, ExecSound
<1>9. ASSUME NotLaunched PROVE C
  BY <1>9, <1>t DEF NotLaunched, NothingYet, Unlaunched, Idle, ExecSound
<1>10. ASSUME Settle PROVE C
  BY <1>10, <1>t DEF Settle, NothingYet, Unlaunched, Idle, ExecSound
<1>11. ASSUME Read PROVE C
  <2>1. exec.pc = "running" /\ exec.task \in Tasks /\ claim[exec.task] = "claimed"
    BY <1>11 DEF Read, ExecSound, NoShip
  <2>2. \A u \in Tasks : u # exec.task => journal'[u] = journal[u] /\ told'[u] = told[u]
    BY <1>11, <1>t DEF Read, durable
  <2>3. UNCHANGED <<claim, exec>>
    BY <1>11 DEF Read, durable
  <2> QED
    BY <2>1, <2>2, <2>3 DEF NothingYet, Unlaunched
<1>12. ASSUME Accept PROVE C
  <2>1. exec.pc = "running" /\ exec.task \in Tasks /\ claim[exec.task] = "claimed"
    BY <1>12 DEF Accept, ExecSound, NoShip
  <2>2. \A u \in Tasks : u # exec.task => journal'[u] = journal[u] /\ told'[u] = told[u]
    BY <1>12, <1>t DEF Accept
  <2>3. UNCHANGED <<claim, exec>>
    BY <1>12 DEF Accept
  <2> QED
    BY <2>1, <2>2, <2>3 DEF NothingYet, Unlaunched
<1>13. ASSUME AcceptFails PROVE C
  <2>1. exec.pc = "running" /\ exec.task \in Tasks /\ claim[exec.task] = "claimed"
    BY <1>13 DEF AcceptFails, ExecSound, NoShip
  <2>2. \A u \in Tasks : u # exec.task => journal'[u] = journal[u] /\ told'[u] = told[u]
    BY <1>13, <1>t DEF AcceptFails
  <2>3. UNCHANGED <<claim, exec>>
    BY <1>13 DEF AcceptFails, volatile
  <2> QED
    BY <2>1, <2>2, <2>3 DEF NothingYet, Unlaunched
<1>14. ASSUME Finish PROVE C
  <2>1. exec.pc = "running" /\ exec.task \in Tasks /\ claim[exec.task] = "claimed"
    BY <1>14 DEF Finish, ExecSound, NoShip
  <2>2. \A u \in Tasks : u # exec.task => journal'[u] = journal[u]
    BY <1>14, <1>t DEF Finish
  <2>3. UNCHANGED <<claim, told>> /\ exec'.task = exec.task /\ exec'.pc = "flushed"
    BY <1>14 DEF Finish, Typed
  <2> QED
    BY <2>1, <2>2, <2>3 DEF NothingYet, Unlaunched
<1>15. ASSUME NEW t \in Tasks, NEW op \in Ops, Send(t, op) PROVE C
  <2>1. \A u \in Tasks : told'[u].read = told[u].read /\ told'[u].accepted = told[u].accepted
    BY <1>15, <1>t DEF Send, Told
  <2> QED
    BY <1>15, <2>1 DEF Send, NothingYet, Unlaunched, durable
<1>16. ASSUME NEW t \in Tasks, NEW op \in Ops, Mutate(t, op) PROVE C
  <2>1. \A u \in Tasks : told'[u].read = told[u].read /\ told'[u].accepted = told[u].accepted
    BY <1>16, <1>t DEF Mutate, Told
  <2> QED
    BY <1>16, <2>1 DEF Mutate, NothingYet, Unlaunched
<1>17. ASSUME Seals(Stream) PROVE C
  <2>1. journal[Stream] # NoJournal /\ \A u \in Tasks : u # Stream => journal'[u] = journal[u]
    BY <1>17, <1>t DEF Seals
  <2> QED
    BY <1>17, <2>1 DEF Seals, KeepForDrain, NothingYet, Unlaunched
<1>18. ASSUME PurgeJournal PROVE C
  <2>1. \A u \in Tasks : journal'[u] = journal[u] \/ journal'[u] = NoJournal
    BY <1>18, <1>t DEF PurgeJournal
  <2> QED
    BY <1>18, <2>1 DEF PurgeJournal, KeepForDrain, NothingYet, Unlaunched
<1>19. ASSUME Exit \/ EndOfOutput \/ TakeItem \/ Snapshots \/ Commits \/ Verifies \/
             CleanScope \/ PurgeStaging
      PROVE  C
  BY <1>q, <1>19 DEF Exit, EndOfOutput, TakeItem, Snapshots, Commits, Verifies, CleanScope,
     PurgeStaging, KeepForDrain, KeepSources, volatile, durable
<1>20. ASSUME Start \/ StartDrain \/ Admit
      PROVE  C
  BY <1>q, <1>20 DEF Start, StartDrain, Admit, KeepForDrain, KeepSources, volatile, durable
<1>21. ASSUME NEW f \in Files, HasFile(Stream, f) \/ WritesFile(Stream, f) \/
             RenamesFile(Stream, f)
      PROVE  C
  BY <1>q, <1>21 DEF HasFile, WritesFile, RenamesFile, KeepForDrain, KeepSources, volatile,
     durable
<1>22. ASSUME NEW r \in Runs, Selects(r)
      PROVE  C
  BY <1>q, <1>22 DEF Selects, KeepForDrain, KeepSources, volatile, durable
<1>23. ASSUME NEW r \in Runs, NEW p \in Payloads, Stage(r, p)
      PROVE  C
  BY <1>q, <1>23 DEF Stage, KeepForDrain, KeepSources, volatile, durable
<1> HIDE DEF C
<1> QED
  BY <1>q, <1>y, <1>z, <1>1, <1>2, <1>3, <1>4, <1>5, <1>6, <1>7, <1>8, <1>9, <1>10, <1>11, <1>12,
     <1>13, <1>14, <1>15, <1>16, <1>17, <1>18, <1>19, <1>20, <1>21, <1>22, <1>23, Kinds

(* The drain's place tells the state of its row. *)
LEMMA PlaceNext ==
  ASSUME Plain, [Next]_vars
  PROVE  DrainPlace'
<1> USE DEF Plain
<1>t. drain \in [pc : DrainSteps, run : Runs \cup {NoTask}, left : SUBSET Tasks,
                seal : [holds : SUBSET Chunks, how : Hows]] /\ staging \in [Runs -> Row]
  BY DEF Typed
<1>v. \A r \in Runs : validate_streams(r) => validate_streams(r)'
  BY ClaimsMove DEF validate_streams, Streams, TasksOf
<1>k. UNCHANGED <<drain, phase, staging>> => DrainPlace'
  BY <1>v DEF DrainPlace, Drains
<1> DEFINE C == DrainPlace'
<1> SUFFICES C
  OBVIOUS
<1>q. UNCHANGED <<drain, phase, staging, claim>> => C
  BY <1>k
<1>z. UNCHANGED vars => C
  BY <1>q DEF vars, volatile, durable
<1>y. ASSUME NEW r \in Runs, Loses(r) PROVE C
  BY <1>q, <1>y DEF Loses, volatile, durable
<1>1. ASSUME Stops PROVE C
  BY <1>1 DEF Stops, Stop, Resting, DrainPlace, Staging, Archiving
<1>2. ASSUME NEW t \in Tasks, Claim(t) PROVE C
  BY <1>2, <1>k DEF Claim, volatile
<1>3. ASSUME NEW t \in Tasks, Expire(t) PROVE C
  BY <1>3, <1>k DEF Expire, volatile
<1>4. ASSUME NEW t \in Tasks, CancelPending(t) PROVE C
  BY <1>4, <1>k DEF CancelPending, volatile
<1>5. ASSUME NotLaunched PROVE C
  BY <1>5, <1>k DEF NotLaunched, volatile
<1>6. ASSUME Settle PROVE C
  BY <1>6, <1>k DEF Settle, volatile
<1>7. ASSUME NEW r \in Runs, NEW p \in Payloads, Stage(r, p) PROVE C
  <2>1. \A u \in Runs : staging[u].state # "none" => staging'[u] = staging[u]
    BY <1>7, <1>t DEF Stage
  <2>2. UNCHANGED <<drain, phase>>
    BY <1>7 DEF Stage, volatile
  <2> QED
    BY <1>v, <2>1, <2>2 DEF DrainPlace, Drains, Staging, Archiving
<1>8. ASSUME NEW r \in Runs, Selects(r) PROVE C
  <2>1. Drains' /\ validate_streams(r)' /\ Streams(r) \subseteq TasksOf(r) /\ UNCHANGED staging
    BY <1>8, <1>v DEF Selects, AtStep, KeepForDrain, KeepSources, Drains, Streams
  <2> QED
    BY <1>8, <2>1 DEF Selects, DrainPlace, Staging, Archiving
<1>9. ASSUME Snapshots PROVE C
  <2>1. drain.pc \in {"snapshot"} /\ Drains
    BY <1>9 DEF Snapshots, AtStep, Files
  <2>2. /\ drain.run \in Runs /\ drain.left \subseteq TasksOf(drain.run) /\ validate_streams(drain.run)
        /\ staging[drain.run].state = "staged"
    BY <2>1 DEF DrainPlace, Staging, Archiving
  <2>3. UNCHANGED <<staging, phase>>
    BY <1>9 DEF Snapshots, KeepForDrain, KeepSources
  <2>r. drain'.run = drain.run
    BY <1>9, <1>t DEF Snapshots, GoTo, AfterFile
  <2>4. Drains' /\ validate_streams(drain.run)'
    BY <1>v, <2>1, <2>2, <2>3, <2>r DEF Drains
  <2> HIDE DEF validate_streams, TasksOf, Drains
  <2> QED
    BY <1>9, <1>t, <2>1, <2>2, <2>3, <2>4, StreamIs DEF Snapshots, AtStep, DrainPlace, GoTo,
       Staging, Archiving
<1>10. ASSUME Seals(Stream) PROVE C
  <2>1. drain.pc \in {"seal"} /\ Drains
    BY <1>10 DEF Seals, AtStep, Files
  <2>2. /\ drain.run \in Runs /\ drain.left \subseteq TasksOf(drain.run) /\ validate_streams(drain.run)
        /\ staging[drain.run].state = "staged"
    BY <2>1 DEF DrainPlace, Staging, Archiving
  <2>3. UNCHANGED <<staging, phase>>
    BY <1>10 DEF Seals, KeepForDrain, KeepSources
  <2>r. drain'.run = drain.run
    BY <1>10, <1>t DEF Seals, GoTo, AfterFile
  <2>4. Drains' /\ validate_streams(drain.run)'
    BY <1>v, <2>1, <2>2, <2>3, <2>r DEF Drains
  <2> HIDE DEF validate_streams, TasksOf, Drains
  <2> QED
    BY <1>10, <1>t, <2>1, <2>2, <2>3, <2>4, StreamIs DEF Seals, AtStep, DrainPlace, GoTo,
       Staging, Archiving
<1>11. ASSUME NEW f \in Files, HasFile(Stream, f) PROVE C
  <2>1. drain.pc \in {"log", "exit"} /\ Drains
    BY <1>11 DEF HasFile, AtStep, Files
  <2>2. /\ drain.run \in Runs /\ drain.left \subseteq TasksOf(drain.run) /\ validate_streams(drain.run)
        /\ staging[drain.run].state = "staged"
    BY <2>1 DEF DrainPlace, Staging, Archiving
  <2>3. UNCHANGED <<staging, phase>>
    BY <1>11 DEF HasFile, KeepForDrain, KeepSources
  <2>r. drain'.run = drain.run
    BY <1>11, <1>t DEF HasFile, GoTo, AfterFile
  <2>4. Drains' /\ validate_streams(drain.run)'
    BY <1>v, <2>1, <2>2, <2>3, <2>r DEF Drains
  <2> HIDE DEF validate_streams, TasksOf, Drains
  <2>5. CASE f = "log"
    <3>1. drain.pc = "log" /\ drain' = [drain EXCEPT !.pc = "exit", !.left = drain.left]
      BY <1>11, <2>5, <1>t DEF HasFile, AtStep, AfterFile, GoTo
    <3> QED
      BY <3>1, <1>t, <2>1, <2>2, <2>3, <2>4 DEF DrainPlace, Staging, Archiving
  <2>6. CASE f = "exit"
    <3>1. /\ drain'.run = drain.run /\ drain'.left = drain.left \ {Stream}
          /\ drain'.pc = IF drain.left = {Stream} THEN "commit" ELSE "seal"
      BY <1>11, <2>6, <1>t DEF HasFile, AfterFile, GoTo
    <3>2. drain.left # {} 
      BY <2>1 DEF DrainPlace
    <3>3. drain'.left = {} <=> drain.left = {Stream}
      BY <3>1, <3>2
    <3> QED
      BY <3>1, <3>3, <2>2, <2>3, <2>4 DEF DrainPlace, Staging, Archiving
  <2> QED
    BY <2>5, <2>6 DEF Files
<1>12. ASSUME NEW f \in Files, RenamesFile(Stream, f) PROVE C
  <2>1. drain.pc \in {"log", "exit"} /\ Drains
    BY <1>12 DEF RenamesFile, AtStep, Files
  <2>2. /\ drain.run \in Runs /\ drain.left \subseteq TasksOf(drain.run) /\ validate_streams(drain.run)
        /\ staging[drain.run].state = "staged"
    BY <2>1 DEF DrainPlace, Staging, Archiving
  <2>3. UNCHANGED <<staging, phase>>
    BY <1>12 DEF RenamesFile, KeepForDrain, KeepSources
  <2>r. drain'.run = drain.run
    BY <1>12, <1>t DEF RenamesFile, GoTo, AfterFile
  <2>4. Drains' /\ validate_streams(drain.run)'
    BY <1>v, <2>1, <2>2, <2>3, <2>r DEF Drains
  <2> HIDE DEF validate_streams, TasksOf, Drains
  <2>5. CASE f = "log"
    <3>1. drain.pc = "log" /\ drain' = [drain EXCEPT !.pc = "exit", !.left = drain.left]
      BY <1>12, <2>5, <1>t DEF RenamesFile, AtStep, AfterFile, GoTo
    <3> QED
      BY <3>1, <1>t, <2>1, <2>2, <2>3, <2>4 DEF DrainPlace, Staging, Archiving
  <2>6. CASE f = "exit"
    <3>1. /\ drain'.run = drain.run /\ drain'.left = drain.left \ {Stream}
          /\ drain'.pc = IF drain.left = {Stream} THEN "commit" ELSE "seal"
      BY <1>12, <2>6, <1>t DEF RenamesFile, AfterFile, GoTo
    <3>2. drain.left # {} 
      BY <2>1 DEF DrainPlace
    <3>3. drain'.left = {} <=> drain.left = {Stream}
      BY <3>1, <3>2
    <3> QED
      BY <3>1, <3>3, <2>2, <2>3, <2>4 DEF DrainPlace, Staging, Archiving
  <2> QED
    BY <2>5, <2>6 DEF Files
<1>13. ASSUME Commits PROVE C
  <2>a. AtStep("commit") /\ drain.run \in Runs /\ validate_streams(drain.run)
    BY <1>13 DEF Commits, AtStep, DrainPlace
  <2>r. drain'.run = drain.run
    BY <1>13, <1>t DEF Commits, GoTo
  <2>1. Drains' /\ drain.run \in Runs /\ validate_streams(drain.run)' /\ Streams(drain.run) \subseteq TasksOf(drain.run)
    BY <1>13, <2>a, <2>r, <1>v DEF Commits, AtStep, KeepForDrain, Drains, Streams
  <2>2. staging'[drain.run].state = "complete"
    BY <1>13, <1>t, <2>1 DEF Commits, Row
  <2> QED
    BY <1>13, <1>t, <2>1, <2>2 DEF Commits, GoTo, DrainPlace, Staging, Archiving
<1>14. ASSUME Verifies PROVE C
  <2>1. drain.pc \in {"verify"} /\ Drains
    BY <1>14 DEF Verifies, AtStep, Files
  <2>2. /\ drain.run \in Runs /\ drain.left \subseteq TasksOf(drain.run) /\ validate_streams(drain.run)
        /\ staging[drain.run].state = "complete"
    BY <2>1 DEF DrainPlace, Staging, Archiving
  <2>3. UNCHANGED <<staging, phase>>
    BY <1>14 DEF Verifies, KeepForDrain, KeepSources
  <2>r. drain'.run = drain.run
    BY <1>14, <1>t DEF Verifies, GoTo, AfterFile
  <2>4. Drains' /\ validate_streams(drain.run)'
    BY <1>v, <2>1, <2>2, <2>3, <2>r DEF Drains
  <2> HIDE DEF validate_streams, TasksOf, Drains
  <2> QED
    BY <1>14, <1>t, <2>1, <2>2, <2>3, <2>4, StreamIs DEF Verifies, AtStep, DrainPlace, GoTo,
       Staging, Archiving
<1>15. ASSUME CleanScope PROVE C
  <2>1. drain.pc \in {"clean"} /\ Drains
    BY <1>15 DEF CleanScope, AtStep, Files
  <2>2. /\ drain.run \in Runs /\ drain.left \subseteq TasksOf(drain.run) /\ validate_streams(drain.run)
        /\ staging[drain.run].state = "complete"
    BY <2>1 DEF DrainPlace, Staging, Archiving
  <2>3. UNCHANGED <<staging, phase>>
    BY <1>15 DEF CleanScope, KeepForDrain, KeepSources
  <2>r. drain'.run = drain.run
    BY <1>15, <1>t DEF CleanScope, GoTo, AfterFile
  <2>4. Drains' /\ validate_streams(drain.run)'
    BY <1>v, <2>1, <2>2, <2>3, <2>r DEF Drains
  <2> HIDE DEF validate_streams, TasksOf, Drains
  <2> QED
    BY <1>15, <1>t, <2>1, <2>2, <2>3, <2>4, StreamIs DEF CleanScope, AtStep, DrainPlace, GoTo,
       Staging, Archiving
<1>16. ASSUME PurgeJournal PROVE C
  <2>1. drain.pc \in {"purge"} /\ Drains
    BY <1>16 DEF PurgeJournal, AtStep, Files
  <2>2. /\ drain.run \in Runs /\ drain.left \subseteq TasksOf(drain.run) /\ validate_streams(drain.run)
        /\ staging[drain.run].state = "complete"
    BY <2>1 DEF DrainPlace, Staging, Archiving
  <2>3. UNCHANGED <<staging, phase>>
    BY <1>16 DEF PurgeJournal, KeepForDrain, KeepSources
  <2>r. drain'.run = drain.run
    BY <1>16, <1>t DEF PurgeJournal, GoTo, AfterFile
  <2>4. Drains' /\ validate_streams(drain.run)'
    BY <1>v, <2>1, <2>2, <2>3, <2>r DEF Drains
  <2> HIDE DEF validate_streams, TasksOf, Drains
  <2> QED
    BY <1>16, <1>t, <2>1, <2>2, <2>3, <2>4, StreamIs DEF PurgeJournal, AtStep, DrainPlace, GoTo,
       Staging, Archiving
<1>17. ASSUME PurgeStaging PROVE C
  BY <1>17 DEF PurgeStaging, Resting, DrainPlace, Staging, Archiving
<1>18. ASSUME Start PROVE C
  <2>1. drain.pc = "idle"
    BY <1>18 DEF Start, DrainPlace, Drains
  <2> QED
    BY <1>18, <2>1 DEF Start, DrainPlace, Staging, Archiving
<1>19. ASSUME StartDrain PROVE C
  <2>1. drain.pc = "idle"
    BY <1>19 DEF StartDrain, DrainPlace, Drains
  <2> QED
    BY <1>19, <2>1 DEF StartDrain, DrainPlace, Staging, Archiving
<1>20. ASSUME Admit PROVE C
  <2>1. drain.pc = "idle"
    BY <1>20 DEF Admit, Resting
  <2> QED
    BY <1>20, <2>1 DEF Admit, DrainPlace, Staging, Archiving
<1>21. ASSUME EnsureScope \/ Spawn \/ SpawnFails \/ Exit \/ Read \/ EndOfOutput \/
             TakeItem \/ Accept
      PROVE  C
  BY <1>q, <1>21 DEF EnsureScope, Spawn, SpawnFails, Exit, Read, EndOfOutput, TakeItem, Accept,
     KeepForDrain, KeepSources, volatile, durable
<1>22. ASSUME AcceptFails \/ Finish
      PROVE  C
  BY <1>q, <1>22 DEF AcceptFails, Finish, KeepForDrain, KeepSources, volatile, durable
<1>23. ASSUME NEW f \in Files, WritesFile(Stream, f)
      PROVE  C
  BY <1>q, <1>23 DEF WritesFile, KeepForDrain, KeepSources, volatile, durable
<1>24. ASSUME NEW t \in Tasks, Recovers(t)
      PROVE  C
  BY <1>q, <1>24 DEF Recovers, KeepForDrain, KeepSources, volatile, durable
<1>25. ASSUME NEW t \in Tasks, NEW op \in Ops, Send(t, op) \/ Mutate(t, op)
      PROVE  C
  BY <1>q, <1>25 DEF Send, Mutate, KeepForDrain, KeepSources, volatile, durable
<1> HIDE DEF C
<1> QED
  BY <1>q, <1>y, <1>z, <1>1, <1>2, <1>3, <1>4, <1>5, <1>6, <1>7, <1>8, <1>9, <1>10, <1>11, <1>12,
     <1>13, <1>14, <1>15, <1>16, <1>17, <1>18, <1>19, <1>20, <1>21, <1>22, <1>23, <1>24, <1>25,
     Kinds


-----------------------------------------------------------------------------
(* Rows, scopes, claims and values *)

(* The executor and the relay create a scope that is missing and touch no     *)
(* other.                                                                     *)
LEMMA CreatedIs ==
  ASSUME scope \in [Runs -> Scope], NEW r \in Runs, scope' = [scope EXCEPT ![r] = Created(r)]
  PROVE  /\ \A q \in Runs : scope'[q] # scope[q] =>
                q = r /\ scope[q].state = "none" /\ scope'[q] = [NoScope EXCEPT !.state = "active"]
         /\ scope'[r].state # "none"
<1>1. \A q \in Runs : scope'[q] = IF q = r THEN Created(r) ELSE scope[q]
  OBVIOUS
<1> QED
  BY <1>1 DEF Created, NoScope

(* The drain has what its place tells. *)
LEMMA DrainFilesNext ==
  ASSUME Plain, [Next]_vars
  PROVE  DrainFiles'
<1> USE DEF Plain
<1>t. /\ drain \in [pc : DrainSteps, run : Runs \cup {NoTask}, left : SUBSET Tasks,
                   seal : [holds : SUBSET Chunks, how : Hows]]
      /\ scope \in [Runs -> Scope] /\ final \in [Tasks -> [log : File, exit : File]]
      /\ drain.run # NoTask => drain.run \in Runs
  BY DEF Typed
<1>k. ASSUME UNCHANGED <<drain, final>>, \A r \in Runs : scope[r].state # "none" => scope'[r].state = scope[r].state
      PROVE  DrainFiles'
  <2>1. UNCHANGED Stream /\ (drain.pc # "idle" => drain.run \in Runs)
    BY <1>k DEF Stream, DrainPlace
  <2> QED
    BY <1>k, <2>1, <1>t DEF DrainFiles, DrainSteps
<1>e. exec.pc # "idle" => exec.task \in Tasks /\ RunOf[exec.task] \in Runs
  BY RunsAssumption DEF ExecSound
<1> DEFINE C == DrainFiles'
<1> SUFFICES C
  OBVIOUS
<1>q. UNCHANGED <<drain, scope, final>> => C
  BY <1>k
<1>z. UNCHANGED vars => C
  BY <1>q DEF vars, volatile, durable
<1>y. ASSUME NEW r \in Runs, Loses(r) PROVE C
  <2>1. drain.pc # "idle" => drain.run \in Runs
    BY DEF DrainPlace
  <2>2. UNCHANGED <<drain, final>> /\ UNCHANGED Stream
    BY <1>y, LosesScope DEF volatile, Stream
  <2> QED
    BY <1>y, <2>1, <2>2, LosesScope DEF DrainFiles
<1>1. ASSUME Stops PROVE C
  <2>1. drain'.pc = "idle"
    BY <1>1 DEF Stops, Stop, Resting
  <2> QED
    BY <2>1 DEF DrainFiles
<1>2. ASSUME EnsureScope PROVE C
  <2>1. /\ RunOf[exec.task] \in Runs
        /\ scope' = [scope EXCEPT ![RunOf[exec.task]] = Created(RunOf[exec.task])]
    BY <1>2, <1>e DEF EnsureScope
  <2>2. \A q \in Runs : scope'[q] # scope[q] => scope[q].state = "none"
                       /\ scope'[q] = [NoScope EXCEPT !.state = "active"]
    BY <2>1, <1>t, CreatedIs
  <2> QED
    BY <1>2, <1>k, <2>2 DEF EnsureScope
<1>3. ASSUME NEW t \in Tasks, NEW op \in Ops, Mutate(t, op) PROVE C
  <2>1. /\ RunOf[t] \in Runs /\ scope' = [scope EXCEPT ![RunOf[t]] = Mutated(scope[RunOf[t]], t, op)]
    BY <1>3, RunsAssumption DEF Mutate
  <2>2. \A q \in Runs : scope'[q] = IF q = RunOf[t] THEN Mutated(scope[q], t, op) ELSE scope[q]
    BY <2>1, <1>t
  <2>3. \A q \in Runs : scope'[q].state = scope[q].state
    BY <2>2, <1>t DEF Mutated, Scope
  <2> QED
    BY <1>3, <1>k, <2>3 DEF Mutate
<1>4. ASSUME NEW r \in Runs, NEW p \in Payloads, Stage(r, p) PROVE C
  <2>1. scope' = [scope EXCEPT ![r] = Created(r)]
    BY <1>4 DEF Stage
  <2>2. \A q \in Runs : scope'[q] # scope[q] => scope[q].state = "none"
                       /\ scope'[q] = [NoScope EXCEPT !.state = "active"]
    BY <2>1, <1>t, CreatedIs
  <2> QED
    BY <1>4, <1>k, <2>2 DEF Stage, volatile
<1>5. ASSUME NEW r \in Runs, Selects(r) PROVE C
  <2>1. /\ drain'.pc \in {"snapshot", "verify"} /\ drain'.run = r /\ drain'.left = TasksOf(r)
    BY <1>5 DEF Selects, validate_streams
  <2> QED
    BY <2>1 DEF DrainFiles
<1>6. ASSUME Snapshots PROVE C
  <2>1. drain.pc = "snapshot" /\ drain.run \in Runs /\ staging[drain.run].state = "staged"
        /\ TasksOf(drain.run) \subseteq drain.left
    BY <1>6 DEF Snapshots, AtStep, DrainPlace, Staging, DrainFiles
  <2>2. scope[drain.run].state \in {"active", "snapshotted"}
    BY <1>6, <2>1, <1>t DEF RowsSound, SnapshotsSound, Scope, Snapshots, Lost
  <2>3. scope'[drain.run].state = "snapshotted"
    BY <1>6, <2>1, <2>2, <1>t DEF Snapshots, Snapshotted, Scope
  <2>4. drain'.pc \in {"commit", "seal"} /\ drain'.run = drain.run /\ drain'.left = drain.left
    BY <1>6, <1>t DEF Snapshots, GoTo
  <2> QED
    BY <2>1, <2>3, <2>4 DEF DrainFiles
<1>7. ASSUME Seals(Stream) PROVE C
  <2>1. /\ drain.pc = "seal" /\ drain'.pc = "log" /\ drain'.run = drain.run /\ drain'.left = drain.left
        /\ UNCHANGED <<scope, final>>
    BY <1>7, <1>t DEF Seals, AtStep
  <2> QED
    BY <2>1 DEF DrainFiles
<1>8. ASSUME NEW f \in Files, HasFile(Stream, f) PROVE C
  <2>u. /\ drain.pc = f /\ drain.pc \in {"log", "exit"} /\ Stream \in drain.left /\ drain.left \subseteq Tasks
        /\ drain.run \in Runs /\ TasksOf(drain.run) \subseteq Tasks /\ Stream \in Tasks
    BY <1>8, <1>t, StreamIs DEF HasFile, AtStep, Files, DrainPlace, TasksOf
  <2>v. /\ scope[drain.run].state = "snapshotted"
        /\ \A u \in TasksOf(drain.run) \ drain.left : final[u].log.state = "installed"
        /\ f = "exit" => final[Stream].log.state = "installed"
    BY <2>u DEF DrainFiles
  <2>w. Expected(f).state = "installed"
    BY DEF Expected
  <2>x. final' = final /\ final[Stream][f].state = "installed"
    BY <1>8, <2>w DEF HasFile, KeepSources
  <2>y. drain'.run = drain.run /\ scope' = scope
    BY <1>8, <1>t DEF HasFile, AfterFile, GoTo, KeepSources
  <2>z. /\ f = "log" => drain'.pc = "exit" /\ drain'.left = drain.left
        /\ f = "exit" => drain'.pc \in {"seal", "commit"} /\ drain'.left = drain.left \ {Stream}
    BY <1>8, <1>t DEF HasFile, AfterFile, GoTo
  <2>s. f = "log" => Stream' = Stream
    BY <2>z DEF Stream
  <2> HIDE DEF Stream
  <2>a. CASE f = "log"
    BY <2>a, <2>u, <2>v, <2>x, <2>y, <2>z, <2>s DEF DrainFiles
  <2>b. CASE f = "exit"
    BY <2>b, <2>u, <2>v, <2>x, <2>y, <2>z DEF DrainFiles
  <2> QED
    BY <2>a, <2>b DEF Files
<1>9. ASSUME NEW f \in Files, WritesFile(Stream, f) PROVE C
  <2>u. /\ drain.pc = f /\ drain.pc \in {"log", "exit"} /\ Stream \in drain.left /\ drain.left \subseteq Tasks
        /\ drain.run \in Runs /\ TasksOf(drain.run) \subseteq Tasks /\ Stream \in Tasks
    BY <1>9, <1>t, StreamIs DEF WritesFile, AtStep, Files, DrainPlace, TasksOf
  <2>v. /\ scope[drain.run].state = "snapshotted"
        /\ \A u \in TasksOf(drain.run) \ drain.left : final[u].log.state = "installed"
        /\ f = "exit" => final[Stream].log.state = "installed"
    BY <2>u DEF DrainFiles
  <2>w. Expected(f).state = "installed"
    BY DEF Expected
  <2>x. /\ \A u \in Tasks : u # Stream => final'[u] = final[u]
        /\ f = "exit" => final'[Stream].log = final[Stream].log
    BY <1>9, <2>u, <1>t DEF WritesFile
  <2>y. UNCHANGED <<drain, scope>> /\ Stream' = Stream
    BY <1>9 DEF WritesFile, Stream
  <2> HIDE DEF Stream
  <2>z. \A u \in TasksOf(drain.run) \ drain.left : u # Stream /\ u \in Tasks
    BY <2>u
  <2> QED
    BY <2>u, <2>v, <2>x, <2>y, <2>z DEF DrainFiles
<1>10. ASSUME NEW f \in Files, RenamesFile(Stream, f) PROVE C
  <2>u. /\ drain.pc = f /\ drain.pc \in {"log", "exit"} /\ Stream \in drain.left /\ drain.left \subseteq Tasks
        /\ drain.run \in Runs /\ TasksOf(drain.run) \subseteq Tasks /\ Stream \in Tasks
    BY <1>10, <1>t, StreamIs DEF RenamesFile, AtStep, Files, DrainPlace, TasksOf
  <2>v. /\ scope[drain.run].state = "snapshotted"
        /\ \A u \in TasksOf(drain.run) \ drain.left : final[u].log.state = "installed"
        /\ f = "exit" => final[Stream].log.state = "installed"
    BY <2>u DEF DrainFiles
  <2>w. Expected(f).state = "installed"
    BY DEF Expected
  <2>x. /\ \A u \in Tasks : u # Stream => final'[u] = final[u]
        /\ f = "log" => final'[Stream].log.state = "installed"
        /\ f = "exit" => final'[Stream].log = final[Stream].log
    BY <1>10, <2>w, <2>u, <1>t DEF RenamesFile
  <2>y. drain'.run = drain.run /\ scope' = scope
    BY <1>10, <1>t DEF RenamesFile, AfterFile, GoTo, KeepSources
  <2>z. /\ f = "log" => drain'.pc = "exit" /\ drain'.left = drain.left
        /\ f = "exit" => drain'.pc \in {"seal", "commit"} /\ drain'.left = drain.left \ {Stream}
    BY <1>10, <1>t DEF RenamesFile, AfterFile, GoTo
  <2>s. f = "log" => Stream' = Stream
    BY <2>z DEF Stream
  <2> HIDE DEF Stream
  <2>a. CASE f = "log"
    BY <2>a, <2>u, <2>v, <2>x, <2>y, <2>z, <2>s DEF DrainFiles
  <2>b. CASE f = "exit"
    BY <2>b, <2>u, <2>v, <2>x, <2>y, <2>z DEF DrainFiles
  <2> QED
    BY <2>a, <2>b DEF Files
<1>11. ASSUME Commits PROVE C
  <2>1. drain'.pc \in {"verify"}
    BY <1>11, <1>t DEF Commits, GoTo, Resting
  <2> QED
    BY <2>1 DEF DrainFiles
<1>12. ASSUME Verifies PROVE C
  <2>1. drain'.pc \in {"clean"}
    BY <1>12, <1>t DEF Verifies, GoTo, Resting
  <2> QED
    BY <2>1 DEF DrainFiles
<1>13. ASSUME CleanScope PROVE C
  <2>1. drain'.pc \in {"unstage", "purge"}
    BY <1>13, <1>t DEF CleanScope, GoTo, Resting
  <2> QED
    BY <2>1 DEF DrainFiles
<1>14. ASSUME PurgeJournal PROVE C
  <2>1. drain'.pc \in {"unstage", "purge"}
    BY <1>14, <1>t DEF PurgeJournal, GoTo, Resting
  <2> QED
    BY <2>1 DEF DrainFiles
<1>15. ASSUME PurgeStaging PROVE C
  <2>1. drain'.pc \in {"idle"}
    BY <1>15, <1>t DEF PurgeStaging, GoTo, Resting
  <2> QED
    BY <2>1 DEF DrainFiles
<1>16. ASSUME Spawn \/ SpawnFails \/ NotLaunched \/ Exit \/ Settle \/ Read \/
             EndOfOutput \/ TakeItem
      PROVE  C
  BY <1>q, <1>16 DEF Spawn, SpawnFails, NotLaunched, Exit, Settle, Read, EndOfOutput, TakeItem,
     KeepForDrain, KeepSources, volatile, durable
<1>17. ASSUME Accept \/ AcceptFails \/ Finish \/ Start \/ StartDrain \/ Admit
      PROVE  C
  BY <1>q, <1>17 DEF Accept, AcceptFails, Finish, Start, StartDrain, Admit, KeepForDrain,
     KeepSources, volatile, durable
<1>18. ASSUME NEW t \in Tasks, Claim(t) \/ Expire(t) \/ CancelPending(t) \/
             Recovers(t)
      PROVE  C
  BY <1>q, <1>18 DEF Claim, Expire, CancelPending, Recovers, KeepForDrain, KeepSources,
     volatile, durable
<1>19. ASSUME NEW t \in Tasks, NEW op \in Ops, Send(t, op)
      PROVE  C
  BY <1>q, <1>19 DEF Send, KeepForDrain, KeepSources, volatile, durable
<1> HIDE DEF C
<1> QED
  BY <1>q, <1>y, <1>z, <1>1, <1>2, <1>3, <1>4, <1>5, <1>6, <1>7, <1>8, <1>9, <1>10, <1>11, <1>12,
     <1>13, <1>14, <1>15, <1>16, <1>17, <1>18, <1>19, Kinds

LEMMA RowsNext ==
  ASSUME Plain, [Next]_vars
  PROVE  RowsSound'
<1> USE DEF Plain
<1>t. /\ scope \in [Runs -> Scope] /\ staging \in [Runs -> Row] /\ acked \in [Runs -> SUBSET Payloads]
  BY DEF Typed
<1>a. archive = [r \in Runs |-> archive[r]]
  BY DEF Typed
<1>e. exec.pc # "idle" => exec.task \in Tasks /\ RunOf[exec.task] \in Runs
  BY RunsAssumption DEF ExecSound
<1>m. \A u \in Tasks : claim[u] \in {"settled", "cancelled"} => claim'[u] = claim[u]
  BY ClaimsMove
<1>k. ASSUME UNCHANGED <<staging, archive, acked>>,
             \A r \in Runs : scope[r].state # "none" => scope'[r].state # "none"
      PROVE  RowsSound'
  BY <1>k, <1>m DEF RowsSound, Archived, TasksOf
<1> DEFINE C == RowsSound'
<1> SUFFICES C
  OBVIOUS
<1>q. UNCHANGED <<staging, archive, acked, scope, claim>> => C
  BY <1>k
<1>z. UNCHANGED vars => C
  BY <1>q DEF vars, volatile, durable
<1>y. ASSUME NEW r \in Runs, Loses(r) PROVE C
  BY <1>y, <1>k, LosesScope
<1>1. ASSUME NEW t \in Tasks, Claim(t) PROVE C
  BY <1>1, <1>k DEF Claim, volatile
<1>2. ASSUME NEW t \in Tasks, Expire(t) PROVE C
  BY <1>2, <1>k DEF Expire, volatile
<1>3. ASSUME NEW t \in Tasks, CancelPending(t) PROVE C
  BY <1>3, <1>k DEF CancelPending, volatile
<1>4. ASSUME EnsureScope PROVE C
  <2>1. /\ RunOf[exec.task] \in Runs
        /\ scope' = [scope EXCEPT ![RunOf[exec.task]] = Created(RunOf[exec.task])]
    BY <1>4, <1>e DEF EnsureScope
  <2>2. \A q \in Runs : scope'[q] # scope[q] => scope[q].state = "none"
                       /\ scope'[q] = [NoScope EXCEPT !.state = "active"]
    BY <2>1, <1>t, CreatedIs
  <2>3. \A q \in Runs : scope[q].state # "none" => scope'[q].state # "none"
    BY <2>2
  <2> QED
    BY <1>4, <1>k, <2>3 DEF EnsureScope
<1>5. ASSUME NotLaunched PROVE C
  BY <1>5, <1>k DEF NotLaunched, volatile
<1>6. ASSUME Settle PROVE C
  BY <1>6, <1>k DEF Settle, volatile
<1>7. ASSUME NEW t \in Tasks, NEW op \in Ops, Mutate(t, op) PROVE C
  <2>1. /\ RunOf[t] \in Runs /\ scope' = [scope EXCEPT ![RunOf[t]] = Mutated(scope[RunOf[t]], t, op)]
    BY <1>7, RunsAssumption DEF Mutate
  <2>2. \A q \in Runs : scope'[q] = IF q = RunOf[t] THEN Mutated(scope[q], t, op) ELSE scope[q]
    BY <2>1, <1>t
  <2>3. \A q \in Runs : scope'[q].state = scope[q].state
    BY <2>2, <1>t DEF Mutated, Scope
  <2> QED
    BY <1>7, <1>k, <2>3 DEF Mutate
<1>8. ASSUME NEW r \in Runs, NEW p \in Payloads, Stage(r, p) PROVE C
  <2>1. scope' = [scope EXCEPT ![r] = Created(r)]
    BY <1>8 DEF Stage
  <2>2. \A q \in Runs : scope'[q] # scope[q] => scope[q].state = "none"
                       /\ scope'[q] = [NoScope EXCEPT !.state = "active"]
    BY <2>1, <1>t, CreatedIs
  <2>3. \A u \in TasksOf(r) : claim[u] \in {"settled", "cancelled"}
    BY <1>8 DEF Stage
  <2>4. archive' = archive /\ claim' = claim
    BY <1>8 DEF Stage
  <2>5. scope'[r].state # "none" /\ \A q \in Runs : scope[q].state # "none" => scope'[q].state # "none"
    BY <2>1, <2>2, <1>t, CreatedIs
  <2>6. CASE staging[r].state = "none"
    <3>1. /\ staging' = [staging EXCEPT ![r] = [state |-> "staged", payload |-> p]]
          /\ acked' = [acked EXCEPT ![r] = @ \cup {p}]
      BY <1>8, <2>6 DEF Stage
    <3>2. /\ staging'[r].state = "staged" /\ staging'[r].payload = p /\ acked'[r] = acked[r] \cup {p}
          /\ \A q \in Runs : q # r => staging'[q] = staging[q] /\ acked'[q] = acked[q]
      BY <3>1, <1>t
    <3>3. acked[r] = {} /\ ~Archived(r)
      BY <2>6 DEF RowsSound
    <3> QED
      BY <2>3, <2>4, <2>5, <3>2, <3>3 DEF RowsSound, Archived
  <2>7. CASE staging[r].state # "none"
    <3>1. staging' = staging /\ acked' = IF staging[r].payload = p THEN [acked EXCEPT ![r] = @ \cup {p}] ELSE acked
      BY <1>8, <2>7 DEF Stage
    <3>2. /\ acked'[r] \subseteq acked[r] \cup {staging[r].payload}
          /\ \A q \in Runs : q # r => acked'[q] = acked[q]
      BY <3>1, <1>t
    <3>3. acked[r] \subseteq {staging[r].payload}
      BY DEF RowsSound
    <3>4. \A q \in Runs : acked'[q] \subseteq {staging[q].payload} /\ (staging[q].state = "none" => acked'[q] = {})
      BY <2>7, <3>2, <3>3 DEF RowsSound
    <3> QED
      BY <2>4, <2>5, <3>1, <3>4 DEF RowsSound, Archived
  <2> QED
    BY <2>6, <2>7
<1>9. ASSUME Snapshots PROVE C
  <2>1. drain.run \in Runs
    BY <1>9 DEF Snapshots, AtStep, DrainPlace
  <2>2. \A q \in Runs : scope[q].state # "none" => scope'[q].state # "none"
    BY <1>9, <2>1, <1>t DEF Snapshots, Snapshotted, Scope
  <2> QED
    BY <1>9, <1>k, <2>2 DEF Snapshots, KeepForDrain
<1>10. ASSUME Commits PROVE C
  <2>1. drain.run \in Runs /\ staging[drain.run].state = "staged"
    BY <1>10 DEF Commits, AtStep, DrainPlace
  <2>2. staging[drain.run].payload \in Payloads
    BY <2>1 DEF RowsSound
  <2>3. /\ staging'[drain.run].state = "complete" /\ staging'[drain.run].payload = staging[drain.run].payload
        /\ \A q \in Runs : q # drain.run => staging'[q] = staging[q]
    BY <1>10, <2>1, <1>t DEF Commits, Row
  <2>4. /\ archive'[drain.run].payload = staging[drain.run].payload
        /\ \A q \in Runs : q # drain.run => archive'[q] = archive[q]
    BY <1>10, <2>1, <1>a DEF Commits
  <2>5. UNCHANGED <<scope, acked, claim>>
    BY <1>10 DEF Commits, KeepForDrain
  <2> QED
    BY <2>1, <2>2, <2>3, <2>4, <2>5, NameAssumption DEF RowsSound, Archived
<1>11. ASSUME CleanScope PROVE C
  <2>1. drain.run \in Runs
    BY <1>11 DEF CleanScope, AtStep, DrainPlace
  <2>2. \A q \in Runs : scope[q].state # "none" => scope'[q].state # "none"
    BY <1>11, <2>1, <1>t DEF CleanScope, Cleaned, Scope
  <2> QED
    BY <1>11, <1>k, <2>2 DEF CleanScope, KeepForDrain
<1>12. ASSUME PurgeStaging PROVE C
  <2>1. drain.run \in Runs /\ staging[drain.run].state = "complete"
    BY <1>12 DEF PurgeStaging, AtStep, DrainPlace, Archiving
  <2>3. /\ staging'[drain.run].state = "purged" /\ staging'[drain.run].payload = staging[drain.run].payload
        /\ \A q \in Runs : q # drain.run => staging'[q] = staging[q]
    BY <1>12, <2>1, <1>t DEF PurgeStaging, Row
  <2>5. UNCHANGED <<scope, acked, claim, archive>>
    BY <1>12 DEF PurgeStaging, KeepForDrain
  <2> QED
    BY <2>1, <2>3, <2>5 DEF RowsSound, Archived
<1>13. ASSUME Stops \/ Spawn \/ SpawnFails \/ Exit \/ Read \/ EndOfOutput \/ TakeItem
             \/ Accept
      PROVE  C
  BY <1>q, <1>13 DEF Stops, Spawn, SpawnFails, Exit, Read, EndOfOutput, TakeItem, Accept,
     KeepForDrain, KeepSources, volatile, durable
<1>14. ASSUME AcceptFails \/ Finish \/ Seals(Stream) \/ Verifies \/ PurgeJournal \/
             Start \/ StartDrain \/ Admit
      PROVE  C
  BY <1>q, <1>14 DEF AcceptFails, Finish, Seals, Verifies, PurgeJournal, Start, StartDrain,
     Admit, KeepForDrain, KeepSources, volatile, durable
<1>15. ASSUME NEW f \in Files, HasFile(Stream, f) \/ WritesFile(Stream, f) \/
             RenamesFile(Stream, f)
      PROVE  C
  BY <1>q, <1>15 DEF HasFile, WritesFile, RenamesFile, KeepForDrain, KeepSources, volatile,
     durable
<1>16. ASSUME NEW r \in Runs, Selects(r)
      PROVE  C
  BY <1>q, <1>16 DEF Selects, KeepForDrain, KeepSources, volatile, durable
<1>17. ASSUME NEW t \in Tasks, Recovers(t)
      PROVE  C
  BY <1>q, <1>17 DEF Recovers, KeepForDrain, KeepSources, volatile, durable
<1>18. ASSUME NEW t \in Tasks, NEW op \in Ops, Send(t, op)
      PROVE  C
  BY <1>q, <1>18 DEF Send, KeepForDrain, KeepSources, volatile, durable
<1> HIDE DEF C
<1> QED
  BY <1>q, <1>y, <1>z, <1>1, <1>2, <1>3, <1>4, <1>5, <1>6, <1>7, <1>8, <1>9, <1>10, <1>11, <1>12,
     <1>13, <1>14, <1>15, <1>16, <1>17, <1>18, Kinds

LEMMA SnapshotsNext ==
  ASSUME Plain, [Next]_vars
  PROVE  SnapshotsSound'
<1> USE DEF Plain
<1>t. scope \in [Runs -> Scope]
  BY DEF Typed
<1>a. archive = [r \in Runs |-> archive[r]]
  BY DEF Typed
<1>e. exec.pc # "idle" => exec.task \in Tasks /\ RunOf[exec.task] \in Runs
  BY RunsAssumption DEF ExecSound
<1>k. ASSUME archive' = archive,
             \A r \in Runs : scope'[r] # scope[r] => /\ scope[r].state = "none"
                                                   /\ scope'[r] = [NoScope EXCEPT !.state = "active"]
      PROVE  SnapshotsSound'
  BY <1>k DEF SnapshotsSound, Archived, NoScope
<1> DEFINE C == SnapshotsSound'
<1> SUFFICES C
  OBVIOUS
<1>q. UNCHANGED <<scope, archive>> => C
  BY <1>k
<1>z. UNCHANGED vars => C
  BY <1>q DEF vars, volatile, durable
<1>y. ASSUME NEW r \in Runs, Loses(r) PROVE C
  BY <1>y, LosesScope DEF SnapshotsSound, Archived
<1>1. ASSUME EnsureScope PROVE C
  <2>1. /\ RunOf[exec.task] \in Runs
        /\ scope' = [scope EXCEPT ![RunOf[exec.task]] = Created(RunOf[exec.task])]
    BY <1>1, <1>e DEF EnsureScope
  <2>2. \A q \in Runs : scope'[q] # scope[q] => scope[q].state = "none"
                       /\ scope'[q] = [NoScope EXCEPT !.state = "active"]
    BY <2>1, <1>t, CreatedIs
  <2> QED
    BY <1>1, <1>k, <2>2 DEF EnsureScope
<1>2. ASSUME NEW t \in Tasks, NEW op \in Ops, Mutate(t, op) PROVE C
  <2>1. /\ RunOf[t] \in Runs /\ scope' = [scope EXCEPT ![RunOf[t]] = Mutated(scope[RunOf[t]], t, op)]
    BY <1>2, RunsAssumption DEF Mutate
  <2>2. \A q \in Runs : scope'[q] = IF q = RunOf[t] THEN Mutated(scope[q], t, op) ELSE scope[q]
    BY <2>1, <1>t
  <2>3. \A q \in Runs : scope'[q] = scope[q] \/ (scope[q].state = "active" /\ scope'[q].state = "active")
    BY <2>2, <1>t DEF Mutated, Scope
  <2>4. archive' = archive
    BY <1>2 DEF Mutate
  <2> QED
    BY <2>3, <2>4 DEF SnapshotsSound, Archived
<1>3. ASSUME NEW r \in Runs, NEW p \in Payloads, Stage(r, p) PROVE C
  <2>1. scope' = [scope EXCEPT ![r] = Created(r)]
    BY <1>3 DEF Stage
  <2>2. \A q \in Runs : scope'[q] # scope[q] => scope[q].state = "none"
                       /\ scope'[q] = [NoScope EXCEPT !.state = "active"]
    BY <2>1, <1>t, CreatedIs
  <2> QED
    BY <1>3, <1>k, <2>2 DEF Stage
<1>4. ASSUME Snapshots PROVE C
  <2>1. drain.run \in Runs /\ staging[drain.run].state = "staged"
    BY <1>4 DEF Snapshots, AtStep, DrainPlace, Staging
  <2>2. \A q \in Runs : \/ scope'[q] = scope[q]
                       \/ /\ q = drain.run /\ scope[q].state = "active" /\ scope'[q].state = "snapshotted"
                          /\ scope'[q].snapshot = scope'[q].values
    BY <1>4, <2>1, <1>t DEF Snapshots, Snapshotted, Scope
  <2>3. ~Archived(drain.run)
    BY <2>1 DEF RowsSound
  <2>4. archive' = archive
    BY <1>4 DEF Snapshots
  <2> QED
    BY <2>2, <2>3, <2>4 DEF SnapshotsSound, Archived
<1>5. ASSUME Commits PROVE C
  <2>1. drain.run \in Runs /\ scope[drain.run].state = "snapshotted"
    BY <1>5 DEF Commits, AtStep, DrainPlace, DrainFiles
  <2>2. staging[drain.run].state = "staged"
    BY <1>5 DEF Commits
  <2>3. staging[drain.run].payload \in Payloads
    BY <2>1, <2>2 DEF RowsSound
  <2>4. /\ archive'[drain.run].scope = scope[drain.run].snapshot /\ archive'[drain.run].payload # "none"
        /\ \A q \in Runs : q # drain.run => archive'[q] = archive[q]
    BY <1>5, <2>1, <2>3, <1>a, NameAssumption DEF Commits
  <2>5. scope' = scope
    BY <1>5 DEF Commits
  <2> QED
    BY <2>1, <2>4, <2>5 DEF SnapshotsSound, Archived
<1>6. ASSUME CleanScope PROVE C
  <2>1. drain.run \in Runs /\ staging[drain.run].state = "complete"
    BY <1>6 DEF CleanScope, AtStep, DrainPlace, Archiving
  <2>2. /\ scope'[drain.run].state = "cleaned" /\ scope'[drain.run].snapshot = scope[drain.run].snapshot
        /\ scope'[drain.run].claims = {}
        /\ \A q \in Runs : q # drain.run => scope'[q] = scope[q]
    BY <1>6, <2>1, <1>t DEF CleanScope, Cleaned, Scope
  <2>3. Archived(drain.run)
    BY <2>1 DEF RowsSound
  <2>4. archive' = archive
    BY <1>6 DEF CleanScope
  <2> QED
    BY <2>1, <2>2, <2>3, <2>4 DEF SnapshotsSound, Archived
<1>7. ASSUME Stops \/ Spawn \/ SpawnFails \/ NotLaunched \/ Exit \/ Settle \/ Read \/
             EndOfOutput
      PROVE  C
  BY <1>q, <1>7 DEF Stops, Spawn, SpawnFails, NotLaunched, Exit, Settle, Read, EndOfOutput,
     KeepForDrain, KeepSources, volatile, durable
<1>8. ASSUME TakeItem \/ Accept \/ AcceptFails \/ Finish \/ Seals(Stream) \/ Verifies
             \/ PurgeJournal \/ PurgeStaging
      PROVE  C
  BY <1>q, <1>8 DEF TakeItem, Accept, AcceptFails, Finish, Seals, Verifies, PurgeJournal,
     PurgeStaging, KeepForDrain, KeepSources, volatile, durable
<1>9. ASSUME Start \/ StartDrain \/ Admit
      PROVE  C
  BY <1>q, <1>9 DEF Start, StartDrain, Admit, KeepForDrain, KeepSources, volatile, durable
<1>10. ASSUME NEW f \in Files, HasFile(Stream, f) \/ WritesFile(Stream, f) \/
             RenamesFile(Stream, f)
      PROVE  C
  BY <1>q, <1>10 DEF HasFile, WritesFile, RenamesFile, KeepForDrain, KeepSources, volatile,
     durable
<1>11. ASSUME NEW r \in Runs, Selects(r)
      PROVE  C
  BY <1>q, <1>11 DEF Selects, KeepForDrain, KeepSources, volatile, durable
<1>12. ASSUME NEW t \in Tasks, Claim(t) \/ Expire(t) \/ CancelPending(t) \/
             Recovers(t)
      PROVE  C
  BY <1>q, <1>12 DEF Claim, Expire, CancelPending, Recovers, KeepForDrain, KeepSources,
     volatile, durable
<1>13. ASSUME NEW t \in Tasks, NEW op \in Ops, Send(t, op)
      PROVE  C
  BY <1>q, <1>13 DEF Send, KeepForDrain, KeepSources, volatile, durable
<1> HIDE DEF C
<1> QED
  BY <1>q, <1>y, <1>z, <1>1, <1>2, <1>3, <1>4, <1>5, <1>6, <1>7, <1>8, <1>9, <1>10, <1>11, <1>12,
     <1>13, Kinds

LEMMA ClaimsNext ==
  ASSUME Plain, [Next]_vars
  PROVE  ClaimsSound'
<1> USE DEF Plain
<1>t. scope \in [Runs -> Scope] /\ told \in [Tasks -> Told] /\ (\A u \in Tasks : RunOf[u] \in Runs)
  BY RunsAssumption DEF Typed
<1>e. exec.pc # "idle" => exec.task \in Tasks /\ RunOf[exec.task] \in Runs
  BY RunsAssumption DEF ExecSound
<1>k. ASSUME \A u \in Tasks : told'[u].answered = told[u].answered /\ told[u].sent \subseteq told'[u].sent,
             \A r \in Runs : scope'[r] # scope[r] => /\ scope[r].state = "none"
                                                   /\ scope'[r] = [NoScope EXCEPT !.state = "active"]
      PROVE  ClaimsSound'
  <2> SUFFICES ASSUME NEW u \in Tasks
               PROVE  LET sc == scope'[RunOf[u]] IN
                 /\ <<u, "delete">> \in sc.claims => /\ <<u, "put">> \in sc.claims /\ u \notin sc.values
                                                     /\ "delete" \in told'[u].sent
                 /\ <<u, "put">> \in sc.claims /\ <<u, "delete">> \notin sc.claims => u \in sc.values
                 /\ sc.state # "cleaned" => \A op \in told'[u].answered : <<u, op>> \in sc.claims
    BY DEF ClaimsSound
  <2> DEFINE q == RunOf[u]
  <2>0. q \in Runs
    BY <1>t
  <2>1. CASE scope'[q] = scope[q]
    BY <1>k, <2>1 DEF ClaimsSound
  <2>2. CASE scope[q].state = "none" /\ scope'[q] = [NoScope EXCEPT !.state = "active"]
    <3>1. scope'[q].claims = {} /\ scope[q].claims = {}
      BY <2>0, <2>2 DEF NoScope, SnapshotsSound
    <3>2. told[u].answered = {}
      BY <2>2, <3>1 DEF ClaimsSound
    <3> QED
      BY <1>k, <3>1, <3>2
  <2> QED
    BY <1>k, <2>0, <2>1, <2>2
<1> DEFINE C == ClaimsSound'
<1> SUFFICES C
  OBVIOUS
<1>q. UNCHANGED <<scope, told>> => C
  BY <1>k
<1>z. UNCHANGED vars => C
  BY <1>q DEF vars, volatile, durable
<1>y. ASSUME NEW r \in Runs, Loses(r) PROVE C
  BY <1>y, <1>t, LosesScope DEF ClaimsSound
<1>f. ASSUME AcceptFails PROVE C
  BY <1>f, <1>k, FailsTold DEF AcceptFails
<1>1. ASSUME EnsureScope PROVE C
  <2>1. /\ RunOf[exec.task] \in Runs
        /\ scope' = [scope EXCEPT ![RunOf[exec.task]] = Created(RunOf[exec.task])]
    BY <1>1, <1>e DEF EnsureScope
  <2>2. \A q \in Runs : scope'[q] # scope[q] => scope[q].state = "none"
                       /\ scope'[q] = [NoScope EXCEPT !.state = "active"]
    BY <2>1, <1>t, CreatedIs
  <2> QED
    BY <1>1, <1>k, <2>2 DEF EnsureScope
<1>2. ASSUME Read PROVE C
  <2>1. \A u \in Tasks : told'[u].answered = told[u].answered /\ told'[u].sent = told[u].sent
    BY <1>2, <1>t DEF Read, Told
  <2> QED
    BY <1>2, <1>k, <2>1 DEF Read, durable
<1>3. ASSUME Accept PROVE C
  <2>1. \A u \in Tasks : told'[u].answered = told[u].answered /\ told'[u].sent = told[u].sent
    BY <1>3, <1>t DEF Accept, Told
  <2> QED
    BY <1>3, <1>k, <2>1 DEF Accept, durable
<1>4. ASSUME NEW t \in Tasks, NEW op \in Ops, Send(t, op) PROVE C
  <2>1. \A u \in Tasks : told'[u].answered = told[u].answered /\ told[u].sent \subseteq told'[u].sent
    BY <1>4, <1>t DEF Send, Told
  <2> QED
    BY <1>4, <1>k, <2>1 DEF Send, durable
<1>5. ASSUME NEW t \in Tasks, NEW op \in Ops, Mutate(t, op) PROVE C
  <2>1. /\ RunOf[t] \in Runs /\ scope' = [scope EXCEPT ![RunOf[t]] = Mutated(scope[RunOf[t]], t, op)]
    BY <1>5, RunsAssumption DEF Mutate
  <2>2. \A q \in Runs : scope'[q] = IF q = RunOf[t] THEN Mutated(scope[q], t, op) ELSE scope[q]
    BY <2>1, <1>t
  <2> DEFINE sc == scope[RunOf[t]]
             old == sc.state # "active" \/ <<t, op>> \in sc.claims
  <2>3. /\ \A u \in Tasks : u # t => told'[u] = told[u]
        /\ told'[t].sent = told[t].sent
        /\ told'[t].answered = told[t].answered \cup (IF Answers(sc, t, op) THEN {op} ELSE {})
    BY <1>5, <1>t DEF Mutate, Told
  <2>4. sc \in Scope
    BY <1>t, <2>1
  <2>5. CASE old
    <3>1. scope'[RunOf[t]] = sc
      BY <2>1, <2>2, <2>5 DEF Mutated
    <3>2. \A q \in Runs : scope'[q] = scope[q]
      BY <2>2, <3>1
    <3>3. sc.state # "cleaned" => \A o \in told'[t].answered : <<t, o>> \in sc.claims
      BY <2>3, <2>5 DEF Answers, ClaimsSound
    <3>4. \A u \in Tasks : scope'[RunOf[u]] = scope[RunOf[u]]
      BY <3>2, <1>t
    <3>5. \A u \in Tasks : told'[u].sent = told[u].sent /\ (u # t => told'[u].answered = told[u].answered)
      BY <2>3
    <3> QED
      BY <3>3, <3>4, <3>5 DEF ClaimsSound
  <2>6. CASE ~old
    <3> DEFINE new == scope'[RunOf[t]]
    <3>1. /\ new.state = "active" /\ sc.state = "active" /\ <<t, op>> \notin sc.claims
          /\ new.claims = sc.claims \cup {<<t, op>>}
          /\ new.values = IF op = "put" THEN sc.values \cup {t} ELSE sc.values \ {t}
      <4>1. sc.state = "active" /\ <<t, op>> \notin sc.claims
        BY <2>6
      <4>2. new = [sc EXCEPT !.values = IF op = "put" THEN @ \cup {t} ELSE @ \ {t},
                             !.claims = @ \cup {<<t, op>>}]
        BY <2>1, <2>2, <2>6, <4>1 DEF Mutated
      <4> HIDE DEF new, sc
      <4> QED
        BY <2>4, <4>1, <4>2 DEF Scope
    <3>2. \A o \in told'[t].answered : <<t, o>> \in new.claims
      BY <2>3, <3>1 DEF ClaimsSound
    <3>3. <<t, op>> \in requests
      BY <1>5 DEF Mutate
    <3>4. CASE op = "put"
      <4>1. <<t, "put">> \in new.claims /\ <<t, "delete">> \notin new.claims /\ t \in new.values
        BY <3>1, <3>4 DEF ClaimsSound
      <4>2. ASSUME NEW u \in Tasks, u # t, RunOf[u] = RunOf[t]
            PROVE  /\ u \in new.values <=> u \in sc.values
                   /\ \A o : <<u, o>> \in new.claims <=> <<u, o>> \in sc.claims
        BY <3>1, <4>2
      <4> HIDE DEF new
      <4>3. \A u \in Tasks : u # t /\ RunOf[u] # RunOf[t] => scope'[RunOf[u]] = scope[RunOf[u]]
        BY <1>t, <2>2
      <4> QED
        BY <3>1, <3>2, <4>1, <4>2, <4>3, <2>3 DEF ClaimsSound, new
    <3>5. CASE op = "delete"
      <4>1. "put" \in told[t].answered /\ "delete" \in told[t].sent
        BY <3>3, <3>5 DEF RequestsSound
      <4>2. <<t, "put">> \in new.claims /\ <<t, "delete">> \in new.claims /\ t \notin new.values
        BY <3>1, <3>5, <4>1 DEF ClaimsSound
      <4>3. ASSUME NEW u \in Tasks, u # t, RunOf[u] = RunOf[t]
            PROVE  /\ u \in new.values <=> u \in sc.values
                   /\ \A o : <<u, o>> \in new.claims <=> <<u, o>> \in sc.claims
        BY <3>1, <3>5, <4>3
      <4> HIDE DEF new
      <4>4. \A u \in Tasks : u # t /\ RunOf[u] # RunOf[t] => scope'[RunOf[u]] = scope[RunOf[u]]
        BY <1>t, <2>2
      <4> QED
        BY <3>1, <3>2, <4>1, <4>2, <4>3, <4>4, <2>3 DEF ClaimsSound, new
    <3> QED
      BY <3>4, <3>5 DEF Ops
  <2> QED
    BY <2>5, <2>6
<1>6. ASSUME NEW r \in Runs, NEW p \in Payloads, Stage(r, p) PROVE C
  <2>1. scope' = [scope EXCEPT ![r] = Created(r)]
    BY <1>6 DEF Stage
  <2>2. \A q \in Runs : scope'[q] # scope[q] => scope[q].state = "none"
                       /\ scope'[q] = [NoScope EXCEPT !.state = "active"]
    BY <2>1, <1>t, CreatedIs
  <2> QED
    BY <1>6, <1>k, <2>2 DEF Stage
<1>7. ASSUME Snapshots PROVE C
  <2>s. /\ \A q \in Runs : q # drain.run => scope'[q] = scope[q]
        /\ drain.run \in Runs /\ told' = told
    BY <1>7, <1>t DEF Snapshots, AtStep, DrainPlace, KeepForDrain
  <2>1. /\ scope'[drain.run].claims = scope[drain.run].claims /\ scope'[drain.run].values = scope[drain.run].values
        /\ scope'[drain.run].state # "cleaned" => scope[drain.run].state # "cleaned"
    BY <1>7, <2>s, <1>t DEF Snapshots, Snapshotted, Scope
  <2> QED
    BY <2>s, <2>1, <1>t DEF ClaimsSound
<1>8. ASSUME CleanScope PROVE C
  <2>s. /\ \A q \in Runs : q # drain.run => scope'[q] = scope[q]
        /\ drain.run \in Runs /\ told' = told
    BY <1>8, <1>t DEF CleanScope, AtStep, DrainPlace, KeepForDrain
  <2>1. scope'[drain.run].claims = {} /\ scope'[drain.run].state = "cleaned"
    BY <1>8, <2>s, <1>t DEF CleanScope, Cleaned, Scope
  <2> QED
    BY <2>s, <2>1, <1>t DEF ClaimsSound
<1>9. ASSUME Stops \/ Spawn \/ SpawnFails \/ NotLaunched \/ Exit \/ Settle \/
             EndOfOutput \/ TakeItem
      PROVE  C
  BY <1>q, <1>9 DEF Stops, Spawn, SpawnFails, NotLaunched, Exit, Settle, EndOfOutput, TakeItem,
     KeepForDrain, KeepSources, volatile, durable
<1>10. ASSUME Finish \/ Seals(Stream) \/ Commits \/ Verifies \/
             PurgeJournal \/ PurgeStaging \/ Start
      PROVE  C
  BY <1>q, <1>10 DEF Finish, Seals, Commits, Verifies, PurgeJournal, PurgeStaging,
     Start, KeepForDrain, KeepSources, volatile, durable
<1>11. ASSUME StartDrain \/ Admit
      PROVE  C
  BY <1>q, <1>11 DEF StartDrain, Admit, KeepForDrain, KeepSources, volatile, durable
<1>12. ASSUME NEW f \in Files, HasFile(Stream, f) \/ WritesFile(Stream, f) \/
             RenamesFile(Stream, f)
      PROVE  C
  BY <1>q, <1>12 DEF HasFile, WritesFile, RenamesFile, KeepForDrain, KeepSources, volatile,
     durable
<1>13. ASSUME NEW r \in Runs, Selects(r)
      PROVE  C
  BY <1>q, <1>13 DEF Selects, KeepForDrain, KeepSources, volatile, durable
<1>14. ASSUME NEW t \in Tasks, Claim(t) \/ Expire(t) \/ CancelPending(t) \/
             Recovers(t)
      PROVE  C
  BY <1>q, <1>14 DEF Claim, Expire, CancelPending, Recovers, KeepForDrain, KeepSources,
     volatile, durable
<1> HIDE DEF C
<1> QED
  BY <1>f, <1>q, <1>y, <1>z, <1>1, <1>2, <1>3, <1>4, <1>5, <1>6, <1>7, <1>8, <1>9, <1>10, <1>11, <1>12,
     <1>13, <1>14, Kinds

LEMMA ScopeOfRunNext ==
  ASSUME Plain, [Next]_vars
  PROVE  ScopeOfRun'
<1> USE DEF Plain
<1>t. scope \in [Runs -> Scope]
  BY DEF Typed
<1>e. exec.pc # "idle" => exec.task \in Tasks /\ RunOf[exec.task] \in Runs
  BY RunsAssumption DEF ExecSound
<1>k. ASSUME \A r \in Runs : scope'[r] # scope[r] => scope'[r] = [NoScope EXCEPT !.state = "active"]
      PROVE  ScopeOfRun'
  BY <1>k DEF ScopeOfRun, NoScope
<1> DEFINE C == ScopeOfRun'
<1> SUFFICES C
  OBVIOUS
<1>q. UNCHANGED scope => C
  BY <1>k
<1>z. UNCHANGED vars => C
  BY <1>q DEF vars, volatile, durable
<1>y. ASSUME NEW r \in Runs, Loses(r) PROVE C
  BY <1>y, LosesScope DEF ScopeOfRun
<1>1. ASSUME EnsureScope PROVE C
  <2>1. /\ RunOf[exec.task] \in Runs
        /\ scope' = [scope EXCEPT ![RunOf[exec.task]] = Created(RunOf[exec.task])]
    BY <1>1, <1>e DEF EnsureScope
  <2>2. \A q \in Runs : scope'[q] # scope[q] => scope[q].state = "none"
                       /\ scope'[q] = [NoScope EXCEPT !.state = "active"]
    BY <2>1, <1>t, CreatedIs
  <2> QED
    BY <1>1, <1>k, <2>2 DEF EnsureScope
<1>2. ASSUME NEW t \in Tasks, NEW op \in Ops, Mutate(t, op) PROVE C
  <2>1. /\ RunOf[t] \in Runs /\ scope' = [scope EXCEPT ![RunOf[t]] = Mutated(scope[RunOf[t]], t, op)]
    BY <1>2, RunsAssumption DEF Mutate
  <2>2. \A q \in Runs : scope'[q] = IF q = RunOf[t] THEN Mutated(scope[q], t, op) ELSE scope[q]
    BY <2>1, <1>t
  <2>3. scope[RunOf[t]] \in Scope
    BY <2>1, <1>t
  <2> DEFINE sc == scope[RunOf[t]]
             new == Mutated(sc, t, op)
  <2>4. /\ new.snapshot = sc.snapshot /\ new.values \subseteq sc.values \cup {t}
        /\ new.claims \subseteq sc.claims \cup {<<t, op>>}
    BY <2>3 DEF Mutated, Scope
  <2>5. t \in TasksOf(RunOf[t])
    BY DEF TasksOf
  <2> HIDE DEF new
  <2>6. /\ new.values \subseteq TasksOf(RunOf[t]) /\ new.snapshot \subseteq TasksOf(RunOf[t])
        /\ new.claims \subseteq TasksOf(RunOf[t]) \X Ops
    BY <2>1, <2>4, <2>5 DEF ScopeOfRun
  <2>7. scope'[RunOf[t]] = new /\ \A q \in Runs : q # RunOf[t] => scope'[q] = scope[q]
    BY <2>1, <2>2 DEF new
  <2> QED
    BY <2>1, <2>6, <2>7 DEF ScopeOfRun
<1>3. ASSUME NEW r \in Runs, NEW p \in Payloads, Stage(r, p) PROVE C
  <2>1. scope' = [scope EXCEPT ![r] = Created(r)]
    BY <1>3 DEF Stage
  <2>2. \A q \in Runs : scope'[q] # scope[q] => scope[q].state = "none"
                       /\ scope'[q] = [NoScope EXCEPT !.state = "active"]
    BY <2>1, <1>t, CreatedIs
  <2> QED
    BY <1>3, <1>k, <2>2 DEF Stage
<1>4. ASSUME Snapshots PROVE C
  <2>1. /\ drain.run \in Runs /\ \A q \in Runs : q # drain.run => scope'[q] = scope[q]
    BY <1>4, <1>t DEF Snapshots, AtStep, DrainPlace
  <2>2. LET old == scope[drain.run]
            new == scope'[drain.run] IN
        /\ new.values \subseteq old.values /\ new.snapshot \in {old.snapshot, old.values}
        /\ new.claims \subseteq old.claims
    BY <1>4, <2>1, <1>t DEF Snapshots, Snapshotted, Scope
  <2> QED
    BY <2>1, <2>2 DEF ScopeOfRun
<1>5. ASSUME CleanScope PROVE C
  <2>1. /\ drain.run \in Runs /\ \A q \in Runs : q # drain.run => scope'[q] = scope[q]
    BY <1>5, <1>t DEF CleanScope, AtStep, DrainPlace
  <2>2. LET old == scope[drain.run]
            new == scope'[drain.run] IN
        /\ new.values \subseteq old.values /\ new.snapshot \in {old.snapshot, old.values}
        /\ new.claims \subseteq old.claims
    BY <1>5, <2>1, <1>t DEF CleanScope, Cleaned, Scope
  <2> QED
    BY <2>1, <2>2 DEF ScopeOfRun
<1>6. ASSUME Stops \/ Spawn \/ SpawnFails \/ NotLaunched \/ Exit \/ Settle \/ Read \/
             EndOfOutput
      PROVE  C
  BY <1>q, <1>6 DEF Stops, Spawn, SpawnFails, NotLaunched, Exit, Settle, Read, EndOfOutput,
     KeepForDrain, KeepSources, volatile, durable
<1>7. ASSUME TakeItem \/ Accept \/ AcceptFails \/ Finish \/ Seals(Stream) \/ Commits
             \/ Verifies \/ PurgeJournal
      PROVE  C
  BY <1>q, <1>7 DEF TakeItem, Accept, AcceptFails, Finish, Seals, Commits, Verifies,
     PurgeJournal, KeepForDrain, KeepSources, volatile, durable
<1>8. ASSUME PurgeStaging \/ Start \/ StartDrain \/ Admit
      PROVE  C
  BY <1>q, <1>8 DEF PurgeStaging, Start, StartDrain, Admit, KeepForDrain, KeepSources,
     volatile, durable
<1>9. ASSUME NEW f \in Files, HasFile(Stream, f) \/ WritesFile(Stream, f) \/
             RenamesFile(Stream, f)
      PROVE  C
  BY <1>q, <1>9 DEF HasFile, WritesFile, RenamesFile, KeepForDrain, KeepSources, volatile,
     durable
<1>10. ASSUME NEW r \in Runs, Selects(r)
      PROVE  C
  BY <1>q, <1>10 DEF Selects, KeepForDrain, KeepSources, volatile, durable
<1>11. ASSUME NEW t \in Tasks, Claim(t) \/ Expire(t) \/ CancelPending(t) \/
             Recovers(t)
      PROVE  C
  BY <1>q, <1>11 DEF Claim, Expire, CancelPending, Recovers, KeepForDrain, KeepSources,
     volatile, durable
<1>12. ASSUME NEW t \in Tasks, NEW op \in Ops, Send(t, op)
      PROVE  C
  BY <1>q, <1>12 DEF Send, KeepForDrain, KeepSources, volatile, durable
<1> HIDE DEF C
<1> QED
  BY <1>q, <1>y, <1>z, <1>1, <1>2, <1>3, <1>4, <1>5, <1>6, <1>7, <1>8, <1>9, <1>10, <1>11, <1>12,
     Kinds

LEMMA RequestsNext ==
  ASSUME Plain, [Next]_vars
  PROVE  RequestsSound'
<1> USE DEF Plain
<1>t. told \in [Tasks -> Told]
  BY DEF Typed
<1> DEFINE C == RequestsSound'
<1> SUFFICES C
  OBVIOUS
<1>q. UNCHANGED <<requests, told>> => C
  BY DEF RequestsSound
<1>z. UNCHANGED vars => C
  BY <1>q DEF vars, volatile, durable
<1>y. ASSUME NEW r \in Runs, Loses(r) PROVE C
  BY <1>q, <1>y DEF Loses, volatile, durable
<1>f. ASSUME AcceptFails PROVE C
  BY <1>f, FailsTold DEF RequestsSound, AcceptFails, volatile
<1>1. ASSUME Stops PROVE C
  BY <1>1 DEF Stops, Stop, RequestsSound
<1>2. ASSUME Read PROVE C
  <2>1. \A u \in Tasks : told'[u].answered = told[u].answered /\ told'[u].sent = told[u].sent
    BY <1>2, <1>t DEF Read, Told
  <2> QED
    BY <1>2, <2>1 DEF Read, RequestsSound
<1>3. ASSUME Accept PROVE C
  <2>1. \A u \in Tasks : told'[u].answered = told[u].answered /\ told'[u].sent = told[u].sent
    BY <1>3, <1>t DEF Accept, Told
  <2> QED
    BY <1>3, <2>1 DEF Accept, RequestsSound
<1>4. ASSUME NEW t \in Tasks, NEW op \in Ops, Send(t, op) PROVE C
  <2>1. \A u \in Tasks : told'[u].answered = told[u].answered /\ told[u].sent \subseteq told'[u].sent
    BY <1>4, <1>t DEF Send, Told
  <2>2. op \in told'[t].sent /\ (op = "delete" => "put" \in told[t].answered)
    BY <1>4, <1>t DEF Send, Told
  <2>3. requests' = requests \cup {<<t, op>>}
    BY <1>4 DEF Send
  <2> QED
    BY <2>1, <2>2, <2>3 DEF RequestsSound
<1>5. ASSUME NEW t \in Tasks, NEW op \in Ops, Mutate(t, op) PROVE C
  <2>1. \A u \in Tasks : told[u].answered \subseteq told'[u].answered /\ told'[u].sent = told[u].sent
    BY <1>5, <1>t DEF Mutate, Told
  <2>2. requests' \subseteq requests
    BY <1>5 DEF Mutate
  <2> QED
    BY <2>1, <2>2 DEF RequestsSound
<1>6. ASSUME EnsureScope \/ Spawn \/ SpawnFails \/ NotLaunched \/ Exit \/ Settle \/
             EndOfOutput \/ TakeItem
      PROVE  C
  BY <1>q, <1>6 DEF EnsureScope, Spawn, SpawnFails, NotLaunched, Exit, Settle, EndOfOutput,
     TakeItem, KeepForDrain, KeepSources, volatile, durable
<1>7. ASSUME Finish \/ Snapshots \/ Seals(Stream) \/ Commits \/
             Verifies \/ CleanScope \/ PurgeJournal
      PROVE  C
  BY <1>q, <1>7 DEF Finish, Snapshots, Seals, Commits, Verifies, CleanScope,
     PurgeJournal, KeepForDrain, KeepSources, volatile, durable
<1>8. ASSUME PurgeStaging \/ Start \/ StartDrain \/ Admit
      PROVE  C
  BY <1>q, <1>8 DEF PurgeStaging, Start, StartDrain, Admit, KeepForDrain, KeepSources,
     volatile, durable
<1>9. ASSUME NEW f \in Files, HasFile(Stream, f) \/ WritesFile(Stream, f) \/
             RenamesFile(Stream, f)
      PROVE  C
  BY <1>q, <1>9 DEF HasFile, WritesFile, RenamesFile, KeepForDrain, KeepSources, volatile,
     durable
<1>10. ASSUME NEW r \in Runs, Selects(r)
      PROVE  C
  BY <1>q, <1>10 DEF Selects, KeepForDrain, KeepSources, volatile, durable
<1>11. ASSUME NEW r \in Runs, NEW p \in Payloads, Stage(r, p)
      PROVE  C
  BY <1>q, <1>11 DEF Stage, KeepForDrain, KeepSources, volatile, durable
<1>12. ASSUME NEW t \in Tasks, Claim(t) \/ Expire(t) \/ CancelPending(t) \/
             Recovers(t)
      PROVE  C
  BY <1>q, <1>12 DEF Claim, Expire, CancelPending, Recovers, KeepForDrain, KeepSources,
     volatile, durable
<1> HIDE DEF C
<1> QED
  BY <1>f, <1>q, <1>y, <1>z, <1>1, <1>2, <1>3, <1>4, <1>5, <1>6, <1>7, <1>8, <1>9, <1>10, <1>11, <1>12,
     Kinds

(* A scope that is not cleaned up says by itself what is kept. *)
KeptOf(t) ==
  /\ "put" \in told[t].answered /\ "delete" \notin told[t].sent => t \in KeptValues(RunOf[t])
  /\ "delete" \in told[t].answered => t \notin KeptValues(RunOf[t])

LEMMA UncleanedKeepsNext ==
  ASSUME Typed', SnapshotsSound', ClaimsSound', NEW t \in Tasks, scope'[RunOf[t]].state # "cleaned"
  PROVE  KeptOf(t)'
<1> DEFINE r == RunOf[t]
           sc == scope'[r]
<1>1. r \in Runs /\ sc \in Scope
  BY RunsAssumption DEF Typed
<1>2. \A op \in told'[t].answered : <<t, op>> \in sc.claims
  BY DEF ClaimsSound
<1>3. CASE sc.state = "none"
  <2>1. told'[t].answered = {}
    BY <1>1, <1>2, <1>3 DEF SnapshotsSound
  <2> QED
    BY <2>1 DEF KeptOf
<1>4. CASE sc.state = "active"
  <2>1. KeptValues(r)' = sc.values
    BY <1>1, <1>4 DEF KeptValues, SnapshotsSound
  <2> QED
    BY <1>2, <2>1 DEF KeptOf, ClaimsSound
<1>5. CASE sc.state = "snapshotted"
  <2>1. KeptValues(r)' = sc.values
    BY <1>1, <1>5 DEF KeptValues, SnapshotsSound
  <2> QED
    BY <1>2, <2>1 DEF KeptOf, ClaimsSound
<1>6. CASE sc.state \in {"aged", "quarantined"}
  <2>1. KeptValues(r)' = sc.values
    BY <1>1, <1>6 DEF KeptValues, SnapshotsSound, Lost
  <2> QED
    BY <1>2, <2>1 DEF KeptOf, ClaimsSound
<1> QED
  BY <1>1, <1>3, <1>4, <1>5, <1>6 DEF Scope

(* and one that is, or is being, cleaned up has its values in the archive. *)
LEMMA CleanedKeeps ==
  ASSUME Plain, [Next]_vars
  PROVE  \A u \in Tasks : scope'[RunOf[u]].state = "cleaned" => KeptOf(u)'
<1> USE DEF Plain
<1>t. scope \in [Runs -> Scope] /\ told \in [Tasks -> Told] /\ (\A u \in Tasks : RunOf[u] \in Runs)
  BY RunsAssumption DEF Typed
<1>a. archive = [r \in Runs |-> archive[r]]
  BY DEF Typed
<1>c. \A u \in Tasks : /\ KeptOf(u) /\ (scope[RunOf[u]].state = "cleaned" => Archived(RunOf[u]))
  BY <1>t DEF ValuesKept, KeptOf, SnapshotsSound
<1>k. ASSUME archive' = archive, 
             \A u \in Tasks : told'[u].answered = told[u].answered /\ told[u].sent \subseteq told'[u].sent,
             \A r \in Runs : scope'[r].state = "cleaned" => scope[r].state = "cleaned"
      PROVE  \A u \in Tasks : scope'[RunOf[u]].state = "cleaned" => KeptOf(u)'
  BY <1>k, <1>c, <1>t DEF KeptOf, KeptValues, Archived
<1>e. exec.pc # "idle" => exec.task \in Tasks /\ RunOf[exec.task] \in Runs
  BY RunsAssumption DEF ExecSound
<1> DEFINE C == \A u \in Tasks : scope'[RunOf[u]].state = "cleaned" => KeptOf(u)'
<1> SUFFICES C
  OBVIOUS
<1>q. UNCHANGED <<scope, archive, told>> => C
  BY <1>k
<1>z. UNCHANGED vars => C
  BY <1>q DEF vars, volatile, durable
<1>y. ASSUME NEW r \in Runs, Loses(r) PROVE C
  BY <1>y, <1>k, LosesScope
<1>f. ASSUME AcceptFails PROVE C
  BY <1>f, <1>k, FailsTold DEF AcceptFails
<1>1. ASSUME EnsureScope PROVE C
  <2>1. /\ RunOf[exec.task] \in Runs
        /\ scope' = [scope EXCEPT ![RunOf[exec.task]] = Created(RunOf[exec.task])]
    BY <1>1, <1>e DEF EnsureScope
  <2>2. \A q \in Runs : scope'[q] # scope[q] => scope[q].state = "none"
                       /\ scope'[q] = [NoScope EXCEPT !.state = "active"]
    BY <2>1, <1>t, CreatedIs
  <2>3. \A q \in Runs : scope'[q].state = "cleaned" => scope[q].state = "cleaned"
    BY <2>2 DEF NoScope
  <2> QED
    BY <1>1, <1>k, <2>3 DEF EnsureScope
<1>2. ASSUME Read PROVE C
  <2>1. \A u \in Tasks : told'[u].answered = told[u].answered /\ told'[u].sent = told[u].sent
    BY <1>2, <1>t DEF Read, Told
  <2> QED
    BY <1>2, <1>k, <2>1 DEF Read, durable
<1>3. ASSUME Accept PROVE C
  <2>1. \A u \in Tasks : told'[u].answered = told[u].answered /\ told'[u].sent = told[u].sent
    BY <1>3, <1>t DEF Accept, Told
  <2> QED
    BY <1>3, <1>k, <2>1 DEF Accept, durable
<1>4. ASSUME NEW t \in Tasks, NEW op \in Ops, Send(t, op) PROVE C
  <2>1. \A u \in Tasks : told'[u].answered = told[u].answered /\ told[u].sent \subseteq told'[u].sent
    BY <1>4, <1>t DEF Send, Told
  <2> QED
    BY <1>4, <1>k, <2>1 DEF Send, durable
<1>5. ASSUME NEW t \in Tasks, NEW op \in Ops, Mutate(t, op) PROVE C
  <2>1. /\ RunOf[t] \in Runs /\ scope' = [scope EXCEPT ![RunOf[t]] = Mutated(scope[RunOf[t]], t, op)]
    BY <1>5, RunsAssumption DEF Mutate
  <2>2. \A q \in Runs : scope'[q] = IF q = RunOf[t] THEN Mutated(scope[q], t, op) ELSE scope[q]
    BY <2>1, <1>t
  <2>3. \A q \in Runs : scope'[q].state = scope[q].state
    BY <2>2, <1>t DEF Mutated, Scope
  <2>4. archive' = archive
    BY <1>5 DEF Mutate
  <2>5. /\ \A u \in Tasks : u # t => told'[u] = told[u]
        /\ told'[t].sent = told[t].sent
        /\ told'[t].answered = told[t].answered \cup (IF Answers(scope[RunOf[t]], t, op) THEN {op} ELSE {})
    BY <1>5, <1>t DEF Mutate, Told
  <2>6. CASE scope[RunOf[t]].state = "cleaned"
    <3>1. told'[t].answered = told[t].answered
      <4>1. Archived(RunOf[t])
        BY <2>6, <1>c
      <4>2. <<t, op>> \notin scope[RunOf[t]].claims
        BY <2>6, <1>t DEF SnapshotsSound
      <4> QED
        BY <2>5, <2>6, <4>2 DEF Answers
    <3> QED
      BY <3>1, <2>3, <2>4, <2>5, <1>k, <1>t
  <2>7. CASE scope[RunOf[t]].state # "cleaned"
    BY <2>3, <2>4, <2>5, <2>7, <1>c, <1>t DEF KeptOf, KeptValues, Archived
  <2> QED
    BY <2>6, <2>7
<1>6. ASSUME NEW r \in Runs, NEW p \in Payloads, Stage(r, p) PROVE C
  <2>1. scope' = [scope EXCEPT ![r] = Created(r)]
    BY <1>6 DEF Stage
  <2>2. \A q \in Runs : scope'[q] # scope[q] => scope[q].state = "none"
                       /\ scope'[q] = [NoScope EXCEPT !.state = "active"]
    BY <2>1, <1>t, CreatedIs
  <2>3. \A q \in Runs : scope'[q].state = "cleaned" => scope[q].state = "cleaned"
    BY <2>2 DEF NoScope
  <2> QED
    BY <1>6, <1>k, <2>3 DEF Stage
<1>7. ASSUME Snapshots PROVE C
  <2>1. \A q \in Runs : scope'[q].state = "cleaned" => scope[q].state = "cleaned"
    BY <1>7, <1>t DEF Snapshots, Snapshotted, Scope
  <2> QED
    BY <1>7, <1>k, <2>1 DEF Snapshots, KeepForDrain
<1>8. ASSUME Commits PROVE C
  <2>1. drain.run \in Runs /\ scope[drain.run].state = "snapshotted"
    BY <1>8 DEF Commits, AtStep, DrainPlace, DrainFiles
  <2>2. \A q \in Runs : q # drain.run => archive'[q] = archive[q]
    BY <1>8, <2>1, <1>a DEF Commits
  <2>3. UNCHANGED <<scope, told>>
    BY <1>8 DEF Commits, KeepForDrain
  <2> QED
    BY <2>1, <2>2, <2>3, <1>c, <1>t DEF KeptOf, KeptValues, Archived
<1>9. ASSUME CleanScope PROVE C
  <2>1. drain.run \in Runs /\ staging[drain.run].state = "complete"
    BY <1>9 DEF CleanScope, AtStep, DrainPlace, Archiving
  <2>2. \A q \in Runs : q # drain.run => scope'[q] = scope[q]
    BY <1>9, <2>1, <1>t DEF CleanScope
  <2>3. Archived(drain.run)
    BY <2>1 DEF RowsSound
  <2>4. UNCHANGED <<archive, told>>
    BY <1>9 DEF CleanScope, KeepForDrain
  <2> QED
    BY <2>2, <2>3, <2>4, <1>c, <1>t DEF KeptOf, KeptValues, Archived
<1>10. ASSUME Stops \/ Spawn \/ SpawnFails \/ NotLaunched \/ Exit \/ Settle \/
             EndOfOutput \/ TakeItem
      PROVE  C
  BY <1>q, <1>10 DEF Stops, Spawn, SpawnFails, NotLaunched, Exit, Settle, EndOfOutput,
     TakeItem, KeepForDrain, KeepSources, volatile, durable
<1>11. ASSUME Finish \/ Seals(Stream) \/ Verifies \/ PurgeJournal \/
             PurgeStaging \/ Start \/ StartDrain
      PROVE  C
  BY <1>q, <1>11 DEF Finish, Seals, Verifies, PurgeJournal, PurgeStaging, Start,
     StartDrain, KeepForDrain, KeepSources, volatile, durable
<1>12. ASSUME Admit
      PROVE  C
  BY <1>q, <1>12 DEF Admit, KeepForDrain, KeepSources, volatile, durable
<1>13. ASSUME NEW f \in Files, HasFile(Stream, f) \/ WritesFile(Stream, f) \/
             RenamesFile(Stream, f)
      PROVE  C
  BY <1>q, <1>13 DEF HasFile, WritesFile, RenamesFile, KeepForDrain, KeepSources, volatile,
     durable
<1>14. ASSUME NEW r \in Runs, Selects(r)
      PROVE  C
  BY <1>q, <1>14 DEF Selects, KeepForDrain, KeepSources, volatile, durable
<1>15. ASSUME NEW t \in Tasks, Claim(t) \/ Expire(t) \/ CancelPending(t) \/
             Recovers(t)
      PROVE  C
  BY <1>q, <1>15 DEF Claim, Expire, CancelPending, Recovers, KeepForDrain, KeepSources,
     volatile, durable
<1> HIDE DEF C
<1> QED
  BY <1>f, <1>q, <1>y, <1>z, <1>1, <1>2, <1>3, <1>4, <1>5, <1>6, <1>7, <1>8, <1>9, <1>10, <1>11, <1>12,
     <1>13, <1>14, <1>15, Kinds

LEMMA ValuesNext ==
  ASSUME Plain, [Next]_vars
  PROVE  ValuesKept'
<1>1. Typed' /\ SnapshotsSound' /\ ClaimsSound'
  BY TypedNext, SnapshotsNext, ClaimsNext
<1>2. \A u \in Tasks : KeptOf(u)'
  BY <1>1, UncleanedKeepsNext, CleanedKeeps
<1> QED
  BY <1>2 DEF ValuesKept, KeptOf

-----------------------------------------------------------------------------
(* The invariant that does not look into journals *)

LEMMA PlainInit == ASSUME Init PROVE Plain
<1>1. /\ NoShip \in Ship /\ ShipSound
  BY NoShipOK DEF Init, ShipSound
<1>2. /\ exec \in [pc : {"idle", "claimed", "scoped", "running", "flushed"}, task : Tasks \cup {NoTask}]
      /\ drain \in [pc : DrainSteps, run : Runs \cup {NoTask}, left : SUBSET Tasks,
                   seal : [holds : SUBSET Chunks, how : Hows]]
  BY DEF Init, Idle, Resting, NoSeal, Hows, DrainSteps
<1>3. /\ journal \in [Tasks -> Seq(Frame)] /\ final \in [Tasks -> [log : File, exit : File]]
  <2>1. NoJournal \in Seq(Frame) /\ NoFile \in File
    BY ConstTypes DEF NoFile, File, Hows
  <2> QED
    BY <2>1 DEF Init
<1>4. /\ scope \in [Runs -> Scope] /\ staging \in [Runs -> Row] /\ told \in [Tasks -> Told]
  <2>1. NoScope \in Scope /\ NoRow \in Row /\ [read |-> 0, accepted |-> {}, sent |-> {}, answered |-> {},
                                                torn |-> FALSE] \in Told
    BY DEF NoScope, Scope, NoRow, Row, Told
  <2> QED
    BY <2>1 DEF Init
<1>5. order \in Seq(Runs) /\ ToSet(order) = {r \in Runs : staging[r].state # "none"}
  BY DEF Init, ToSet, NoRow
<1>6. Typed
  BY <1>1, <1>2, <1>3, <1>4, <1>5, SizeAssumption DEF Init, Typed
<1>7. ExecSound /\ NothingYet
  BY DEF Init, ExecSound, NothingYet, Idle, Unlaunched
<1>8. DrainPlace /\ DrainFiles
  BY DEF Init, DrainPlace, DrainFiles, Resting, Staging, Archiving
<1>9. RowsSound /\ SnapshotsSound
  BY DEF Init, RowsSound, SnapshotsSound, NoRow, NoScope, NoArchive, Archived
<1>10. ClaimsSound /\ RequestsSound /\ ValuesKept /\ ScopeOfRun
  BY RunsAssumption DEF Init, ClaimsSound, RequestsSound, ValuesKept, ScopeOfRun, NoScope
<1> QED
  BY <1>1, <1>6, <1>7, <1>8, <1>9, <1>10 DEF Plain

LEMMA PlainNext == ASSUME Plain, [Next]_vars PROVE Plain'
<1>1. Typed' /\ NothingYet' /\ DrainPlace' /\ DrainFiles' /\ RowsSound' /\ SnapshotsSound'
  BY TypedNext, NothingNext, PlaceNext, DrainFilesNext, RowsNext, SnapshotsNext
<1>2. ClaimsSound' /\ RequestsSound' /\ ValuesKept' /\ ScopeOfRun'
  BY ClaimsNext, RequestsNext, ValuesNext, ScopeOfRunNext
<1>3. ExecSound' /\ ShipSound'
  BY ExecNext, ShipNext DEF Plain
<1> QED
  BY <1>1, <1>2, <1>3 DEF Plain

LEMMA PlainHolds == Spec => []Plain
  BY PlainInit, PlainNext, PTL DEF Spec

(* The sets of the type invariant from those of the proofs. *)
LEMMA PlainTypeOK == ASSUME Plain PROVE TypeOK
<1> USE DEF Plain
<1>1. /\ ship.next \in Chunks /\ IsFrame(ship.item) /\ Covered(ship.st) \subseteq Chunks
      /\ ship.open \in BOOLEAN /\ ship.finishing \in BOOLEAN
      /\ Len(ship.buf) <= Capacity /\ ToSet(ship.buf) \subseteq Chunks
      /\ \A g \in ToSet(ship.gaps) : g \subseteq Chunks \ Covered(ship.st)
  <2>1. /\ ship.next \in Chunks /\ ship.item \in Frame /\ 0 .. ship.next - 1 \subseteq Chunks
    <3>1. CASE exec.pc = "running"
      BY <3>1, ItemFrame
    <3>2. CASE exec.pc # "running"
      BY <3>2, ConstTypes, ChunksAre DEF ExecSound, NoShip
    <3> QED
      BY <3>1, <3>2
  <2>2. InPlace(ship) /\ Len(ship.buf) <= Capacity
    BY DEF ShipSound, ShipOK
  <2>3. Covered(ship.st) \subseteq Chunks /\ ToSet(ship.buf) \subseteq Chunks /\ Evicted(ship) \subseteq Chunks
    BY <2>1, <2>2 DEF InPlace
  <2>4. \A g \in ToSet(ship.gaps) : g \subseteq Evicted(ship)
    BY DEF Evicted
  <2>5. Evicted(ship) \cap Covered(ship.st) = {}
    BY <2>2 DEF InPlace
  <2>6. ship.open \in BOOLEAN /\ ship.finishing \in BOOLEAN
    BY DEF Typed, Ship
  <2> QED
    BY <2>1, <2>2, <2>3, <2>4, <2>5, <2>6 DEF IsFrame, Frame
<1>2. \A t \in Tasks : /\ \A f \in ToSet(journal[t]) : IsFrame(f)
                       /\ IsFile(final[t].log) /\ IsFile(final[t].exit)
  <2> SUFFICES ASSUME NEW t \in Tasks
               PROVE  (\A f \in ToSet(journal[t]) : IsFrame(f)) /\ IsFile(final[t].log) /\ IsFile(final[t].exit)
    OBVIOUS
  <2>1. journal[t] \in Seq(Frame) /\ final[t].log \in File /\ final[t].exit \in File
    BY DEF Typed
  <2>2. \A f \in ToSet(journal[t]) : f \in Frame
    BY <2>1, InSeq
  <2> QED
    BY <2>1, <2>2 DEF IsFrame, Frame, IsFile, File
<1>3. \A r \in Runs :
        /\ scope[r].state \in {"none", "active", "aged", "quarantined", "snapshotted", "cleaned"}
        /\ staging[r].state \in {"none", "staged", "complete", "purged"}
        /\ staging[r].payload \in Payloads \cup {"none"}
  BY DEF Typed, Scope, Row
<1>4. \A r \in Runs : /\ scope[r].values \subseteq TasksOf(r) /\ scope[r].snapshot \subseteq TasksOf(r)
                      /\ scope[r].claims \subseteq TasksOf(r) \X Ops
  BY DEF ScopeOfRun
<1>5. /\ drain.pc \in DrainSteps /\ drain.left \subseteq Tasks
      /\ drain.pc \in {"seal", "log", "exit", "purge"} => drain.left # {}
  BY DEF Typed, DrainPlace
<1> QED
  BY <1>1, <1>2, <1>3, <1>4, <1>5 DEF Typed, TypeOK

(***************************************************************************)
(* The variables have the values TypeOK says, for any number of tasks,     *)
(* runs and faults: in particular the shipper's buffer never outgrows its  *)
(* capacity, a gap it has yet to declare is disjoint from what the stream  *)
(* covers, and a drain step that treats a stream finds one.                *)
(***************************************************************************)
THEOREM TypeCorrect == Spec => []TypeOK
  BY PlainHolds, PlainTypeOK, PTL
-----------------------------------------------------------------------------
(* What a step never changes *)

LEMMA ArchiveStays ==
  ASSUME Plain, [Next]_vars
  PROVE  \A r \in Runs : Archived(r) => archive'[r] = archive[r]
<1> USE DEF Plain
<1>a. archive = [r \in Runs |-> archive[r]]
  BY DEF Typed
<1> DEFINE C == \A r \in Runs : Archived(r) => archive'[r] = archive[r]
<1> SUFFICES C
  OBVIOUS
<1>q. UNCHANGED archive => C
  OBVIOUS
<1>z. UNCHANGED vars => C
  BY <1>q DEF vars, volatile, durable
<1>y. ASSUME NEW r \in Runs, Loses(r) PROVE C
  BY <1>q, <1>y DEF Loses, volatile, durable
<1>1. ASSUME Commits PROVE C
  <2>1. drain.run \in Runs /\ staging[drain.run].state = "staged"
    BY <1>1 DEF Commits, AtStep, DrainPlace
  <2>2. ~Archived(drain.run)
    BY <2>1 DEF RowsSound
  <2> QED
    BY <1>1, <2>1, <2>2, <1>a DEF Commits
<1>2. ASSUME Stops \/ EnsureScope \/ Spawn \/ SpawnFails \/ NotLaunched \/ Exit \/
             Settle \/ Read
      PROVE  C
  BY <1>q, <1>2 DEF Stops, EnsureScope, Spawn, SpawnFails, NotLaunched, Exit, Settle, Read,
     KeepForDrain, KeepSources, volatile, durable
<1>3. ASSUME EndOfOutput \/ TakeItem \/ Accept \/ AcceptFails \/ Finish \/ Snapshots
             \/ Seals(Stream) \/ Verifies
      PROVE  C
  BY <1>q, <1>3 DEF EndOfOutput, TakeItem, Accept, AcceptFails, Finish, Snapshots, Seals,
     Verifies, KeepForDrain, KeepSources, volatile, durable
<1>4. ASSUME CleanScope \/ PurgeJournal \/ PurgeStaging \/ Start \/ StartDrain \/
             Admit
      PROVE  C
  BY <1>q, <1>4 DEF CleanScope, PurgeJournal, PurgeStaging, Start, StartDrain, Admit,
     KeepForDrain, KeepSources, volatile, durable
<1>5. ASSUME NEW f \in Files, HasFile(Stream, f) \/ WritesFile(Stream, f) \/
             RenamesFile(Stream, f)
      PROVE  C
  BY <1>q, <1>5 DEF HasFile, WritesFile, RenamesFile, KeepForDrain, KeepSources, volatile,
     durable
<1>6. ASSUME NEW r \in Runs, Selects(r)
      PROVE  C
  BY <1>q, <1>6 DEF Selects, KeepForDrain, KeepSources, volatile, durable
<1>7. ASSUME NEW r \in Runs, NEW p \in Payloads, Stage(r, p)
      PROVE  C
  BY <1>q, <1>7 DEF Stage, KeepForDrain, KeepSources, volatile, durable
<1>8. ASSUME NEW t \in Tasks, Claim(t) \/ Expire(t) \/ CancelPending(t) \/
             Recovers(t)
      PROVE  C
  BY <1>q, <1>8 DEF Claim, Expire, CancelPending, Recovers, KeepForDrain, KeepSources,
     volatile, durable
<1>9. ASSUME NEW t \in Tasks, NEW op \in Ops, Send(t, op) \/ Mutate(t, op)
      PROVE  C
  BY <1>q, <1>9 DEF Send, Mutate, KeepForDrain, KeepSources, volatile, durable
<1> HIDE DEF C
<1> QED
  BY <1>q, <1>y, <1>z, <1>1, <1>2, <1>3, <1>4, <1>5, <1>6, <1>7, <1>8, <1>9, Kinds

LEMMA FilesStay ==
  ASSUME Plain, [Next]_vars
  PROVE  \A u \in Tasks : Archived(RunOf[u]) => final'[u] = final[u]
<1> USE DEF Plain
<1>t. final \in [Tasks -> [log : File, exit : File]]
  BY DEF Typed
<1>s. ASSUME drain.pc \in {"log", "exit"}
      PROVE  Stream \in Tasks /\ RunOf[Stream] \in Runs /\ ~Archived(RunOf[Stream])
  <2>1. /\ drain.run \in Runs /\ Stream \in drain.left /\ drain.left \subseteq TasksOf(drain.run)
        /\ staging[drain.run].state = "staged"
    BY <1>s, StreamIs DEF DrainPlace, Staging
  <2> QED
    BY <2>1 DEF RowsSound, TasksOf
<1>k. ASSUME NEW f, NEW x, final' = [final EXCEPT ![Stream][f] = x], drain.pc \in {"log", "exit"}
      PROVE  \A u \in Tasks : Archived(RunOf[u]) => final'[u] = final[u]
  BY <1>t, <1>s, <1>k
<1> DEFINE C == \A u \in Tasks : Archived(RunOf[u]) => final'[u] = final[u]
<1> SUFFICES C
  OBVIOUS
<1>q. UNCHANGED final => C
  OBVIOUS
<1>z. UNCHANGED vars => C
  BY <1>q DEF vars, volatile, durable
<1>y. ASSUME NEW r \in Runs, Loses(r) PROVE C
  BY <1>q, <1>y DEF Loses, volatile, durable
<1>1. ASSUME Stops PROVE C
  <2>1. CASE final' = final
    BY <2>1
  <2>2. ASSUME NEW f \in Files, Sets(Stream, f) PROVE C
    <3>1. drain.pc \in {"log", "exit"}
      BY <2>2 DEF Sets, Files
    <3> QED
      BY <2>2, <3>1, <1>k, <1>s, <1>t DEF Sets
  <2> QED
    BY <1>1, <2>1, <2>2 DEF Stops
<1>2. ASSUME NEW f \in Files, WritesFile(Stream, f) PROVE C
  <2>1. drain.pc \in {"log", "exit"}
    BY <1>2 DEF WritesFile, AtStep, Files
  <2> QED
    BY <1>2, <1>k, <2>1 DEF WritesFile
<1>3. ASSUME NEW f \in Files, RenamesFile(Stream, f) PROVE C
  <2>1. drain.pc \in {"log", "exit"}
    BY <1>3 DEF RenamesFile, AtStep, Files
  <2> QED
    BY <1>3, <1>k, <2>1 DEF RenamesFile
<1>4. ASSUME EnsureScope \/ Spawn \/ SpawnFails \/ NotLaunched \/ Exit \/ Settle \/
             Read \/ EndOfOutput
      PROVE  C
  BY <1>q, <1>4 DEF EnsureScope, Spawn, SpawnFails, NotLaunched, Exit, Settle, Read,
     EndOfOutput, KeepForDrain, KeepSources, volatile, durable
<1>5. ASSUME TakeItem \/ Accept \/ AcceptFails \/ Finish \/ Snapshots \/ Seals(Stream)
             \/ Commits \/ Verifies
      PROVE  C
  BY <1>q, <1>5 DEF TakeItem, Accept, AcceptFails, Finish, Snapshots, Seals, Commits, Verifies,
     KeepForDrain, KeepSources, volatile, durable
<1>6. ASSUME CleanScope \/ PurgeJournal \/ PurgeStaging \/ Start \/ StartDrain \/
             Admit
      PROVE  C
  BY <1>q, <1>6 DEF CleanScope, PurgeJournal, PurgeStaging, Start, StartDrain, Admit,
     KeepForDrain, KeepSources, volatile, durable
<1>7. ASSUME NEW f \in Files, HasFile(Stream, f)
      PROVE  C
  BY <1>q, <1>7 DEF HasFile, KeepForDrain, KeepSources, volatile, durable
<1>8. ASSUME NEW r \in Runs, Selects(r)
      PROVE  C
  BY <1>q, <1>8 DEF Selects, KeepForDrain, KeepSources, volatile, durable
<1>9. ASSUME NEW r \in Runs, NEW p \in Payloads, Stage(r, p)
      PROVE  C
  BY <1>q, <1>9 DEF Stage, KeepForDrain, KeepSources, volatile, durable
<1>10. ASSUME NEW t \in Tasks, Claim(t) \/ Expire(t) \/ CancelPending(t) \/
             Recovers(t)
      PROVE  C
  BY <1>q, <1>10 DEF Claim, Expire, CancelPending, Recovers, KeepForDrain, KeepSources,
     volatile, durable
<1>11. ASSUME NEW t \in Tasks, NEW op \in Ops, Send(t, op) \/ Mutate(t, op)
      PROVE  C
  BY <1>q, <1>11 DEF Send, Mutate, KeepForDrain, KeepSources, volatile, durable
<1> HIDE DEF C
<1> QED
  BY <1>q, <1>y, <1>z, <1>1, <1>2, <1>3, <1>4, <1>5, <1>6, <1>7, <1>8, <1>9, <1>10, <1>11, Kinds

LEMMA RowsGoOn ==
  ASSUME Plain, [Next]_vars
  PROVE  \A r \in Runs : Rank[staging'[r].state] >= Rank[staging[r].state]
<1> USE DEF Plain, Rank
<1>t. staging \in [Runs -> Row]
  BY DEF Typed
<1> DEFINE C == \A r \in Runs : Rank[staging'[r].state] >= Rank[staging[r].state]
<1> SUFFICES C
  OBVIOUS
<1>q. UNCHANGED staging => C
  BY <1>t DEF Row
<1>z. UNCHANGED vars => C
  BY <1>q DEF vars, volatile, durable
<1>y. ASSUME NEW r \in Runs, Loses(r) PROVE C
  BY <1>q, <1>y DEF Loses, volatile, durable
<1>1. ASSUME NEW r \in Runs, NEW p \in Payloads, Stage(r, p) PROVE C
  <2>1. \A q \in Runs : staging'[q] = staging[q] \/ (staging[q].state = "none" /\ staging'[q].state = "staged")
    BY <1>1, <1>t DEF Stage
  <2> QED
    BY <2>1, <1>t DEF Row
<1>2. ASSUME Commits PROVE C
  <2>1. \A q \in Runs : staging'[q] = staging[q] \/ (staging[q].state = "staged" /\ staging'[q].state = "complete")
    BY <1>2, <1>t DEF Commits, Row
  <2> QED
    BY <2>1, <1>t DEF Row
<1>3. ASSUME PurgeStaging PROVE C
  <2>0. staging[drain.run].state = "complete"
    BY <1>3 DEF PurgeStaging, AtStep, DrainPlace, Archiving
  <2>1. \A q \in Runs : staging'[q] = staging[q] \/ (staging[q].state = "complete" /\ staging'[q].state = "purged")
    BY <1>3, <2>0, <1>t DEF PurgeStaging, Row
  <2> QED
    BY <2>1, <1>t DEF Row
<1>4. ASSUME Stops \/ EnsureScope \/ Spawn \/ SpawnFails \/ NotLaunched \/ Exit \/
             Settle \/ Read
      PROVE  C
  BY <1>q, <1>4 DEF Stops, EnsureScope, Spawn, SpawnFails, NotLaunched, Exit, Settle, Read,
     KeepForDrain, KeepSources, volatile, durable
<1>5. ASSUME EndOfOutput \/ TakeItem \/ Accept \/ AcceptFails \/ Finish \/ Snapshots
             \/ Seals(Stream) \/ Verifies
      PROVE  C
  BY <1>q, <1>5 DEF EndOfOutput, TakeItem, Accept, AcceptFails, Finish, Snapshots, Seals,
     Verifies, KeepForDrain, KeepSources, volatile, durable
<1>6. ASSUME CleanScope \/ PurgeJournal \/ Start \/ StartDrain \/ Admit
      PROVE  C
  BY <1>q, <1>6 DEF CleanScope, PurgeJournal, Start, StartDrain, Admit, KeepForDrain,
     KeepSources, volatile, durable
<1>7. ASSUME NEW f \in Files, HasFile(Stream, f) \/ WritesFile(Stream, f) \/
             RenamesFile(Stream, f)
      PROVE  C
  BY <1>q, <1>7 DEF HasFile, WritesFile, RenamesFile, KeepForDrain, KeepSources, volatile,
     durable
<1>8. ASSUME NEW r \in Runs, Selects(r)
      PROVE  C
  BY <1>q, <1>8 DEF Selects, KeepForDrain, KeepSources, volatile, durable
<1>9. ASSUME NEW t \in Tasks, Claim(t) \/ Expire(t) \/ CancelPending(t) \/
             Recovers(t)
      PROVE  C
  BY <1>q, <1>9 DEF Claim, Expire, CancelPending, Recovers, KeepForDrain, KeepSources,
     volatile, durable
<1>10. ASSUME NEW t \in Tasks, NEW op \in Ops, Send(t, op) \/ Mutate(t, op)
      PROVE  C
  BY <1>q, <1>10 DEF Send, Mutate, KeepForDrain, KeepSources, volatile, durable
<1> HIDE DEF C
<1> QED
  BY <1>q, <1>y, <1>z, <1>1, <1>2, <1>3, <1>4, <1>5, <1>6, <1>7, <1>8, <1>9, <1>10, Kinds

LEMMA SnapshotsStay ==
  ASSUME Plain, [Next]_vars
  PROVE  \A r \in Runs : scope[r].state \in {"snapshotted", "cleaned"} =>
           scope'[r].snapshot = scope[r].snapshot
<1> USE DEF Plain
<1>t. scope \in [Runs -> Scope]
  BY DEF Typed
<1>e. exec.pc # "idle" => exec.task \in Tasks /\ RunOf[exec.task] \in Runs
  BY RunsAssumption DEF ExecSound
<1> DEFINE C == \A r \in Runs : scope[r].state \in {"snapshotted", "cleaned"} =>
           scope'[r].snapshot = scope[r].snapshot
<1> SUFFICES C
  OBVIOUS
<1>q. UNCHANGED scope => C
  OBVIOUS
<1>z. UNCHANGED vars => C
  BY <1>q DEF vars, volatile, durable
<1>y. ASSUME NEW r \in Runs, Loses(r) PROVE C
  BY <1>y, LosesScope
<1>1. ASSUME EnsureScope PROVE C
  <2>1. /\ RunOf[exec.task] \in Runs
        /\ scope' = [scope EXCEPT ![RunOf[exec.task]] = Created(RunOf[exec.task])]
    BY <1>1, <1>e DEF EnsureScope
  <2>2. \A q \in Runs : scope'[q] # scope[q] => scope[q].state = "none"
                       /\ scope'[q] = [NoScope EXCEPT !.state = "active"]
    BY <2>1, <1>t, CreatedIs
  <2> QED
    BY <2>2
<1>2. ASSUME NEW t \in Tasks, NEW op \in Ops, Mutate(t, op) PROVE C
  <2>1. /\ RunOf[t] \in Runs /\ scope' = [scope EXCEPT ![RunOf[t]] = Mutated(scope[RunOf[t]], t, op)]
    BY <1>2, RunsAssumption DEF Mutate
  <2>2. \A q \in Runs : scope'[q] = IF q = RunOf[t] THEN Mutated(scope[q], t, op) ELSE scope[q]
    BY <2>1, <1>t
  <2> QED
    BY <2>2, <1>t DEF Mutated
<1>3. ASSUME NEW r \in Runs, NEW p \in Payloads, Stage(r, p) PROVE C
  <2>1. scope' = [scope EXCEPT ![r] = Created(r)]
    BY <1>3 DEF Stage
  <2>2. \A q \in Runs : scope'[q] # scope[q] => scope[q].state = "none"
                       /\ scope'[q] = [NoScope EXCEPT !.state = "active"]
    BY <2>1, <1>t, CreatedIs
  <2> QED
    BY <2>2
<1>4. ASSUME Snapshots PROVE C
  BY <1>4, <1>t DEF Snapshots, Snapshotted
<1>5. ASSUME CleanScope PROVE C
  BY <1>5, <1>t DEF CleanScope, Cleaned, Scope
<1>6. ASSUME Stops \/ Spawn \/ SpawnFails \/ NotLaunched \/ Exit \/ Settle \/ Read \/
             EndOfOutput
      PROVE  C
  BY <1>q, <1>6 DEF Stops, Spawn, SpawnFails, NotLaunched, Exit, Settle, Read, EndOfOutput,
     KeepForDrain, KeepSources, volatile, durable
<1>7. ASSUME TakeItem \/ Accept \/ AcceptFails \/ Finish \/ Seals(Stream) \/ Commits
             \/ Verifies \/ PurgeJournal
      PROVE  C
  BY <1>q, <1>7 DEF TakeItem, Accept, AcceptFails, Finish, Seals, Commits, Verifies,
     PurgeJournal, KeepForDrain, KeepSources, volatile, durable
<1>8. ASSUME PurgeStaging \/ Start \/ StartDrain \/ Admit
      PROVE  C
  BY <1>q, <1>8 DEF PurgeStaging, Start, StartDrain, Admit, KeepForDrain, KeepSources,
     volatile, durable
<1>9. ASSUME NEW f \in Files, HasFile(Stream, f) \/ WritesFile(Stream, f) \/
             RenamesFile(Stream, f)
      PROVE  C
  BY <1>q, <1>9 DEF HasFile, WritesFile, RenamesFile, KeepForDrain, KeepSources, volatile,
     durable
<1>10. ASSUME NEW r \in Runs, Selects(r)
      PROVE  C
  BY <1>q, <1>10 DEF Selects, KeepForDrain, KeepSources, volatile, durable
<1>11. ASSUME NEW t \in Tasks, Claim(t) \/ Expire(t) \/ CancelPending(t) \/
             Recovers(t)
      PROVE  C
  BY <1>q, <1>11 DEF Claim, Expire, CancelPending, Recovers, KeepForDrain, KeepSources,
     volatile, durable
<1>12. ASSUME NEW t \in Tasks, NEW op \in Ops, Send(t, op)
      PROVE  C
  BY <1>q, <1>12 DEF Send, KeepForDrain, KeepSources, volatile, durable
<1> HIDE DEF C
<1> QED
  BY <1>q, <1>y, <1>z, <1>1, <1>2, <1>3, <1>4, <1>5, <1>6, <1>7, <1>8, <1>9, <1>10, <1>11, <1>12,
     Kinds

(***************************************************************************)
(* The archive of a run is written once, for any number of runs, redelivered*)
(* envelopes and restarts: once CommitArchive has stored it neither it nor  *)
(* the final Logs it refers to change, the staging row only goes forward    *)
(* and a snapshot of the scope stays what it was.                           *)
(***************************************************************************)
THEOREM ArchivedOnce == Spec => ArchiveIsFinal
<1>1. Plain /\ [Next]_vars =>
        [\A r \in Runs :
           /\ Archived(r) => /\ archive'[r] = archive[r]
                             /\ \A t \in TasksOf(r) : final'[t] = final[t]
           /\ Rank[staging'[r].state] >= Rank[staging[r].state]
           /\ scope[r].state \in {"snapshotted", "cleaned"} => scope'[r].snapshot = scope[r].snapshot]_vars
  BY ArchiveStays, FilesStay, RowsGoOn, SnapshotsStay DEF TasksOf
<1> QED
  BY <1>1, PlainHolds, PTL DEF Spec, ArchiveIsFinal

(* The part of AcknowledgedIsKept that is not about Logs. *)
AnswersKept == /\ ValuesKept
               /\ \A r \in Runs : /\ acked[r] \subseteq {staging[r].payload}
                                /\ Archived(r) => archive[r].payload = staging[r].payload

(***************************************************************************)
(* The mutations the tickr-ctx endpoint answered and the envelope behind a *)
(* COMPACTION_ACK are kept, in scope or staging row and then in the        *)
(* archive, whatever happens to the journals: a repeated request changes   *)
(* nothing, and an envelope with other bytes is never acknowledged.        *)
(***************************************************************************)
THEOREM AnswersAreKept == Spec => []AnswersKept
<1>1. Plain => AnswersKept
  BY DEF Plain, RowsSound, AnswersKept
<1> QED
  BY <1>1, PlainHolds, PTL

-----------------------------------------------------------------------------
(* What a frame at the end of a journal changes *)

Opened(f) == recover(f).st

(* What an opened journal tells. *)
LEMMA OpensIs ==
  ASSUME NEW f, Opens(f)
  PROVE  /\ OkView(Readable(f)) /\ Decodes(f) /\ recover(f).ok /\ Clean(Readable(f))
         /\ Opened(f) = View(Readable(f))
  BY RecoverIs DEF Opens, Opened

LEMMA ReadOpens ==
  ASSUME NEW f \in Seq(Frame), Clean(f), OkView(f)
  PROVE  Opens(f) /\ Readable(f) = f /\ Opened(f) = View(f) /\ f # NoJournal
<1>1. Intact(f)
  BY DEF Clean, Intact, Torn, Garbled
<1>2. Readable(f) = f /\ Decodes(f)
  BY <1>1, ReadableIs DEF Intact, Decodes, Broken
<1>3. f # NoJournal
  BY DEF Clean, NoJournal, Absent
<1> QED
  BY <1>2, <1>3, RecoverIs DEF Opens, Opened

LEMMA AppendView ==
  ASSUME NEW f \in Seq(Frame), NEW x \in Frame
  PROVE  /\ Append(f, x) \in Seq(Frame) /\ Len(Append(f, x)) = Len(f) + 1
         /\ \A k : Of(Append(f, x), k) = IF x.kind = k THEN Of(f, k) \cup {Len(f) + 1} ELSE Of(f, k)
         /\ \A i \in DOMAIN f : Append(f, x)[i] = f[i]
         /\ Append(f, x)[Len(f) + 1] = x
         /\ Acc(Append(f, x)) = IF x.kind = "accepted" THEN Acc(f) \cup x.seqs ELSE Acc(f)
         /\ Gaps(Append(f, x)) = IF x.kind = "gap" THEN Gaps(f) \cup {x.seqs} ELSE Gaps(f)
<1> DEFINE a == Append(f, x)
           n == Len(f) + 1
<1>1. /\ a \in Seq(Frame) /\ Len(a) = n /\ DOMAIN a = DOMAIN f \cup {n} /\ n \notin DOMAIN f
      /\ \A i \in DOMAIN f : a[i] = f[i]
      /\ a[n] = x
  OBVIOUS
<1> HIDE DEF a, n
<1>2. \A k : Of(a, k) = IF x.kind = k THEN Of(f, k) \cup {n} ELSE Of(f, k)
  BY <1>1 DEF Of
<1>3. \A k : \A i \in Of(f, k) : a[i] = f[i]
  BY <1>1 DEF Of
<1>4. Acc(a) = IF x.kind = "accepted" THEN Acc(f) \cup x.seqs ELSE Acc(f)
  <2>1. CASE x.kind = "accepted"
    <3>1. Of(a, "accepted") = Of(f, "accepted") \cup {n}
      BY <1>2, <2>1
    <3>2. Acc(a) = Acc(f) \cup a[n].seqs
      BY <1>3, <3>1 DEF Acc
    <3> QED
      BY <1>1, <2>1, <3>2
  <2>2. CASE x.kind # "accepted"
    <3>1. Of(a, "accepted") = Of(f, "accepted")
      BY <1>2, <2>2
    <3> QED
      BY <1>3, <2>2, <3>1 DEF Acc
  <2> QED
    BY <2>1, <2>2
<1>5. Gaps(a) = IF x.kind = "gap" THEN Gaps(f) \cup {x.seqs} ELSE Gaps(f)
  <2>1. CASE x.kind = "gap"
    <3>1. Of(a, "gap") = Of(f, "gap") \cup {n}
      BY <1>2, <2>1
    <3>2. Gaps(a) = Gaps(f) \cup {a[n].seqs}
      BY <1>3, <3>1 DEF Gaps
    <3> QED
      BY <1>1, <2>1, <3>2
  <2>2. CASE x.kind # "gap"
    <3>1. Of(a, "gap") = Of(f, "gap")
      BY <1>2, <2>2
    <3> QED
      BY <1>3, <2>2, <3>1 DEF Gaps
  <2> QED
    BY <2>1, <2>2
<1> QED
  BY <1>1, <1>2, <1>4, <1>5 DEF a, n

LEMMA AppendIs ==
  ASSUME NEW f \in Seq(Frame), NEW x \in Frame, NEW g, g = Append(f, x)
  PROVE  /\ g \in Seq(Frame)
         /\ Acc(g) = IF x.kind = "accepted" THEN Acc(f) \cup x.seqs ELSE Acc(f)
         /\ Gaps(g) = IF x.kind = "gap" THEN Gaps(f) \cup {x.seqs} ELSE Gaps(f)
  BY AppendView

(* Records and gaps: the journal has no end. *)
LEMMA BodyView ==
  ASSUME NEW f \in Seq(Frame), Body(f), Apart(Acc(f), Gaps(f))
  PROVE  /\ Clean(f) /\ OkView(f) /\ Term(f) = "none" /\ Sealed(f) = "none"
<1>1. Of(f, "terminal") = {} /\ Of(f, "seal") = {}
  BY DEF Body, Of
<1>2. Clean(f)
  BY DEF Body, Clean
<1>3. Term(f) = "none" /\ Sealed(f) = "none"
  BY <1>1 DEF Term, Sealed
<1> QED
  BY <1>1, <1>2, <1>3 DEF OkView

LEMMA BodyAppend ==
  ASSUME NEW f \in Seq(Frame), NEW x \in Frame, Body(f), x.kind \in {"accepted", "gap"}
  PROVE  Body(Append(f, x))
<1>1. DOMAIN Append(f, x) = DOMAIN f \cup {Len(f) + 1}
  OBVIOUS
<1> QED
  BY <1>1, AppendView DEF Body

(* A range from zero has no hole. *)
LEMMA NoHole ==
  ASSUME NEW st, NEW k \in Nat, Covered(st) = 0 .. k - 1
  PROVE  ~frontier_has_hole(st)
<1> DEFINE ends == {n \in {-1} \cup Covered(st) : \A m \in 0 .. n : m \in Covered(st)}
<1>1. k - 1 \in ends /\ \A m \in ends : m <= k - 1 /\ m \in Int
  OBVIOUS
<1>2. committed_frontier(st) = CHOOSE n \in ends : \A m \in ends : m <= n
  BY DEF committed_frontier
<1> HIDE DEF ends
<1>3. committed_frontier(st) \in ends /\ \A m \in ends : m <= committed_frontier(st)
  BY <1>1, <1>2
<1>4. committed_frontier(st) = k - 1
  BY <1>1, <1>3
<1> QED
  BY <1>4 DEF frontier_has_hole

(* The terminal record; a controlled End-of-stream needs a contiguous stream. *)
LEMMA EndAppend ==
  ASSUME NEW f \in Seq(Frame), Body(f), Apart(Acc(f), Gaps(f)), NEW h \in {"eos", "abnormal"},
         h = "eos" => \E k \in Nat : Acc(f) \cup UNION Gaps(f) = 0 .. k - 1,
         NEW g, g = Append(f, Terminal(h))
  PROVE  /\ g \in Seq(Frame) /\ Clean(g) /\ OkView(g)
         /\ Acc(g) = Acc(f) /\ Gaps(g) = Gaps(f) /\ Term(g) = h
<1> DEFINE x == Terminal(h)
           n == Len(f) + 1
<1>0. x \in Frame /\ x.kind = "terminal" /\ x.how = h
  BY ConstTypes DEF Terminal, Hows
<1> HIDE DEF x
<1>1. /\ g \in Seq(Frame) /\ Len(g) = n /\ g[n] = x /\ Acc(g) = Acc(f) /\ Gaps(g) = Gaps(f)
      /\ Of(g, "terminal") = Of(f, "terminal") \cup {n} /\ Of(g, "seal") = Of(f, "seal")
      /\ \A i \in DOMAIN f : g[i] = f[i]
      /\ DOMAIN g = DOMAIN f \cup {n}
  BY <1>0, AppendView DEF x
<1>2. Of(f, "terminal") = {} /\ Of(f, "seal") = {}
  BY DEF Body, Of
<1>3. Clean(g)
  BY <1>0, <1>1 DEF Clean, Body
<1>4. Term(g) = h
  BY <1>0, <1>1, <1>2 DEF Term
<1>5. h = "eos" => ~frontier_has_hole(View(g))
  <2>1. Covered(View(g)) = Acc(f) \cup UNION Gaps(f)
    BY <1>1 DEF Covered, View
  <2> QED
    BY <2>1, NoHole
<1>6. n + 1 .. n = {}
  OBVIOUS
<1> QED
  BY <1>1, <1>2, <1>3, <1>4, <1>5, <1>6 DEF OkView

(* The seal. *)
LEMMA SealAppend ==
  ASSUME NEW f \in Seq(Frame), Clean(f), OkView(f), Term(f) # "none", Sealed(f) = "none",
         NEW g, g = Append(f, Seal(Acc(f)))
  PROVE  /\ g \in Seq(Frame) /\ Clean(g) /\ OkView(g)
         /\ Acc(g) = Acc(f) /\ Gaps(g) = Gaps(f) /\ Term(g) = Term(f)
<1> DEFINE x == Seal(Acc(f))
           n == Len(f) + 1
<1>0. x \in Frame /\ x.kind = "seal" /\ x.seqs = Acc(f)
  <2>1. \A i \in DOMAIN f : f[i].seqs \subseteq Chunks
    <3>1. \A i \in DOMAIN f : f[i] \in Frame
      OBVIOUS
    <3> QED
      BY <3>1 DEF Frame
  <2>2. Acc(f) \in SUBSET Chunks
    BY <2>1 DEF Acc, Of
  <2> QED
    BY <2>2, ConstTypes DEF Seal
<1> HIDE DEF x
<1>1. /\ g \in Seq(Frame) /\ Len(g) = n /\ g[n] = x /\ Acc(g) = Acc(f) /\ Gaps(g) = Gaps(f)
      /\ Of(g, "terminal") = Of(f, "terminal") /\ Of(g, "seal") = Of(f, "seal") \cup {n}
      /\ \A i \in DOMAIN f : g[i] = f[i]
      /\ DOMAIN g = DOMAIN f \cup {n}
  BY <1>0, AppendView DEF x
<1>2. Of(f, "seal") = {} /\ Of(f, "terminal") # {} /\ Of(f, "terminal") \subseteq DOMAIN f
  BY DEF Sealed, Term, Of
<1>3. Clean(g)
  BY <1>0, <1>1 DEF Clean
<1>4. Term(g) = Term(f)
  <2> DEFINE c == CHOOSE i \in Of(f, "terminal") : TRUE
  <2>1. c \in Of(f, "terminal")
    BY <1>2
  <2>2. Term(f) = f[c].how /\ Term(g) = g[c].how
    BY <1>1, <1>2 DEF Term
  <2> QED
    BY <1>1, <1>2, <2>1, <2>2
<1>5. frontier_has_hole(View(g)) = frontier_has_hole(View(f))
  <2>1. Covered(View(g)) = Covered(View(f))
    BY <1>1 DEF Covered, View
  <2> QED
    BY <2>1 DEF frontier_has_hole, committed_frontier
<1>6. \A i \in Of(g, "terminal") : i + 1 .. Len(g) \subseteq Of(g, "seal")
  <2>1. SUFFICES ASSUME NEW i \in Of(f, "terminal") PROVE i + 1 .. n \subseteq {n}
    BY <1>1, <1>2
  <2>2. i \in 1 .. Len(f) /\ i + 1 .. Len(f) = {} /\ Len(f) \in Nat
    BY <1>2 DEF OkView
  <2> QED
    BY <2>2
<1>7. \A i \in Of(g, "seal") : i = Len(g) /\ g[i].seqs = Acc(g)
  BY <1>0, <1>1, <1>2
<1> QED
  BY <1>1, <1>3, <1>4, <1>5, <1>6, <1>7 DEF OkView

(* A journal that can be opened and has no end holds records and gaps only. *)
LEMMA OpenBody ==
  ASSUME NEW f \in Seq(Frame), Clean(f), OkView(f), Term(f) = "none"
  PROVE  Body(f) /\ Apart(Acc(f), Gaps(f))
<1>1. Of(f, "terminal") = {}
  BY DEF Term, Of, Clean
<1>2. Of(f, "seal") = {}
  BY DEF OkView
<1> QED
  BY <1>1, <1>2 DEF Body, Clean, Of, OkView

-----------------------------------------------------------------------------
(* How a step changes a journal *)

Tells(f, n) == Opened(f).terminal = "eos" =>
  /\ Covered(Opened(f)) = 0 .. n - 1
  /\ Opened(f).accepted \cap UNION Opened(f).gaps = {}

(* What a journal that its shipper may still write to, or just ended, owes.   *)
Sound(f, s) == /\ f # NoJournal /\ Opens(f) /\ s.accepted \subseteq Opened(f).accepted
               /\ Tells(f, s.read)

LEMMA BodySound ==
  ASSUME NEW f \in Seq(Frame), Body(f), Apart(Acc(f), Gaps(f)), NEW s, s.accepted \subseteq Acc(f)
  PROVE  Sound(f, s) /\ Opened(f).terminal = "none"
<1>1. Clean(f) /\ OkView(f) /\ Term(f) = "none"
  BY BodyView
<1>2. Opens(f) /\ Opened(f) = View(f) /\ f # NoJournal
  BY <1>1, ReadOpens
<1>3. Opened(f).terminal = "none" /\ Opened(f).accepted = Acc(f)
  BY <1>1, <1>2 DEF View
<1>4. Sound(f, s)
  BY <1>2, <1>3 DEF Sound, Tells
<1> QED
  BY <1>3, <1>4

LEMMA TornSound ==
  ASSUME NEW f \in Seq(Frame), Body(f), Apart(Acc(f), Gaps(f)), NEW s, s.accepted \subseteq Acc(f),
         NEW x \in {Torn, Garbled}, NEW g, g = Append(f, x)
  PROVE  Sound(g, s)
<1>1. Clean(f) /\ OkView(f) /\ Term(f) = "none"
  BY BodyView
<1>2. Readable(g) = f /\ Decodes(g)
  <2>1. Intact(f) /\ x \in Frame
    <3>1. Intact(f)
      BY DEF Body, Intact, Torn, Garbled
    <3> QED
      BY <3>1, ConstTypes
  <2> QED
    BY <2>1, ReadableTorn
<1>3. g # NoJournal
  <2>1. g[Len(g)] = x /\ NoJournal[Len(NoJournal)] = Absent
    BY DEF NoJournal
  <2> QED
    BY <2>1 DEF Torn, Garbled, Absent
<1>4. recover(g).ok /\ Opened(g) = View(f)
  BY <1>1, <1>2, RecoverIs DEF Opened
<1>5. Opened(g).terminal = "none" /\ Opened(g).accepted = Acc(f)
  BY <1>1, <1>4 DEF View
<1> QED
  BY <1>1, <1>2, <1>3, <1>4, <1>5 DEF Sound, Tells, Opens

LEMMA EndSound ==
  ASSUME NEW f \in Seq(Frame), Body(f), Apart(Acc(f), Gaps(f)), NEW s, s.accepted \subseteq Acc(f),
         NEW h \in {"eos", "abnormal"},
         h = "eos" => s.read \in Nat /\ Acc(f) \cup UNION Gaps(f) = 0 .. s.read - 1
  PROVE  Sound(Append(f, Terminal(h)), s)
<1> DEFINE g == Append(f, Terminal(h))
<1>1. /\ g \in Seq(Frame) /\ Clean(g) /\ OkView(g)
      /\ Acc(g) = Acc(f) /\ Gaps(g) = Gaps(f) /\ Term(g) = h
  BY EndAppend
<1> HIDE DEF g
<1>2. Opens(g) /\ Opened(g) = View(g) /\ g # NoJournal
  BY <1>1, ReadOpens
<1>3. Opened(g).terminal = h /\ Opened(g).accepted = Acc(f) /\ Opened(g).gaps = Gaps(f)
  BY <1>1, <1>2 DEF View
<1>4. Tells(g, s.read)
  BY <1>3 DEF Tells, Covered, Apart
<1> QED
  BY <1>2, <1>3, <1>4 DEF Sound, g

(* An append that was cut short is not forgotten. *)
LEMMA TornStays ==
  ASSUME Plain, [Next]_vars
  PROVE  \A u \in Tasks : told[u].torn => told'[u].torn
<1> USE DEF Plain
<1>t. told \in [Tasks -> Told]
  BY DEF Typed
<1> DEFINE C == \A u \in Tasks : told[u].torn => told'[u].torn
<1> SUFFICES C
  OBVIOUS
<1>q. UNCHANGED told => C
  OBVIOUS
<1>z. UNCHANGED vars => C
  BY <1>q DEF vars, volatile, durable
<1>y. ASSUME NEW r \in Runs, Loses(r) PROVE C
  BY <1>q, <1>y DEF Loses, volatile, durable
<1>1. ASSUME Read PROVE C
  BY <1>1, <1>t DEF Read, Told
<1>2. ASSUME Accept PROVE C
  BY <1>2, <1>t DEF Accept, Told
<1>3. ASSUME AcceptFails PROVE C
  BY <1>3, <1>t DEF AcceptFails, Told
<1>4. ASSUME NEW t \in Tasks, NEW op \in Ops, Send(t, op) PROVE C
  BY <1>4, <1>t DEF Send, Told
<1>5. ASSUME NEW t \in Tasks, NEW op \in Ops, Mutate(t, op) PROVE C
  BY <1>5, <1>t DEF Mutate, Told
<1>6. ASSUME Stops \/ EnsureScope \/ Spawn \/ SpawnFails \/ NotLaunched \/ Exit \/ Settle
             \/ EndOfOutput \/ TakeItem \/ Finish
      PROVE  C
  BY <1>q, <1>6 DEF Stops, EnsureScope, Spawn, SpawnFails, NotLaunched, Exit, Settle,
     EndOfOutput, TakeItem, Finish
<1>7. ASSUME Snapshots \/ Seals(Stream) \/ Commits \/ Verifies \/ CleanScope \/ PurgeJournal
             \/ PurgeStaging \/ Start \/ StartDrain \/ Admit
      PROVE  C
  BY <1>q, <1>7 DEF Snapshots, Seals, Commits, Verifies, CleanScope, PurgeJournal, PurgeStaging,
     Start, StartDrain, Admit, KeepForDrain
<1>8. ASSUME NEW f \in Files, HasFile(Stream, f) \/ WritesFile(Stream, f) \/ RenamesFile(Stream, f)
      PROVE  C
  BY <1>q, <1>8 DEF HasFile, WritesFile, RenamesFile, KeepForDrain
<1>9. ASSUME NEW r \in Runs, Selects(r) PROVE C
  BY <1>q, <1>9 DEF Selects, KeepForDrain
<1>10. ASSUME NEW r \in Runs, NEW p \in Payloads, Stage(r, p) PROVE C
  BY <1>q, <1>10 DEF Stage
<1>11. ASSUME NEW t \in Tasks, Claim(t) \/ Expire(t) \/ CancelPending(t) \/ Recovers(t) PROVE C
  BY <1>q, <1>11 DEF Claim, Expire, CancelPending, Recovers
<1> HIDE DEF C
<1> QED
  BY <1>q, <1>y, <1>z, <1>1, <1>2, <1>3, <1>4, <1>5, <1>6, <1>7, <1>8, <1>9, <1>10, <1>11, Kinds

(* What is left of an append that failed, and whether it was cut short. *)
LEMMA FailsHow ==
  ASSUME Plain, AcceptFails
  PROVE  \E how \in AppendFaults :
           /\ journal' = [journal EXCEPT ![exec.task] = Left(@, ship.item, how)]
           /\ told'[exec.task].torn <=> told[exec.task].torn \/ how \in {"torn", "garbled"}
<1>1. exec.task \in Tasks /\ told \in [Tasks -> Told]
  BY DEF AcceptFails, Plain, ExecSound, NoShip, Typed
<1>2. PICK how \in AppendFaults :
        /\ journal' = [journal EXCEPT ![exec.task] = Left(@, ship.item, how)]
        /\ told' = [told EXCEPT ![exec.task].torn = @ \/ how \in {"torn", "garbled"}]
  BY DEF AcceptFails
<1>3. told'[exec.task].torn = (told[exec.task].torn \/ how \in {"torn", "garbled"})
  BY <1>1, <1>2 DEF Told
<1> QED
  BY <1>2, <1>3

(* The journal of a running process, with and without the item on its way. *)
LEMMA Running ==
  ASSUME Plain, RunningJournal, exec.pc = "running", ~told[exec.task].torn,
         NEW j, j = journal[exec.task], NEW a, a = Append(j, ship.item)
  PROVE  /\ exec.task \in Tasks /\ j \in Seq(Frame) /\ Body(j) /\ Apart(Acc(j), Gaps(j))
         /\ told[exec.task].accepted \subseteq Acc(j)
         /\ ship.item = Absent => Acc(j) = ship.st.accepted /\ Gaps(j) = ship.st.gaps
         /\ ship.item # Absent =>
              /\ a \in Seq(Frame) /\ Body(a) /\ Apart(Acc(a), Gaps(a))
              /\ told[exec.task].accepted \subseteq Acc(a)
              /\ Acc(a) = IF ship.item.kind = "accepted" THEN ship.st.accepted \cup ship.item.seqs
                          ELSE ship.st.accepted
              /\ Gaps(a) = IF ship.item.kind = "gap" THEN ship.st.gaps \cup {ship.item.seqs}
                           ELSE ship.st.gaps
<1> USE DEF Plain
<1> SUFFICES ASSUME NEW x, x = ship.item, NEW st, st = ship.st
             PROVE  /\ exec.task \in Tasks /\ j \in Seq(Frame) /\ Body(j) /\ Apart(Acc(j), Gaps(j))
                    /\ told[exec.task].accepted \subseteq Acc(j)
                    /\ ship.item = Absent => Acc(j) = ship.st.accepted /\ Gaps(j) = ship.st.gaps
                    /\ ship.item # Absent =>
                         /\ a \in Seq(Frame) /\ Body(a) /\ Apart(Acc(a), Gaps(a))
                         /\ told[exec.task].accepted \subseteq Acc(a)
                         /\ Acc(a) = IF ship.item.kind = "accepted" THEN ship.st.accepted \cup ship.item.seqs
                                     ELSE ship.st.accepted
                         /\ Gaps(a) = IF ship.item.kind = "gap" THEN ship.st.gaps \cup {ship.item.seqs}
                                      ELSE ship.st.gaps
  OBVIOUS
<1>1. exec.task \in Tasks /\ x \in Frame
  BY ItemFrame
<1>2. j \in Seq(Frame) /\ told[exec.task].accepted = st.accepted
  BY <1>1 DEF Typed, ExecSound
<1>3. /\ Body(j)
      /\ Acc(j) = st.accepted \/ (x.kind = "accepted" /\ Acc(j) = st.accepted \cup x.seqs)
      /\ Gaps(j) = st.gaps \/ (x.kind = "gap" /\ Gaps(j) = st.gaps \cup {x.seqs})
  BY DEF RunningJournal
<1>4. /\ Apart(st.accepted, st.gaps) /\ ItemIs(x) /\ x.seqs \cap Covered(st) = {}
  BY DEF ShipSound, ShipOK, InPlace
<1>5. x = Absent \/ x.kind \in {"accepted", "gap"}
  <2>1. (\A n : Accepted(n).kind = "accepted") /\ \A g : Gap(g).kind = "gap"
    BY DEF Accepted, Gap
  <2> QED
    BY <1>4, <2>1 DEF ItemIs
<1>6. x = Absent => x.kind = "absent"
  BY DEF Absent
<1>7. /\ x.kind = "accepted" => Apart(st.accepted \cup x.seqs, st.gaps)
      /\ x.kind = "gap" => Apart(st.accepted, st.gaps \cup {x.seqs})
  <2>1. x.seqs \cap st.accepted = {} /\ \A g \in st.gaps : x.seqs \cap g = {}
    BY <1>4 DEF Covered
  <2> QED
    BY <1>4, <2>1 DEF Apart
<1>8. Apart(Acc(j), Gaps(j)) /\ st.accepted \subseteq Acc(j)
  BY <1>3, <1>4, <1>7
<1>9. ASSUME x # Absent
      PROVE  /\ a \in Seq(Frame) /\ Body(a) /\ Apart(Acc(a), Gaps(a))
             /\ st.accepted \subseteq Acc(a)
             /\ Acc(a) = IF x.kind = "accepted" THEN st.accepted \cup x.seqs ELSE st.accepted
             /\ Gaps(a) = IF x.kind = "gap" THEN st.gaps \cup {x.seqs} ELSE st.gaps
  <2>1. /\ a \in Seq(Frame)
        /\ Acc(a) = IF x.kind = "accepted" THEN Acc(j) \cup x.seqs ELSE Acc(j)
        /\ Gaps(a) = IF x.kind = "gap" THEN Gaps(j) \cup {x.seqs} ELSE Gaps(j)
    <3>1. a = Append(j, x)
      OBVIOUS
    <3> QED
      BY <1>1, <1>2, <3>1, AppendIs
  <2>2. Body(a)
    BY <1>1, <1>2, <1>3, <1>5, <1>9, BodyAppend
  <2> QED
    BY <1>3, <1>4, <1>5, <1>7, <1>9, <2>1, <2>2
<1> QED
  BY <1>1, <1>2, <1>3, <1>5, <1>6, <1>8, <1>9

(* The journal of a running process is what its shipper believes. *)
(* The drain treats no stream whose process is running. *)
LEMMA StreamRests ==
  ASSUME Plain, drain.pc \in {"seal", "purge"}, exec.pc = "running" PROVE Stream # exec.task
<1>1. /\ Stream \in Tasks /\ RunOf[Stream] = drain.run /\ drain.run \in Runs
      /\ staging[drain.run].state # "none"
  BY StreamIs DEF Plain, DrainPlace, Staging, Archiving
<1>2. claim[Stream] \in {"settled", "cancelled"} /\ claim[exec.task] = "claimed"
  BY <1>1 DEF Plain, RowsSound, TasksOf, ExecSound
<1> QED
  BY <1>2

LEMMA RunningNext ==
  ASSUME Plain, RunningJournal, [Next]_vars
  PROVE  RunningJournal'
<1> USE DEF Plain
<1>t. journal \in [Tasks -> Seq(Frame)] /\ ship \in Ship
  BY DEF Typed
<1>m. \A u \in Tasks : told[u].torn => told'[u].torn
  BY TornStays
<1>i. ASSUME exec'.pc # "running" PROVE RunningJournal'
  BY <1>i DEF RunningJournal
<1>k. ASSUME UNCHANGED exec, ship'.st = ship.st, ship.item \in {Absent, ship'.item},
             exec.pc = "running" => journal'[exec.task] = journal[exec.task]
      PROVE  RunningJournal'
  <2>1. Absent.kind \notin {"accepted", "gap"}
    BY DEF Absent
  <2> QED
    BY <1>k, <1>m, <2>1 DEF RunningJournal, ExecSound
<1> DEFINE C == RunningJournal'
<1> SUFFICES C
  OBVIOUS
<1>q. UNCHANGED <<exec, ship, journal>> => C
  BY <1>k
<1>z. UNCHANGED vars => C
  BY <1>q DEF vars, volatile, durable
<1>y. ASSUME NEW r \in Runs, Loses(r) PROVE C
  BY <1>q, <1>y DEF Loses, volatile, durable
<1>1. ASSUME Stops PROVE C
  BY <1>1, <1>i DEF Stops, Idle, Stop
<1>2. ASSUME NEW t \in Tasks, Claim(t) PROVE C
  <2>1. exec'.pc # "running"
    BY <1>2 DEF Claim, Idle, Typed
  <2> QED
    BY <2>1, <1>i
<1>3. ASSUME NEW t \in Tasks, Recovers(t) PROVE C
  <2>1. exec' = exec /\ exec.pc = "idle"
    BY <1>3 DEF Recovers, ExecSound
  <2> QED
    BY <2>1, <1>i
<1>4. ASSUME EnsureScope PROVE C
  <2>1. exec'.pc # "running"
    BY <1>4 DEF EnsureScope, Idle, Typed
  <2> QED
    BY <2>1, <1>i
<1>5. ASSUME Spawn PROVE C
  <2>1. exec'.task = exec.task /\ exec.task \in Tasks
    BY <1>5 DEF Spawn, ExecSound, Typed
  <2>2. journal'[exec.task] = <<>> /\ ship'.st = NewStream
    BY <1>5, <2>1, <1>t DEF Spawn, NoShip
  <2>3. Body(<<>>) /\ Acc(<<>>) = {} /\ Gaps(<<>>) = {}
    BY DEF Body, Acc, Gaps, Of
  <2> QED
    BY <2>1, <2>2, <2>3 DEF RunningJournal, NewStream
<1>6. ASSUME SpawnFails PROVE C
  <2>1. exec'.pc # "running"
    BY <1>6 DEF SpawnFails, Idle, Typed
  <2> QED
    BY <2>1, <1>i
<1>7. ASSUME NotLaunched PROVE C
  <2>1. exec'.pc # "running"
    BY <1>7 DEF NotLaunched, Idle, Typed
  <2> QED
    BY <2>1, <1>i
<1>8. ASSUME Exit PROVE C
  BY <1>8, <1>k, <1>t DEF Exit, durable, Ship
<1>9. ASSUME Settle PROVE C
  <2>1. exec'.pc # "running"
    BY <1>9 DEF Settle, Idle, Typed
  <2> QED
    BY <2>1, <1>i
<1>10. ASSUME Read PROVE C
  <2>1. ship'.st = ship.st /\ ship'.item = ship.item
    BY <1>10, <1>t, PushOK DEF Read, ShipSound
  <2> QED
    BY <1>10, <2>1, <1>k DEF Read, durable
<1>11. ASSUME EndOfOutput PROVE C
  BY <1>11, <1>k, <1>t DEF EndOfOutput, durable, Ship
<1>12. ASSUME TakeItem PROVE C
  <2>1. ship'.st = ship.st /\ ship.item = Absent
    BY <1>12, <1>t, TakeOK DEF TakeItem, ShipSound
  <2> QED
    BY <1>12, <2>1, <1>k DEF TakeItem, durable
<1>13. ASSUME Accept PROVE C
  <2>1. exec.pc = "running" /\ exec.task \in Tasks
    BY <1>13 DEF Accept, ExecSound, NoShip
  <2>n. ASSUME told'[exec.task].torn PROVE C
    BY <1>13, <2>n DEF Accept, RunningJournal, volatile
  <2> SUFFICES ASSUME ~told'[exec.task].torn PROVE C
    BY <2>n
  <2>m. ~told[exec.task].torn
    BY <2>1, <1>m
  <2> DEFINE j == journal[exec.task]
             a == Append(j, ship.item)
  <2>2. /\ Body(a)
        /\ Acc(a) = IF ship.item.kind = "accepted" THEN ship.st.accepted \cup ship.item.seqs
                    ELSE ship.st.accepted
        /\ Gaps(a) = IF ship.item.kind = "gap" THEN ship.st.gaps \cup {ship.item.seqs} ELSE ship.st.gaps
    BY <1>13, <2>1, <2>m, Running DEF Accept
  <2> HIDE DEF a
  <2>3. journal'[exec.task] = a /\ exec' = exec
    BY <1>13, <2>1, <1>t DEF Accept, a
  <2>4. ship'.st.accepted = Acc(a) /\ ship'.st.gaps = Gaps(a)
    <3>1. /\ ship \in Ship /\ ShipOK(ship) /\ ship.item # Absent /\ Applied(ship).ok
          /\ ship' = [ship EXCEPT !.item = Absent, !.st = Applied(ship).st]
      BY <1>13, <1>t DEF Accept, ShipSound
    <3>2. /\ ship'.st.accepted = IF ship.item.kind = "accepted"
                                THEN ship.st.accepted \cup ship.item.seqs ELSE ship.st.accepted
          /\ ship'.st.gaps = IF ship.item.kind = "gap" THEN ship.st.gaps \cup {ship.item.seqs}
                            ELSE ship.st.gaps
      BY <3>1, AcceptOK
    <3> QED
      BY <3>2, <2>2
  <2> QED
    BY <2>2, <2>3, <2>4 DEF RunningJournal
<1>14. ASSUME AcceptFails PROVE C
  <2>1. exec.pc = "running" /\ exec.task \in Tasks
    BY <1>14 DEF AcceptFails, ExecSound, NoShip
  <2>n. ASSUME told'[exec.task].torn PROVE C
    BY <1>14, <2>n DEF AcceptFails, RunningJournal, volatile
  <2> SUFFICES ASSUME ~told'[exec.task].torn PROVE C
    BY <2>n
  <2>m. ~told[exec.task].torn
    BY <2>1, <1>m
  <2> DEFINE j == journal[exec.task]
             a == Append(j, ship.item)
  <2>2. /\ Body(a)
        /\ Acc(a) = IF ship.item.kind = "accepted" THEN ship.st.accepted \cup ship.item.seqs
                    ELSE ship.st.accepted
        /\ Gaps(a) = IF ship.item.kind = "gap" THEN ship.st.gaps \cup {ship.item.seqs} ELSE ship.st.gaps
    BY <1>14, <2>1, <2>m, Running DEF AcceptFails
  <2>3. /\ UNCHANGED <<exec, ship>>
        /\ journal'[exec.task] = j \/ journal'[exec.task] = a
    <3>1. PICK how \in {"lost", "unsynced"} :
            journal' = [journal EXCEPT ![exec.task] = Left(@, ship.item, how)]
      <4>1. PICK how \in AppendFaults :
              /\ journal' = [journal EXCEPT ![exec.task] = Left(@, ship.item, how)]
              /\ told'[exec.task].torn <=> told[exec.task].torn \/ how \in {"torn", "garbled"}
        BY <1>14, FailsHow
      <4> QED
        BY <4>1, AppendAssumption
    <3>2. Left(j, ship.item, how) \in {j, a}
      BY DEF Left
    <3> QED
      BY <1>14, <2>1, <3>1, <3>2, <1>t DEF AcceptFails, volatile
  <2> HIDE DEF a, j
  <2>4. CASE journal'[exec.task] = j
    BY <2>3, <2>4, <1>k DEF j
  <2>5. CASE journal'[exec.task] = a
    BY <2>2, <2>3, <2>5 DEF RunningJournal
  <2> QED
    BY <2>3, <2>4, <2>5
<1>15. ASSUME Finish PROVE C
  <2>1. exec'.pc # "running"
    BY <1>15 DEF Finish, Idle, Typed
  <2> QED
    BY <2>1, <1>i
<1>16. ASSUME Seals(Stream) PROVE C
  <2>1. drain.pc = "seal" /\ UNCHANGED <<exec, ship>>
    BY <1>16 DEF Seals, AtStep, KeepForDrain
  <2>2. exec.pc = "running" => journal'[exec.task] = journal[exec.task]
    BY <1>16, <2>1, <1>t, StreamRests DEF Seals, ExecSound
  <2> QED
    BY <2>1, <2>2, <1>k
<1>17. ASSUME PurgeJournal PROVE C
  <2>1. drain.pc = "purge" /\ UNCHANGED <<exec, ship>>
    BY <1>17 DEF PurgeJournal, AtStep, KeepForDrain
  <2>2. exec.pc = "running" => journal'[exec.task] = journal[exec.task]
    BY <1>17, <2>1, <1>t, StreamRests DEF PurgeJournal, ExecSound
  <2> QED
    BY <2>1, <2>2, <1>k
<1>18. ASSUME Snapshots \/ Commits \/ Verifies \/ CleanScope \/ PurgeStaging \/ Start
             \/ StartDrain \/ Admit
      PROVE  C
  BY <1>q, <1>18 DEF Snapshots, Commits, Verifies, CleanScope, PurgeStaging, Start, StartDrain,
     Admit, KeepForDrain, KeepSources, volatile, durable
<1>19. ASSUME NEW f \in Files, HasFile(Stream, f) \/ WritesFile(Stream, f) \/
             RenamesFile(Stream, f)
      PROVE  C
  BY <1>q, <1>19 DEF HasFile, WritesFile, RenamesFile, KeepForDrain, KeepSources, volatile,
     durable
<1>20. ASSUME NEW r \in Runs, Selects(r)
      PROVE  C
  BY <1>q, <1>20 DEF Selects, KeepForDrain, KeepSources, volatile, durable
<1>21. ASSUME NEW r \in Runs, NEW p \in Payloads, Stage(r, p)
      PROVE  C
  BY <1>q, <1>21 DEF Stage, KeepForDrain, KeepSources, volatile, durable
<1>22. ASSUME NEW t \in Tasks, Expire(t) \/ CancelPending(t)
      PROVE  C
  BY <1>q, <1>22 DEF Expire, CancelPending, KeepForDrain, KeepSources, volatile, durable
<1>23. ASSUME NEW t \in Tasks, NEW op \in Ops, Send(t, op) \/ Mutate(t, op)
      PROVE  C
  BY <1>q, <1>23 DEF Send, Mutate, KeepForDrain, KeepSources, volatile, durable
<1> HIDE DEF C
<1> QED
  BY <1>q, <1>y, <1>z, <1>1, <1>2, <1>3, <1>4, <1>5, <1>6, <1>7, <1>8, <1>9, <1>10, <1>11, <1>12,
     <1>13, <1>14, <1>15, <1>16, <1>17, <1>18, <1>19, <1>20, <1>21, <1>22, <1>23, Kinds

(* Closing and sealing keep what a journal holds; only an open one gets an end. *)
Same(a, b) == a.accepted = b.accepted /\ a.gaps = b.gaps
              /\ (a.terminal = b.terminal \/ (a.terminal = "none" /\ b.terminal = "abnormal"))
Settled(f, g) == g # NoJournal /\ Opens(g) /\ Same(Opened(f), Opened(g))

LEMMA ClosedIs ==
  ASSUME NEW f \in Seq(Frame), Opens(f), NEW g, g = Closed(f)
  PROVE  Settled(f, g)
<1> SUFFICES ASSUME NEW r, r = Readable(f) PROVE Settled(f, g)
  OBVIOUS
<1>1. r \in Seq(Frame) /\ Clean(r) /\ OkView(r) /\ Opened(f) = View(r)
  BY ReadableIs, OpensIs
<1>2. View(r).accepted = Acc(r) /\ View(r).gaps = Gaps(r) /\ View(r).terminal = Term(r)
  BY DEF View
<1>3. CASE Term(r) # "none"
  <2>1. g = r
    BY <1>1, <1>2, <1>3 DEF Closed, Opened
  <2>2. Opens(r) /\ Opened(r) = View(r) /\ r # NoJournal
    BY <1>1, ReadOpens
  <2> QED
    BY <1>1, <2>1, <2>2 DEF Settled, Same
<1>4. CASE Term(r) = "none"
  <2>1. g = Append(r, Terminal("abnormal"))
    BY <1>1, <1>2, <1>4 DEF Closed, Opened
  <2>2. Body(r) /\ Apart(Acc(r), Gaps(r))
    BY <1>1, <1>4, OpenBody
  <2>3. /\ g \in Seq(Frame) /\ Clean(g) /\ OkView(g)
        /\ Acc(g) = Acc(r) /\ Gaps(g) = Gaps(r) /\ Term(g) = "abnormal"
    BY <1>1, <2>1, <2>2, EndAppend
  <2>4. Opens(g) /\ Opened(g) = View(g) /\ g # NoJournal
    BY <2>3, ReadOpens
  <2>5. View(g).accepted = Acc(r) /\ View(g).gaps = Gaps(r) /\ View(g).terminal = "abnormal"
    BY <2>3 DEF View
  <2> QED
    BY <1>1, <1>2, <1>4, <2>4, <2>5 DEF Settled, Same
<1> QED
  BY <1>3, <1>4

LEMMA SealedIs ==
  ASSUME NEW f \in Seq(Frame), Opens(f), f # NoJournal, Opened(f).terminal # "none", NEW g,
         g = IF Opened(f).seal # "none" THEN f ELSE Append(Readable(f), Seal(Opened(f).accepted))
  PROVE  Settled(f, g)
<1> SUFFICES ASSUME NEW r, r = Readable(f) PROVE Settled(f, g)
  OBVIOUS
<1>1. r \in Seq(Frame) /\ Clean(r) /\ OkView(r) /\ Opened(f) = View(r)
  BY ReadableIs, OpensIs
<1>2. /\ View(r).accepted = Acc(r) /\ View(r).gaps = Gaps(r) /\ View(r).terminal = Term(r)
      /\ View(r).seal = Sealed(r)
  BY DEF View
<1>3. CASE Sealed(r) # "none"
  BY <1>1, <1>2, <1>3 DEF Settled, Same
<1>4. CASE Sealed(r) = "none"
  <2>1. g = Append(r, Seal(Acc(r)))
    BY <1>1, <1>2, <1>4
  <2>2. Term(r) # "none"
    BY <1>1, <1>2
  <2>3. /\ g \in Seq(Frame) /\ Clean(g) /\ OkView(g)
        /\ Acc(g) = Acc(r) /\ Gaps(g) = Gaps(r) /\ Term(g) = Term(r)
    BY <1>1, <1>4, <2>1, <2>2, SealAppend
  <2>4. Opens(g) /\ Opened(g) = View(g) /\ g # NoJournal
    BY <2>3, ReadOpens
  <2>5. View(g).accepted = Acc(r) /\ View(g).gaps = Gaps(r) /\ View(g).terminal = Term(r)
    BY <2>3 DEF View
  <2> QED
    BY <1>1, <1>2, <2>4, <2>5 DEF Settled, Same
<1> QED
  BY <1>3, <1>4

(* The four ways a step treats the journal of a task none of whose appends was *)
(* cut short. *)
ToldSame(t) == told'[t].accepted = told[t].accepted /\ told'[t].read = told[t].read
Keeps(t)  == journal'[t] = journal[t] /\ ToldSame(t)
Ships(t)  == /\ exec.pc # "idle" /\ exec.task = t
             /\ journal[t] = NoJournal \/ Opened(journal[t]).terminal = "none"
             /\ Sound(journal'[t], told'[t])
Closes(t) == journal[t] # NoJournal /\ Settled(journal[t], journal'[t]) /\ ToldSame(t)
Purges(t) == journal'[t] = NoJournal /\ Archived(RunOf[t]) /\ ToldSame(t)
Moves(t)  == told'[t].torn \/ Keeps(t) \/ Ships(t) \/ Closes(t) \/ Purges(t)

LEMMA MovesNext ==
  ASSUME Plain, RunningJournal, JournalsOpen, [Next]_vars
  PROVE  \A u \in Tasks : Moves(u)
<1> USE DEF Plain
<1>t. journal \in [Tasks -> Seq(Frame)] /\ told \in [Tasks -> Told] /\ ship \in Ship
  BY DEF Typed
<1>m. \A u \in Tasks : told[u].torn => told'[u].torn
  BY TornStays
<1>s. ASSUME exec.pc = "running", ~told[exec.task].torn
      PROVE  exec.task \in Tasks /\ Opened(journal[exec.task]).terminal = "none"
  <2> SUFFICES ASSUME NEW j, j = journal[exec.task] PROVE exec.task \in Tasks /\ Opened(j).terminal = "none"
    OBVIOUS
  <2>1. /\ exec.task \in Tasks /\ j \in Seq(Frame) /\ Body(j) /\ Apart(Acc(j), Gaps(j))
        /\ told[exec.task].accepted \subseteq Acc(j)
    BY <1>s, Running
  <2> QED
    BY <2>1, BodySound
<1>k. ASSUME journal' = journal, \A u \in Tasks : ToldSame(u) PROVE \A u \in Tasks : Moves(u)
  BY <1>k DEF Moves, Keeps
<1>u. ASSUME told' = told PROVE \A u \in Tasks : ToldSame(u)
  BY <1>u DEF ToldSame
<1>g. ASSUME exec.pc = "running", NEW g, journal' = [journal EXCEPT ![exec.task] = g],
             \A u \in Tasks : u # exec.task => ToldSame(u), told'[exec.task].torn \/ Sound(g, told'[exec.task])
      PROVE  \A u \in Tasks : Moves(u)
  <2>0. exec.task \in Tasks
    BY <1>g DEF ExecSound
  <2>1. told'[exec.task].torn \/ Ships(exec.task)
    BY <1>g, <1>m, <1>s, <1>t, <2>0 DEF Ships
  <2>2. \A u \in Tasks : u # exec.task => Keeps(u)
    BY <1>g, <1>t DEF Keeps
  <2> QED
    BY <2>1, <2>2 DEF Moves
<1>l. ASSUME exec.pc = "running", \A u \in Tasks : ToldSame(u), ship.item # Absent,
             NEW how \in {"lost", "unsynced", "torn"}, ~told'[exec.task].torn,
             journal' = [journal EXCEPT ![exec.task] = Left(@, ship.item, how)]
      PROVE  \A u \in Tasks : Moves(u)
  <2> SUFFICES ASSUME NEW j, j = journal[exec.task], NEW a, a = Append(j, ship.item),
                      NEW s, s = told'[exec.task]
               PROVE  \A u \in Tasks : Moves(u)
    OBVIOUS
  <2>0. exec.task \in Tasks /\ ~told[exec.task].torn /\ s.accepted = told[exec.task].accepted
    BY <1>l, <1>m DEF ExecSound, ToldSame
  <2>1. /\ exec.task \in Tasks /\ j \in Seq(Frame) /\ Body(j) /\ Apart(Acc(j), Gaps(j))
        /\ s.accepted \subseteq Acc(j)
        /\ a \in Seq(Frame) /\ Body(a) /\ Apart(Acc(a), Gaps(a)) /\ s.accepted \subseteq Acc(a)
    BY <1>l, <2>0, Running
  <2>2. Sound(j, s) /\ Sound(Append(j, Torn), s) /\ Sound(a, s)
    BY <2>1, BodySound, TornSound
  <2>3. Left(j, ship.item, how) \in {j, a, Append(j, Torn)}
    BY <1>l DEF Left
  <2>4. Sound(Left(j, ship.item, how), told'[exec.task])
    BY <1>l, <2>2, <2>3
  <2> QED
    BY <1>l, <1>g, <2>1, <2>4
<1>a. ASSUME exec.pc = "running", \A u \in Tasks : u # exec.task => ToldSame(u), NEW g,
             told'[exec.task].torn, journal' = [journal EXCEPT ![exec.task] = g]
      PROVE  \A u \in Tasks : Moves(u)
  BY <1>a, <1>g
<1> DEFINE C == \A u \in Tasks : Moves(u)
<1> SUFFICES C
  OBVIOUS
<1>q. UNCHANGED <<journal, told>> => C
  BY <1>k, <1>u
<1>z. UNCHANGED vars => C
  BY <1>q DEF vars, volatile, durable
<1>y. ASSUME NEW r \in Runs, Loses(r) PROVE C
  BY <1>q, <1>y DEF Loses, volatile, durable
<1>1. ASSUME Stops PROVE C
  <2>1. told' = told
    BY <1>1 DEF Stops
  <2>2. CASE journal' = journal
    BY <2>1, <2>2, <1>k, <1>u
  <2>3. CASE journal' # journal
    <3>1. /\ ship.item # Absent
          /\ \E how \in {"lost", "unsynced", "torn"} :
                journal' = [journal EXCEPT ![exec.task] = Left(@, ship.item, how)]
      BY <1>1, <2>3 DEF Stops
    <3>2. exec.pc = "running"
      BY <3>1 DEF ExecSound, NoShip
    <3> QED
      BY <2>1, <3>1, <3>2, <1>a, <1>l, <1>u
  <2> QED
    BY <2>2, <2>3
<1>2. ASSUME NEW t \in Tasks, Recovers(t) PROVE C
  <2>1. told' = told
    BY <1>2 DEF Recovers
  <2>2. CASE FinalLog(t) = "present"
    BY <1>2, <2>1, <2>2, <1>k, <1>u DEF Recovers
  <2>3. CASE FinalLog(t) # "present"
    <3>1. journal' = [journal EXCEPT ![t] = Closed(@)] /\ journal[t] # NoJournal
      BY <1>2, <2>3 DEF Recovers, Recoverable, Openable
    <3>2. ~told[t].torn => Settled(journal[t], journal'[t])
      BY <3>1, <1>t, ClosedIs DEF JournalsOpen
    <3>3. told'[t].torn \/ Closes(t)
      BY <2>1, <3>1, <3>2 DEF Closes, ToldSame
    <3>4. \A u \in Tasks : u # t => Keeps(u)
      BY <2>1, <3>1, <1>u, <1>t DEF Keeps
    <3> QED
      BY <3>3, <3>4 DEF Moves
  <2> QED
    BY <2>2, <2>3
<1>3. ASSUME Spawn PROVE C
  <2>1. /\ exec.pc = "scoped" /\ exec.task \in Tasks /\ journal[exec.task] = NoJournal
        /\ told[exec.task].accepted = {} /\ told[exec.task].read = 0 /\ told' = told
    BY <1>3 DEF Spawn, ExecSound, NothingYet, Unlaunched
  <2>2. /\ <<>> \in Seq(Frame) /\ Body(<<>>) /\ Acc(<<>>) = {} /\ Gaps(<<>>) = {} /\ Apart({}, {})
    BY DEF Body, Acc, Gaps, Of, Apart
  <2>3. Sound(<<>>, told'[exec.task])
    BY <2>1, <2>2, BodySound
  <2>4. Ships(exec.task)
    BY <1>3, <2>1, <2>3, <1>t DEF Spawn, Ships
  <2>5. \A u \in Tasks : u # exec.task => Keeps(u)
    BY <1>3, <2>1, <1>u, <1>t DEF Spawn, Keeps
  <2> QED
    BY <2>4, <2>5 DEF Moves
<1>4. ASSUME SpawnFails PROVE C
  <2>1. /\ exec.pc = "scoped" /\ exec.task \in Tasks /\ journal[exec.task] = NoJournal
        /\ told[exec.task].accepted = {} /\ told[exec.task].read = 0 /\ told' = told
    BY <1>4 DEF SpawnFails, ExecSound, NothingYet, Unlaunched
  <2>2. /\ <<>> \in Seq(Frame) /\ Body(<<>>) /\ Acc(<<>>) = {} /\ Gaps(<<>>) = {} /\ Apart({}, {})
    BY DEF Body, Acc, Gaps, Of, Apart
  <2>3. Sound(<<Terminal("eos")>>, told'[exec.task])
    <3>0. Append(<<>>, Terminal("eos")) = <<Terminal("eos")>>
      OBVIOUS
    <3> SUFFICES ASSUME NEW f, f = <<>>, NEW s, s = told[exec.task]
                 PROVE  Sound(Append(f, Terminal("eos")), s)
      BY <2>1, <3>0
    <3>1. /\ f \in Seq(Frame) /\ Body(f) /\ Apart(Acc(f), Gaps(f)) /\ s.accepted \subseteq Acc(f)
      BY <2>1, <2>2
    <3>2. s.read \in Nat /\ Acc(f) \cup UNION Gaps(f) = 0 .. s.read - 1
      BY <2>1, <2>2
    <3> QED
      BY <3>1, <3>2, EndSound
  <2>6. Sound(<<>>, told'[exec.task])
    BY <2>1, <2>2, BodySound
  <2>7. PICK g \in {<<>>, <<Terminal("eos")>>} : journal' = [journal EXCEPT ![exec.task] = g]
    BY <1>4 DEF SpawnFails
  <2>4. Ships(exec.task)
    BY <2>1, <2>3, <2>6, <2>7, <1>t DEF Ships
  <2>5. \A u \in Tasks : u # exec.task => Keeps(u)
    BY <2>1, <2>7, <1>u, <1>t DEF Keeps
  <2> QED
    BY <2>4, <2>5 DEF Moves
<1>5. ASSUME Read PROVE C
  <2>1. exec.pc = "running" /\ exec.task \in Tasks
    BY <1>5 DEF Read, ExecSound, NoShip
  <2>2. /\ journal' = [journal EXCEPT ![exec.task] = journal[exec.task]]
        /\ \A u \in Tasks : told'[u].accepted = told[u].accepted
        /\ \A u \in Tasks : u # exec.task => ToldSame(u)
    BY <1>5, <2>1, <1>t DEF Read, Told, ToldSame, durable
  <2>3. told'[exec.task].torn \/ Sound(journal[exec.task], told'[exec.task])
    <3> SUFFICES ASSUME NEW j, j = journal[exec.task], NEW s, s = told'[exec.task],
                        ~told[exec.task].torn
                 PROVE  Sound(j, s)
      BY <2>1, <1>m
    <3>1. /\ j \in Seq(Frame) /\ Body(j) /\ Apart(Acc(j), Gaps(j)) /\ s.accepted \subseteq Acc(j)
      BY <2>1, <2>2, Running
    <3> QED
      BY <3>1, BodySound
  <2> QED
    BY <2>1, <2>2, <2>3, <1>g
<1>6. ASSUME Accept PROVE C
  <2>1. exec.pc = "running" /\ exec.task \in Tasks
    BY <1>6 DEF Accept, ExecSound, NoShip
  <2>2. \A u \in Tasks : u # exec.task => ToldSame(u)
    BY <1>6, <2>1, <1>t DEF Accept, ToldSame
  <2> SUFFICES ASSUME NEW j, j = journal[exec.task], NEW a, a = Append(j, ship.item),
                      NEW s, s = told'[exec.task]
               PROVE  C
    OBVIOUS
  <2>8. journal' = [journal EXCEPT ![exec.task] = a]
    BY <1>6 DEF Accept
  <2> SUFFICES ASSUME ~told[exec.task].torn PROVE C
    BY <1>m, <1>a, <2>1, <2>2, <2>8
  <2>3. /\ a \in Seq(Frame) /\ Body(a) /\ Apart(Acc(a), Gaps(a))
        /\ Acc(a) = IF ship.item.kind = "accepted" THEN ship.st.accepted \cup ship.item.seqs
                    ELSE ship.st.accepted
    BY <1>6, <2>1, Running DEF Accept
  <2>4. /\ ship \in Ship /\ ShipOK(ship) /\ ship.item # Absent /\ Applied(ship).ok
        /\ ship' = [ship EXCEPT !.item = Absent, !.st = Applied(ship).st]
    BY <1>6, <1>t DEF Accept, ShipSound
  <2>5. ship'.st.accepted = IF ship.item.kind = "accepted"
                            THEN ship.st.accepted \cup ship.item.seqs ELSE ship.st.accepted
    BY <2>4, AcceptOK
  <2>6. s.accepted = ship'.st.accepted
    <3>1. ExecSound' /\ exec' = exec
      BY <1>6, ExecNext DEF Accept
    <3> QED
      BY <2>1, <3>1 DEF ExecSound
  <2>7. Sound(a, s)
    BY <2>3, <2>5, <2>6, BodySound
  <2> QED
    BY <2>1, <2>2, <2>7, <2>8, <1>g
<1>7. ASSUME AcceptFails PROVE C
  <2>1. exec.pc = "running" /\ exec.task \in Tasks
    BY <1>7 DEF AcceptFails, ExecSound, NoShip
  <2>2. PICK how \in AppendFaults :
          /\ journal' = [journal EXCEPT ![exec.task] = Left(@, ship.item, how)]
          /\ told'[exec.task].torn <=> told[exec.task].torn \/ how \in {"torn", "garbled"}
    BY <1>7, FailsHow
  <2>3. ship.item # Absent /\ \A u \in Tasks : ToldSame(u)
    BY <1>7, FailsTold DEF AcceptFails, ToldSame
  <2>4. told'[exec.task].torn \/ how \in {"lost", "unsynced", "torn"}
    BY <2>2, AppendAssumption
  <2> QED
    BY <2>1, <2>2, <2>3, <2>4, <1>a, <1>l
<1>8. ASSUME Finish PROVE C
  <2>1. exec.pc = "running" /\ exec.task \in Tasks
    BY <1>8 DEF Finish, ExecSound, NoShip
  <2>2. told' = told
    BY <1>8 DEF Finish
  <2>3. CASE journal' = journal
    BY <2>2, <2>3, <1>k, <1>u
  <2>4. CASE journal' # journal
    <3>0. PICK h \in Ending(ship) : \E x \in {Terminal(h), Torn, Garbled} :
            journal' = [journal EXCEPT ![exec.task] = Append(@, x)]
      <4>1. PICK h \in Ending(ship) :
              \/ journal' = [journal EXCEPT ![exec.task] = Append(@, Terminal(h))]
              \/ \E how \in {"lost", "unsynced", "torn", "garbled"} :
                   journal' = [journal EXCEPT ![exec.task] = Left(@, Terminal(h), how)]
        BY <1>8, <2>4, AppendAssumption DEF Finish
      <4>2. \A how \in {"lost", "unsynced", "torn", "garbled"} :
              \/ Left(journal[exec.task], Terminal(h), how) = journal[exec.task]
              \/ \E x \in {Terminal(h), Torn, Garbled} :
                   Left(journal[exec.task], Terminal(h), how) = Append(journal[exec.task], x)
        BY DEF Left
      <4>3. [journal EXCEPT ![exec.task] = journal[exec.task]] = journal
        BY <1>t
      <4> QED
        BY <2>4, <4>1, <4>2, <4>3
    <3>1. PICK x \in {Terminal(h), Torn, Garbled} : journal' = [journal EXCEPT ![exec.task] = Append(@, x)]
      BY <3>0
    <3> SUFFICES ASSUME NEW j, j = journal[exec.task], NEW s, s = told[exec.task], ~s.torn PROVE C
      BY <1>a, <1>u, <2>1, <2>2, <3>1
    <3>2. /\ j \in Seq(Frame) /\ Body(j) /\ Apart(Acc(j), Gaps(j)) /\ s.accepted \subseteq Acc(j)
          /\ ship.item = Absent => Acc(j) = ship.st.accepted /\ Gaps(j) = ship.st.gaps
      BY <2>1, Running
    <3>3. h \in {"eos", "abnormal"} /\ (h = "eos" => Flushed(ship))
      BY DEF Ending
    <3>4. h = "eos" => s.read \in Nat /\ Acc(j) \cup UNION Gaps(j) = 0 .. s.read - 1
      <4> SUFFICES ASSUME Flushed(ship)
                   PROVE  s.read \in Nat /\ Acc(j) \cup UNION Gaps(j) = 0 .. s.read - 1
        BY <3>3
      <4>1. ship.buf = <<>> /\ ship.gaps = <<>> /\ ship.item = Absent /\ ship.item.seqs = {}
        BY DEF Flushed, Absent
      <4>2. ToSet(ship.buf) = {} /\ Evicted(ship) = {}
        BY <4>1 DEF ToSet, Evicted
      <4>3. Covered(ship.st) = 0 .. ship.next - 1 /\ ship.next = s.read /\ s.read \in Nat
        BY <2>1, <4>1, <4>2, <1>t DEF ShipSound, ShipOK, InPlace, ExecSound, Told
      <4> QED
        BY <3>2, <4>1, <4>3 DEF Covered
    <3>5. Sound(Append(j, x), s)
      BY <3>1, <3>2, <3>3, <3>4, EndSound, TornSound
    <3> QED
      BY <2>1, <2>2, <3>1, <3>5, <1>g, <1>u
  <2> QED
    BY <2>3, <2>4
<1>9. ASSUME NEW t \in Tasks, NEW op \in Ops, Send(t, op) PROVE C
  <2>1. \A u \in Tasks : ToldSame(u)
    BY <1>9, <1>t DEF Send, Told, ToldSame
  <2> QED
    BY <1>9, <2>1, <1>k DEF Send, durable
<1>10. ASSUME NEW t \in Tasks, NEW op \in Ops, Mutate(t, op) PROVE C
  <2>1. \A u \in Tasks : ToldSame(u)
    BY <1>10, <1>t DEF Mutate, Told, ToldSame
  <2> QED
    BY <1>10, <2>1, <1>k DEF Mutate
<1>11. ASSUME Seals(Stream) PROVE C
  <2>1. told' = told /\ Stream \in Tasks /\ journal[Stream] # NoJournal
    BY <1>11, StreamIs DEF Seals, KeepForDrain, AtStep
  <2>2. /\ Opened(journal[Stream]).terminal # "none"
        /\ journal' = [journal EXCEPT ![Stream] = IF Opened(journal[Stream]).seal # "none" THEN @
                         ELSE Append(Readable(@), Seal(Opened(journal[Stream]).accepted))]
    BY <1>11 DEF Seals, Opened
  <2>3. ~told[Stream].torn => Settled(journal[Stream], journal'[Stream])
    BY <2>1, <2>2, <1>t, SealedIs DEF JournalsOpen
  <2>4. told'[Stream].torn \/ Closes(Stream)
    BY <2>1, <2>3 DEF Closes, ToldSame
  <2>5. \A u \in Tasks : u # Stream => Keeps(u)
    BY <2>1, <2>2, <1>u, <1>t DEF Keeps
  <2> QED
    BY <2>4, <2>5 DEF Moves
<1>12. ASSUME PurgeJournal PROVE C
  <2>1. /\ told' = told /\ drain.pc = "purge" /\ journal' = [journal EXCEPT ![Stream] = NoJournal]
    BY <1>12 DEF PurgeJournal, KeepForDrain, AtStep
  <2>2. Stream \in Tasks /\ Archived(RunOf[Stream])
    BY <2>1, StreamIs DEF DrainPlace, Archiving, RowsSound
  <2>3. Purges(Stream)
    BY <2>1, <2>2, <1>t DEF Purges, ToldSame
  <2>5. \A u \in Tasks : u # Stream => Keeps(u)
    BY <2>1, <2>2, <1>u, <1>t DEF Keeps
  <2> QED
    BY <2>3, <2>5 DEF Moves
<1>13. ASSUME EnsureScope \/ NotLaunched \/ Exit \/ Settle \/ EndOfOutput \/ TakeItem
             \/ Snapshots \/ Commits
      PROVE  C
  BY <1>q, <1>13 DEF EnsureScope, NotLaunched, Exit, Settle, EndOfOutput, TakeItem, Snapshots,
     Commits, KeepForDrain, KeepSources, volatile, durable
<1>14. ASSUME Verifies \/ CleanScope \/ PurgeStaging \/ Start \/ StartDrain \/ Admit
      PROVE  C
  BY <1>q, <1>14 DEF Verifies, CleanScope, PurgeStaging, Start, StartDrain, Admit,
     KeepForDrain, KeepSources, volatile, durable
<1>15. ASSUME NEW f \in Files, HasFile(Stream, f) \/ WritesFile(Stream, f) \/
             RenamesFile(Stream, f)
      PROVE  C
  BY <1>q, <1>15 DEF HasFile, WritesFile, RenamesFile, KeepForDrain, KeepSources, volatile,
     durable
<1>16. ASSUME NEW r \in Runs, Selects(r)
      PROVE  C
  BY <1>q, <1>16 DEF Selects, KeepForDrain, KeepSources, volatile, durable
<1>17. ASSUME NEW r \in Runs, NEW p \in Payloads, Stage(r, p)
      PROVE  C
  BY <1>q, <1>17 DEF Stage, KeepForDrain, KeepSources, volatile, durable
<1>18. ASSUME NEW t \in Tasks, Claim(t) \/ Expire(t) \/ CancelPending(t)
      PROVE  C
  BY <1>q, <1>18 DEF Claim, Expire, CancelPending, KeepForDrain, KeepSources, volatile, durable
<1> HIDE DEF C
<1> QED
  BY <1>q, <1>y, <1>z, <1>1, <1>2, <1>3, <1>4, <1>5, <1>6, <1>7, <1>8, <1>9, <1>10, <1>11, <1>12,
     <1>13, <1>14, <1>15, <1>16, <1>17, <1>18, Kinds

-----------------------------------------------------------------------------
(* The invariant about journals *)

LEMMA OpenNext ==
  ASSUME JournalsOpen, \A u \in Tasks : Moves(u), \A u \in Tasks : told[u].torn => told'[u].torn
  PROVE  JournalsOpen'
  BY DEF JournalsOpen, Moves, Keeps, Ships, Closes, Purges, Sound, Settled

LEMMA ScarredEnd ==
  ASSUME NEW f \in Seq(Frame), NoCleanEnd(f)
  PROVE  Opened(f).terminal # "eos"
<1> SUFFICES ASSUME NEW r, r = Readable(f) PROVE Term(r) # "eos"
  <2>1. View(Readable(f)).terminal = Term(Readable(f)) /\ NewStream.terminal = "none"
    BY DEF View, NewStream
  <2>2. Opened(f) \in {View(Readable(f)), NewStream}
    BY RecoverIs DEF Opened
  <2> QED
    BY <2>1, <2>2
<1>1. r \in Seq(Frame) /\ \A i \in DOMAIN r : ~EndsClean(r[i])
  BY ReadableIs DEF NoCleanEnd
<1>2. CASE Of(r, "terminal") = {}
  BY <1>2 DEF Term
<1>3. CASE Of(r, "terminal") # {}
  <2>1. PICK i \in Of(r, "terminal") : Term(r) = r[i].how
    BY <1>3 DEF Term
  <2> QED
    BY <1>1, <2>1 DEF Of, EndsClean
<1> QED
  BY <1>2, <1>3

LEMMA CleanEndNext ==
  ASSUME Typed', CleanEndTellsLoss, ScarsStay', \A u \in Tasks : Moves(u)
  PROVE  CleanEndTellsLoss'
<1>1. \A u \in Tasks : journal[u] # NoJournal => Tells(journal[u], told[u].read)
  BY DEF CleanEndTellsLoss, Tells, Opened
<1>2. ASSUME NEW u \in Tasks, journal'[u] # NoJournal PROVE Tells(journal'[u], told'[u].read)
  <2>0. CASE told'[u].torn
    <3>1. journal'[u] \in Seq(Frame) /\ NoCleanEnd(journal'[u])
      BY <2>0 DEF Typed, ScarsStay, NoCleanEnd
    <3>2. Opened(journal'[u]).terminal # "eos"
      BY <3>1, ScarredEnd
    <3> QED
      BY <3>2 DEF Tells
  <2>1. CASE Keeps(u)
    BY <1>1, <1>2, <2>1 DEF Keeps, ToldSame
  <2>2. CASE Ships(u)
    BY <2>2 DEF Ships, Sound
  <2>3. CASE Closes(u)
    BY <1>1, <1>2, <2>3 DEF Closes, Settled, Same, ToldSame, Tells, Covered
  <2> QED
    BY <1>2, <2>0, <2>1, <2>2, <2>3 DEF Moves, Purges
<1> QED
  BY <1>2 DEF CleanEndTellsLoss, Tells, Opened

(* A claim in work is not of an archived run. *)
LEMMA WorkNotArchived ==
  ASSUME Plain, exec.pc # "idle" PROVE ~Archived(RunOf[exec.task])
<1>1. exec.task \in Tasks /\ RunOf[exec.task] \in Runs /\ claim[exec.task] = "claimed"
  BY RunsAssumption DEF Plain, ExecSound
<1> QED
  BY <1>1 DEF Plain, RowsSound, TasksOf

LEMMA EndedStays ==
  ASSUME Plain, NEW u \in Tasks, ~told'[u].torn, Moves(u), NEW h, Ended(u, h), ~Archived(RunOf[u])
  PROVE  Ended(u, h)'
<1>1. ~Ships(u) /\ ~Purges(u)
  BY DEF Ended, Ships, Opened, Purges
<1>2. Keeps(u) => Ended(u, h)'
  BY DEF Ended, Keeps
<1>3. Closes(u) => Ended(u, h)'
  BY DEF Ended, Closes, Settled, Same, Opened
<1> QED
  BY <1>1, <1>2, <1>3 DEF Moves

LEMMA NoJournalEnd == NoCleanEnd(NoJournal)
<1>1. NoJournal \in Seq(Frame)
  BY ConstTypes
<1>2. \A i \in DOMAIN Readable(NoJournal) : i \in DOMAIN NoJournal /\ Readable(NoJournal)[i] = NoJournal[i]
  BY <1>1, ReadableIs
<1>3. \A i \in DOMAIN NoJournal : ~EndsClean(NoJournal[i])
  BY DEF NoJournal, Absent, EndsClean
<1> QED
  BY <1>2, <1>3 DEF NoCleanEnd

(* What one step does to a journal with a scar.                               *)
LEMMA ScarAppend ==
  ASSUME NEW f \in Seq(Frame), NEW x \in Frame, NoCleanEnd(f), Broken(f) # {}
  PROVE  NoCleanEnd(Append(f, x)) /\ Broken(Append(f, x)) # {}
  BY BrokenStays DEF NoCleanEnd

LEMMA ScarLeft ==
  ASSUME NEW f \in Seq(Frame), NEW x \in Frame, NoCleanEnd(f), Broken(f) # {},
         NEW how \in {"lost", "unsynced", "torn", "garbled"}
  PROVE  NoCleanEnd(Left(f, x, how)) /\ Broken(Left(f, x, how)) # {}
<1>1. Left(f, x, how) \in {f, Append(f, x), Append(f, Torn), Append(f, Garbled)}
  BY DEF Left
<1>2. Torn \in Frame /\ Garbled \in Frame
  BY ConstTypes
<1> QED
  BY <1>1, <1>2, ScarAppend

LEMMA FirstScar ==
  ASSUME NEW f \in Seq(Frame), Body(f), NEW x \in {Torn, Garbled}, NEW g, g = Append(f, x)
  PROVE  NoCleanEnd(g) /\ Broken(g) # {}
<1>1. Intact(f) /\ x \in Frame
  <2>1. Intact(f)
    BY DEF Body, Intact, Torn, Garbled
  <2> QED
    BY <2>1, ConstTypes
<1>2. Readable(g) = f
  BY <1>1, ReadableTorn
<1>3. NoCleanEnd(g)
  BY <1>2 DEF NoCleanEnd, Body, EndsClean
<1>4. Len(f) + 1 \in DOMAIN g /\ g[Len(f) + 1] = x
  OBVIOUS
<1>5. Broken(g) # {}
  BY <1>4 DEF Broken
<1> QED
  BY <1>3, <1>5

LEMMA ScarExtends ==
  ASSUME NEW f \in Seq(Frame), NoCleanEnd(f), NEW x \in Frame, x.kind \in {"terminal", "seal"},
         ~EndsClean(x), NEW g, g \in {Readable(f), Append(Readable(f), x)}
  PROVE  NoCleanEnd(g)
<1> SUFFICES ASSUME NEW r, r = Readable(f), g \in {r, Append(r, x)} PROVE NoCleanEnd(g)
  OBVIOUS
<1>1. r \in Seq(Frame) /\ \A i \in DOMAIN r : ~EndsClean(r[i])
  BY ReadableIs DEF NoCleanEnd
<1>2. g \in Seq(Frame) /\ \A i \in DOMAIN g : ~EndsClean(g[i])
  <2>1. CASE g = r
    BY <1>1, <2>1
  <2>2. CASE g = Append(r, x)
    <3>1. /\ g \in Seq(Frame) /\ DOMAIN g = DOMAIN r \cup {Len(r) + 1}
          /\ g[Len(r) + 1] = x /\ \A i \in DOMAIN r : g[i] = r[i]
      BY <1>1, <2>2
    <3> QED
      BY <1>1, <3>1
  <2> QED
    BY <2>1, <2>2
<1>3. \A i \in DOMAIN Readable(g) : i \in DOMAIN g /\ Readable(g)[i] = g[i]
  BY <1>2, ReadableIs
<1> QED
  BY <1>2, <1>3 DEF NoCleanEnd

(* No step gives a scarred stream a controlled end. *)
LEMMA ScarsNext ==
  ASSUME Plain, RunningJournal, ScarsStay, [Next]_vars
  PROVE  ScarsStay'
<1> USE DEF Plain
<1>t. journal \in [Tasks -> Seq(Frame)] /\ told \in [Tasks -> Told] /\ ship \in Ship
  BY DEF Typed
<1> DEFINE Scar(u) == /\ NoCleanEnd(journal'[u])
                      /\ exec'.pc = "running" /\ exec'.task = u => Broken(journal'[u]) # {}
           Was(u)  == /\ NoCleanEnd(journal[u])
                      /\ exec.pc = "running" /\ exec.task = u => Broken(journal[u]) # {}
           C == ScarsStay'
<1>s. ASSUME \A u \in Tasks : told'[u].torn => Scar(u) PROVE C
  BY <1>s DEF ScarsStay, NoCleanEnd
<1>w. \A u \in Tasks : told[u].torn => Was(u)
  BY DEF ScarsStay
<1>o. ASSUME NEW u \in Tasks, told'[u].torn => told[u].torn, journal'[u] = journal[u],
             exec'.pc = "running" /\ exec'.task = u => exec.pc = "running" /\ exec.task = u
      PROVE  told'[u].torn => Scar(u)
  BY <1>o, <1>w
<1> HIDE DEF Scar, Was
<1> SUFFICES C
  OBVIOUS
<1>q. ASSUME UNCHANGED <<exec, journal>>, \A u \in Tasks : told'[u].torn => told[u].torn PROVE C
  BY <1>q, <1>s, <1>o
<1> HIDE DEF C
<1>z. UNCHANGED vars => C
  BY <1>q DEF vars, volatile, durable
<1>y. ASSUME NEW r \in Runs, Loses(r) PROVE C
  BY <1>q, <1>y DEF Loses, volatile, durable
<1>1. ASSUME Stops PROVE C
  <2>1. told' = told /\ exec' = Idle
    BY <1>1 DEF Stops, Stop
  <2>2. ASSUME NEW u \in Tasks, journal'[u] # journal[u], told'[u].torn PROVE Scar(u)
    <3>1. PICK how \in {"lost", "unsynced", "torn"} :
            journal' = [journal EXCEPT ![exec.task] = Left(@, ship.item, how)] /\ ship.item # Absent
      BY <1>1, <2>2 DEF Stops
    <3>2. exec.pc = "running" /\ exec.task \in Tasks
      BY <3>1 DEF ExecSound, NoShip
    <3>3. u = exec.task /\ journal'[u] = Left(journal[u], ship.item, how)
      BY <1>t, <2>2, <3>1, <3>2
    <3>4. ship.item \in Frame /\ journal[u] \in Seq(Frame)
      BY <1>t, <3>1, <3>2, ItemFrame
    <3>5. NoCleanEnd(journal[u]) /\ Broken(journal[u]) # {}
      BY <1>w, <2>1, <2>2, <3>2, <3>3 DEF Was
    <3> QED
      BY <2>1, <3>3, <3>4, <3>5, ScarLeft DEF Scar, Idle
  <2>3. ASSUME NEW u \in Tasks, journal'[u] = journal[u] PROVE told'[u].torn => Scar(u)
    BY <2>1, <2>3, <1>o DEF Idle
  <2> QED
    BY <2>2, <2>3, <1>s
<1>2. ASSUME NEW t \in Tasks, Recovers(t) PROVE C
  <2>1. told' = told /\ exec' = exec /\ exec.pc # "running"
    BY <1>2 DEF Recovers, ExecSound
  <2>2. ASSUME NEW u \in Tasks, journal'[u] # journal[u], told'[u].torn PROVE Scar(u)
    <3>1. u = t /\ journal'[u] = Closed(journal[u])
      BY <1>2, <1>t, <2>2 DEF Recovers
    <3>2. journal'[u] \in {Readable(journal[u]), Append(Readable(journal[u]), Terminal("abnormal"))}
      BY <3>1 DEF Closed
    <3>3. /\ journal[u] \in Seq(Frame) /\ NoCleanEnd(journal[u])
      BY <1>t, <1>w, <2>1, <2>2 DEF Was
    <3>4. /\ Terminal("abnormal") \in Frame /\ Terminal("abnormal").kind = "terminal"
          /\ ~EndsClean(Terminal("abnormal"))
      <4>1. "abnormal" \in Hows /\ Terminal("abnormal").kind = "terminal" /\ ~EndsClean(Terminal("abnormal"))
        BY DEF Hows, Terminal, EndsClean
      <4> QED
        BY <4>1, ConstTypes
    <3>5. NoCleanEnd(journal'[u])
      BY <3>2, <3>3, <3>4, ScarExtends
    <3> QED
      BY <2>1, <3>5 DEF Scar
  <2>3. ASSUME NEW u \in Tasks, journal'[u] = journal[u] PROVE told'[u].torn => Scar(u)
    BY <2>1, <2>3, <1>o
  <2> QED
    BY <2>2, <2>3, <1>s
<1>3. ASSUME Spawn \/ SpawnFails PROVE C
  <2>1. exec.pc = "scoped" /\ exec.task \in Tasks /\ told' = told /\ exec'.task = exec.task
    BY <1>3 DEF Spawn, SpawnFails, ExecSound, Typed
  <2>2. ~told'[exec.task].torn
    BY <2>1 DEF NothingYet, Unlaunched
  <2>3. \A u \in Tasks : u # exec.task => journal'[u] = journal[u]
    BY <1>3, <1>t DEF Spawn, SpawnFails
  <2> QED
    BY <2>1, <2>2, <2>3, <1>o, <1>s
<1>4. ASSUME Accept PROVE C
  <2>1. exec.pc = "running" /\ exec.task \in Tasks /\ exec' = exec /\ ship.item # Absent
    BY <1>4 DEF Accept, ExecSound, NoShip
  <2>2. \A u \in Tasks : told'[u].torn => told[u].torn
    BY <1>4, <2>1, <1>t DEF Accept, Told
  <2>3. /\ \A u \in Tasks : u # exec.task => journal'[u] = journal[u]
        /\ journal'[exec.task] = Append(journal[exec.task], ship.item)
    BY <1>4, <2>1, <1>t DEF Accept
  <2>4. ship.item \in Frame /\ journal[exec.task] \in Seq(Frame)
    BY <1>t, <2>1, ItemFrame
  <2>5. told[exec.task].torn => Scar(exec.task)
    BY <1>w, <2>1, <2>3, <2>4, ScarAppend DEF Scar, Was
  <2> QED
    BY <2>1, <2>2, <2>3, <2>5, <1>o, <1>s
<1>5. ASSUME AcceptFails PROVE C
  <2>1. exec.pc = "running" /\ exec.task \in Tasks /\ exec' = exec /\ ship.item # Absent
    BY <1>5 DEF AcceptFails, ExecSound, NoShip, volatile
  <2>2. PICK how \in AppendFaults :
          /\ journal' = [journal EXCEPT ![exec.task] = Left(@, ship.item, how)]
          /\ told'[exec.task].torn <=> told[exec.task].torn \/ how \in {"torn", "garbled"}
    BY <1>5, FailsHow
  <2>3. /\ \A u \in Tasks : u # exec.task => journal'[u] = journal[u] /\ told'[u].torn = told[u].torn
        /\ journal'[exec.task] = Left(journal[exec.task], ship.item, how)
        /\ how \in {"lost", "unsynced", "torn", "garbled"}
    BY <1>5, <2>1, <2>2, <1>t, FailsTold, AppendAssumption
  <2>4. ship.item \in Frame /\ journal[exec.task] \in Seq(Frame)
    BY <1>t, <2>1, ItemFrame
  <2>5. told[exec.task].torn => Scar(exec.task)
    BY <1>w, <2>1, <2>3, <2>4, ScarLeft DEF Scar, Was
  <2>6. ASSUME ~told[exec.task].torn, told'[exec.task].torn PROVE Scar(exec.task)
    <3>1. how \in {"torn", "garbled"} /\ Body(journal[exec.task])
      BY <2>1, <2>2, <2>6 DEF RunningJournal
    <3>2. PICK x \in {Torn, Garbled} : journal'[exec.task] = Append(journal[exec.task], x)
      BY <2>3, <3>1 DEF Left
    <3> QED
      BY <2>4, <3>1, <3>2, FirstScar DEF Scar
  <2> QED
    BY <2>1, <2>3, <2>5, <2>6, <1>o, <1>s
<1>6. ASSUME Finish PROVE C
  <2>1. exec.pc = "running" /\ exec.task \in Tasks /\ exec'.pc = "flushed" /\ told' = told
    BY <1>6 DEF Finish, ExecSound, NoShip, Typed
  <2>2. PICK h \in Ending(ship) :
          \/ journal' = journal
          \/ journal' = [journal EXCEPT ![exec.task] = Append(@, Terminal(h))]
          \/ \E how \in {"lost", "unsynced", "torn", "garbled"} :
               journal' = [journal EXCEPT ![exec.task] = Left(@, Terminal(h), how)]
    BY <1>6, AppendAssumption DEF Finish
  <2>3. /\ \A u \in Tasks : u # exec.task => journal'[u] = journal[u]
        /\ \/ journal'[exec.task] = journal[exec.task]
           \/ journal'[exec.task] = Append(journal[exec.task], Terminal(h))
           \/ \E how \in {"lost", "unsynced", "torn", "garbled"} :
                journal'[exec.task] = Left(journal[exec.task], Terminal(h), how)
    BY <2>1, <2>2, <1>t
  <2>4. Terminal(h) \in Frame /\ journal[exec.task] \in Seq(Frame)
    <3>1. h \in Hows
      BY DEF Ending, Hows
    <3> QED
      BY <1>t, <2>1, <3>1, ConstTypes
  <2>5. told[exec.task].torn => Scar(exec.task)
    BY <1>w, <2>1, <2>3, <2>4, ScarAppend, ScarLeft DEF Scar, Was
  <2> QED
    BY <2>1, <2>3, <2>5, <1>o, <1>s
<1>7. ASSUME Seals(Stream) PROVE C
  <2>1. told' = told /\ exec' = exec /\ drain.pc = "seal"
    BY <1>7 DEF Seals, KeepForDrain, AtStep
  <2>2. Stream \in Tasks /\ (exec.pc = "running" => exec.task # Stream)
    BY <2>1, StreamIs, StreamRests
  <2>3. ASSUME NEW u \in Tasks, journal'[u] # journal[u], told'[u].torn PROVE Scar(u)
    <3>1. u = Stream /\ journal'[u] = Append(Readable(journal[u]), Seal(recover(journal[u]).st.accepted))
      BY <1>7, <1>t, <2>3 DEF Seals
    <3>2. /\ journal[u] \in Seq(Frame) /\ NoCleanEnd(journal[u])
      BY <1>t, <1>w, <2>1, <2>3 DEF Was
    <3> DEFINE x == Seal(recover(journal[u]).st.accepted)
    <3>3. x \in Frame /\ x.kind = "seal" /\ ~EndsClean(x)
      BY <3>2, RecoverType DEF Seal, EndsClean, Frame, Hows
    <3> HIDE DEF x
    <3>4. NoCleanEnd(journal'[u])
      BY <3>1, <3>2, <3>3, ScarExtends DEF x
    <3> QED
      BY <2>1, <2>2, <3>1, <3>4 DEF Scar
  <2>4. ASSUME NEW u \in Tasks, journal'[u] = journal[u] PROVE told'[u].torn => Scar(u)
    BY <2>1, <2>4, <1>o
  <2> QED
    BY <2>3, <2>4, <1>s
<1>8. ASSUME PurgeJournal PROVE C
  <2>1. told' = told /\ exec' = exec /\ drain.pc = "purge"
    BY <1>8 DEF PurgeJournal, KeepForDrain, AtStep
  <2>2. Stream \in Tasks /\ (exec.pc = "running" => exec.task # Stream)
    BY <2>1, StreamIs, StreamRests
  <2>3. ASSUME NEW u \in Tasks, journal'[u] # journal[u], told'[u].torn PROVE Scar(u)
    <3>1. u = Stream /\ journal'[u] = NoJournal
      BY <1>8, <1>t, <2>3 DEF PurgeJournal
    <3>2. NoCleanEnd(NoJournal)
      BY NoJournalEnd
    <3> QED
      BY <2>1, <2>2, <3>1, <3>2 DEF Scar
  <2>4. ASSUME NEW u \in Tasks, journal'[u] = journal[u] PROVE told'[u].torn => Scar(u)
    BY <2>1, <2>4, <1>o
  <2> QED
    BY <2>3, <2>4, <1>s
<1>9. ASSUME Read PROVE C
  <2>1. \A u \in Tasks : told'[u].torn => told[u].torn
    BY <1>9, <1>t DEF Read, Told
  <2> QED
    BY <1>9, <2>1, <1>q DEF Read, durable
<1>10. ASSUME NEW t \in Tasks, NEW op \in Ops, Send(t, op) PROVE C
  <2>1. \A u \in Tasks : told'[u].torn => told[u].torn
    BY <1>10, <1>t DEF Send, Told
  <2> QED
    BY <1>10, <2>1, <1>q DEF Send, durable
<1>11. ASSUME NEW t \in Tasks, NEW op \in Ops, Mutate(t, op) PROVE C
  <2>1. \A u \in Tasks : told'[u].torn => told[u].torn
    BY <1>11, <1>t DEF Mutate, Told
  <2> QED
    BY <1>11, <2>1, <1>q DEF Mutate
<1>12. ASSUME NEW t \in Tasks, Claim(t) PROVE C
  <2>1. told' = told /\ journal' = journal /\ exec'.pc = "claimed"
    BY <1>12 DEF Claim
  <2> QED
    BY <2>1, <1>o, <1>s
<1>13. ASSUME EnsureScope \/ NotLaunched \/ Settle PROVE C
  <2>1. told' = told /\ journal' = journal /\ exec'.pc # "running"
    BY <1>13 DEF EnsureScope, NotLaunched, Settle, Idle, Typed
  <2> QED
    BY <2>1, <1>o, <1>s
<1>14. ASSUME Exit \/ EndOfOutput \/ TakeItem \/ Start \/ StartDrain \/ Admit PROVE C
  BY <1>q, <1>14 DEF Exit, EndOfOutput, TakeItem, Start, StartDrain, Admit, durable
<1>15. ASSUME Snapshots \/ Commits \/ Verifies \/ CleanScope \/ PurgeStaging PROVE C
  BY <1>q, <1>15 DEF Snapshots, Commits, Verifies, CleanScope, PurgeStaging, KeepForDrain, KeepSources
<1>16. ASSUME NEW f \in Files, HasFile(Stream, f) \/ WritesFile(Stream, f) \/ RenamesFile(Stream, f)
      PROVE  C
  BY <1>q, <1>16 DEF HasFile, WritesFile, RenamesFile, KeepForDrain, KeepSources
<1>17. ASSUME NEW r \in Runs, Selects(r) PROVE C
  BY <1>q, <1>17 DEF Selects, KeepForDrain, KeepSources
<1>18. ASSUME NEW r \in Runs, NEW p \in Payloads, Stage(r, p) PROVE C
  BY <1>q, <1>18 DEF Stage, volatile
<1>19. ASSUME NEW t \in Tasks, Expire(t) \/ CancelPending(t) PROVE C
  BY <1>q, <1>19 DEF Expire, CancelPending, volatile
<1> QED
  BY <1>y, <1>z, <1>1, <1>2, <1>3, <1>4, <1>5, <1>6, <1>7, <1>8, <1>9, <1>10, <1>11, <1>12,
     <1>13, <1>14, <1>15, <1>16, <1>17, <1>18, <1>19, Kinds

LEMMA LogsKeptNext ==
  ASSUME Plain, LogsKept, FilesSound, \A u \in Tasks : Moves(u), [Next]_vars
  PROVE  LogsKept'
<1> USE DEF Plain
<1>a. archive = [r \in Runs |-> archive[r]] /\ \A u \in Tasks : RunOf[u] \in Runs
  BY RunsAssumption DEF Typed
<1>m. \A u \in Tasks : told[u].torn => told'[u].torn
  BY TornStays
<1>k. ASSUME NEW u \in Tasks, archive'[RunOf[u]] = archive[RunOf[u]], ~told'[u].torn
      PROVE  told'[u].accepted \subseteq KeptLog(u)'
  <2>0. told[u].accepted \subseteq KeptLog(u)
    BY <1>k, <1>m DEF LogsKept
  <2>1. CASE Archived(RunOf[u])
    <3>1. told'[u].accepted = told[u].accepted
      BY <1>k, <2>1, WorkNotArchived DEF Moves, Keeps, Ships, Closes, Purges, ToldSame
    <3>2. KeptLog(u)' = KeptLog(u)
      BY <1>k, <2>1 DEF KeptLog, Archived
    <3> QED
      BY <2>0, <3>1, <3>2
  <2>2. CASE ~Archived(RunOf[u])
    <3>1. KeptLog(u) = IF journal[u] = NoJournal THEN {} ELSE Opened(journal[u]).accepted
      BY <2>2 DEF KeptLog, Opened
    <3>2. KeptLog(u)' = IF journal'[u] = NoJournal THEN {} ELSE Opened(journal'[u]).accepted
      BY <1>k, <2>2 DEF KeptLog, Opened, Archived
    <3>3. CASE Keeps(u)
      BY <2>0, <3>1, <3>2, <3>3 DEF Keeps, ToldSame
    <3>4. CASE Ships(u)
      BY <3>2, <3>4 DEF Ships, Sound
    <3>5. CASE Closes(u)
      BY <2>0, <3>1, <3>2, <3>5 DEF Closes, Settled, Same, ToldSame
    <3> QED
      BY <1>k, <2>2, <3>3, <3>4, <3>5 DEF Moves, Purges
  <2> QED
    BY <2>1, <2>2
<1> DEFINE C == LogsKept'
<1> SUFFICES C
  OBVIOUS
<1>q. UNCHANGED archive => C
  BY <1>a, <1>k DEF LogsKept
<1>z. UNCHANGED vars => C
  BY <1>q DEF vars, volatile, durable
<1>y. ASSUME NEW r \in Runs, Loses(r) PROVE C
  BY <1>q, <1>y DEF Loses, volatile, durable
<1>1. ASSUME Commits PROVE C
  <2>1. /\ drain.run \in Runs /\ Streams(drain.run) = TasksOf(drain.run) /\ drain.left = {}
        /\ staging[drain.run].state = "staged"
    BY <1>1 DEF Commits, AtStep, DrainPlace, validate_streams
  <2>2. ~Archived(drain.run) /\ staging[drain.run].payload # "none"
    BY <2>1, NameAssumption DEF RowsSound
  <2>3. \A u \in TasksOf(drain.run) : final[u].log.state = "installed"
    BY <1>1, <2>1 DEF Commits, AtStep, DrainFiles
  <2>4. /\ \A r \in Runs : r # drain.run => archive'[r] = archive[r]
        /\ archive'[drain.run].payload = staging[drain.run].payload
        /\ archive'[drain.run].logs = [t \in Streams(drain.run) |-> final[t]]
    BY <1>1, <2>1, <1>a DEF Commits
  <2>5. told' = told
    BY <1>1 DEF Commits, KeepForDrain
  <2>6. ASSUME NEW u \in Tasks, RunOf[u] = drain.run, ~told'[u].torn PROVE told'[u].accepted \subseteq KeptLog(u)'
    <3>1. u \in TasksOf(drain.run)
      BY <2>6 DEF TasksOf
    <3>2. Ended(u, final[u].log.holds)
      BY <2>2, <2>3, <2>5, <2>6, <3>1 DEF FilesSound
    <3>3. KeptLog(u) = final[u].log.holds
      BY <2>2, <2>6, <3>2 DEF KeptLog, Ended
    <3>4. KeptLog(u)' = final[u].log.holds
      BY <2>1, <2>2, <2>4, <2>6, <3>1 DEF KeptLog, Archived
    <3> QED
      BY <2>5, <2>6, <3>3, <3>4 DEF LogsKept
  <2> QED
    BY <1>a, <1>k, <2>4, <2>6 DEF LogsKept
<1>2. ASSUME Stops \/ EnsureScope \/ Spawn \/ SpawnFails \/ NotLaunched \/ Exit \/
             Settle \/ Read
      PROVE  C
  BY <1>q, <1>2 DEF Stops, EnsureScope, Spawn, SpawnFails, NotLaunched, Exit, Settle, Read,
     KeepForDrain, KeepSources, volatile, durable
<1>3. ASSUME EndOfOutput \/ TakeItem \/ Accept \/ AcceptFails \/ Finish \/ Snapshots
             \/ Seals(Stream) \/ Verifies
      PROVE  C
  BY <1>q, <1>3 DEF EndOfOutput, TakeItem, Accept, AcceptFails, Finish, Snapshots, Seals,
     Verifies, KeepForDrain, KeepSources, volatile, durable
<1>4. ASSUME CleanScope \/ PurgeJournal \/ PurgeStaging \/ Start \/ StartDrain \/
             Admit
      PROVE  C
  BY <1>q, <1>4 DEF CleanScope, PurgeJournal, PurgeStaging, Start, StartDrain, Admit,
     KeepForDrain, KeepSources, volatile, durable
<1>5. ASSUME NEW f \in Files, HasFile(Stream, f) \/ WritesFile(Stream, f) \/
             RenamesFile(Stream, f)
      PROVE  C
  BY <1>q, <1>5 DEF HasFile, WritesFile, RenamesFile, KeepForDrain, KeepSources, volatile,
     durable
<1>6. ASSUME NEW r \in Runs, Selects(r)
      PROVE  C
  BY <1>q, <1>6 DEF Selects, KeepForDrain, KeepSources, volatile, durable
<1>7. ASSUME NEW r \in Runs, NEW p \in Payloads, Stage(r, p)
      PROVE  C
  BY <1>q, <1>7 DEF Stage, KeepForDrain, KeepSources, volatile, durable
<1>8. ASSUME NEW t \in Tasks, Claim(t) \/ Expire(t) \/ CancelPending(t) \/
             Recovers(t)
      PROVE  C
  BY <1>q, <1>8 DEF Claim, Expire, CancelPending, Recovers, KeepForDrain, KeepSources,
     volatile, durable
<1>9. ASSUME NEW t \in Tasks, NEW op \in Ops, Send(t, op) \/ Mutate(t, op)
      PROVE  C
  BY <1>q, <1>9 DEF Send, Mutate, KeepForDrain, KeepSources, volatile, durable
<1> HIDE DEF C
<1> QED
  BY <1>q, <1>y, <1>z, <1>1, <1>2, <1>3, <1>4, <1>5, <1>6, <1>7, <1>8, <1>9, Kinds

LEMMA FilesNext ==
  ASSUME Plain, FilesSound, SealSound, \A u \in Tasks : Moves(u), [Next]_vars
  PROVE  FilesSound'
<1> USE DEF Plain
<1>t. final \in [Tasks -> [log : File, exit : File]]
  BY DEF Typed
<1>u. \A u \in Tasks : RunOf[u] \in Runs
  BY RunsAssumption
<1>m. \A u \in Tasks : told[u].torn => told'[u].torn
  BY TornStays
<1>k. ASSUME NEW u \in Tasks, ~told'[u].torn, ~Archived(RunOf[u])', final'[u].log.state \in {"written", "installed"},
             final'[u].log = final[u].log \/ Ended(u, final'[u].log.holds)
      PROVE  Ended(u, final[u].log.holds)'
  <2>1. ~Archived(RunOf[u])
    BY <1>k, <1>u, ArchiveStays DEF Archived
  <2>2. Ended(u, final'[u].log.holds)
    BY <1>k, <1>m, <2>1 DEF FilesSound
  <2> SUFFICES ASSUME NEW h, h = final'[u].log.holds PROVE Ended(u, h)'
    BY DEF Ended
  <2> QED
    BY <1>k, <2>1, <2>2, EndedStays
<1>f. ASSUME \A u \in Tasks : \/ final'[u].log = final[u].log
                              \/ final'[u].log.state \notin {"written", "installed"}
                              \/ told[u].torn \/ Ended(u, final'[u].log.holds)
      PROVE  FilesSound'
  BY <1>f, <1>k, <1>m DEF FilesSound
<1> DEFINE C == FilesSound'
<1> SUFFICES C
  OBVIOUS
<1>q. UNCHANGED final => C
  BY <1>f
<1>z. UNCHANGED vars => C
  BY <1>q DEF vars, volatile, durable
<1>y. ASSUME NEW r \in Runs, Loses(r) PROVE C
  BY <1>q, <1>y DEF Loses, volatile, durable
<1>1. ASSUME Stops PROVE C
  <2>1. CASE final' = final
    BY <2>1, <1>f
  <2>2. ASSUME NEW f \in Files, Sets(Stream, f) PROVE C
    <3>1. Stream \in Tasks /\ f \in {"log", "exit"}
      BY <2>2, StreamIs DEF Sets, Files
    <3>2. \A u \in Tasks : u # Stream => final'[u] = final[u]
      BY <2>2, <1>t DEF Sets
    <3>3. f = "exit" => final'[Stream].log = final[Stream].log
      BY <2>2, <3>1, <1>t DEF Sets
    <3>4. f = "log" => final'[Stream].log.state \in {"none", "partial"}
      BY <2>2, <3>1, <1>t DEF Sets, NoFile, File
    <3> QED
      BY <3>1, <3>2, <3>3, <3>4, <1>f
  <2> QED
    BY <1>1, <2>1, <2>2 DEF Stops
<1>2. ASSUME NEW f \in Files, WritesFile(Stream, f) PROVE C
  <2>1. drain.pc = f /\ f \in {"log", "exit"} /\ Stream \in Tasks
    BY <1>2, StreamIs DEF WritesFile, AtStep, Files
  <2>2. \A u \in Tasks : u # Stream => final'[u] = final[u]
    BY <1>2, <1>t DEF WritesFile
  <2>3. CASE f = "exit"
    <3>1. final'[Stream].log = final[Stream].log
      BY <1>2, <2>1, <2>3, <1>t DEF WritesFile
    <3> QED
      BY <2>2, <3>1, <1>f
  <2>4. CASE f = "log"
    <3>1. final'[Stream].log = Whole("log")
      BY <1>2, <2>1, <2>4, <1>t DEF WritesFile
    <3>2. Whole("log").holds = drain.seal.holds
      BY DEF Whole, Expected
    <3>3. told[Stream].torn \/ Ended(Stream, drain.seal.holds)
      BY <2>1, <2>4 DEF SealSound
    <3> QED
      BY <2>2, <3>1, <3>2, <3>3, <1>f
  <2> QED
    BY <2>1, <2>3, <2>4
<1>3. ASSUME NEW f \in Files, RenamesFile(Stream, f) PROVE C
  <2>1. drain.pc = f /\ f \in {"log", "exit"} /\ Stream \in Tasks
    BY <1>3, StreamIs DEF RenamesFile, AtStep, Files
  <2>2. \A u \in Tasks : u # Stream => final'[u] = final[u]
    BY <1>3, <1>t DEF RenamesFile
  <2>3. CASE f = "exit"
    <3>1. final'[Stream].log = final[Stream].log
      BY <1>3, <2>1, <2>3, <1>t DEF RenamesFile
    <3> QED
      BY <2>2, <3>1, <1>f
  <2>4. CASE f = "log"
    <3>1. final'[Stream].log = Expected("log")
      BY <1>3, <2>1, <2>4, <1>t DEF RenamesFile
    <3>2. Expected("log").holds = drain.seal.holds
      BY DEF Whole, Expected
    <3>3. told[Stream].torn \/ Ended(Stream, drain.seal.holds)
      BY <2>1, <2>4 DEF SealSound
    <3> QED
      BY <2>2, <3>1, <3>2, <3>3, <1>f
  <2> QED
    BY <2>1, <2>3, <2>4
<1>4. ASSUME EnsureScope \/ Spawn \/ SpawnFails \/ NotLaunched \/ Exit \/ Settle \/
             Read \/ EndOfOutput
      PROVE  C
  BY <1>q, <1>4 DEF EnsureScope, Spawn, SpawnFails, NotLaunched, Exit, Settle, Read,
     EndOfOutput, KeepForDrain, KeepSources, volatile, durable
<1>5. ASSUME TakeItem \/ Accept \/ AcceptFails \/ Finish \/ Snapshots \/ Seals(Stream)
             \/ Commits \/ Verifies
      PROVE  C
  BY <1>q, <1>5 DEF TakeItem, Accept, AcceptFails, Finish, Snapshots, Seals, Commits, Verifies,
     KeepForDrain, KeepSources, volatile, durable
<1>6. ASSUME CleanScope \/ PurgeJournal \/ PurgeStaging \/ Start \/ StartDrain \/
             Admit
      PROVE  C
  BY <1>q, <1>6 DEF CleanScope, PurgeJournal, PurgeStaging, Start, StartDrain, Admit,
     KeepForDrain, KeepSources, volatile, durable
<1>7. ASSUME NEW f \in Files, HasFile(Stream, f)
      PROVE  C
  BY <1>q, <1>7 DEF HasFile, KeepForDrain, KeepSources, volatile, durable
<1>8. ASSUME NEW r \in Runs, Selects(r)
      PROVE  C
  BY <1>q, <1>8 DEF Selects, KeepForDrain, KeepSources, volatile, durable
<1>9. ASSUME NEW r \in Runs, NEW p \in Payloads, Stage(r, p)
      PROVE  C
  BY <1>q, <1>9 DEF Stage, KeepForDrain, KeepSources, volatile, durable
<1>10. ASSUME NEW t \in Tasks, Claim(t) \/ Expire(t) \/ CancelPending(t) \/
             Recovers(t)
      PROVE  C
  BY <1>q, <1>10 DEF Claim, Expire, CancelPending, Recovers, KeepForDrain, KeepSources,
     volatile, durable
<1>11. ASSUME NEW t \in Tasks, NEW op \in Ops, Send(t, op) \/ Mutate(t, op)
      PROVE  C
  BY <1>q, <1>11 DEF Send, Mutate, KeepForDrain, KeepSources, volatile, durable
<1> HIDE DEF C
<1> QED
  BY <1>q, <1>y, <1>z, <1>1, <1>2, <1>3, <1>4, <1>5, <1>6, <1>7, <1>8, <1>9, <1>10, <1>11, Kinds

LEMMA SealNext ==
  ASSUME Plain, SealSound, \A u \in Tasks : Moves(u), [Next]_vars
  PROVE  SealSound'
<1> USE DEF Plain
<1>t. drain \in [pc : DrainSteps, run : Runs \cup {NoTask}, left : SUBSET Tasks,
                seal : [holds : SUBSET Chunks, how : Hows]]
  BY DEF Typed
<1>m. \A u \in Tasks : told[u].torn => told'[u].torn
  BY TornStays
<1>i. ASSUME drain'.pc \notin {"log", "exit"} PROVE SealSound'
  BY <1>i DEF SealSound
<1>k. ASSUME drain.pc \in {"log", "exit"}, drain'.left = drain.left, drain'.seal = drain.seal
      PROVE  SealSound'
  <2>1. /\ Stream \in Tasks /\ RunOf[Stream] = drain.run /\ drain.run \in Runs
        /\ staging[drain.run].state = "staged"
    BY <1>k, StreamIs DEF DrainPlace, Staging
  <2>2. ~Archived(RunOf[Stream]) /\ (told[Stream].torn \/ Ended(Stream, drain.seal.holds))
    BY <1>k, <2>1 DEF RowsSound, SealSound
  <2>3. Stream' = Stream
    BY <1>k DEF Stream
  <2> SUFFICES ASSUME NEW u, u = Stream, NEW h, h = drain.seal.holds, ~told'[u].torn
               PROVE  Ended(u, h)'
    BY <1>k, <2>3 DEF SealSound, Ended
  <2> QED
    BY <1>m, <2>1, <2>2, EndedStays
<1>q0. ASSUME UNCHANGED drain PROVE SealSound'
  BY <1>q0, <1>i, <1>k
<1> DEFINE C == SealSound'
<1> SUFFICES C
  OBVIOUS
<1>q. UNCHANGED drain => C
  BY <1>q0
<1>z. UNCHANGED vars => C
  BY <1>q DEF vars, volatile, durable
<1>y. ASSUME NEW r \in Runs, Loses(r) PROVE C
  BY <1>q, <1>y DEF Loses, volatile, durable
<1>1. ASSUME Stops PROVE C
  <2>1. drain'.pc = "idle"
    BY <1>1 DEF Stops, Stop, Resting
  <2> QED
    BY <2>1, <1>i
<1>2. ASSUME NEW r \in Runs, Selects(r) PROVE C
  <2>1. drain'.pc \in {"snapshot", "verify"}
    BY <1>2, <1>t DEF Selects, GoTo, Resting
  <2> QED
    BY <2>1, <1>i
<1>3. ASSUME Snapshots PROVE C
  <2>1. drain'.pc \in {"commit", "seal"}
    BY <1>3, <1>t DEF Snapshots, GoTo, Resting
  <2> QED
    BY <2>1, <1>i
<1>4. ASSUME Seals(Stream) PROVE C
  <2> SUFFICES ASSUME NEW u, u = Stream, NEW h, h = Opened(journal[u]).accepted PROVE C
    OBVIOUS
  <2>1. /\ u \in Tasks /\ RunOf[u] = drain.run /\ drain.run \in Runs
        /\ staging[drain.run].state = "staged"
    BY <1>4, StreamIs DEF Seals, AtStep, DrainPlace, Staging
  <2>2. ~Archived(RunOf[u]) /\ Ended(u, h)
    BY <1>4, <2>1 DEF RowsSound, Ended, Seals, Opened
  <2>3. drain'.left = drain.left /\ drain'.seal.holds = h
    BY <1>4, <1>t DEF Seals, Opened
  <2>4. Stream' = u
    BY <2>3 DEF Stream
  <2>5. told'[u].torn \/ Ended(u, h)'
    BY <2>1, <2>2, EndedStays
  <2> QED
    BY <2>3, <2>4, <2>5 DEF SealSound, Ended
<1>5. ASSUME NEW f \in Files, HasFile(Stream, f) PROVE C
  <2>1. CASE f = "log"
    <3>1. drain.pc = "log" /\ drain'.left = drain.left /\ drain'.seal = drain.seal
      BY <1>5, <2>1, <1>t DEF HasFile, AfterFile, GoTo, AtStep
    <3> QED
      BY <3>1, <1>k
  <2>2. CASE f = "exit"
    <3>1. drain'.pc \in {"seal", "commit"}
      BY <1>5, <2>2, <1>t DEF HasFile, AfterFile, GoTo
    <3> QED
      BY <3>1, <1>i
  <2> QED
    BY <2>1, <2>2 DEF Files
<1>6. ASSUME NEW f \in Files, RenamesFile(Stream, f) PROVE C
  <2>1. CASE f = "log"
    <3>1. drain.pc = "log" /\ drain'.left = drain.left /\ drain'.seal = drain.seal
      BY <1>6, <2>1, <1>t DEF RenamesFile, AfterFile, GoTo, AtStep
    <3> QED
      BY <3>1, <1>k
  <2>2. CASE f = "exit"
    <3>1. drain'.pc \in {"seal", "commit"}
      BY <1>6, <2>2, <1>t DEF RenamesFile, AfterFile, GoTo
    <3> QED
      BY <3>1, <1>i
  <2> QED
    BY <2>1, <2>2 DEF Files
<1>7. ASSUME Commits PROVE C
  <2>1. drain'.pc \in {"verify"}
    BY <1>7, <1>t DEF Commits, GoTo, Resting
  <2> QED
    BY <2>1, <1>i
<1>8. ASSUME Verifies PROVE C
  <2>1. drain'.pc \in {"clean"}
    BY <1>8, <1>t DEF Verifies, GoTo, Resting
  <2> QED
    BY <2>1, <1>i
<1>9. ASSUME CleanScope PROVE C
  <2>1. drain'.pc \in {"unstage", "purge"}
    BY <1>9, <1>t DEF CleanScope, GoTo, Resting
  <2> QED
    BY <2>1, <1>i
<1>10. ASSUME PurgeJournal PROVE C
  <2>1. drain'.pc \in {"unstage", "purge"}
    BY <1>10, <1>t DEF PurgeJournal, GoTo, Resting
  <2> QED
    BY <2>1, <1>i
<1>11. ASSUME PurgeStaging PROVE C
  <2>1. drain'.pc \in {"idle"}
    BY <1>11, <1>t DEF PurgeStaging, GoTo, Resting
  <2> QED
    BY <2>1, <1>i
<1>12. ASSUME EnsureScope \/ Spawn \/ SpawnFails \/ NotLaunched \/ Exit \/ Settle \/
             Read \/ EndOfOutput
      PROVE  C
  BY <1>q, <1>12 DEF EnsureScope, Spawn, SpawnFails, NotLaunched, Exit, Settle, Read,
     EndOfOutput, KeepForDrain, KeepSources, volatile, durable
<1>13. ASSUME TakeItem \/ Accept \/ AcceptFails \/ Finish \/ Start \/ StartDrain \/
             Admit
      PROVE  C
  BY <1>q, <1>13 DEF TakeItem, Accept, AcceptFails, Finish, Start, StartDrain, Admit,
     KeepForDrain, KeepSources, volatile, durable
<1>14. ASSUME NEW f \in Files, WritesFile(Stream, f)
      PROVE  C
  BY <1>q, <1>14 DEF WritesFile, KeepForDrain, KeepSources, volatile, durable
<1>15. ASSUME NEW r \in Runs, NEW p \in Payloads, Stage(r, p)
      PROVE  C
  BY <1>q, <1>15 DEF Stage, KeepForDrain, KeepSources, volatile, durable
<1>16. ASSUME NEW t \in Tasks, Claim(t) \/ Expire(t) \/ CancelPending(t) \/
             Recovers(t)
      PROVE  C
  BY <1>q, <1>16 DEF Claim, Expire, CancelPending, Recovers, KeepForDrain, KeepSources,
     volatile, durable
<1>17. ASSUME NEW t \in Tasks, NEW op \in Ops, Send(t, op) \/ Mutate(t, op)
      PROVE  C
  BY <1>q, <1>17 DEF Send, Mutate, KeepForDrain, KeepSources, volatile, durable
<1> HIDE DEF C
<1> QED
  BY <1>q, <1>y, <1>z, <1>1, <1>2, <1>3, <1>4, <1>5, <1>6, <1>7, <1>8, <1>9, <1>10, <1>11, <1>12,
     <1>13, <1>14, <1>15, <1>16, <1>17, Kinds

LEMMA LogInit == ASSUME Init PROVE LogInv
<1>1. \A t \in Tasks : journal[t] = NoJournal /\ ~told[t].torn
  BY DEF Init
<1>2. RunningJournal /\ SealSound
  BY DEF Init, RunningJournal, SealSound, Idle, Resting
<1>3. LogsKept
  BY DEF Init, LogsKept
<1>4. FilesSound
  BY DEF Init, FilesSound, NoFile
<1> QED
  BY <1>1, <1>2, <1>3, <1>4 DEF LogInv, JournalsOpen, ScarsStay, CleanEndTellsLoss

LEMMA LogNext ==
  ASSUME Plain, LogInv, [Next]_vars PROVE LogInv'
<1>1. \A u \in Tasks : Moves(u)
  BY MovesNext DEF LogInv
<1>2. RunningJournal' /\ ScarsStay'
  BY RunningNext, ScarsNext DEF LogInv
<1>3. JournalsOpen' /\ CleanEndTellsLoss'
  <2>1. Typed' /\ \A u \in Tasks : told[u].torn => told'[u].torn
    BY PlainNext, TornStays DEF Plain
  <2> QED
    BY <1>1, <1>2, <2>1, OpenNext, CleanEndNext DEF LogInv
<1>4. LogsKept' /\ FilesSound' /\ SealSound'
  BY <1>1, LogsKeptNext, FilesNext, SealNext DEF LogInv
<1> QED
  BY <1>2, <1>3, <1>4 DEF LogInv

(***************************************************************************)
(* Whatever Tickr Lite acknowledged it still has, for any number of tasks, *)
(* runs, chunks, redelivered envelopes, repeated requests, failed appends, *)
(* lost scopes and crashes: the accepted records, the answered mutations   *)
(* and the acknowledged envelope are in the sources until CommitArchive    *)
(* has them.  The records excepted are those of a stream whose shipper     *)
(* went on behind an append that was cut short, where append_frame loses   *)
(* them (AcceptedIsKept, which a run refutes).                             *)
(***************************************************************************)
THEOREM AcknowledgedKept == Spec => []AcknowledgedIsKept
<1>1. Init => Plain /\ LogInv
  BY PlainInit, LogInit
<1>2. (Plain /\ LogInv) /\ [Next]_vars => (Plain /\ LogInv)'
  BY PlainNext, LogNext
<1>3. Plain /\ LogInv => AcknowledgedIsKept
  BY DEF Plain, LogInv, LogsKept, ValuesKept, RowsSound, AcknowledgedIsKept
<1> QED
  BY <1>1, <1>2, <1>3, PTL DEF Spec

(***************************************************************************)
(* A journal that ends with a controlled End-of-stream tells every chunk   *)
(* that was read: accepted or in a declared gap, and never both; a stream  *)
(* that a crash, a deadline or a failed append interrupted never ends so,  *)
(* and neither does one with a frame that was cut short.  For any buffer   *)
(* capacity and any interleaving of the reader, the publisher, the         *)
(* executor, the failed appends and the crashes.                           *)
(***************************************************************************)
THEOREM CleanEndIsHonest == Spec => []CleanEndTellsLoss
<1>1. Init => Plain /\ LogInv
  BY PlainInit, LogInit
<1>2. (Plain /\ LogInv) /\ [Next]_vars => (Plain /\ LogInv)'
  BY PlainNext, LogNext
<1>3. Plain /\ LogInv => CleanEndTellsLoss
  BY DEF LogInv
<1> QED
  BY <1>1, <1>2, <1>3, PTL DEF Spec
=============================================================================
