--------------------------- MODULE ReplayLifecycle ---------------------------
(***************************************************************************)
(* Replays of archived runs: ingress with its idempotency key, the drive   *)
(* (Trigger, rehydration of the tickr-ctx scope, Resume, settlement), the  *)
(* re-drives that repeat it, and the run the Control plane starts from the *)
(* seed, which may itself be archived and replayed.                        *)
(*                                                                         *)
(* In the distributed formation the scope is written key by key and an     *)
(* unleased loop re-drives; in Tickr Lite one transaction creates the      *)
(* scope and the worker re-drives under a lease.  The request's own drive  *)
(* holds no lease in either.  Re-drives may come at any time, so the       *)
(* minimum age of a row does not appear.  A send only queues the signal at *)
(* the relay, which may lose it; the Control plane knows a repeated one.   *)
(***************************************************************************)
EXTENDS ReplaySeed

CONSTANTS Requests,    \* replay requests, numbers above Origin; each is a run's id
          Keys,        \* idempotency keys; NoKey stands for a request without one
          Archives,    \* the archived graphs to start from: [edges, ground]
          Inputs,      \* what a request may ask: [resume_from, key, shadow]; the
                       \* empty resume_from asks for the default
          Formations,  \* subset of {"distributed", "lite"}
          MAX_SCOPE_REQUEST_VALUES,  \* values one request to Tickr Lite's store may hold
          MaxOpen,     \* bound on the replays in flight at once
          MaxFaults    \* bound on how often something goes wrong

Origin == 1
NoKey  == "none"
Runs   == {Origin} \cup Requests

ASSUME ReplayAssumption ==
  /\ Requests \subseteq Nat \ {0, Origin} /\ IsFiniteSet(Requests)
  /\ MaxOpen \in Nat \ {0} /\ MaxFaults \in Nat /\ MAX_SCOPE_REQUEST_VALUES \in Nat
  /\ IsFiniteSet(Nodes) /\ Start \notin Nodes /\ NoKey \notin Keys
  /\ Formations \subseteq {"distributed", "lite"}
  /\ Inputs \subseteq [resume_from : SUBSET Nodes, key : Keys \cup {NoKey}, shadow : BOOLEAN]

(* An archive holds a finite graph, executed until every Task had an outcome. *)
ASSUME ArchiveAssumption ==
  \A a \in Archives :
    /\ a.edges \subseteq [sources : SUBSET (Nodes \cup {Start}), targets : SUBSET Nodes]
    /\ IsFiniteSet(a.edges)
    /\ a.ground \in [Nodes -> {"Success", "Failed", "Cancelled"}]
    /\ Executed(a.edges, a.ground)

VARIABLES
  formation,   \* which formation runs
  edges,       \* the graph of the Workflow
  archive,     \* the archived runs
  replays,     \* table workflow_replays; status "none" where there is no row
  calls,       \* process_replay calls between their reads and the insert
  drives,      \* drives in flight
  scopes,      \* tickr-ctx scopes of the replays
  sent,        \* signals <<kind, id>> handed to the relay and still under way
  instances,   \* the replays' instances on the Control plane
  lost,        \* history: signals that went under when they were last sent
  rejected,    \* history: replays for which the store rejected a request
  faults       \* how often something went wrong

vars == <<formation, edges, archive, replays, calls, drives, scopes, sent, instances, lost,
          rejected, faults>>

Fault == faults < MaxFaults /\ faults' = faults + 1

NoDump    == [n \in Nodes |-> 0]
NoArchive == [present |-> FALSE, ground |-> [n \in Nodes |-> "Pending"], dump |-> NoDump,
              sentinel |-> FALSE, parent |-> 0]
NoReplay  == [status |-> "none", source |-> 0, key |-> NoKey, roots |-> {}, pre |-> {},
              shadow |-> FALSE, lease |-> "none"]
NoScope   == [namespace |-> "none", keys |-> NoDump, shadow |-> FALSE, sentinel |-> FALSE]

Init ==
  /\ formation \in Formations
  /\ \E a \in Archives : \E found \in BOOLEAN :
       /\ edges = a.edges
       /\ archive = [r \in Runs |->
            IF r = Origin /\ found
            THEN [NoArchive EXCEPT !.present = TRUE, !.ground = a.ground,
                    !.dump = [n \in Nodes |-> IF a.ground[n] = "Success" THEN Origin ELSE 0]]
            ELSE NoArchive]
  /\ replays = [r \in Requests |-> NoReplay]
  /\ calls = {} /\ drives = {} /\ sent = {} /\ lost = {} /\ rejected = {} /\ faults = 0
  /\ scopes = [r \in Requests |-> NoScope]
  /\ instances = [r \in Requests |-> [phase |-> "absent", ground |-> NoArchive.ground]]

-----------------------------------------------------------------------------
(* Ingress *)

(* A request mints a fresh id, here the least one not yet minted. *)
Minted    == {r \in Requests : replays[r].status # "none"} \cup {c.id : c \in calls}
Unused(r) == r \notin Minted /\ \A s \in Requests : s < r => s \in Minted

replay_by_idempotency(source, key) ==
  {r \in Requests : /\ key # NoKey /\ replays[r].status # "none"
                    /\ replays[r].source = source /\ replays[r].key = key}

(* The runs a source descends from, itself included, as far as archives go. *)
Chain(source) ==
  LET up[k \in Nat] == IF k = 0 THEN {source}
        ELSE LET below == up[k - 1]
             IN  below \cup {archive[s].parent : s \in {x \in below \ {0} : archive[x].present}}
  IN  {s \in up[Cardinality(Runs)] \ {0} : archive[s].present}

is_hydration_complete(source) == archive[source].parent # 0 => archive[source].sentinel

Roots(source, asked) ==
  IF asked = {} THEN default_resume_from(archive[source].ground) ELSE asked

Open == {r \in Requests : \/ \E d \in drives : d.id = r
                           \/ replays[r].status = "Materializing"
                           \/ <<"trigger", r>> \in sent \/ <<"resume", r>> \in sent
                           \/ instances[r].phase \in {"stalled", "running"}}

(* The bound on what is in flight; rivals for one key count once. *)
Room(source, key) ==
  LET others == {c \in calls : c.key = NoKey \/ <<c.source, c.key>> # <<source, key>>}
  IN  Cardinality(Open \cup {c.id : c \in others}) < MaxOpen

(* The reads that come before the insert: no row for the key, the archive,    *)
(* the seed, the ancestors.  A request whose key has a row, whose frontier    *)
(* cannot fire or whose source was never hydrated ends here without a trace.  *)
ReadSource(r, source, asks) ==
  LET roots == Roots(source, asks.resume_from) IN
  /\ Unused(r) /\ Room(source, asks.key)
  /\ replay_by_idempotency(source, asks.key) = {}
  /\ archive[source].present
  /\ Fireability(edges, archive[source].ground, roots) = "ok"
  /\ is_hydration_complete(source)
  /\ calls' = calls \cup
       {[id |-> r, source |-> source, key |-> asks.key, roots |-> roots,
         shadow |-> asks.shadow, status |-> "Materializing",
         pre |-> pre_grounded(edges, archive[source].ground, roots)]}
  /\ UNCHANGED <<formation, edges, archive, replays, drives, scopes, instances, sent, lost,
                 rejected, faults>>

(* An absent archive is parked durably. *)
ReadNothing(r, source, asks) ==
  /\ Unused(r) /\ Room(source, asks.key)
  /\ replay_by_idempotency(source, asks.key) = {}
  /\ ~archive[source].present
  /\ calls' = calls \cup
       {[id |-> r, source |-> source, key |-> asks.key, roots |-> {}, shadow |-> FALSE,
         status |-> "VersionUnresolvable", pre |-> {}]}
  /\ UNCHANGED <<formation, edges, archive, replays, drives, scopes, instances, sent, lost,
                 rejected, faults>>

(* Mutant: no unique index, the lookup alone keeps a key single. *)
NoConflict(c) == {}

(* The row the unique index finds in the way. *)
Conflict(c) == replay_by_idempotency(c.source, c.key)

NewDrive(r, kind, shadow) ==
  [id |-> r, kind |-> kind, shadow |-> shadow, at |-> "load", todo |-> {}]

insert_replay_lifecycle(c) ==
  /\ calls' = calls \ {c}
  /\ IF Conflict(c) # {} THEN UNCHANGED <<replays, drives>>
     ELSE /\ replays' = [replays EXCEPT ![c.id] =
               [status |-> c.status, source |-> c.source, key |-> c.key, roots |-> c.roots,
                pre |-> c.pre, shadow |-> c.shadow, lease |-> "none"]]
          /\ drives' = IF c.status = "Materializing"
                       THEN drives \cup {NewDrive(c.id, "request", c.shadow)} ELSE drives
  /\ UNCHANGED <<formation, edges, archive, scopes, instances, sent, lost, rejected, faults>>

-----------------------------------------------------------------------------
(* Re-drives: only the request itself knows the shadow values *)

Redrive(r) ==
  /\ formation = "distributed" /\ replays[r].status = "Materializing"
  /\ \A d \in drives : d.id = r => d.kind # "redrive"
  /\ drives' = drives \cup {NewDrive(r, "redrive", FALSE)}
  /\ UNCHANGED <<formation, edges, archive, replays, calls, scopes, instances, sent, lost,
                 rejected, faults>>

(* Mutant: a lease that ran out still keeps the row. *)
NeverLeased(r) == replays[r].status = "Materializing" /\ replays[r].lease = "none"

LeaseEligible(r) == replays[r].status = "Materializing" /\ replays[r].lease # "live"

(* The one local worker leases what it finds and drives it row by row. *)
lease_replays ==
  /\ formation = "lite" /\ \A d \in drives : d.kind # "leased"
  /\ \E r \in Requests : LeaseEligible(r)
  /\ replays' = [r \in Requests |-> IF LeaseEligible(r) THEN [replays[r] EXCEPT !.lease = "live"]
                                    ELSE replays[r]]
  /\ drives' = drives \cup {NewDrive(r, "leased", FALSE) : r \in {x \in Requests : LeaseEligible(x)}}
  /\ UNCHANGED <<formation, edges, archive, calls, scopes, instances, sent, lost, rejected,
                 faults>>

LeaseExpires(r) ==
  /\ replays[r].lease = "live" /\ replays[r].status = "Materializing"
  /\ IF \E d \in drives : d.id = r /\ d.kind = "leased" THEN Fault ELSE UNCHANGED faults
  /\ replays' = [replays EXCEPT ![r].lease = "expired"]
  /\ UNCHANGED <<formation, edges, archive, calls, drives, scopes, instances, sent, lost,
                 rejected>>

-----------------------------------------------------------------------------
(* The drive, step by step *)

Advance(d, to) == drives' = (drives \ {d}) \cup {to}
Leave(d)       == drives' = drives \ {d}

born_stalled(r) == replays[r].pre # {}

Plan(r) == plan_rehydration(archive[replays[r].source].dump, Chain(replays[r].source),
                            replays[r].source, replays[r].pre)

(* A settled row ends the drive before any effect. *)
load_replay_drive(d) ==
  /\ d.at = "load"
  /\ IF replays[d.id].status = "Materializing"
     THEN Advance(d, [d EXCEPT !.at = "trigger"]) ELSE Leave(d)
  /\ UNCHANGED <<formation, edges, archive, replays, calls, scopes, instances, sent, lost,
                 rejected, faults>>

AfterTrigger(d) ==
  IF born_stalled(d.id) \/ d.shadow
  THEN [d EXCEPT !.at = "hydrate", !.todo = Plan(d.id)] ELSE [d EXCEPT !.at = "settle"]

(* Mutant: nothing releases the birth-time stall. *)
AfterHydrationSettles(d) == [d EXCEPT !.at = "settle"]

AfterHydration(d) == [d EXCEPT !.at = IF born_stalled(d.id) THEN "resume" ELSE "settle"]

(* send_signal: the relay's queue takes the signal, whatever becomes of it.   *)
Send(signal) == sent' = sent \cup {signal} /\ lost' = lost \ {signal}

SendTrigger(d) ==
  /\ d.at = "trigger" /\ Advance(d, AfterTrigger(d)) /\ Send(<<"trigger", d.id>>)
  /\ UNCHANGED <<formation, edges, archive, replays, calls, scopes, instances, rejected,
                 faults>>

(* apply_rehydration: one put after the other, in the order of the names, the *)
(* sentinel last.                                                             *)
FirstKey(d) == CHOOSE n \in d.todo : TRUE

PutCarried(d, n) ==
  /\ formation = "distributed" /\ d.at = "hydrate" /\ n = FirstKey(d)
  /\ scopes' = [scopes EXCEPT ![d.id].namespace = "default",
                  ![d.id].keys[n] = archive[replays[d.id].source].dump[n]]
  /\ Advance(d, [d EXCEPT !.todo = @ \ {n}])
  /\ UNCHANGED <<formation, edges, archive, replays, calls, instances, sent, lost,
                 rejected, faults>>

PutShadow(d) ==
  /\ formation = "distributed" /\ d.at = "hydrate" /\ d.todo = {} /\ d.shadow
  /\ scopes' = [scopes EXCEPT ![d.id].namespace = "default", ![d.id].shadow = TRUE]
  /\ Advance(d, [d EXCEPT !.at = "sentinel"])
  /\ UNCHANGED <<formation, edges, archive, replays, calls, instances, sent, lost,
                 rejected, faults>>

PutSentinel(d) ==
  /\ formation = "distributed" /\ d.todo = {}
  /\ d.at = "sentinel" \/ (d.at = "hydrate" /\ ~d.shadow)
  /\ scopes' = [scopes EXCEPT ![d.id].namespace = "default", ![d.id].sentinel = TRUE]
  /\ Advance(d, AfterHydration(d))
  /\ UNCHANGED <<formation, edges, archive, replays, calls, instances, sent, lost,
                 rejected, faults>>

(* validate_mutation counts the carried keys, the shadow value and the        *)
(* sentinel; the bound on their bytes rejects in the same way.                *)
TooMany(d) ==
  Cardinality(d.todo) + (IF d.shadow THEN 2 ELSE 1) > MAX_SCOPE_REQUEST_VALUES

(* The store answers Rejected before it looks at anything, and the sender     *)
(* takes any answer but an error for success: the drive goes on.              *)
CreateScopeRejected(d) ==
  /\ formation = "lite" /\ d.at = "hydrate" /\ TooMany(d)
  /\ rejected' = rejected \cup {d.id}
  /\ Advance(d, [AfterHydration(d) EXCEPT !.todo = {}])
  /\ UNCHANGED <<formation, edges, archive, replays, calls, scopes, instances, sent, lost,
                 faults>>

(* Tickr Lite creates the scope with all of it at once, in the namespace      *)
(* "replay".  Where an earlier drive created it the store answers Idempotent  *)
(* or ClaimConflict, which is success as well.                                *)
CreateScope(d) ==
  /\ formation = "lite" /\ d.at = "hydrate" /\ ~TooMany(d) /\ scopes[d.id].namespace # "default"
  /\ scopes' = IF scopes[d.id].namespace = "replay" THEN scopes
       ELSE [scopes EXCEPT ![d.id] =
              [namespace |-> "replay", shadow |-> d.shadow, sentinel |-> TRUE,
               keys |-> [n \in Nodes |-> IF n \in d.todo
                                         THEN archive[replays[d.id].source].dump[n] ELSE 0]]]
  /\ Advance(d, [AfterHydration(d) EXCEPT !.todo = {}])
  /\ UNCHANGED <<formation, edges, archive, replays, calls, instances, sent, lost,
                 rejected, faults>>

GiveBack(d) ==
  /\ Leave(d)
  /\ replays' = IF d.kind = "leased" THEN [replays EXCEPT ![d.id].lease = "none"] ELSE replays

(* Where a Task or compaction created it in the namespace "default", no row   *)
(* has the claim or the (namespace, run) pair and the insert fails on the     *)
(* scope's identity.                                                          *)
CreateScopeRefused(d) ==
  /\ formation = "lite" /\ d.at = "hydrate" /\ ~TooMany(d) /\ scopes[d.id].namespace = "default"
  /\ GiveBack(d)
  /\ UNCHANGED <<formation, edges, archive, calls, scopes, instances, sent, lost, rejected,
                 faults>>

SendResume(d) ==
  /\ d.at = "resume" /\ Advance(d, [d EXCEPT !.at = "settle"]) /\ Send(<<"resume", d.id>>)
  /\ UNCHANGED <<formation, edges, archive, replays, calls, scopes, instances, rejected,
                 faults>>

(* Only a lease that is still live settles for the worker. *)
SettleReleased(d) ==
  /\ d.at = "settle" /\ Leave(d)
  /\ replays' = IF /\ replays[d.id].status = "Materializing"
                   /\ d.kind = "leased" => replays[d.id].lease = "live"
                THEN [replays EXCEPT ![d.id].status = "Released", ![d.id].lease = "none"]
                ELSE replays
  /\ UNCHANGED <<formation, edges, archive, calls, scopes, instances, sent, lost, rejected,
                 faults>>

(* A send or a put fails: the row stays Materializing, a lease is given back. *)
DriveFails(d) ==
  /\ Fault /\ GiveBack(d)
  /\ UNCHANGED <<formation, edges, archive, calls, scopes, instances, sent, lost, rejected>>

DriveStep(d) ==
  \/ load_replay_drive(d) \/ SendTrigger(d)
  \/ \E n \in d.todo : PutCarried(d, n)
  \/ PutShadow(d) \/ PutSentinel(d)
  \/ CreateScope(d) \/ CreateScopeRejected(d) \/ CreateScopeRefused(d)
  \/ SendResume(d) \/ SettleReleased(d)

(* A process dies.  Tickr Lite has one; of several Conductors one dies with   *)
(* the calls and drives it held.                                              *)
Crash ==
  /\ Fault
  /\ \E lostCalls \in SUBSET calls, lostDrives \in SUBSET drives :
       /\ lostCalls \cup lostDrives # {}
       /\ formation = "lite" => lostCalls = calls /\ lostDrives = drives
       /\ calls' = calls \ lostCalls /\ drives' = drives \ lostDrives
  /\ UNCHANGED <<formation, edges, archive, replays, scopes, instances, sent, lost, rejected>>

-----------------------------------------------------------------------------
(* The run on the Control plane (external) and its archive *)

(* The first Trigger makes the Control plane start the run from the seed. *)
ArriveTrigger(r) ==
  /\ <<"trigger", r>> \in sent /\ sent' = sent \ {<<"trigger", r>>}
  /\ instances' = IF instances[r].phase # "absent" THEN instances
       ELSE [instances EXCEPT ![r] =
              [phase |-> IF born_stalled(r) THEN "stalled" ELSE "running",
               ground |-> seeded_ground(edges, archive[replays[r].source].ground,
                                        replays[r].roots)]]
  /\ UNCHANGED <<formation, edges, archive, replays, calls, drives, scopes, lost, rejected,
                 faults>>

(* A Resume comes behind its Trigger; without a run it goes under. *)
ArriveResume(r) ==
  /\ <<"resume", r>> \in sent /\ sent' = sent \ {<<"resume", r>>}
  /\ instances[r].phase = "absent" => <<"trigger", r>> \notin sent
  /\ instances' = IF instances[r].phase = "stalled"
                  THEN [instances EXCEPT ![r].phase = "running"] ELSE instances
  /\ lost' = IF instances[r].phase = "absent" THEN lost \cup {<<"resume", r>>} ELSE lost
  /\ UNCHANGED <<formation, edges, archive, replays, calls, drives, scopes, rejected, faults>>

(* The relay's stream breaks before the signal is out. *)
SignalLost(s) ==
  /\ s \in sent /\ Fault
  /\ sent' = sent \ {s} /\ lost' = lost \cup {s}
  /\ UNCHANGED <<formation, edges, archive, replays, calls, drives, scopes, instances,
                 rejected>>

Fires(r, n) == /\ instances[r].phase = "running" /\ instances[r].ground[n] = "Pending"
               /\ has_all_success_incident_edge(edges, instances[r].ground, n)

(* Tickr Lite creates the scope of a run again, in the namespace "default",   *)
(* for each Task it launches and when it stages the compaction: the same      *)
(* claim is Idempotent, but the scope of a rehydration is in the way.         *)
ScopeUsable(r) == formation = "lite" => scopes[r].namespace # "replay"

Opened(r) == [scopes[r] EXCEPT !.namespace = "default"]

(* A Task that succeeds has written its key into the scope of its run. *)
TaskSucceeds(r, n) ==
  /\ Fires(r, n) /\ ScopeUsable(r)
  /\ instances' = [instances EXCEPT ![r].ground[n] = "Success"]
  /\ scopes' = [scopes EXCEPT ![r] = [Opened(r) EXCEPT !.keys[n] = r]]
  /\ UNCHANGED <<formation, edges, archive, replays, calls, drives, sent, lost, rejected,
                 faults>>

TaskFails(r, n) ==
  /\ Fires(r, n) /\ ScopeUsable(r) /\ Fault
  /\ instances' = [instances EXCEPT ![r].ground[n] = "Failed"]
  /\ scopes' = [scopes EXCEPT ![r] = Opened(r)]
  /\ UNCHANGED <<formation, edges, archive, replays, calls, drives, sent, lost, rejected>>

(* The launch ends in an error, reported as the Task's failure. *)
LaunchRefused(r, n) ==
  /\ Fires(r, n) /\ ~ScopeUsable(r)
  /\ instances' = [instances EXCEPT ![r].ground[n] = "Failed"]
  /\ UNCHANGED <<formation, edges, archive, replays, calls, drives, sent, lost, rejected,
                 scopes, faults>>

Quiet(r) == instances[r].phase = "running" /\ \A n \in Nodes : ~Fires(r, n)

(* The run ends, because nothing fires or because it is cancelled before its  *)
(* release, and is compacted: what never ran is cancelled.  Without a usable  *)
(* scope the compaction is refused.                                           *)
RunEnds(r) ==
  /\ instances[r].phase = "stalled" \/ Quiet(r)
  /\ instances' = [instances EXCEPT ![r].phase = "ended"]
  /\ IF ScopeUsable(r)
     THEN /\ scopes' = [scopes EXCEPT ![r] = Opened(r)]
          /\ archive' = [archive EXCEPT ![r] =
               [present |-> TRUE, dump |-> scopes[r].keys, sentinel |-> scopes[r].sentinel,
                parent |-> replays[r].source,
                ground |-> [n \in Nodes |-> IF instances[r].ground[n] = "Pending"
                                            THEN "Cancelled" ELSE instances[r].ground[n]]]]
     ELSE UNCHANGED <<scopes, archive>>
  /\ UNCHANGED <<formation, edges, replays, calls, drives, sent, lost, rejected, faults>>

-----------------------------------------------------------------------------
Request(r) ==
  \E source \in {Origin} \cup {s \in Requests : replays[s].status # "none"}, asks \in Inputs :
    ReadSource(r, source, asks) \/ ReadNothing(r, source, asks)

Next ==
  \/ \E r \in Requests : \/ Request(r) \/ Redrive(r) \/ LeaseExpires(r) \/ RunEnds(r)
                         \/ ArriveTrigger(r) \/ ArriveResume(r)
                         \/ \E n \in Nodes : TaskSucceeds(r, n) \/ TaskFails(r, n) \/ LaunchRefused(r, n)
  \/ \E c \in calls : insert_replay_lifecycle(c)
  \/ \E d \in drives : DriveStep(d) \/ DriveFails(d)
  \/ \E s \in sent : SignalLost(s)
  \/ lease_replays \/ Crash

Spec == Init /\ [][Next]_vars

(* Drives go on, re-drives are periodic and leases run out. *)
Fairness ==
  /\ WF_vars(lease_replays)
  /\ \A r \in Requests :
       /\ WF_vars(Redrive(r))
       /\ WF_vars((\A d \in drives : d.id # r) /\ LeaseExpires(r))
       /\ WF_vars(\E d \in drives : d.id = r /\ DriveStep(d))

FairSpec == Spec /\ Fairness
-----------------------------------------------------------------------------
(* Properties *)

Grounds == {"Pending", "Success", "Failed", "Cancelled"}
Call    == [id : Requests, source : Runs, key : Keys \cup {NoKey}, roots : SUBSET Nodes,
            shadow : BOOLEAN, status : {"Materializing", "VersionUnresolvable"},
            pre : SUBSET Nodes]
Drive   == [id : Requests, kind : {"request", "redrive", "leased"}, shadow : BOOLEAN,
            at : {"load", "trigger", "hydrate", "sentinel", "resume", "settle"},
            todo : SUBSET Nodes]
Signal  == {"trigger", "resume"} \X Requests

(* The rows, drives, scopes and runs hold values of their types. *)
TypeOK ==
  /\ formation \in Formations
  /\ edges \subseteq [sources : SUBSET (Nodes \cup {Start}), targets : SUBSET Nodes]
  /\ archive \in [Runs -> [present : BOOLEAN, ground : [Nodes -> Grounds],
                           dump : [Nodes -> Runs \cup {0}], sentinel : BOOLEAN,
                           parent : Runs \cup {0}]]
  /\ replays \in [Requests -> [status : {"none", "Materializing", "Released", "VersionUnresolvable"},
                               source : Runs \cup {0}, key : Keys \cup {NoKey},
                               roots : SUBSET Nodes, pre : SUBSET Nodes, shadow : BOOLEAN,
                               lease : {"none", "live", "expired"}]]
  /\ calls \subseteq Call /\ drives \subseteq Drive
  /\ scopes \in [Requests -> [namespace : {"none", "default", "replay"},
                              keys : [Nodes -> Runs \cup {0}], shadow : BOOLEAN,
                              sentinel : BOOLEAN]]
  /\ instances \in [Requests -> [phase : {"absent", "stalled", "running", "ended"},
                                 ground : [Nodes -> Grounds]]]
  /\ sent \subseteq Signal /\ lost \subseteq Signal /\ rejected \subseteq Requests
  /\ faults \in 0..MaxFaults

(* insert_replay_lifecycle: two requests with one idempotency key that race   *)
(* past the lookup start one run between them.                                *)
OneReplayPerKey ==
  \A r, s \in Requests :
    /\ replays[r].status # "none" /\ replays[s].status # "none"
    /\ replays[r].key # NoKey /\ replays[r].key = replays[s].key
    /\ replays[r].source = replays[s].source
    => r = s

(* The run that last executed n on the way to the replay r. *)
LastRan(r, n) ==
  LET at[k \in Nat] ==
        IF k = 0 THEN replays[r].source
        ELSE LET s == at[k - 1]
             IN  IF s # Origin /\ n \in replays[s].pre THEN replays[s].source ELSE s
  IN  at[Cardinality(Runs)]

(* perform_drive_effects: however often the drive fails and is repeated, a    *)
(* born-Stalled run executes only once its scope has the sentinel and, for    *)
(* every Task that keeps its success, the output of the run that last         *)
(* executed it, any number of replays back.  Excepted are the replays whose   *)
(* scope Tickr Lite's store rejected: SentinelBeforeRelease.                  *)
ScopeReadyBeforeRun ==
  \A r \in Requests : instances[r].phase = "running" /\ born_stalled(r) /\ r \notin rejected =>
    /\ scopes[r].sentinel
    /\ \A n \in replays[r].pre :
         instances[r].ground[n] = "Success" => scopes[r].keys[n] = LastRan(r, n)

(* validate_fireability: the nodes the response names as blocked are the ones *)
(* that stay blocked; a replay in which nothing fails runs all the others.    *)
DoomedExactly ==
  \A r \in Requests : instances[r].phase = "running" =>
    LET blocked == doomed(edges, archive[replays[r].source].ground, replays[r].roots)
        waiting == {n \in Nodes : instances[r].ground[n] = "Pending"}
    IN  /\ blocked \subseteq waiting
        /\ Quiet(r) /\ (\A n \in Nodes \ replays[r].pre : instances[r].ground[n] # "Failed")
           => waiting = blocked

(* default_resume_from: the default frontier of a run with a failed Task can  *)
(* fire, also when the run is itself a replay whose failed Tasks were in part *)
(* carried over.                                                              *)
DefaultResumeFires ==
  \A s \in Runs : archive[s].present =>
    Fireability(edges, archive[s].ground, default_resume_from(archive[s].ground)) # "RootUnfireable"

(* The run exists and left its birth-time stall, or the signal that does it   *)
(* is under way, or was lost when it was last sent.                           *)
Outbound(r) ==
  \/ instances[r].phase \notin {"absent", "stalled"}
  \/ <<IF born_stalled(r) THEN "resume" ELSE "trigger", r>> \in sent \cup lost

(* settle_replay_released: no late drive reopens a settled row, and a row     *)
(* tells Released only when its run was released as far as the Conductor can: *)
(* what the relay loses after that nobody sends again.                        *)
ReleasedIsFinal ==
  [][\A r \in Requests :
       /\ replays[r].status \in {"Released", "VersionUnresolvable"} => replays'[r] = replays[r]
       /\ replays'[r].status = "Released" => Outbound(r)']_vars

(* redrive_unsettled, start_local_replay_worker: after a failed drive, a      *)
(* crash or a lost lease every accepted replay is released.  The exception is *)
(* Tickr Lite's replay that is cancelled before its scope is written:         *)
(* compaction then holds the scope and every later drive fails on it.         *)
ReplaysSettle ==
  \A r \in Requests :
    replays[r].status = "Materializing" ~>
      \/ replays[r].status = "Released"
      \/ formation = "lite" /\ born_stalled(r) /\ scopes[r].namespace = "default"

(* replay_rehydration: "the born-Stall is released via the idempotent          *)
(* resume_instance only after the sentinel has landed".                       *)
SentinelBeforeRelease ==
  \A r \in Requests : <<"resume", r>> \in sent => scopes[r].sentinel

(* LiteReplayRelaySender: the Tasks of a released run find the scope its      *)
(* rehydration wrote and can be launched.                                     *)
ReleasedRunCanLaunch ==
  \A r \in Requests : instances[r].phase = "running" => ScopeUsable(r)
=============================================================================
