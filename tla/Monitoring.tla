----------------------------- MODULE Monitoring -----------------------------
(***************************************************************************)
(* Heartbeats and worker sweeps.  A heartbeat stores a row and the device's *)
(* last_seen_at; a sweep moves maintenance windows along and opens and      *)
(* resolves alarms for all devices, in one transaction.                     *)
(*                                                                          *)
(* A sweep and a heartbeat run once; a retry is another one.  All are READ  *)
(* COMMITTED: each action is one statement and reads what is committed then *)
(* and what its own transaction wrote.  An UPDATE locks the rows it writes, *)
(* one after the other in an order SQL leaves open; an INSERT locks its key *)
(* in the unique index, and fails if it finds the key committed.            *)
(***************************************************************************)
EXTENDS Integers, Sequences, FiniteSets

CONSTANTS
  None,             \* SQL NULL, an absent row
  Sweeps,           \* runs of the worker
  Beats,            \* heartbeat requests
  Devices,          \* ids of devices
  ActiveDevices,    \* those with status ACTIVE
  FirstSeen,        \* [Devices -> last_seen_at or None], those at the start
  Windows,          \* maintenance windows that are not over or cancelled
  DeviceOf,         \* [Windows -> Devices or None]
  StartsAt,         \* [Windows -> starts_at]
  EndsAt,           \* [Windows -> ends_at]
  FirstStatus,      \* [Windows -> status at the start]
  Executions,       \* executions that may fail
  ExecutedBy,       \* [Executions -> Devices]
  ExecutedAt,       \* [Executions -> created_at]
  OfflineAfter,     \* 120 s, in ticks of the instance
  AlarmAfter,       \* 5 min
  FailurePeriod,    \* 10 min
  FailureLimit,     \* 3
  StartTime,        \* the clock when all these are there
  MaxTime,          \* bound of the clock
  FirstAlarms       \* tables of alarms there may be at the start

ASSUME ActorsAssumption ==
  IsFiniteSet(Sweeps) /\ Sweeps \cap Beats = {} /\ None \notin Sweeps \cup Beats

ASSUME DevicesAssumption ==
  /\ Devices \subseteq Nat /\ IsFiniteSet(Devices) /\ ActiveDevices \subseteq Devices
  /\ FirstSeen \subseteq [Devices -> (0 .. StartTime) \cup {None}]
  /\ None \notin Nat

ASSUME WindowsAssumption ==
  /\ DeviceOf \in [Windows -> Devices \cup {None}]
  /\ StartsAt \in [Windows -> Nat] /\ EndsAt \in [Windows -> Nat]
  /\ FirstStatus \in [Windows -> {"SCHEDULED", "ACTIVE"}]
  /\ \A w \in Windows : StartsAt[w] < EndsAt[w]
  /\ \A w \in Windows : FirstStatus[w] = "ACTIVE" => StartsAt[w] <= StartTime

ASSUME ExecutionsAssumption ==
  /\ IsFiniteSet(Executions)
  /\ ExecutedBy \in [Executions -> Devices] /\ ExecutedAt \in [Executions -> Nat]

ASSUME TimesAssumption ==
  /\ OfflineAfter \in Nat \ {0} /\ AlarmAfter \in Nat /\ OfflineAfter < AlarmAfter
  /\ FailurePeriod \in Nat /\ FailureLimit \in Nat \ {0}
  /\ StartTime \in Nat /\ MaxTime \in Nat

Actors == Sweeps \cup Beats

\* alarm_key: "device:<id>:offline" and "device:<id>:execution-failures".
AlarmKeys == {"offline", "failures"} \X Devices

AlarmRows == [key : AlarmKeys, status : {"OPEN", "RESOLVED"}, openedAt : Nat,
              closedAt : Nat \cup {None}]

\* The rows of a table of alarms that are open for a key.
OpenIn(table, k) == {i \in DOMAIN table : table[i].key = k /\ table[i].status = "OPEN"}

ASSUME AlarmsAssumption ==
  \A table \in FirstAlarms :
    table \in Seq(AlarmRows) /\ \A k \in AlarmKeys : Cardinality(OpenIn(table, k)) <= 1

\* What a transaction can lock: rows of maintenance_windows, rows of
\* device_current_states (and their primary keys), and for each alarm key its
\* open row and its entry in the unique index of open alarms.
Locks == ({"window"} \X Windows) \cup ({"state"} \X Devices) \cup AlarmKeys

SweepPlaces == {"activate", "complete", "maintenance", "devices", "lookup",
                "evaluate", "failures"}
BeatPlaces == {"find", "insert", "update"}
InTransaction == SweepPlaces \cup BeatPlaces \cup {"commit"}
Ended == {"done", "failed"}

VARIABLES
  window,      \* maintenance_windows.status
  lastSeen,    \* device_current_states.last_seen_at, None for no row
  heartbeats,  \* device_heartbeats: [by, device, at], by is the request or None
  alarms,      \* the rows of alarms in the order of their commits
  failed,      \* executions with status FAILED
  clock,
  owner,       \* who holds each lock, None when free
  pc,          \* where each sweep and each heartbeat is
  now,         \* "now" of each
  sweep,       \* what each sweep has read and written
  device,      \* the device of each heartbeat
  since        \* history: what was committed when each of them began

dbVars == << window, lastSeen, heartbeats, alarms >>
vars == << dbVars, failed, clock, owner, pc, now, sweep, device, since >>

NothingBefore == [open |-> {}, closed |-> {}, beats |-> {}]

\* A sweep that has read and written nothing.
NewSweep ==
  [activated |-> {}, completed |-> {},  \* windows it has written
   maintenance |-> {},                  \* devices it found in maintenance
   seen |-> [d \in Devices |-> None],   \* last_seen_at it read
   todo |-> {},                         \* keys its loop has still to visit
   key |-> None, existing |-> None,     \* the key it is at, the open row it found
   opened |-> << >>, resolved |-> {}]   \* keys it inserted, rows it resolved

Init ==
  /\ window = FirstStatus
  /\ lastSeen \in FirstSeen
  /\ heartbeats = {[by |-> None, device |-> d, at |-> lastSeen[d]] :
                     d \in {e \in Devices : lastSeen[e] # None}}
  /\ alarms \in FirstAlarms
  /\ \A i \in DOMAIN alarms, d \in Devices : alarms[i].key = << "offline", d >> =>
       /\ lastSeen[d] # None
       /\ IF alarms[i].status = "OPEN" THEN lastSeen[d] + AlarmAfter < alarms[i].openedAt
          ELSE alarms[i].closedAt # None /\ alarms[i].closedAt <= lastSeen[d] + OfflineAfter
  /\ failed = {}
  /\ clock = StartTime
  /\ owner = [l \in Locks |-> None]
  /\ pc = [a \in Actors |-> "idle"]
  /\ now = [a \in Actors |-> StartTime]
  /\ sweep = [s \in Sweeps |-> NewSweep]
  /\ device = [b \in Beats |-> None]
  /\ since = [a \in Actors |-> NothingBefore]

Goto(a, place) == pc' = [pc EXCEPT ![a] = place]

TakeLock(a, l) == owner[l] \in {None, a} /\ owner' = [owner EXCEPT ![l] = a]

\* Mutation: locks outlive the transaction.
KeepLocks(a) == owner' = owner

\* Postgres drops a transaction's locks when it ends.
ReleaseLocks(a) == owner' = [l \in Locks |-> IF owner[l] = a THEN None ELSE owner[l]]

\* "now" is read before the first statement.
Start(a) ==
  /\ now' = [now EXCEPT ![a] = clock]
  /\ since' = [since EXCEPT ![a] =
       [open |-> {i \in DOMAIN alarms : alarms[i].status = "OPEN"},
        closed |-> {i \in DOMAIN alarms : alarms[i].status = "RESOLVED"},
        beats |-> heartbeats]]

\* Rollback and the exception that caused it: what it had read is gone too.
Fail(a) ==
  /\ ReleaseLocks(a)
  /\ Goto(a, "failed")
  /\ sweep' = [s \in Sweeps |-> IF s = a THEN NewSweep ELSE sweep[s]]
  /\ now' = [now EXCEPT ![a] = StartTime]
  /\ since' = [since EXCEPT ![a] = NothingBefore]
  /\ UNCHANGED << dbVars, failed, clock, device >>
-----------------------------------------------------------------------------
(* The sweep. *)

Begin(s) ==
  /\ pc[s] = "idle"
  /\ Start(s)
  /\ Goto(s, "activate")
  /\ UNCHANGED << dbVars, failed, clock, owner, sweep, device >>

\* A window's status as sweep s reads it: its own write or the committed one.
StatusFor(s, w) ==
  IF w \in sweep[s].completed THEN "COMPLETED"
  ELSE IF w \in sweep[s].activated THEN "ACTIVE" ELSE window[w]

Covers(w, t) == StartsAt[w] <= t /\ t < EndsAt[w]

\* Mutation: no look at the status.
ToActivateAnyStatus(s) == {w \in Windows \ sweep[s].activated : Covers(w, now[s])}

ToActivate(s) == {w \in Windows : StatusFor(s, w) = "SCHEDULED" /\ Covers(w, now[s])}
ToComplete(s) ==
  {w \in Windows : StatusFor(s, w) \in {"SCHEDULED", "ACTIVE"} /\ EndsAt[w] <= now[s]}

Keep == << dbVars, failed, clock, now, device, since >>

(***************************************************************************)
(* UPDATE maintenance_windows: waits for a row that another sweep has       *)
(* written and then looks again whether its WHERE still holds.              *)
(***************************************************************************)
Activate(s) ==
  /\ pc[s] = "activate"
  /\ \E w \in ToActivate(s) :
       /\ TakeLock(s, << "window", w >>)
       /\ sweep' = [sweep EXCEPT ![s].activated = @ \cup {w}]
  /\ UNCHANGED << Keep, pc >>

EndActivate(s) ==
  /\ pc[s] = "activate"
  /\ ToActivate(s) = {}
  /\ Goto(s, "complete")
  /\ UNCHANGED << Keep, owner, sweep >>

Complete(s) ==
  /\ pc[s] = "complete"
  /\ \E w \in ToComplete(s) :
       /\ TakeLock(s, << "window", w >>)
       /\ sweep' = [sweep EXCEPT ![s].completed = @ \cup {w}]
  /\ UNCHANGED << Keep, pc >>

EndComplete(s) ==
  /\ pc[s] = "complete"
  /\ ToComplete(s) = {}
  /\ Goto(s, "maintenance")
  /\ UNCHANGED << Keep, owner, sweep >>

\* Mutation: the committed windows, without the sweep's own writes.
InMaintenanceCommitted(s) ==
  {DeviceOf[w] : w \in {v \in Windows : window[v] = "ACTIVE" /\ Covers(v, now[s])}} \ {None}

InMaintenance(s) ==
  {DeviceOf[w] : w \in {v \in Windows : StatusFor(s, v) = "ACTIVE" /\ Covers(v, now[s])}}
    \ {None}

ReadMaintenance(s) ==
  /\ pc[s] = "maintenance"
  /\ sweep' = [sweep EXCEPT ![s].maintenance = InMaintenance(s)]
  /\ Goto(s, "devices")
  /\ UNCHANGED << Keep, owner >>

\* One SELECT for all devices: the loop after it knows no later heartbeat.
ReadDevices(s) ==
  /\ pc[s] = "devices"
  /\ sweep' = [sweep EXCEPT ![s].seen = lastSeen,
                            ![s].todo = {"offline"} \X ActiveDevices]
  /\ Goto(s, IF ActiveDevices = {} THEN "failures" ELSE "lookup")
  /\ UNCHANGED << Keep, owner >>

OpenRows(k) == OpenIn(alarms, k)

\* SELECT id FROM alarms ... LIMIT 1.  The devices come ORDER BY d.id, the
\* groups of failed executions in any order.
Lookup(s) ==
  /\ pc[s] = "lookup"
  /\ \E k \in sweep[s].todo :
       /\ k[1] = "offline" => \A j \in sweep[s].todo : k[2] <= j[2]
       /\ \E existing \in IF OpenRows(k) = {} THEN {None} ELSE OpenRows(k) :
            sweep' = [sweep EXCEPT ![s].key = k,
                                   ![s].todo = @ \ {k},
                                   ![s].existing = existing]
  /\ Goto(s, "evaluate")
  /\ UNCHANGED << Keep, owner >>

\* Mutation: off by one at the limit.
SilentForAtLimit(s, d, period) ==
  sweep[s].seen[d] # None /\ sweep[s].seen[d] + period <= now[s]

SilentFor(s, d, period) ==
  sweep[s].seen[d] # None /\ sweep[s].seen[d] + period < now[s]

\* Mutation: due as soon as the device counts as offline.
AlarmIsDueOffline(s) ==
  LET k == sweep[s].key
  IN  \/ k[1] = "failures"
      \/ SilentFor(s, k[2], OfflineAfter) /\ k[2] \notin sweep[s].maintenance

\* What the loop body decides for the key it is at.
AlarmIsDue(s) ==
  LET k == sweep[s].key
  IN  \/ k[1] = "failures"
      \/ SilentFor(s, k[2], AlarmAfter) /\ k[2] \notin sweep[s].maintenance

MustOpen(s) == AlarmIsDue(s) /\ sweep[s].existing = None

\* Mutation: resolved as soon as the alarm is no longer due.
MustResolveEarly(s) == ~AlarmIsDue(s) /\ sweep[s].existing # None

MustResolve(s) ==
  /\ ~AlarmIsDue(s)
  /\ ~SilentFor(s, sweep[s].key[2], OfflineAfter)
  /\ sweep[s].existing # None

NextKey(s) ==
  Goto(s, IF sweep[s].todo # {} THEN "lookup"
          ELSE IF sweep[s].key[1] = "offline" THEN "failures" ELSE "commit")

\* Mutation: neither the lookup nor the unique index is asked.
OpenAlarmAnyway(s) ==
  /\ pc[s] = "evaluate"
  /\ MustOpen(s)
  /\ sweep' = [sweep EXCEPT ![s].opened = Append(@, sweep[s].key)]
  /\ NextKey(s)
  /\ UNCHANGED << Keep, owner >>

\* INSERT: waits for a sweep that has written an alarm of this key.
OpenAlarm(s) ==
  /\ pc[s] = "evaluate"
  /\ MustOpen(s)
  /\ OpenRows(sweep[s].key) = {}
  /\ TakeLock(s, sweep[s].key)
  /\ sweep' = [sweep EXCEPT ![s].opened = Append(@, sweep[s].key)]
  /\ NextKey(s)
  /\ UNCHANGED Keep

\* The INSERT meets uq_alarms_open_device_key: the whole sweep is undone.
AlarmCollides(s) ==
  /\ pc[s] = "evaluate"
  /\ MustOpen(s)
  /\ OpenRows(sweep[s].key) # {}
  /\ owner[sweep[s].key] = None
  /\ Fail(s)

\* UPDATE alarms ... WHERE id=... AND status='OPEN'.
ResolveAlarm(s) ==
  /\ pc[s] = "evaluate"
  /\ MustResolve(s)
  /\ alarms[sweep[s].existing].status = "OPEN"
  /\ TakeLock(s, sweep[s].key)
  /\ sweep' = [sweep EXCEPT ![s].resolved = @ \cup {sweep[s].existing}]
  /\ NextKey(s)
  /\ UNCHANGED Keep

\* Another sweep resolved it first, or there is nothing to do for the key.
LeaveAlarm(s) ==
  /\ pc[s] = "evaluate"
  /\ ~MustOpen(s)
  /\ MustResolve(s) => alarms[sweep[s].existing].status # "OPEN"
  /\ NextKey(s)
  /\ UNCHANGED << Keep, owner, sweep >>

Failing(t) ==
  {d \in Devices :
     FailureLimit <= Cardinality({e \in failed :
       ExecutedBy[e] = d /\ t <= ExecutedAt[e] + FailurePeriod})}

ReadFailures(s) ==
  /\ pc[s] = "failures"
  /\ sweep' = [sweep EXCEPT ![s].todo = {"failures"} \X Failing(now[s])]
  /\ Goto(s, IF Failing(now[s]) = {} THEN "commit" ELSE "lookup")
  /\ UNCHANGED << Keep, owner >>

\* Mutation: opened_at is left out.
OpenRowUnstamped(s, k) == [key |-> k, status |-> "OPEN", openedAt |-> None, closedAt |-> None]

OpenRow(s, k) == [key |-> k, status |-> "OPEN", openedAt |-> now[s], closedAt |-> None]

Commit(s) ==
  /\ pc[s] = "commit"
  /\ s \in Sweeps
  /\ window' = [w \in Windows |-> StatusFor(s, w)]
  /\ alarms' =
       [i \in DOMAIN alarms |->
          IF i \in sweep[s].resolved
          THEN [alarms[i] EXCEPT !.status = "RESOLVED", !.closedAt = now[s]] ELSE alarms[i]]
       \o [i \in DOMAIN sweep[s].opened |-> OpenRow(s, sweep[s].opened[i])]
  /\ ReleaseLocks(s)
  /\ Goto(s, "done")
  /\ UNCHANGED << lastSeen, heartbeats, failed, clock, now, sweep, device, since >>

\* The lock a sweep cannot go on without, one of them for an UPDATE.
Awaited(s) ==
  CASE pc[s] = "activate" -> {<< "window", w >> : w \in ToActivate(s)}
    [] pc[s] = "complete" -> {<< "window", w >> : w \in ToComplete(s)}
    [] pc[s] = "evaluate" /\ (MustOpen(s) \/ MustResolve(s)) -> {sweep[s].key}
    [] OTHER -> {}

Blocked(s) == Awaited(s) # {} /\ \A l \in Awaited(s) : owner[l] \notin {None, s}

\* Postgres finds sweeps that wait for each other and ends one of them.
DeadlockVictim(s) ==
  /\ \E ring \in SUBSET Sweeps :
       /\ s \in ring
       /\ \A t \in ring : Blocked(t) /\ \E l \in Awaited(t) : owner[l] \in ring
  /\ Fail(s)
-----------------------------------------------------------------------------
(* The heartbeat. *)

\* "now", and the INSERT of the heartbeat's own row.
Receive(b, d) ==
  /\ pc[b] = "idle"
  /\ device' = [device EXCEPT ![b] = d]
  /\ Start(b)
  /\ Goto(b, "find")
  /\ UNCHANGED << dbVars, failed, clock, owner, sweep >>

FindState(b) ==
  /\ pc[b] = "find"
  /\ Goto(b, IF lastSeen[device[b]] = None THEN "insert" ELSE "update")
  /\ UNCHANGED << Keep, owner, sweep >>

\* INSERT of a current state: waits for another heartbeat that inserts it.
InsertState(b) ==
  /\ pc[b] = "insert"
  /\ lastSeen[device[b]] = None
  /\ TakeLock(b, << "state", device[b] >>)
  /\ Goto(b, "update")
  /\ UNCHANGED << Keep, sweep >>

\* The INSERT meets the primary key: the heartbeat is answered 500.
StateCollides(b) ==
  /\ pc[b] = "insert"
  /\ lastSeen[device[b]] # None
  /\ Fail(b)

UpdateState(b) ==
  /\ pc[b] = "update"
  /\ TakeLock(b, << "state", device[b] >>)
  /\ Goto(b, "commit")
  /\ UNCHANGED << Keep, sweep >>

\* Mutation: the current state is not updated.
CommitBeatRowOnly(b) ==
  /\ pc[b] = "commit"
  /\ b \in Beats
  /\ heartbeats' = heartbeats \cup {[by |-> b, device |-> device[b], at |-> now[b]]}
  /\ ReleaseLocks(b)
  /\ Goto(b, "done")
  /\ UNCHANGED << window, lastSeen, alarms, failed, clock, now, sweep, device, since >>

\* Mutation: the time of the first heartbeat is kept.
CommitBeatFirstOnly(b) ==
  /\ pc[b] = "commit"
  /\ b \in Beats
  /\ lastSeen' = [lastSeen EXCEPT ![device[b]] = IF @ = None THEN now[b] ELSE @]
  /\ heartbeats' = heartbeats \cup {[by |-> b, device |-> device[b], at |-> now[b]]}
  /\ ReleaseLocks(b)
  /\ Goto(b, "done")
  /\ UNCHANGED << window, alarms, failed, clock, now, sweep, device, since >>

CommitBeat(b) ==
  /\ pc[b] = "commit"
  /\ b \in Beats
  /\ lastSeen' = [lastSeen EXCEPT ![device[b]] = now[b]]
  /\ heartbeats' = heartbeats \cup {[by |-> b, device |-> device[b], at |-> now[b]]}
  /\ ReleaseLocks(b)
  /\ Goto(b, "done")
  /\ UNCHANGED << window, alarms, failed, clock, now, sweep, device, since >>
-----------------------------------------------------------------------------
\* Crash, dropped connection, the worker's 30 s, the handler's 5 s.
Abort(a) == pc[a] \in InTransaction /\ Fail(a)

\* An execution becomes FAILED, or is started again (see Commands).
ExecutionFails(e) ==
  /\ e \notin failed /\ ExecutedAt[e] <= clock
  /\ failed' = failed \cup {e}
  /\ UNCHANGED << dbVars, clock, owner, pc, now, sweep, device, since >>

ExecutionRestarts(e) ==
  /\ e \in failed
  /\ failed' = failed \ {e}
  /\ UNCHANGED << dbVars, clock, owner, pc, now, sweep, device, since >>

Tick ==
  /\ clock < MaxTime
  /\ clock' = clock + 1
  /\ UNCHANGED << dbVars, failed, owner, pc, now, sweep, device, since >>

\* What a sweep does by itself, or Postgres to it.
RunSweep(s) ==
  \/ Activate(s) \/ EndActivate(s) \/ Complete(s) \/ EndComplete(s)
  \/ ReadMaintenance(s) \/ ReadDevices(s) \/ Lookup(s)
  \/ OpenAlarm(s) \/ AlarmCollides(s) \/ ResolveAlarm(s) \/ LeaveAlarm(s)
  \/ ReadFailures(s) \/ Commit(s) \/ DeadlockVictim(s)

Serve(b) ==
  FindState(b) \/ InsertState(b) \/ StateCollides(b) \/ UpdateState(b) \/ CommitBeat(b)

Step ==
  \/ \E s \in Sweeps : Begin(s) \/ RunSweep(s)
  \/ \E b \in Beats : (\E d \in ActiveDevices : Receive(b, d)) \/ Serve(b)
  \/ \E a \in Actors : Abort(a)
  \/ \E e \in Executions : ExecutionFails(e) \/ ExecutionRestarts(e)
  \/ Tick

\* Every sweep and heartbeat of the instance is used up.
Over == (\A a \in Actors : pc[a] \in Ended) /\ UNCHANGED vars

Next == Step \/ Over

\* The runtime runs what can run, and Postgres hands a free lock to a waiter
\* and resolves deadlocks.  Nothing makes a sweep or a heartbeat start.
Spec == Init /\ [][Next]_vars
FairSpec ==
  /\ Spec
  /\ \A s \in Sweeps : WF_vars(RunSweep(s))
  /\ \A b \in Beats : WF_vars(Serve(b))
-----------------------------------------------------------------------------
HeartbeatRows == [by : Beats \cup {None}, device : Devices, at : Nat]

SweepStates ==
  [activated : SUBSET Windows, completed : SUBSET Windows,
   maintenance : SUBSET Devices, seen : [Devices -> Nat \cup {None}],
   todo : SUBSET AlarmKeys, key : AlarmKeys \cup {None}, existing : Nat \cup {None},
   opened : Seq(AlarmKeys), resolved : SUBSET Nat]

\* Tables, locks, sweeps and heartbeats hold values of their types.
TypeOK ==
  /\ window \in [Windows -> {"SCHEDULED", "ACTIVE", "COMPLETED"}]
  /\ lastSeen \in [Devices -> Nat \cup {None}]
  /\ heartbeats \subseteq HeartbeatRows
  /\ alarms \in Seq(AlarmRows)
  /\ failed \subseteq Executions
  /\ clock \in Nat
  /\ owner \in [Locks -> Actors \cup {None}]
  /\ pc \in [Actors -> {"idle"} \cup InTransaction \cup Ended]
  /\ now \in [Actors -> Nat]
  /\ sweep \in [Sweeps -> SweepStates]
  /\ device \in [Beats -> Devices \cup {None}]
  /\ since \in [Actors -> [open : SUBSET Nat, closed : SUBSET Nat, beats : SUBSET HeartbeatRows]]

(***************************************************************************)
(* contracts/worker.yaml, "alarm_dedupe_prevents_duplicate_open_alarm_for_  *)
(* same_key": whatever sweeps overlap, crash and are retried, an alarm key  *)
(* has one open row at most.                                                *)
(***************************************************************************)
OneOpenAlarmPerKey == \A k \in AlarmKeys : Cardinality(OpenRows(k)) <= 1

(***************************************************************************)
(* contracts/worker.yaml, "recovered_device_resolves_offline_alarm": when a *)
(* sweep has ended well, no offline alarm that was open when it began is    *)
(* still open for a device it found online.  Other sweeps may have resolved *)
(* that alarm, and opened others, in between.                               *)
(***************************************************************************)
RecoveredDeviceIsResolved ==
  \A s \in Sweeps, d \in ActiveDevices :
    /\ pc[s] = "done"
    /\ sweep[s].seen[d] # None /\ now[s] <= sweep[s].seen[d] + OfflineAfter
    => \A i \in since[s].open :
         alarms[i].key = << "offline", d >> => alarms[i].status = "RESOLVED"

\* The heartbeats that were accepted before the one of row h began.
Before(h) == IF h.by = None THEN {} ELSE since[h.by].beats

Overlap(g, h) == g.device = h.device /\ g \notin Before(h) /\ h \notin Before(g)

(***************************************************************************)
(* A heartbeat is overtaken only by one that overlapped it: if the current  *)
(* state is older than an accepted heartbeat, it is the state of another    *)
(* one, and neither was accepted before the other began.  So last_seen_at   *)
(* never goes back for a device that waits for its answers.                 *)
(***************************************************************************)
OnlyOverlapMovesBack ==
  \A h \in heartbeats : h.at > lastSeen[h.device] =>
    \E g \in heartbeats : Overlap(g, h) /\ g.at = lastSeen[h.device]

\* The heartbeats of device d came one after the other.
InTurn(d) == \A g, h \in heartbeats : g.device = d /\ g # h => ~Overlap(g, h)

Raised(s, d) == \E i \in DOMAIN sweep[s].opened : sweep[s].opened[i] = << "offline", d >>

(***************************************************************************)
(* A sweep raises an offline alarm only for a device from which nothing had *)
(* arrived for AlarmAfter when it began, if its heartbeats came in turn.    *)
(* What the sweep read is older than what it writes, by any number of other *)
(* sweeps and heartbeats.                                                   *)
(***************************************************************************)
AlarmMeansSilence ==
  \A s \in Sweeps, d \in Devices :
    pc[s] = "done" /\ Raised(s, d) /\ InTurn(d) =>
      \A h \in since[s].beats : h.device = d => h.at + AlarmAfter < now[s]

(***************************************************************************)
(* A sweep that raises an offline alarm within a maintenance window of its  *)
(* device was overtaken by one with a later "now" that completed it.        *)
(***************************************************************************)
NoAlarmInMaintenance ==
  \A s \in Sweeps, w \in Windows :
    pc[s] = "done" /\ Covers(w, now[s]) /\ Raised(s, DeviceOf[w]) =>
      \E t \in Sweeps : pc[t] = "done" /\ EndsAt[w] <= now[t] /\ w \in sweep[t].completed

(***************************************************************************)
(* The two limits keep an alarm from flapping: between the resolution of a  *)
(* device's alarm and the begin of a later sweep that raises it again, more *)
(* than AlarmAfter - OfflineAfter has passed, if its heartbeats came in     *)
(* turn.  The one exception is a sweep that read the device before its      *)
(* first heartbeat and resolved an alarm that another sweep raised since.   *)
(***************************************************************************)
AlarmsFollowEachOther ==
  \A s \in Sweeps, d \in Devices :
    pc[s] = "done" /\ Raised(s, d) /\ InTurn(d) =>
      \A i \in since[s].closed :
        alarms[i].key = << "offline", d >> =>
          \/ alarms[i].closedAt + (AlarmAfter - OfflineAfter) < now[s]
          \/ \E t \in Sweeps :
               pc[t] = "done" /\ i \in sweep[t].resolved /\ sweep[t].seen[d] = None

Rank(status) == CASE status = "SCHEDULED" -> 0 [] status = "ACTIVE" -> 1
                  [] status = "COMPLETED" -> 2

(***************************************************************************)
(* A maintenance window is never taken back to an earlier status, though    *)
(* sweeps with an older "now" may write it after sweeps with a newer one.   *)
(***************************************************************************)
MaintenanceMovesForward ==
  [][\A w \in Windows : Rank(window[w]) <= Rank(window'[w])]_vars

\* Every sweep and every heartbeat ends, also where sweeps insert the alarms
\* of failed executions in opposite orders and wait for each other.
EveryTransactionEnds == \A a \in Actors : pc[a] # "idle" ~> pc[a] \in Ended
=============================================================================
