-------------------------- MODULE MonitoringProofs --------------------------
(* Theorems of Monitoring, for any number of sweeps, heartbeats and windows. *)
EXTENDS Monitoring, TLAPS, FiniteSetTheorems, SequenceTheorems

\* Where a heartbeat knows its device.
BeatRuns == BeatPlaces \cup {"commit"}

TypeInv ==
  /\ TypeOK
  /\ \A s \in Sweeps : pc[s] = "evaluate" => sweep[s].key \in AlarmKeys
  /\ \A b \in Beats : pc[b] \in BeatRuns => device[b] \in Devices

LEMMA TypeInit == Init => TypeInv
<1> SUFFICES ASSUME Init PROVE TypeInv
  OBVIOUS
<1> USE DEF Init, Actors
<1>1. window \in [Windows -> {"SCHEDULED", "ACTIVE", "COMPLETED"}]
  BY WindowsAssumption
<1>2. lastSeen \in [Devices -> Nat \cup {None}]
  BY DevicesAssumption, TimesAssumption
<1>3. heartbeats \subseteq HeartbeatRows
  BY <1>2 DEF HeartbeatRows
<1>4. alarms \in Seq(AlarmRows)
  BY AlarmsAssumption
<1>5. NewSweep \in SweepStates
  BY DEF NewSweep, SweepStates
<1>6. sweep \in [Sweeps -> SweepStates] /\ owner \in [Locks -> Actors \cup {None}]
  BY <1>5
<1>7. /\ pc \in [Actors -> {"idle"} \cup InTransaction \cup Ended]
      /\ now \in [Actors -> Nat] /\ clock \in Nat /\ failed \subseteq Executions
      /\ device \in [Beats -> Devices \cup {None}]
  BY TimesAssumption
<1>8. since \in [Actors -> [open : SUBSET Nat, closed : SUBSET Nat,
                            beats : SUBSET HeartbeatRows]]
  BY DEF NothingBefore
<1>9. \A a \in Actors : pc[a] = "idle"
  OBVIOUS
<1> QED
  BY <1>1, <1>2, <1>3, <1>4, <1>6, <1>7, <1>8, <1>9 DEF TypeInv, TypeOK, BeatRuns, BeatPlaces

\* A sweep's new record is of its type.
LEMMA StartTyped ==
  ASSUME TypeInv, NEW a \in Actors, Start(a)
  PROVE  /\ now' \in [Actors -> Nat]
         /\ since' \in [Actors -> [open : SUBSET Nat, closed : SUBSET Nat,
                                   beats : SUBSET HeartbeatRows]]
<1>1. DOMAIN alarms \subseteq Nat
  BY DEF TypeInv, TypeOK
<1> QED
  BY <1>1 DEF TypeInv, TypeOK, Start

LEMMA FailTyped ==
  ASSUME TypeInv, NEW a \in Actors, Fail(a)
  PROVE  TypeInv'
<1> USE DEF TypeInv, TypeOK
<1>1. owner' \in [Locks -> Actors \cup {None}]
  BY DEF Fail, ReleaseLocks
<1>2. pc' \in [Actors -> {"idle"} \cup InTransaction \cup Ended] /\ pc' = [pc EXCEPT ![a] = "failed"]
  BY DEF Fail, Goto, Ended
<1>3. NewSweep \in SweepStates
  BY DEF NewSweep, SweepStates
<1>4. sweep' \in [Sweeps -> SweepStates]
  BY <1>3 DEF Fail
<1>5. now' \in [Actors -> Nat]
  BY TimesAssumption DEF Fail
<1>6. since' \in [Actors -> [open : SUBSET Nat, closed : SUBSET Nat,
                             beats : SUBSET HeartbeatRows]]
  BY DEF Fail, NothingBefore
<1>7. \A s \in Sweeps : pc'[s] = "evaluate" => sweep'[s].key \in AlarmKeys
  BY <1>2 DEF Fail, Actors
<1>8. \A b \in Beats : pc'[b] \in BeatRuns => device'[b] \in Devices
  BY <1>2 DEF Fail, Actors, BeatRuns, BeatPlaces
<1> QED
  BY <1>1, <1>2, <1>4, <1>5, <1>6, <1>7, <1>8 DEF Fail, dbVars

\* A statement of a sweep changes its record, its place and perhaps a lock.
LEMMA StatementTyped ==
  ASSUME TypeInv, NEW s \in Sweeps, Keep' = Keep,
         owner' \in [Locks -> Actors \cup {None}],
         NEW place \in InTransaction, Goto(s, place),
         NEW record \in SweepStates, sweep' = [sweep EXCEPT ![s] = record],
         place = "evaluate" => record.key \in AlarmKeys
  PROVE  TypeInv'
<1> USE DEF TypeInv, TypeOK
<1>1. pc' \in [Actors -> {"idle"} \cup InTransaction \cup Ended]
  BY DEF Goto
<1>2. sweep' \in [Sweeps -> SweepStates]
  OBVIOUS
<1>3. \A t \in Sweeps : pc'[t] = "evaluate" => sweep'[t].key \in AlarmKeys
  BY DEF Goto, Actors
<1>4. \A b \in Beats : pc'[b] \in BeatRuns => device'[b] \in Devices
  BY ActorsAssumption DEF Goto, Actors, Keep
<1> QED
  BY <1>1, <1>2, <1>3, <1>4 DEF Keep, dbVars

LEMMA TakesTyped ==
  ASSUME TypeInv, NEW a \in Actors, NEW l, TakeLock(a, l)
  PROVE  owner' \in [Locks -> Actors \cup {None}]
BY DEF TypeInv, TypeOK, TakeLock

LEMMA NextKeyGoes ==
  ASSUME NEW s \in Sweeps, NextKey(s)
  PROVE  \E place \in {"lookup", "failures", "commit"} : Goto(s, place)
BY DEF NextKey

LEMMA OpenRowsAreRows == \A k : OpenRows(k) \subseteq DOMAIN alarms
BY DEF OpenRows, OpenIn


\* A function on the indexes of a sequence is one.
LEMMA Mapped ==
  ASSUME NEW S, NEW seq \in Seq(S), NEW T, NEW f,
         f = [i \in DOMAIN seq |-> f[i]], \A i \in DOMAIN seq : f[i] \in T
  PROVE  f \in Seq(T) /\ Len(f) = Len(seq)
<1>1. Len(seq) \in Nat /\ DOMAIN seq = 1 .. Len(seq)
  BY LenProperties
<1>2. f \in [1 .. Len(seq) -> T]
  BY <1>1
<1>3. f \in Seq(T)
  BY <1>1, <1>2, SeqDef
<1>4. Len(f) \in Nat /\ DOMAIN f = 1 .. Len(f)
  BY <1>3, LenProperties
<1>5. DOMAIN f = 1 .. Len(seq)
  BY <1>2
<1> QED
  BY <1>1, <1>3, <1>4, <1>5

\* The table of alarms after the commit of a sweep: the old rows, of which
\* some are resolved, and one for each key it opened.
LEMMA CommitRows ==
  ASSUME TypeInv, NEW s \in Sweeps, Commit(s)
  PROVE  /\ alarms' \in Seq(AlarmRows)
         /\ Len(alarms) \in Nat /\ DOMAIN alarms = 1 .. Len(alarms)
         /\ Len(sweep[s].opened) \in Nat
         /\ DOMAIN sweep[s].opened = 1 .. Len(sweep[s].opened)
         /\ DOMAIN alarms' = 1 .. Len(alarms) + Len(sweep[s].opened)
         /\ \A i \in DOMAIN alarms :
              alarms'[i] = IF i \in sweep[s].resolved
                           THEN [alarms[i] EXCEPT !.status = "RESOLVED", !.closedAt = now[s]]
                           ELSE alarms[i]
         /\ \A j \in DOMAIN sweep[s].opened :
              alarms'[Len(alarms) + j] = OpenRow(s, sweep[s].opened[j])
<1> USE DEF TypeInv, TypeOK, SweepStates
<1> DEFINE Kept(i) == IF i \in sweep[s].resolved
                      THEN [alarms[i] EXCEPT !.status = "RESOLVED", !.closedAt = now[s]]
                      ELSE alarms[i]
           kept == [i \in DOMAIN alarms |-> Kept(i)]
           opened == sweep[s].opened
           new == [i \in DOMAIN opened |-> OpenRow(s, opened[i])]
<1>1. now[s] \in Nat
  BY DEF Actors
<1>2. alarms \in Seq(AlarmRows) /\ opened \in Seq(AlarmKeys)
  OBVIOUS
<1>3. /\ Len(alarms) \in Nat /\ DOMAIN alarms = 1 .. Len(alarms)
      /\ Len(opened) \in Nat /\ DOMAIN opened = 1 .. Len(opened)
  BY <1>2, LenProperties
<1>4. \A i \in DOMAIN alarms : kept[i] \in AlarmRows
  <2> TAKE i \in DOMAIN alarms
  <2>1. alarms[i] \in AlarmRows
    BY <1>2, <1>3, ElementOfSeq
  <2>2. [alarms[i] EXCEPT !.status = "RESOLVED", !.closedAt = now[s]] \in AlarmRows
    BY <2>1, <1>1 DEF AlarmRows
  <2> QED
    BY <2>1, <2>2
<1>5. \A i \in DOMAIN opened : new[i] \in AlarmRows
  <2> TAKE i \in DOMAIN opened
  <2>1. opened[i] \in AlarmKeys
    BY <1>2, <1>3, ElementOfSeq
  <2> QED
    BY <2>1, <1>1 DEF AlarmRows, OpenRow
<1> HIDE DEF opened
<1>6. kept \in Seq(AlarmRows) /\ Len(kept) = Len(alarms)
  <2>1. kept = [i \in DOMAIN alarms |-> kept[i]]
    OBVIOUS
  <2> HIDE DEF kept
  <2> QED
    BY <2>1, <1>2, <1>4, Mapped
<1>7. new \in Seq(AlarmRows) /\ Len(new) = Len(opened)
  <2>1. new = [i \in DOMAIN opened |-> new[i]]
    OBVIOUS
  <2> HIDE DEF new
  <2> QED
    BY <2>1, <1>2, <1>5, Mapped
<1>8. alarms' = kept \o new
  BY DEF Commit, opened
<1>9. /\ \A i \in DOMAIN alarms : kept[i] = Kept(i)
      /\ \A i \in DOMAIN opened : new[i] = OpenRow(s, opened[i])
  OBVIOUS
<1> HIDE DEF kept, new, Kept, TypeInv, TypeOK, SweepStates
<1>10. /\ kept \o new \in Seq(AlarmRows)
       /\ Len(kept \o new) = Len(kept) + Len(new)
       /\ \A i \in 1 .. Len(kept) + Len(new) :
            (kept \o new)[i] = IF i <= Len(kept) THEN kept[i] ELSE new[i - Len(kept)]
  BY <1>6, <1>7, ConcatProperties
<1>11. DOMAIN alarms' = 1 .. Len(alarms) + Len(opened)
  BY <1>6, <1>7, <1>8, <1>10, LenProperties
<1>12. \A i \in DOMAIN alarms : alarms'[i] = Kept(i)
  BY <1>3, <1>6, <1>7, <1>8, <1>9, <1>10
<1>13. \A j \in DOMAIN opened : alarms'[Len(alarms) + j] = OpenRow(s, opened[j])
  <2> TAKE j \in DOMAIN opened
  <2>1. /\ Len(alarms) + j \in 1 .. Len(kept) + Len(new)
        /\ ~(Len(alarms) + j <= Len(kept)) /\ (Len(alarms) + j) - Len(kept) = j
    BY <1>3, <1>6, <1>7
  <2> QED
    BY <2>1, <1>8, <1>9, <1>10
<1> QED
  BY <1>3, <1>8, <1>10, <1>11, <1>12, <1>13 DEF opened, Kept

LEMMA CommitTyped ==
  ASSUME TypeInv, NEW s \in Sweeps, Commit(s)
  PROVE  TypeInv'
<1> USE DEF TypeInv, TypeOK
<1>1. window' \in [Windows -> {"SCHEDULED", "ACTIVE", "COMPLETED"}]
  BY DEF Commit, StatusFor
<1>2. alarms' \in Seq(AlarmRows)
  BY CommitRows
<1>3. owner' \in [Locks -> Actors \cup {None}]
  BY DEF Commit, ReleaseLocks
<1>4. pc' \in [Actors -> {"idle"} \cup InTransaction \cup Ended] /\ pc' = [pc EXCEPT ![s] = "done"]
  BY DEF Commit, Goto, Ended
<1>5. \A b \in Beats : pc'[b] \in BeatRuns => device'[b] \in Devices
  BY <1>4, ActorsAssumption DEF Commit, Actors
<1>6. \A t \in Sweeps : pc'[t] = "evaluate" => sweep'[t].key \in AlarmKeys
  BY <1>4 DEF Commit, Actors
<1> QED
  BY <1>1, <1>2, <1>3, <1>4, <1>5, <1>6 DEF Commit

LEMMA SweepTyped ==
  ASSUME TypeInv, NEW s \in Sweeps, RunSweep(s)
  PROVE  TypeInv'
<1> USE DEF TypeInv, TypeOK
<1> DEFINE old == sweep[s]
           Same == owner' \in [Locks -> Actors \cup {None}]
<1>1. old \in SweepStates /\ s \in Actors
  BY DEF Actors
<1>2. owner' = owner => Same
  OBVIOUS
<1>3. \A l : TakeLock(s, l) => Same
  BY <1>1, TakesTyped
<1>4. {"activate", "complete", "maintenance", "devices", "lookup", "evaluate", "failures", "commit"}
        \subseteq InTransaction
  BY DEF InTransaction, SweepPlaces
<1>5. CASE Activate(s)
  <2>1. PICK w \in ToActivate(s) :
             /\ TakeLock(s, << "window", w >>)
             /\ sweep' = [sweep EXCEPT ![s].activated = @ \cup {w}]
    BY <1>5 DEF Activate
  <2> DEFINE record == [old EXCEPT !.activated = @ \cup {w}]
  <2>2. record \in SweepStates
    BY <1>1 DEF SweepStates, ToActivate
  <2>3. sweep' = [sweep EXCEPT ![s] = record]
    BY <2>1
  <2>4. Keep' = Keep /\ Goto(s, "activate") /\ Same
    BY <2>1, <1>1, <1>3, <1>5 DEF Activate, Goto, Keep, dbVars
  <2> HIDE DEF record
  <2> QED
    BY <2>2, <2>3, <2>4, <1>4, StatementTyped
<1>6. CASE Complete(s)
  <2>1. PICK w \in ToComplete(s) :
             /\ TakeLock(s, << "window", w >>)
             /\ sweep' = [sweep EXCEPT ![s].completed = @ \cup {w}]
    BY <1>6 DEF Complete
  <2> DEFINE record == [old EXCEPT !.completed = @ \cup {w}]
  <2>2. record \in SweepStates
    BY <1>1 DEF SweepStates, ToComplete
  <2>3. sweep' = [sweep EXCEPT ![s] = record]
    BY <2>1
  <2>4. Keep' = Keep /\ Goto(s, "complete") /\ Same
    BY <2>1, <1>1, <1>3, <1>6 DEF Complete, Goto, Keep, dbVars
  <2> HIDE DEF record
  <2> QED
    BY <2>2, <2>3, <2>4, <1>4, StatementTyped
<1>7. CASE EndActivate(s)
  BY <1>1, <1>2, <1>4, <1>7, StatementTyped DEF EndActivate, Keep, dbVars
<1>8. CASE EndComplete(s)
  BY <1>1, <1>2, <1>4, <1>8, StatementTyped DEF EndComplete, Keep, dbVars
<1>9. CASE ReadMaintenance(s)
  <2> DEFINE record == [old EXCEPT !.maintenance = InMaintenance(s)]
  <2>1. InMaintenance(s) \subseteq Devices
    BY WindowsAssumption DEF InMaintenance
  <2>2. record \in SweepStates
    BY <1>1, <2>1 DEF SweepStates
  <2>3. sweep' = [sweep EXCEPT ![s] = record]
    BY <1>9 DEF ReadMaintenance
  <2>4. Keep' = Keep /\ Goto(s, "devices") /\ Same
    BY <1>2, <1>9 DEF ReadMaintenance, Keep, dbVars
  <2> HIDE DEF record
  <2> QED
    BY <2>2, <2>3, <2>4, <1>4, StatementTyped
<1>10. CASE ReadDevices(s)
  <2> DEFINE record == [old EXCEPT !.seen = lastSeen, !.todo = {"offline"} \X ActiveDevices]
  <2>1. {"offline"} \X ActiveDevices \subseteq AlarmKeys
    BY DevicesAssumption DEF AlarmKeys
  <2>2. record \in SweepStates
    BY <1>1, <2>1 DEF SweepStates
  <2>3. sweep' = [sweep EXCEPT ![s] = record]
    BY <1>10 DEF ReadDevices
  <2>4. Keep' = Keep /\ Same
    BY <1>2, <1>10 DEF ReadDevices, Keep, dbVars
  <2>5. Goto(s, "failures") \/ Goto(s, "lookup")
    BY <1>10 DEF ReadDevices
  <2> HIDE DEF record
  <2> QED
    BY <2>2, <2>3, <2>4, <2>5, <1>4, StatementTyped
<1>11. CASE Lookup(s)
  <2> PICK k \in old.todo : \E existing \in IF OpenRows(k) = {} THEN {None} ELSE OpenRows(k) :
             sweep' = [sweep EXCEPT ![s].key = k, ![s].todo = @ \ {k}, ![s].existing = existing]
    BY <1>11 DEF Lookup
  <2> PICK existing \in IF OpenRows(k) = {} THEN {None} ELSE OpenRows(k) :
             sweep' = [sweep EXCEPT ![s].key = k, ![s].todo = @ \ {k}, ![s].existing = existing]
    OBVIOUS
  <2> DEFINE record == [old EXCEPT !.key = k, !.todo = @ \ {k}, !.existing = existing]
  <2>1. existing \in Nat \cup {None}
    BY OpenRowsAreRows
  <2>2. record \in SweepStates /\ record.key \in AlarmKeys
    BY <1>1, <2>1 DEF SweepStates
  <2>3. sweep' = [sweep EXCEPT ![s] = record]
    OBVIOUS
  <2>4. Keep' = Keep /\ Same /\ Goto(s, "evaluate")
    BY <1>2, <1>11 DEF Lookup, Keep, dbVars
  <2> HIDE DEF record
  <2> QED
    BY <2>2, <2>3, <2>4, <1>4, StatementTyped
<1>12. CASE OpenAlarm(s)
  <2> DEFINE record == [old EXCEPT !.opened = Append(@, old.key)]
  <2>1. old.key \in AlarmKeys /\ old.opened \in Seq(AlarmKeys)
    BY <1>1, <1>12 DEF OpenAlarm, SweepStates
  <2>2. Append(old.opened, old.key) \in Seq(AlarmKeys)
    BY <2>1, AppendProperties
  <2>3. record \in SweepStates
    BY <1>1, <2>2 DEF SweepStates
  <2>4. sweep' = [sweep EXCEPT ![s] = record]
    BY <1>12 DEF OpenAlarm
  <2>5. Keep' = Keep /\ Same /\ \E place \in {"lookup", "failures", "commit"} : Goto(s, place)
    BY <1>3, <1>12, NextKeyGoes DEF OpenAlarm, Keep, dbVars
  <2> HIDE DEF record
  <2> QED
    BY <2>3, <2>4, <2>5, <1>4, StatementTyped
<1>13. CASE AlarmCollides(s)
  BY <1>1, <1>13, FailTyped DEF AlarmCollides
<1>14. CASE ResolveAlarm(s)
  <2> DEFINE record == [old EXCEPT !.resolved = @ \cup {old.existing}]
  <2>1. old.existing \in Nat
    BY <1>1, <1>14 DEF ResolveAlarm, MustResolve, SweepStates
  <2>2. record \in SweepStates
    BY <1>1, <2>1 DEF SweepStates
  <2>3. sweep' = [sweep EXCEPT ![s] = record]
    BY <1>14 DEF ResolveAlarm
  <2>4. Keep' = Keep /\ Same /\ \E place \in {"lookup", "failures", "commit"} : Goto(s, place)
    BY <1>3, <1>14, NextKeyGoes DEF ResolveAlarm, Keep, dbVars
  <2> HIDE DEF record
  <2> QED
    BY <2>2, <2>3, <2>4, <1>4, StatementTyped
<1>15. CASE LeaveAlarm(s)
  <2>1. /\ Keep' = Keep /\ Same /\ sweep' = [sweep EXCEPT ![s] = old]
        /\ \E place \in {"lookup", "failures", "commit"} : Goto(s, place)
    BY <1>2, <1>15, NextKeyGoes DEF LeaveAlarm, Keep, dbVars
  <2> QED
    BY <2>1, <1>1, <1>4, StatementTyped
<1>16. CASE ReadFailures(s)
  <2> DEFINE record == [old EXCEPT !.todo = {"failures"} \X Failing(now[s])]
  <2>1. record \in SweepStates
    BY <1>1 DEF SweepStates, AlarmKeys, Failing
  <2>2. sweep' = [sweep EXCEPT ![s] = record]
    BY <1>16 DEF ReadFailures
  <2>3. Keep' = Keep /\ Same
    BY <1>2, <1>16 DEF ReadFailures, Keep, dbVars
  <2>4. Goto(s, "commit") \/ Goto(s, "lookup")
    BY <1>16 DEF ReadFailures
  <2> HIDE DEF record
  <2> QED
    BY <2>1, <2>2, <2>3, <2>4, <1>4, StatementTyped
<1>17. CASE Commit(s)
  BY <1>17, CommitTyped
<1>18. CASE DeadlockVictim(s)
  BY <1>1, <1>18, FailTyped DEF DeadlockVictim
<1> QED
  BY <1>5, <1>6, <1>7, <1>8, <1>9, <1>10, <1>11, <1>12, <1>13, <1>14, <1>15, <1>16, <1>17, <1>18
  DEF RunSweep

LEMMA BeatTyped ==
  ASSUME TypeInv, NEW b \in Beats, Serve(b)
  PROVE  TypeInv'
<1> USE DEF TypeInv, TypeOK
<1>1. b \in Actors /\ \A s \in Sweeps : s # b
  BY ActorsAssumption DEF Actors
<1>2. CASE FindState(b) \/ InsertState(b) \/ UpdateState(b)
  <2>1. /\ Keep' = Keep /\ sweep' = sweep /\ owner' \in [Locks -> Actors \cup {None}]
        /\ \E place \in {"insert", "update", "commit"} : Goto(b, place)
    BY <1>1, <1>2, TakesTyped DEF FindState, InsertState, UpdateState, Keep, dbVars
  <2>2. pc' \in [Actors -> {"idle"} \cup InTransaction \cup Ended]
    BY <2>1 DEF Goto, InTransaction, BeatPlaces
  <2>3. \A s \in Sweeps : pc'[s] = "evaluate" => sweep'[s].key \in AlarmKeys
    BY <1>1, <2>1 DEF Goto, Actors
  <2>4. pc[b] \in BeatRuns
    BY <1>2 DEF FindState, InsertState, UpdateState, BeatRuns, BeatPlaces
  <2>5. \A c \in Beats : pc'[c] \in BeatRuns => device'[c] \in Devices
    BY <2>1, <2>4 DEF Goto, Actors, Keep
  <2> QED
    BY <2>1, <2>2, <2>3, <2>5 DEF Keep, dbVars
<1>3. CASE StateCollides(b)
  BY <1>1, <1>3, FailTyped DEF StateCollides
<1>4. CASE CommitBeat(b)
  <2>1. device[b] \in Devices /\ now[b] \in Nat
    BY <1>1, <1>4 DEF CommitBeat, BeatRuns
  <2>2. lastSeen' \in [Devices -> Nat \cup {None}] /\ heartbeats' \subseteq HeartbeatRows
    BY <1>4, <2>1 DEF CommitBeat, HeartbeatRows
  <2>3. owner' \in [Locks -> Actors \cup {None}]
    BY <1>4 DEF CommitBeat, ReleaseLocks
  <2>4. pc' = [pc EXCEPT ![b] = "done"] /\ pc' \in [Actors -> {"idle"} \cup InTransaction \cup Ended]
    BY <1>4 DEF CommitBeat, Goto, Ended
  <2>5. \A s \in Sweeps : pc'[s] = "evaluate" => sweep'[s].key \in AlarmKeys
    BY <1>1, <1>4, <2>4 DEF CommitBeat, Actors
  <2>6. \A c \in Beats : pc'[c] \in BeatRuns => device'[c] \in Devices
    BY <1>4, <2>4 DEF CommitBeat, Actors, BeatRuns, BeatPlaces
  <2> QED
    BY <1>4, <2>2, <2>3, <2>4, <2>5, <2>6 DEF CommitBeat
<1> QED
  BY <1>2, <1>3, <1>4 DEF Serve

LEMMA TypeStep ==
  ASSUME TypeInv, [Next]_vars
  PROVE  TypeInv'
<1> USE DEF TypeInv, TypeOK
<1>1. ASSUME NEW s \in Sweeps, Begin(s) PROVE TypeInv'
  <2>1. s \in Actors
    BY DEF Actors
  <2>2. pc' = [pc EXCEPT ![s] = "activate"] /\ pc' \in [Actors -> {"idle"} \cup InTransaction \cup Ended]
    BY <1>1 DEF Begin, Goto, InTransaction, SweepPlaces
  <2>3. \A t \in Sweeps : pc'[t] = "evaluate" => sweep'[t].key \in AlarmKeys
    BY <1>1, <2>2 DEF Begin, Actors
  <2>4. \A b \in Beats : pc'[b] \in BeatRuns => device'[b] \in Devices
    BY <1>1, <2>2, ActorsAssumption DEF Begin, Actors
  <2> QED
    BY <1>1, <2>1, <2>2, <2>3, <2>4, StartTyped DEF Begin, dbVars
<1>2. ASSUME NEW b \in Beats, NEW d \in ActiveDevices, Receive(b, d) PROVE TypeInv'
  <2>1. b \in Actors /\ d \in Devices
    BY DevicesAssumption DEF Actors
  <2>2. pc' = [pc EXCEPT ![b] = "find"] /\ pc' \in [Actors -> {"idle"} \cup InTransaction \cup Ended]
    BY <1>2 DEF Receive, Goto, InTransaction, BeatPlaces
  <2>3. \A t \in Sweeps : pc'[t] = "evaluate" => sweep'[t].key \in AlarmKeys
    BY <1>2, <2>2 DEF Receive, Actors
  <2>4. device' \in [Beats -> Devices \cup {None}]
    BY <1>2, <2>1 DEF Receive
  <2>5. \A c \in Beats : pc'[c] \in BeatRuns => device'[c] \in Devices
    BY <1>2, <2>1, <2>2 DEF Receive, Actors
  <2> QED
    BY <1>2, <2>1, <2>2, <2>3, <2>4, <2>5, StartTyped DEF Receive, dbVars
<1>3. ASSUME NEW a \in Actors, Abort(a) PROVE TypeInv'
  BY <1>3, FailTyped DEF Abort
<1>4. ASSUME NEW e \in Executions, ExecutionFails(e) \/ ExecutionRestarts(e) PROVE TypeInv'
  BY <1>4 DEF ExecutionFails, ExecutionRestarts, dbVars
<1>5. CASE Tick
  BY <1>5 DEF Tick, dbVars
<1>6. CASE UNCHANGED vars
  BY <1>6 DEF vars, dbVars
<1> HIDE DEF TypeInv, TypeOK
<1> QED
  BY <1>1, <1>2, <1>3, <1>4, <1>5, <1>6, SweepTyped, BeatTyped DEF Next, Step, Over

\* Tables, locks, sweeps and heartbeats hold values of their types: no
\* statement of worker.py or heartbeat.py writes anything else.
THEOREM TypeCorrect == Spec => []TypeOK
<1>1. TypeInv => TypeOK
  BY DEF TypeInv
<1> QED
  BY <1>1, TypeInit, TypeStep, PTL DEF Spec
-----------------------------------------------------------------------------
(* One sweep or heartbeat acts at a time, and a lock stays with its holder  *)
(* until the holder's transaction ends.                                     *)

ActsAlone(a) ==
  /\ \A c \in Actors \ {a} : pc'[c] = pc[c] /\ now'[c] = now[c]
  /\ \A s \in Sweeps \ {a} : sweep'[s] = sweep[s]
  /\ \/ owner' = owner
     \/ \E l : TakeLock(a, l)
     \/ ReleaseLocks(a) /\ pc'[a] \in Ended

LEMMA FailAlone ==
  ASSUME TypeInv, NEW a \in Actors, Fail(a)
  PROVE  ActsAlone(a)
BY DEF Fail, Goto, ActsAlone, TypeInv, TypeOK, Ended

LEMMA SweepActsAlone ==
  ASSUME TypeInv, NEW s \in Sweeps, Begin(s) \/ RunSweep(s)
  PROVE  ActsAlone(s)
<1> USE DEF TypeInv, TypeOK
<1>1. s \in Actors
  BY DEF Actors
<1>2. CASE Begin(s)
  BY <1>2 DEF Begin, Start, Goto, ActsAlone
<1>3. CASE Activate(s)
  BY <1>3 DEF Activate, Keep, ActsAlone
<1>4. CASE Complete(s)
  BY <1>4 DEF Complete, Keep, ActsAlone
<1>5. CASE EndActivate(s) \/ EndComplete(s)
  BY <1>5 DEF EndActivate, EndComplete, Keep, Goto, ActsAlone
<1>6. CASE ReadMaintenance(s) \/ ReadDevices(s) \/ ReadFailures(s) \/ Lookup(s)
  BY <1>6 DEF ReadMaintenance, ReadDevices, ReadFailures, Lookup, Keep, Goto, ActsAlone
<1>7. CASE OpenAlarm(s) \/ ResolveAlarm(s) \/ LeaveAlarm(s)
  BY <1>7 DEF OpenAlarm, ResolveAlarm, LeaveAlarm, NextKey, Keep, Goto, ActsAlone
<1>8. CASE Commit(s)
  BY <1>1, <1>8 DEF Commit, Goto, Ended, ActsAlone
<1>9. CASE AlarmCollides(s) \/ DeadlockVictim(s)
  BY <1>1, <1>9, FailAlone DEF AlarmCollides, DeadlockVictim
<1> QED
  BY <1>2, <1>3, <1>4, <1>5, <1>6, <1>7, <1>8, <1>9 DEF RunSweep

LEMMA BeatActsAlone ==
  ASSUME TypeInv, NEW b \in Beats,
         (\E d \in ActiveDevices : Receive(b, d)) \/ Serve(b) \/ Fail(b)
  PROVE  ActsAlone(b) /\ sweep' = sweep /\ window' = window /\ alarms' = alarms
<1> USE DEF TypeInv, TypeOK
<1>1. b \in Actors /\ \A s \in Sweeps : s # b
  BY ActorsAssumption DEF Actors
<1>2. CASE \E d \in ActiveDevices : Receive(b, d)
  BY <1>1, <1>2 DEF Receive, Start, Goto, ActsAlone, dbVars
<1>3. CASE FindState(b) \/ InsertState(b) \/ UpdateState(b)
  BY <1>1, <1>3 DEF FindState, InsertState, UpdateState, Keep, Goto, ActsAlone, dbVars
<1>4. CASE Fail(b) \/ StateCollides(b)
  <2>1. Fail(b)
    BY <1>4 DEF StateCollides
  <2>2. sweep' = sweep
    BY <1>1, <2>1 DEF Fail
  <2> QED
    BY <1>1, <2>1, <2>2, FailAlone DEF Fail, dbVars
<1>5. CASE CommitBeat(b)
  BY <1>1, <1>5 DEF CommitBeat, Goto, Ended, ActsAlone
<1> QED
  BY <1>2, <1>3, <1>4, <1>5 DEF Serve

\* Nothing a sweep depends on but the clock and the executions changes.
AllRest == UNCHANGED << pc, now, sweep, owner, window, alarms >>

LEMMA OneActs ==
  ASSUME TypeInv, [Next]_vars
  PROVE  \/ AllRest
         \/ \E s \in Sweeps : (Begin(s) \/ RunSweep(s) \/ Fail(s)) /\ ActsAlone(s)
         \/ \E b \in Beats : /\ ActsAlone(b)
                             /\ sweep' = sweep /\ window' = window /\ alarms' = alarms
<1>1. ASSUME NEW s \in Sweeps, Begin(s) \/ RunSweep(s) PROVE ActsAlone(s)
  BY <1>1, SweepActsAlone
<1>2. ASSUME NEW a \in Actors, Abort(a)
      PROVE  \/ a \in Sweeps /\ Fail(a) /\ ActsAlone(a)
             \/ /\ a \in Beats /\ ActsAlone(a)
                /\ sweep' = sweep /\ window' = window /\ alarms' = alarms
  BY <1>2, FailAlone, BeatActsAlone DEF Abort, Actors
<1>3. ASSUME NEW e \in Executions, ExecutionFails(e) \/ ExecutionRestarts(e) PROVE AllRest
  BY <1>3 DEF ExecutionFails, ExecutionRestarts, dbVars, AllRest
<1>4. Tick \/ UNCHANGED vars => AllRest
  BY DEF Tick, vars, dbVars, AllRest
<1> QED
  BY <1>1, <1>2, <1>3, <1>4, BeatActsAlone DEF Next, Step, Over

\* A sweep that is not the one that acts keeps its record, place and locks.
LEMMA OthersKeep ==
  ASSUME TypeInv, [Next]_vars, NEW s \in Sweeps
  PROVE  \/ (Begin(s) \/ RunSweep(s) \/ Fail(s)) /\ ActsAlone(s)
         \/ /\ sweep'[s] = sweep[s] /\ pc'[s] = pc[s] /\ now'[s] = now[s]
            /\ \A l \in Locks : owner[l] = s => owner'[l] = s
<1> USE DEF TypeInv, TypeOK
<1>1. s \in Actors /\ s # None
  BY ActorsAssumption DEF Actors
<1>2. ASSUME NEW a, a # s, ActsAlone(a)
      PROVE  /\ sweep'[s] = sweep[s] /\ pc'[s] = pc[s] /\ now'[s] = now[s]
             /\ \A l \in Locks : owner[l] = s => owner'[l] = s
  <2>1. \A l \in Locks : owner[l] = s => owner'[l] = s
    BY <1>1, <1>2 DEF ActsAlone, TakeLock, ReleaseLocks
  <2> QED
    BY <1>1, <1>2, <2>1 DEF ActsAlone
<1>3. \A b \in Beats : b # s
  BY ActorsAssumption
<1> HIDE DEF TypeInv, TypeOK
<1> QED
  BY <1>2, <1>3, OneActs DEF AllRest
-----------------------------------------------------------------------------
(* Maintenance windows.  A sweep holds the lock of each window it wrote, so *)
(* one it activated is still scheduled for everyone else.                   *)

WindowInv ==
  \A s \in Sweeps :
    /\ pc[s] = "idle" => sweep[s] = NewSweep
    /\ pc[s] \in InTransaction =>
         \A w \in sweep[s].activated \cup sweep[s].completed :
           /\ owner[<< "window", w >>] = s
           /\ w \notin sweep[s].completed => window[w] = "SCHEDULED"

\* What a commit changes of the windows are those its sweep wrote.
LEMMA WindowsCommitted ==
  ASSUME TypeInv, [Next]_vars, NEW w \in Windows
  PROVE  \/ window'[w] = window[w]
         \/ \E s \in Sweeps : /\ Commit(s) /\ ActsAlone(s)
                              /\ w \in sweep[s].activated \cup sweep[s].completed
                              /\ window'[w] = StatusFor(s, w)
<1> USE DEF TypeInv, TypeOK
<1>1. ASSUME NEW s \in Sweeps, Begin(s) \/ Fail(s) PROVE window' = window
  BY <1>1 DEF Begin, Fail, dbVars
<1>2. ASSUME NEW s \in Sweeps, RunSweep(s), ~Commit(s) PROVE window' = window
  <2> SUFFICES ASSUME ~Fail(s) PROVE window' = window
    BY DEF Fail, dbVars
  <2> QED
    BY <1>2 DEF RunSweep, Activate, EndActivate, Complete, EndComplete, ReadMaintenance,
       ReadDevices, Lookup, OpenAlarm, AlarmCollides, ResolveAlarm, LeaveAlarm, ReadFailures,
       DeadlockVictim, Keep, dbVars
<1>3. ASSUME NEW s \in Sweeps, Commit(s)
      PROVE  /\ window'[w] = StatusFor(s, w)
             /\ w \notin sweep[s].activated \cup sweep[s].completed => window'[w] = window[w]
  BY <1>3 DEF Commit, StatusFor
<1> HIDE DEF TypeInv, TypeOK
<1> QED
  BY <1>1, <1>2, <1>3, OneActs DEF AllRest

LEMMA WindowInit == Init => WindowInv
BY DEF Init, WindowInv, InTransaction, SweepPlaces, BeatPlaces, Actors

\* A sweep keeps the invariant for what it writes itself.
LEMMA WindowOwnStep ==
  ASSUME TypeInv, WindowInv, NEW s \in Sweeps, Begin(s) \/ RunSweep(s) \/ Fail(s)
  PROVE  /\ pc'[s] # "idle"
         /\ pc'[s] \in InTransaction =>
              \A w \in sweep'[s].activated \cup sweep'[s].completed :
                /\ owner'[<< "window", w >>] = s
                /\ w \notin sweep'[s].completed => window[w] = "SCHEDULED"
<1> USE DEF TypeInv, TypeOK
<1>1. s \in Actors /\ s # None /\ sweep[s] \in SweepStates
  BY ActorsAssumption DEF Actors
<1>2. \A w \in sweep[s].activated \cup sweep[s].completed : << "window", w >> \in Locks
  BY <1>1 DEF SweepStates, Locks
<1>3. ASSUME NEW l, TakeLock(s, l), NEW k \in Locks, owner[k] = s PROVE owner'[k] = s
  BY <1>3 DEF TakeLock
<1>4. CASE Begin(s)
  <2>1. pc[s] = "idle" /\ sweep' = sweep
    BY <1>4 DEF Begin
  <2>2. sweep'[s].activated = {} /\ sweep'[s].completed = {}
    BY <2>1 DEF WindowInv, NewSweep
  <2>3. pc'[s] = "activate"
    BY <1>1, <1>4 DEF Begin, Goto
  <2> QED
    BY <2>2, <2>3
<1>5. CASE Fail(s) \/ Commit(s)
  BY <1>1, <1>5 DEF Fail, Commit, Goto, InTransaction, SweepPlaces, BeatPlaces
<1>6. CASE Activate(s)
  <2>1. PICK w \in ToActivate(s) :
               /\ TakeLock(s, << "window", w >>)
               /\ sweep' = [sweep EXCEPT ![s].activated = @ \cup {w}]
    BY <1>6 DEF Activate
  <2>2. /\ sweep'[s].activated = sweep[s].activated \cup {w}
        /\ sweep'[s].completed = sweep[s].completed
    BY <1>1, <2>1 DEF SweepStates
  <2>3. window[w] = "SCHEDULED" /\ << "window", w >> \in Locks
    BY DEF ToActivate, StatusFor, Locks
  <2>4. owner'[<< "window", w >>] = s
    BY <2>1, <2>3 DEF TakeLock
  <2>5. pc' = pc /\ pc[s] \in InTransaction /\ pc[s] # "idle"
    BY <1>6 DEF Activate, InTransaction, SweepPlaces
  <2> QED
    BY <1>2, <1>3, <2>1, <2>2, <2>3, <2>4, <2>5 DEF WindowInv
<1>7. CASE Complete(s)
  <2>1. PICK w \in ToComplete(s) :
               /\ TakeLock(s, << "window", w >>)
               /\ sweep' = [sweep EXCEPT ![s].completed = @ \cup {w}]
    BY <1>7 DEF Complete
  <2>2. /\ sweep'[s].activated = sweep[s].activated
        /\ sweep'[s].completed = sweep[s].completed \cup {w}
    BY <1>1, <2>1 DEF SweepStates
  <2>3. << "window", w >> \in Locks
    BY DEF ToComplete, Locks
  <2>4. owner'[<< "window", w >>] = s
    BY <2>1, <2>3 DEF TakeLock
  <2>5. pc' = pc /\ pc[s] \in InTransaction /\ pc[s] # "idle"
    BY <1>7 DEF Complete, InTransaction, SweepPlaces
  <2> QED
    BY <1>2, <1>3, <2>1, <2>2, <2>4, <2>5 DEF WindowInv
<1>8. ASSUME pc[s] \in InTransaction, pc'[s] # "idle",
             sweep'[s].activated = sweep[s].activated, sweep'[s].completed = sweep[s].completed,
             owner' = owner \/ \E l : TakeLock(s, l)
      PROVE  /\ pc'[s] # "idle"
             /\ pc'[s] \in InTransaction =>
                  \A w \in sweep'[s].activated \cup sweep'[s].completed :
                    /\ owner'[<< "window", w >>] = s
                    /\ w \notin sweep'[s].completed => window[w] = "SCHEDULED"
  BY <1>2, <1>3, <1>8 DEF WindowInv
<1>9. CASE EndActivate(s) \/ EndComplete(s) \/ ReadMaintenance(s) \/ ReadDevices(s)
           \/ ReadFailures(s) \/ Lookup(s)
  <2>1. pc[s] \in InTransaction /\ owner' = owner
    BY <1>9 DEF EndActivate, EndComplete, ReadMaintenance, ReadDevices, ReadFailures, Lookup,
       InTransaction, SweepPlaces
  <2>2. pc'[s] # "idle"
    BY <1>1, <1>9 DEF EndActivate, EndComplete, ReadMaintenance, ReadDevices, ReadFailures,
       Lookup, Goto
  <2>3. sweep'[s].activated = sweep[s].activated /\ sweep'[s].completed = sweep[s].completed
    <3>1. CASE EndActivate(s) \/ EndComplete(s)
      BY <3>1 DEF EndActivate, EndComplete
    <3>2. CASE ReadMaintenance(s) \/ ReadFailures(s)
      BY <1>1, <3>2 DEF ReadMaintenance, ReadFailures, SweepStates
    <3>3. CASE ReadDevices(s)
      BY <1>1, <3>3 DEF ReadDevices, SweepStates
    <3>4. CASE Lookup(s)
      BY <1>1, <3>4 DEF Lookup, SweepStates
    <3> QED
      BY <1>9, <3>1, <3>2, <3>3, <3>4
  <2> QED
    BY <1>8, <2>1, <2>2, <2>3
<1>10. CASE OpenAlarm(s) \/ ResolveAlarm(s) \/ LeaveAlarm(s)
  <2>1. pc[s] \in InTransaction /\ (owner' = owner \/ \E l : TakeLock(s, l))
    BY <1>10 DEF OpenAlarm, ResolveAlarm, LeaveAlarm, InTransaction, SweepPlaces
  <2>2. pc'[s] # "idle"
    BY <1>1, <1>10 DEF OpenAlarm, ResolveAlarm, LeaveAlarm, NextKey, Goto
  <2>3. sweep'[s].activated = sweep[s].activated /\ sweep'[s].completed = sweep[s].completed
    BY <1>1, <1>10 DEF OpenAlarm, ResolveAlarm, LeaveAlarm, SweepStates
  <2> QED
    BY <1>8, <2>1, <2>2, <2>3
<1> QED
  BY <1>4, <1>5, <1>6, <1>7, <1>9, <1>10 DEF RunSweep, AlarmCollides, DeadlockVictim

LEMMA WindowStep ==
  ASSUME TypeInv, WindowInv, [Next]_vars
  PROVE  WindowInv'
<1> SUFFICES ASSUME NEW s \in Sweeps
             PROVE  /\ pc'[s] = "idle" => sweep'[s] = NewSweep
                    /\ pc'[s] \in InTransaction =>
                         \A w \in sweep'[s].activated \cup sweep'[s].completed :
                           /\ owner'[<< "window", w >>] = s
                           /\ w \notin sweep'[s].completed => window'[w] = "SCHEDULED"
  BY DEF WindowInv, NewSweep
<1>1. s \in Actors /\ s # None /\ sweep[s] \in SweepStates /\ sweep'[s] \in SweepStates
  BY TypeStep, ActorsAssumption DEF Actors, TypeInv, TypeOK
<1>2. ASSUME NEW w \in sweep'[s].activated \cup sweep'[s].completed,
             owner'[<< "window", w >>] = s, pc'[s] \in InTransaction
      PROVE  window'[w] = window[w]
  <2>1. w \in Windows /\ << "window", w >> \in Locks
    BY <1>1 DEF SweepStates, Locks
  <2>2. ASSUME NEW t \in Sweeps, Commit(t), ActsAlone(t),
               w \in sweep[t].activated \cup sweep[t].completed
        PROVE  FALSE
    <3>1. pc[t] \in InTransaction /\ pc'[t] = "done" /\ t \in Actors
      BY <2>2 DEF Commit, Goto, InTransaction, Actors, TypeInv, TypeOK
    <3>2. owner[<< "window", w >>] = t
      BY <2>2, <3>1 DEF WindowInv
    <3>3. owner'[<< "window", w >>] = None
      BY <2>1, <2>2, <3>2 DEF Commit, ReleaseLocks
    <3> QED
      BY <1>1, <1>2, <3>3
  <2> QED
    BY <2>1, <2>2, WindowsCommitted
<1>3. CASE Begin(s) \/ RunSweep(s) \/ Fail(s)
  BY <1>2, <1>3, WindowOwnStep
<1>4. CASE /\ sweep'[s] = sweep[s] /\ pc'[s] = pc[s]
           /\ \A l \in Locks : owner[l] = s => owner'[l] = s
  <2>1. \A w \in sweep[s].activated \cup sweep[s].completed : << "window", w >> \in Locks
    BY <1>1 DEF SweepStates, Locks
  <2> QED
    BY <1>2, <1>4, <2>1 DEF WindowInv
<1> QED
  BY <1>3, <1>4, OthersKeep

\* Sweeps that overlap write a window one after the other, and each looks
\* again at the status it then has: no UPDATE of worker.py takes a
\* maintenance window back.
THEOREM MaintenanceMovesForwardHolds == Spec => MaintenanceMovesForward
<1>1. ASSUME TypeInv, WindowInv, [Next]_vars, NEW w \in Windows
      PROVE  Rank(window[w]) <= Rank(window'[w])
  <2>1. window[w] \in {"SCHEDULED", "ACTIVE", "COMPLETED"}
    BY <1>1 DEF TypeInv, TypeOK
  <2>2. CASE window'[w] = window[w]
    BY <2>1, <2>2 DEF Rank
  <2>3. ASSUME NEW s \in Sweeps, Commit(s), window'[w] = StatusFor(s, w),
               w \in sweep[s].activated \cup sweep[s].completed
        PROVE  window'[w] = "COMPLETED" \/ (window[w] = "SCHEDULED" /\ window'[w] = "ACTIVE")
    <3>1. pc[s] \in InTransaction
      BY <2>3 DEF Commit, InTransaction
    <3>2. w \notin sweep[s].completed => window[w] = "SCHEDULED"
      BY <1>1, <2>3, <3>1 DEF WindowInv
    <3> QED
      BY <2>3, <3>2 DEF StatusFor
  <2> QED
    BY <1>1, <2>1, <2>2, <2>3, WindowsCommitted DEF Rank
<1>2. TypeInv /\ WindowInv /\ [Next]_vars =>
        [\A w \in Windows : Rank(window[w]) <= Rank(window'[w])]_vars
  BY <1>1
<1> QED
  BY <1>2, TypeInit, TypeStep, WindowInit, WindowStep, PTL DEF Spec, MaintenanceMovesForward
-----------------------------------------------------------------------------
(* Open alarms.  A sweep opens a key once, holds its entry in the unique    *)
(* index from then on, and found no open row for it.                        *)

Opened(s) == {sweep[s].opened[i] : i \in DOMAIN sweep[s].opened}

\* The loop over devices comes before the loop over failures.
Phases(s) ==
  /\ pc[s] \in {"activate", "complete", "maintenance", "devices"} => Opened(s) = {}
  /\ pc[s] = "lookup" => \A k \in sweep[s].todo :
       /\ \A j \in sweep[s].todo : j[1] = k[1]
       /\ k[1] = "offline" => \A j \in Opened(s) : j[1] = "offline"
  /\ pc[s] = "evaluate" =>
       /\ \A j \in sweep[s].todo : j[1] = sweep[s].key[1]
       /\ sweep[s].key[1] = "offline" => \A j \in Opened(s) : j[1] = "offline"
  /\ pc[s] = "failures" => \A j \in Opened(s) : j[1] = "offline"

\* Keys are visited once.
VisitedOnce(s) ==
  /\ pc[s] \in {"lookup", "evaluate"} => \A k \in Opened(s) : k \notin sweep[s].todo
  /\ pc[s] = "evaluate" => sweep[s].key \notin Opened(s) \cup sweep[s].todo
  /\ \A i, j \in DOMAIN sweep[s].opened : sweep[s].opened[i] = sweep[s].opened[j] => i = j

Unopened(s) == \A k \in Opened(s) : owner[k] = s /\ OpenRows(k) = {}

AlarmInv ==
  /\ \A k \in AlarmKeys : \A i, j \in OpenRows(k) : i = j
  /\ \A s \in Sweeps : pc[s] \in InTransaction => Phases(s) /\ VisitedOnce(s) /\ Unopened(s)

LEMMA AppendImage ==
  ASSUME NEW S, NEW seq \in Seq(S), NEW e \in S
  PROVE  {Append(seq, e)[i] : i \in DOMAIN Append(seq, e)} = {seq[i] : i \in DOMAIN seq} \cup {e}
<1> DEFINE longer == Append(seq, e)
<1>1. /\ Len(seq) \in Nat /\ DOMAIN seq = 1 .. Len(seq)
      /\ longer \in Seq(S) /\ Len(longer) = Len(seq) + 1
      /\ \A i \in 1 .. Len(seq) : longer[i] = seq[i]
      /\ longer[Len(seq) + 1] = e
  BY LenProperties, AppendProperties
<1>2. DOMAIN longer = 1 .. Len(seq) + 1
  BY <1>1, LenProperties
<1> HIDE DEF longer
<1>3. \A i \in DOMAIN longer : i \in DOMAIN seq \/ i = Len(seq) + 1
  BY <1>1, <1>2
<1>4. DOMAIN seq \subseteq DOMAIN longer /\ Len(seq) + 1 \in DOMAIN longer
  BY <1>1, <1>2
<1>5. {longer[i] : i \in DOMAIN longer} \subseteq {seq[i] : i \in DOMAIN seq} \cup {e}
  BY <1>1, <1>3
<1>6. {seq[i] : i \in DOMAIN seq} \cup {e} \subseteq {longer[i] : i \in DOMAIN longer}
  BY <1>1, <1>4
<1>7. {longer[i] : i \in DOMAIN longer} = {seq[i] : i \in DOMAIN seq} \cup {e}
  BY <1>5, <1>6
<1> QED
  BY <1>7 DEF longer

LEMMA AtMostOne ==
  ASSUME NEW S, IsFiniteSet(S)
  PROVE  Cardinality(S) <= 1 <=> \A i, j \in S : i = j
<1>1. Cardinality(S) \in Nat /\ (Cardinality(S) = 0 <=> S = {})
  BY FS_CardinalityType, FS_EmptySet
<1>2. Cardinality(S) = 1 <=> \E x : S = {x}
  BY FS_Singleton
<1>3. (\A i, j \in S : i = j) <=> (S = {} \/ \E x : S = {x})
  OBVIOUS
<1> QED
  BY <1>1, <1>2, <1>3

LEMMA OpenInFinite ==
  ASSUME NEW table \in Seq(AlarmRows), NEW k
  PROVE  IsFiniteSet(OpenIn(table, k))
<1>1. Len(table) \in Nat /\ DOMAIN table = 1 .. Len(table)
  BY LenProperties
<1>2. IsFiniteSet(1 .. Len(table))
  BY <1>1, FS_Interval
<1>3. OpenIn(table, k) \subseteq 1 .. Len(table)
  BY <1>1 DEF OpenIn
<1> QED
  BY <1>2, <1>3, FS_Subset

LEMMA AlarmInit == Init => AlarmInv
<1> SUFFICES ASSUME Init PROVE AlarmInv
  OBVIOUS
<1>1. alarms \in Seq(AlarmRows) /\ \A k \in AlarmKeys : Cardinality(OpenRows(k)) <= 1
  BY AlarmsAssumption DEF Init, OpenRows
<1>2. \A k \in AlarmKeys : \A i, j \in OpenRows(k) : i = j
  BY <1>1, AtMostOne, OpenInFinite DEF OpenRows
<1>3. \A s \in Sweeps : pc[s] = "idle"
  BY DEF Init, Actors
<1> QED
  BY <1>2, <1>3 DEF AlarmInv, InTransaction, SweepPlaces, BeatPlaces

\* The rows of alarms change by the commit of a sweep only, which opens the
\* keys it has locked.
LEMMA RowsCommitted ==
  ASSUME TypeInv, [Next]_vars
  PROVE  \/ alarms' = alarms
         \/ \E s \in Sweeps : Commit(s) /\ ActsAlone(s)
<1>1. ASSUME NEW s \in Sweeps, Begin(s) \/ Fail(s) PROVE alarms' = alarms
  BY <1>1 DEF Begin, Fail, dbVars
<1>2. ASSUME NEW s \in Sweeps, RunSweep(s), ~Commit(s) PROVE alarms' = alarms
  <2> SUFFICES ASSUME ~Fail(s) PROVE alarms' = alarms
    BY DEF Fail, dbVars
  <2> QED
    BY <1>2 DEF RunSweep, Activate, EndActivate, Complete, EndComplete, ReadMaintenance,
       ReadDevices, Lookup, OpenAlarm, AlarmCollides, ResolveAlarm, LeaveAlarm, ReadFailures,
       DeadlockVictim, Keep, dbVars
<1> QED
  BY <1>1, <1>2, OneActs DEF AllRest

\* A row that is open after a commit was open before, or is of an opened key.
LEMMA OpenAfterCommit ==
  ASSUME TypeInv, NEW s \in Sweeps, Commit(s), NEW k \in AlarmKeys, NEW i \in OpenRows(k)'
  PROVE  \/ i \in OpenRows(k)
         \/ \E j \in DOMAIN sweep[s].opened : i = Len(alarms) + j /\ sweep[s].opened[j] = k
<1> DEFINE opened == sweep[s].opened
<1>1. /\ Len(alarms) \in Nat /\ DOMAIN alarms = 1 .. Len(alarms)
      /\ Len(opened) \in Nat /\ DOMAIN opened = 1 .. Len(opened)
      /\ DOMAIN alarms' = 1 .. Len(alarms) + Len(opened)
      /\ \A n \in DOMAIN alarms :
           alarms'[n] = IF n \in sweep[s].resolved
                        THEN [alarms[n] EXCEPT !.status = "RESOLVED", !.closedAt = now[s]]
                        ELSE alarms[n]
      /\ \A j \in DOMAIN opened : alarms'[Len(alarms) + j] = OpenRow(s, opened[j])
  BY CommitRows
<1>2. i \in DOMAIN alarms' /\ alarms'[i].key = k /\ alarms'[i].status = "OPEN"
  BY DEF OpenRows, OpenIn
<1>3. CASE i \in DOMAIN alarms
  <2>1. alarms[i] \in AlarmRows
    BY <1>1, <1>3, ElementOfSeq DEF TypeInv, TypeOK
  <2>2. i \notin sweep[s].resolved
    BY <1>1, <1>2, <1>3, <2>1 DEF AlarmRows
  <2> QED
    BY <1>1, <1>2, <1>3, <2>2 DEF OpenRows, OpenIn
<1>4. CASE i \notin DOMAIN alarms
  <2> DEFINE j == i - Len(alarms)
  <2>1. j \in DOMAIN opened /\ i = Len(alarms) + j
    <3>1. /\ Len(alarms) \in Nat /\ DOMAIN alarms = 1 .. Len(alarms)
          /\ Len(opened) \in Nat /\ DOMAIN opened = 1 .. Len(opened)
          /\ i \in 1 .. Len(alarms) + Len(opened) /\ i \notin 1 .. Len(alarms)
      BY <1>1, <1>2, <1>4
    <3> HIDE DEF opened
    <3> QED
      BY <3>1
  <2>2. alarms'[i] = OpenRow(s, opened[j])
    BY <1>1, <2>1
  <2>3. opened[j] = k
    BY <1>2, <2>2 DEF OpenRow
  <2> QED
    BY <2>1, <2>3
<1> QED
  BY <1>3, <1>4

\* What a sweep has opened while other sweeps commit.
LEMMA OneRowStep ==
  ASSUME TypeInv, AlarmInv, [Next]_vars
  PROVE  \A k \in AlarmKeys : \A i, j \in OpenRows(k)' : i = j
<1> SUFFICES ASSUME NEW k \in AlarmKeys, NEW i \in OpenRows(k)', NEW j \in OpenRows(k)'
             PROVE  i = j
  OBVIOUS
<1>1. CASE alarms' = alarms
  BY <1>1 DEF AlarmInv, OpenRows
<1>2. ASSUME NEW s \in Sweeps, Commit(s) PROVE i = j
  <2>1. VisitedOnce(s) /\ Unopened(s)
    BY <1>2 DEF AlarmInv, Commit, InTransaction
  <2>2. \A n \in DOMAIN sweep[s].opened : sweep[s].opened[n] = k => OpenRows(k) = {}
    BY <2>1 DEF Unopened, Opened
  <2>3. \A m, n \in DOMAIN sweep[s].opened :
          sweep[s].opened[m] = k /\ sweep[s].opened[n] = k => m = n
    BY <2>1 DEF VisitedOnce
  <2> QED
    BY <1>2, <2>2, <2>3, OpenAfterCommit DEF AlarmInv
<1> QED
  BY <1>1, <1>2, RowsCommitted

LEMMA StillUnopened ==
  ASSUME TypeInv, AlarmInv, [Next]_vars, NEW s \in Sweeps, NEW k \in AlarmKeys,
         OpenRows(k) = {}, owner'[k] = s
  PROVE  OpenRows(k)' = {}
<1>1. CASE alarms' = alarms
  BY <1>1 DEF OpenRows
<1>2. ASSUME NEW t \in Sweeps, Commit(t) PROVE OpenRows(k)' = {}
  <2>1. Unopened(t) /\ k \in Locks /\ s # None
    BY <1>2, ActorsAssumption DEF AlarmInv, Commit, InTransaction, Locks
  <2>2. owner[k] # t
    BY <1>2, <2>1 DEF Commit, ReleaseLocks
  <2>3. \A n \in DOMAIN sweep[t].opened : sweep[t].opened[n] # k
    BY <2>1, <2>2 DEF Unopened, Opened
  <2> QED
    BY <1>2, <2>3, OpenAfterCommit
<1> QED
  BY <1>1, <1>2, RowsCommitted

\* What the sweep that acts has opened.
LEMMA AlarmOwnStep ==
  ASSUME TypeInv, WindowInv, AlarmInv, [Next]_vars, NEW s \in Sweeps,
         Begin(s) \/ RunSweep(s) \/ Fail(s), pc'[s] \in InTransaction
  PROVE  Phases(s)' /\ VisitedOnce(s)' /\ Unopened(s)'
<1> USE DEF TypeInv, TypeOK
<1>1. s \in Actors /\ s # None /\ sweep[s] \in SweepStates /\ pc[s] \in InTransaction \cup {"idle"} \cup Ended
  BY ActorsAssumption DEF Actors
<1>2. /\ sweep[s].opened \in Seq(AlarmKeys) /\ sweep[s].todo \subseteq AlarmKeys
      /\ Opened(s) \subseteq AlarmKeys /\ AlarmKeys \subseteq Locks
  BY <1>1 DEF SweepStates, Opened, Locks
<1>3. ~Fail(s) /\ ~Commit(s)
  BY <1>1 DEF Fail, Commit, Goto, InTransaction, SweepPlaces, BeatPlaces
<1>4. ASSUME sweep'[s].opened = sweep[s].opened, pc[s] \in InTransaction,
             owner' = owner \/ \E l : TakeLock(s, l)
      PROVE  Opened(s)' = Opened(s) /\ Unopened(s)'
  <2>1. Opened(s)' = Opened(s)
    BY <1>4 DEF Opened
  <2>2. \A k \in Opened(s) : owner[k] = s /\ OpenRows(k) = {}
    BY <1>4 DEF AlarmInv, Unopened
  <2>3. \A k \in Opened(s) : owner'[k] = s
    BY <1>2, <1>4, <2>2 DEF TakeLock
  <2> HIDE DEF TypeInv, TypeOK
  <2>4. \A k \in Opened(s) : OpenRows(k)' = {}
    BY <1>2, <2>2, <2>3, StillUnopened
  <2> QED
    BY <2>1, <2>3, <2>4 DEF Unopened
<1>5. pc[s] \in InTransaction => Phases(s) /\ VisitedOnce(s)
  BY DEF AlarmInv
<1>6. CASE Begin(s)
  <2>1. pc'[s] = "activate" /\ sweep'[s] = NewSweep
    BY <1>1, <1>6 DEF Begin, Goto, WindowInv
  <2>2. Opened(s)' = {} /\ DOMAIN sweep'[s].opened = {}
    BY <2>1 DEF Opened, NewSweep
  <2> QED
    BY <2>1, <2>2 DEF Phases, VisitedOnce, Unopened
<1>7. CASE Activate(s) \/ EndActivate(s) \/ Complete(s) \/ EndComplete(s) \/ ReadMaintenance(s)
  <2>1. /\ pc[s] \in {"activate", "complete", "maintenance"}
        /\ pc'[s] \in {"activate", "complete", "maintenance", "devices"}
    BY <1>1, <1>7 DEF Activate, EndActivate, Complete, EndComplete, ReadMaintenance, Goto, Keep
  <2>2. sweep'[s].opened = sweep[s].opened
    <3>1. CASE EndActivate(s) \/ EndComplete(s)
      BY <3>1 DEF EndActivate, EndComplete
    <3>2. CASE Activate(s)
      BY <1>1, <3>2 DEF Activate, SweepStates
    <3>3. CASE Complete(s)
      BY <1>1, <3>3 DEF Complete, SweepStates
    <3>4. CASE ReadMaintenance(s)
      BY <1>1, <3>4 DEF ReadMaintenance, SweepStates
    <3> QED
      BY <1>7, <3>1, <3>2, <3>3, <3>4
  <2>3. owner' = owner \/ \E l : TakeLock(s, l)
    BY <1>7 DEF Activate, EndActivate, Complete, EndComplete, ReadMaintenance
  <2>4. pc[s] \in InTransaction
    BY <2>1 DEF InTransaction, SweepPlaces
  <2>5. Opened(s)' = {} /\ Unopened(s)' /\ VisitedOnce(s)
    BY <1>4, <1>5, <2>1, <2>2, <2>3, <2>4 DEF Phases
  <2> QED
    BY <2>1, <2>2, <2>5 DEF Phases, VisitedOnce
<1>8. CASE ReadDevices(s)
  <2>1. /\ pc[s] = "devices" /\ pc'[s] \in {"failures", "lookup"}
        /\ sweep'[s].opened = sweep[s].opened /\ owner' = owner
        /\ sweep'[s].todo = {"offline"} \X ActiveDevices
    BY <1>1, <1>8 DEF ReadDevices, Goto, SweepStates
  <2>2. pc[s] \in InTransaction
    BY <2>1 DEF InTransaction, SweepPlaces
  <2>3. Opened(s)' = {} /\ Unopened(s)' /\ VisitedOnce(s)
    BY <1>4, <1>5, <2>1, <2>2 DEF Phases
  <2> QED
    BY <2>1, <2>3 DEF Phases, VisitedOnce
<1>9. CASE ReadFailures(s)
  <2>1. /\ pc[s] = "failures" /\ pc'[s] \in {"commit", "lookup"}
        /\ sweep'[s].opened = sweep[s].opened /\ owner' = owner
        /\ sweep'[s].todo = {"failures"} \X Failing(now[s])
    BY <1>1, <1>9 DEF ReadFailures, Goto, SweepStates
  <2>2. pc[s] \in InTransaction
    BY <2>1 DEF InTransaction, SweepPlaces
  <2>3. Opened(s)' = Opened(s) /\ Unopened(s)' /\ VisitedOnce(s)
    BY <1>4, <1>5, <2>1, <2>2
  <2>4. \A k \in Opened(s) : k[1] = "offline"
    BY <1>5, <2>1, <2>2 DEF Phases
  <2>5. \A k \in sweep'[s].todo : k[1] = "failures"
    BY <2>1
  <2> QED
    BY <2>1, <2>3, <2>4, <2>5 DEF Phases, VisitedOnce
<1>10. CASE Lookup(s)
  <2>1. PICK k \in sweep[s].todo :
               /\ sweep'[s].key = k /\ sweep'[s].todo = sweep[s].todo \ {k}
               /\ sweep'[s].opened = sweep[s].opened
    <3>1. PICK k \in sweep[s].todo : \E existing :
                 sweep' = [sweep EXCEPT ![s].key = k, ![s].todo = @ \ {k}, ![s].existing = existing]
      BY <1>10 DEF Lookup
    <3> QED
      BY <1>1, <3>1 DEF SweepStates
  <2>2. pc[s] = "lookup" /\ pc'[s] = "evaluate" /\ owner' = owner
    BY <1>1, <1>10 DEF Lookup, Goto
  <2>3. pc[s] \in InTransaction
    BY <2>2 DEF InTransaction, SweepPlaces
  <2>4. Opened(s)' = Opened(s) /\ Unopened(s)' /\ Phases(s) /\ VisitedOnce(s)
    BY <1>4, <1>5, <2>1, <2>2, <2>3
  <2>5. Phases(s)'
    BY <2>1, <2>2, <2>4 DEF Phases
  <2>6. VisitedOnce(s)'
    BY <2>1, <2>2, <2>4 DEF VisitedOnce
  <2> QED
    BY <2>4, <2>5, <2>6
<1>11. ASSUME pc[s] = "evaluate", NextKey(s), sweep'[s].todo = sweep[s].todo,
              sweep'[s].key = sweep[s].key,
              Opened(s)' = Opened(s) \/ Opened(s)' = Opened(s) \cup {sweep[s].key}
       PROVE  /\ Phases(s)'
              /\ \A k \in Opened(s)' : k \notin sweep'[s].todo
              /\ pc'[s] # "evaluate"
  <2>1. pc[s] \in InTransaction
    BY <1>11 DEF InTransaction, SweepPlaces
  <2>2. Phases(s) /\ VisitedOnce(s)
    BY <1>5, <2>1
  <2>3. pc'[s] = IF sweep'[s].todo # {} THEN "lookup"
                 ELSE IF sweep'[s].key[1] = "offline" THEN "failures" ELSE "commit"
    BY <1>1, <1>11 DEF NextKey, Goto
  <2>4. \A k \in sweep'[s].todo : k[1] = sweep[s].key[1]
    BY <1>11, <2>2 DEF Phases
  <2>5. sweep[s].key[1] = "offline" => \A k \in Opened(s)' : k[1] = "offline"
    BY <1>11, <2>2 DEF Phases
  <2>6. \A k \in Opened(s)' : k \notin sweep'[s].todo
    BY <1>11, <2>2 DEF VisitedOnce
  <2> QED
    BY <1>11, <2>3, <2>4, <2>5, <2>6 DEF Phases
<1>12. CASE ResolveAlarm(s) \/ LeaveAlarm(s)
  <2>1. /\ sweep'[s].opened = sweep[s].opened /\ sweep'[s].todo = sweep[s].todo
        /\ sweep'[s].key = sweep[s].key
    BY <1>1, <1>12 DEF ResolveAlarm, LeaveAlarm, SweepStates
  <2>2. pc[s] = "evaluate" /\ NextKey(s) /\ (owner' = owner \/ \E l : TakeLock(s, l))
    BY <1>12 DEF ResolveAlarm, LeaveAlarm, NextKey, Goto
  <2>3. pc[s] \in InTransaction
    BY <2>2 DEF InTransaction, SweepPlaces
  <2>4. Opened(s)' = Opened(s) /\ Unopened(s)' /\ VisitedOnce(s)
    BY <1>4, <1>5, <2>1, <2>2, <2>3
  <2>5. Phases(s)' /\ (\A k \in Opened(s)' : k \notin sweep'[s].todo) /\ pc'[s] # "evaluate"
    BY <1>11, <2>1, <2>2, <2>4
  <2> QED
    BY <2>1, <2>4, <2>5 DEF VisitedOnce
<1>13. CASE OpenAlarm(s)
  <2> DEFINE key == sweep[s].key
             opened == sweep[s].opened
  <2>1. /\ sweep'[s].opened = Append(opened, key) /\ sweep'[s].todo = sweep[s].todo
        /\ sweep'[s].key = key
    BY <1>1, <1>13 DEF OpenAlarm, SweepStates
  <2>2. pc[s] = "evaluate" /\ NextKey(s) /\ OpenRows(key) = {} /\ TakeLock(s, key)
    BY <1>13 DEF OpenAlarm, NextKey, Goto
  <2>3. pc[s] \in InTransaction /\ key \in AlarmKeys
    BY <2>2 DEF InTransaction, SweepPlaces
  <2>4. VisitedOnce(s) /\ Unopened(s)
    BY <2>3 DEF AlarmInv
  <2>5. /\ Len(opened) \in Nat /\ DOMAIN opened = 1 .. Len(opened)
        /\ Append(opened, key) \in Seq(AlarmKeys)
        /\ Len(Append(opened, key)) = Len(opened) + 1
        /\ \A i \in 1 .. Len(opened) : Append(opened, key)[i] = opened[i]
        /\ Append(opened, key)[Len(opened) + 1] = key
    BY <1>2, <2>3, LenProperties, AppendProperties
  <2>6. DOMAIN Append(opened, key) = 1 .. Len(opened) + 1
    BY <2>5, LenProperties
  <2>7. \A i \in 1 .. Len(opened) + 1 : i \in 1 .. Len(opened) \/ i = Len(opened) + 1
    BY <2>5
  <2>8. Opened(s)' = Opened(s) \cup {key}
    <3>1. {Append(opened, key)[i] : i \in DOMAIN Append(opened, key)}
            = {opened[i] : i \in DOMAIN opened} \cup {key}
      <4>1. opened \in Seq(AlarmKeys) /\ key \in AlarmKeys
        BY <1>2, <2>3
      <4> HIDE DEF opened, key, TypeInv, TypeOK
      <4> QED
        BY <4>1, AppendImage
    <3>2. Opened(s)' = {Append(opened, key)[i] : i \in DOMAIN Append(opened, key)}
      BY <2>1 DEF Opened
    <3> QED
      BY <3>1, <3>2 DEF Opened
  <2>9. key \notin Opened(s)
    BY <2>2, <2>4 DEF VisitedOnce
  <2>10. ASSUME NEW i \in DOMAIN sweep'[s].opened, NEW j \in DOMAIN sweep'[s].opened,
                sweep'[s].opened[i] = sweep'[s].opened[j]
         PROVE  i = j
    <3>1. \A n \in 1 .. Len(opened) : opened[n] # key
      BY <2>5, <2>9 DEF Opened
    <3>2. \A m, n \in 1 .. Len(opened) : opened[m] = opened[n] => m = n
      BY <2>4, <2>5 DEF VisitedOnce
    <3> QED
      BY <3>1, <3>2, <2>1, <2>5, <2>6, <2>7, <2>10
  <2>11. Phases(s)' /\ (\A k \in Opened(s)' : k \notin sweep'[s].todo) /\ pc'[s] # "evaluate"
    BY <1>11, <2>1, <2>2, <2>8
  <2>12. VisitedOnce(s)'
    BY <2>10, <2>11 DEF VisitedOnce
  <2>13. \A k \in Opened(s)' : OpenRows(k) = {} /\ owner'[k] = s
    BY <1>2, <2>2, <2>3, <2>4, <2>8 DEF Unopened, TakeLock
  <2>14. Opened(s)' \subseteq AlarmKeys
    BY <1>2, <2>3, <2>8
  <2> HIDE DEF TypeInv, TypeOK
  <2>15. Unopened(s)'
    BY <2>13, <2>14, StillUnopened DEF Unopened
  <2> QED
    BY <2>11, <2>12, <2>15
<1> QED
  BY <1>3, <1>6, <1>7, <1>8, <1>9, <1>10, <1>12, <1>13 DEF RunSweep, AlarmCollides, DeadlockVictim

LEMMA AlarmStep ==
  ASSUME TypeInv, WindowInv, AlarmInv, [Next]_vars
  PROVE  AlarmInv'
<1>1. ASSUME NEW s \in Sweeps, pc'[s] \in InTransaction
      PROVE  Phases(s)' /\ VisitedOnce(s)' /\ Unopened(s)'
  <2>1. CASE Begin(s) \/ RunSweep(s) \/ Fail(s)
    BY <1>1, <2>1, AlarmOwnStep
  <2>2. CASE /\ sweep'[s] = sweep[s] /\ pc'[s] = pc[s]
             /\ \A l \in Locks : owner[l] = s => owner'[l] = s
    <3>1. Phases(s) /\ VisitedOnce(s) /\ Unopened(s)
      BY <1>1, <2>2 DEF AlarmInv
    <3>2. Opened(s)' = Opened(s)
      BY <2>2 DEF Opened
    <3>3. Opened(s) \subseteq AlarmKeys /\ AlarmKeys \subseteq Locks
      BY DEF TypeInv, TypeOK, SweepStates, Opened, Locks
    <3>4. \A k \in Opened(s) : owner'[k] = s /\ OpenRows(k)' = {}
      BY <2>2, <3>1, <3>3, StillUnopened DEF Unopened
    <3>5. Phases(s)'
      BY <2>2, <3>1, <3>2 DEF Phases
    <3>6. VisitedOnce(s)'
      BY <2>2, <3>1, <3>2 DEF VisitedOnce
    <3>7. Unopened(s)'
      BY <3>2, <3>4 DEF Unopened
    <3> QED
      BY <3>5, <3>6, <3>7
  <2> QED
    BY <2>1, <2>2, OthersKeep
<1>2. \A k \in AlarmKeys : \A i, j \in OpenRows(k)' : i = j
  BY OneRowStep
<1> QED
  BY <1>1, <1>2 DEF AlarmInv

\* worker.py looks for an open alarm before it inserts one, and the unique
\* index makes it wait for, and fail on, the one of another sweep: however
\* many sweeps overlap and fail, a key never has two open alarms.
THEOREM OneOpenAlarmPerKeyHolds == Spec => []OneOpenAlarmPerKey
<1>1. TypeInv /\ AlarmInv => OneOpenAlarmPerKey
  <2> SUFFICES ASSUME TypeInv, AlarmInv, NEW k \in AlarmKeys
               PROVE  Cardinality(OpenRows(k)) <= 1
    BY DEF OneOpenAlarmPerKey
  <2>1. IsFiniteSet(OpenRows(k))
    BY OpenInFinite DEF TypeInv, TypeOK, OpenRows
  <2> QED
    BY <2>1, AtMostOne DEF AlarmInv
<1> QED
  BY <1>1, TypeInit, TypeStep, WindowInit, WindowStep, AlarmInit, AlarmStep, PTL DEF Spec

(* What an actor remembers of its begin, and how the tables move beside it. *)

Began(a) ==
  /\ pc[a] = "idle" /\ pc'[a] \in {"activate", "find"}
  /\ Start(a)
  /\ UNCHANGED << dbVars, clock, sweep >>
  /\ \A c \in Actors \ {a} : pc'[c] = pc[c]

Failed(a) ==
  /\ pc[a] \in InTransaction
  /\ Fail(a)

\* No actor begins or fails, and none that has ended goes on.
Runs ==
  /\ UNCHANGED << now, since >>
  /\ \A c \in Actors : pc[c] \in Ended \cup {"idle"} => pc'[c] = pc[c]

LEMMA VictimRuns ==
  ASSUME NEW s, DeadlockVictim(s)
  PROVE  pc[s] \in InTransaction
<1>1. Awaited(s) # {}
  BY DEF DeadlockVictim, Blocked
<1>2. pc[s] \in {"activate", "complete", "evaluate"}
  BY <1>1 DEF Awaited
<1> QED
  BY <1>2 DEF InTransaction, SweepPlaces

LEMMA SweepMoves ==
  ASSUME TypeInv, NEW s \in Sweeps, Begin(s) \/ RunSweep(s)
  PROVE  Began(s) \/ Failed(s) \/ Runs
<1> USE DEF TypeInv, TypeOK
<1>1. s \in Actors
  BY DEF Actors
<1>2. CASE Begin(s)
  BY <1>1, <1>2 DEF Begin, Began, Goto, dbVars
<1>3. CASE AlarmCollides(s) \/ DeadlockVictim(s)
  BY <1>3, VictimRuns DEF AlarmCollides, DeadlockVictim, Failed, InTransaction, SweepPlaces
<1>4. CASE Activate(s) \/ Complete(s) \/ EndActivate(s) \/ EndComplete(s)
           \/ ReadMaintenance(s) \/ ReadDevices(s) \/ Lookup(s) \/ ReadFailures(s)
  BY <1>4 DEF Activate, Complete, EndActivate, EndComplete, ReadMaintenance, ReadDevices,
     Lookup, ReadFailures, Keep, Goto, Runs, Ended
<1>5. CASE OpenAlarm(s) \/ ResolveAlarm(s) \/ LeaveAlarm(s) \/ Commit(s)
  BY <1>5 DEF OpenAlarm, ResolveAlarm, LeaveAlarm, Commit, NextKey, Keep, Goto, Runs, Ended
<1> QED
  BY <1>2, <1>3, <1>4, <1>5 DEF RunSweep

LEMMA BeatMoves ==
  ASSUME TypeInv, NEW b \in Beats, (\E d \in ActiveDevices : Receive(b, d)) \/ Serve(b)
  PROVE  Began(b) \/ Failed(b) \/ Runs
<1> USE DEF TypeInv, TypeOK
<1>1. b \in Actors
  BY DEF Actors
<1>2. CASE \E d \in ActiveDevices : Receive(b, d)
  BY <1>1, <1>2 DEF Receive, Began, Goto, dbVars
<1>3. CASE StateCollides(b)
  BY <1>3 DEF StateCollides, Failed, InTransaction, BeatPlaces
<1>4. CASE FindState(b) \/ InsertState(b) \/ UpdateState(b) \/ CommitBeat(b)
  BY <1>4 DEF FindState, InsertState, UpdateState, CommitBeat, Keep, Goto, Runs, Ended
<1> QED
  BY <1>2, <1>3, <1>4 DEF Serve

LEMMA Moves ==
  ASSUME TypeInv, [Next]_vars
  PROVE  Runs \/ \E a \in Actors : Began(a) \/ Failed(a)
<1>1. ASSUME NEW a \in Actors, Abort(a) PROVE Failed(a)
  BY <1>1 DEF Abort, Failed
<1>2. ASSUME NEW e \in Executions, ExecutionFails(e) \/ ExecutionRestarts(e) PROVE Runs
  BY <1>2 DEF ExecutionFails, ExecutionRestarts, Runs
<1>3. Tick \/ UNCHANGED vars => Runs
  BY DEF Tick, vars, Runs
<1> QED
  BY <1>1, <1>2, <1>3, SweepMoves, BeatMoves DEF Next, Step, Over, Actors

\* The tables of heartbeats change by the commit of a heartbeat.
LEMMA BeatsCommitted ==
  ASSUME TypeInv, [Next]_vars
  PROVE  \/ UNCHANGED << lastSeen, heartbeats >>
         \/ \E b \in Beats : CommitBeat(b)
<1>1. ASSUME NEW a, Fail(a) PROVE UNCHANGED << lastSeen, heartbeats >>
  BY <1>1 DEF Fail, dbVars
<1>2. ASSUME NEW s \in Sweeps, Begin(s) \/ RunSweep(s) PROVE UNCHANGED << lastSeen, heartbeats >>
  <2> SUFFICES ASSUME ~Fail(s) PROVE UNCHANGED << lastSeen, heartbeats >>
    BY <1>1
  <2> QED
    BY <1>2 DEF RunSweep, Begin, Activate, EndActivate, Complete, EndComplete, ReadMaintenance,
       ReadDevices, Lookup, OpenAlarm, AlarmCollides, ResolveAlarm, LeaveAlarm, ReadFailures,
       Commit, DeadlockVictim, Keep, dbVars
<1>3. ASSUME NEW b \in Beats, (\E d \in ActiveDevices : Receive(b, d)) \/ Serve(b), ~CommitBeat(b)
      PROVE  UNCHANGED << lastSeen, heartbeats >>
  <2> SUFFICES ASSUME ~Fail(b) PROVE UNCHANGED << lastSeen, heartbeats >>
    BY <1>1
  <2> QED
    BY <1>3 DEF Serve, Receive, FindState, InsertState, StateCollides, UpdateState, Keep, dbVars
<1>4. ASSUME NEW e \in Executions, ExecutionFails(e) \/ ExecutionRestarts(e)
      PROVE  UNCHANGED << lastSeen, heartbeats >>
  BY <1>4 DEF ExecutionFails, ExecutionRestarts, dbVars
<1>5. Tick \/ UNCHANGED vars => UNCHANGED << lastSeen, heartbeats >>
  BY DEF Tick, vars, dbVars
<1> QED
  BY <1>1, <1>2, <1>3, <1>4, <1>5 DEF Next, Step, Over, Abort

LEMMA ClockMoves ==
  ASSUME TypeInv, [Next]_vars
  PROVE  clock' \in Nat /\ clock <= clock'
<1> USE DEF TypeInv, TypeOK
<1>1. ASSUME NEW a, Fail(a) PROVE clock' = clock
  BY <1>1 DEF Fail
<1>2. ASSUME NEW s \in Sweeps, Begin(s) \/ RunSweep(s) PROVE clock' = clock
  <2> SUFFICES ASSUME ~Fail(s) PROVE clock' = clock
    BY <1>1
  <2> QED
    BY <1>2 DEF RunSweep, Begin, Activate, EndActivate, Complete, EndComplete, ReadMaintenance,
       ReadDevices, Lookup, OpenAlarm, AlarmCollides, ResolveAlarm, LeaveAlarm, ReadFailures,
       Commit, DeadlockVictim, Keep
<1>3. ASSUME NEW b \in Beats, (\E d \in ActiveDevices : Receive(b, d)) \/ Serve(b)
      PROVE  clock' = clock
  <2> SUFFICES ASSUME ~Fail(b) PROVE clock' = clock
    BY <1>1
  <2> QED
    BY <1>3 DEF Serve, Receive, FindState, InsertState, StateCollides, UpdateState, CommitBeat, Keep
<1>4. ASSUME NEW e \in Executions, ExecutionFails(e) \/ ExecutionRestarts(e) PROVE clock' = clock
  BY <1>4 DEF ExecutionFails, ExecutionRestarts
<1>5. Tick => clock' = clock + 1
  BY DEF Tick
<1>6. UNCHANGED vars => clock' = clock
  BY DEF vars
<1>7. clock' = clock \/ clock' = clock + 1
  BY <1>1, <1>2, <1>3, <1>4, <1>5, <1>6 DEF Next, Step, Over, Abort
<1> QED
  BY <1>7

\* A row of alarms keeps its key, and one that is resolved stays so.
LEMMA RowsMove ==
  ASSUME TypeInv, [Next]_vars
  PROVE  /\ DOMAIN alarms \subseteq DOMAIN alarms'
         /\ \A i \in DOMAIN alarms :
              /\ alarms'[i].key = alarms[i].key
              /\ alarms[i].status = "RESOLVED" => alarms'[i].status = "RESOLVED"
<1>1. CASE alarms' = alarms
  BY <1>1
<1>2. ASSUME NEW s \in Sweeps, Commit(s)
      PROVE  /\ DOMAIN alarms \subseteq DOMAIN alarms'
             /\ \A i \in DOMAIN alarms :
                  /\ alarms'[i].key = alarms[i].key
                  /\ alarms[i].status = "RESOLVED" => alarms'[i].status = "RESOLVED"
  <2>1. /\ Len(alarms) \in Nat /\ DOMAIN alarms = 1 .. Len(alarms)
        /\ Len(sweep[s].opened) \in Nat
        /\ DOMAIN alarms' = 1 .. Len(alarms) + Len(sweep[s].opened)
        /\ \A i \in DOMAIN alarms :
             alarms'[i] = IF i \in sweep[s].resolved
                          THEN [alarms[i] EXCEPT !.status = "RESOLVED", !.closedAt = now[s]]
                          ELSE alarms[i]
    BY <1>2, CommitRows
  <2>2. \A i \in DOMAIN alarms : alarms[i] \in AlarmRows
    BY <2>1, ElementOfSeq DEF TypeInv, TypeOK
  <2>3. DOMAIN alarms \subseteq DOMAIN alarms'
    <3>1. \A m, n \in Nat : 1 .. m \subseteq 1 .. m + n
      OBVIOUS
    <3> QED
      BY <2>1, <3>1
  <2>4. ASSUME NEW i \in DOMAIN alarms
        PROVE  /\ alarms'[i].key = alarms[i].key
               /\ alarms[i].status = "RESOLVED" => alarms'[i].status = "RESOLVED"
    <3>1. CASE i \in sweep[s].resolved
      <4>1. alarms'[i] = [alarms[i] EXCEPT !.status = "RESOLVED", !.closedAt = now[s]]
        BY <2>1, <3>1
      <4> QED
        BY <2>2, <4>1 DEF AlarmRows
    <3>2. CASE i \notin sweep[s].resolved
      BY <2>1, <3>2
    <3> QED
      BY <3>1, <3>2
  <2> QED
    BY <2>3, <2>4
<1> QED
  BY <1>1, <1>2, RowsCommitted
-----------------------------------------------------------------------------
(* Heartbeats.  A heartbeat knows those that were accepted before it began, *)
(* none of which is later than it.                                          *)

\* g is the heartbeat of device d that was accepted last.
Latest(g, d) ==
  /\ g.device = d /\ g.at = lastSeen[d]
  /\ \A h \in heartbeats : h.device = d => g \notin Before(h)

\* What is accepted is of the past, and belongs to a request that ended well.
Accepted(h) ==
  /\ h.at <= clock /\ lastSeen[h.device] # None
  /\ h.by # None => pc[h.by] = "done" /\ now[h.by] = h.at

\* What actor a found when it began.
Remembers(a) ==
  /\ now[a] <= clock
  /\ since[a].beats \subseteq heartbeats
  /\ \A h \in since[a].beats : h.at <= now[a]
  /\ since[a].open \subseteq DOMAIN alarms
  /\ \A i \in since[a].closed : i \in DOMAIN alarms /\ alarms[i].status = "RESOLVED"

HistoryInv ==
  /\ StartTime <= clock
  /\ \A h \in heartbeats : Accepted(h)
  /\ \A a \in Actors : Remembers(a)
  /\ \A d \in Devices : lastSeen[d] # None => \E g \in heartbeats : Latest(g, d)

LEMMA HistoryInit == Init => HistoryInv
<1> SUFFICES ASSUME Init PROVE HistoryInv
  OBVIOUS
<1>1. TypeInv
  BY TypeInit
<1>2. StartTime <= clock /\ clock = StartTime /\ StartTime \in Nat
  BY TimesAssumption DEF Init
<1>3. lastSeen \in [Devices -> (0 .. StartTime) \cup {None}] /\ None \notin Nat
  BY DevicesAssumption DEF Init
<1>4. heartbeats = {[by |-> None, device |-> d, at |-> lastSeen[d]] :
                     d \in {e \in Devices : lastSeen[e] # None}}
  BY DEF Init
<1>5. \A h \in heartbeats : Accepted(h)
  BY <1>2, <1>3, <1>4 DEF Accepted
<1>6. \A a \in Actors : Remembers(a)
  BY <1>2 DEF Init, Remembers, NothingBefore
<1>7. ASSUME NEW d \in Devices, lastSeen[d] # None PROVE \E g \in heartbeats : Latest(g, d)
  <2> DEFINE g == [by |-> None, device |-> d, at |-> lastSeen[d]]
  <2>1. g \in heartbeats
    BY <1>4, <1>7
  <2>2. \A h \in heartbeats : Before(h) = {}
    BY <1>4 DEF Before
  <2>3. Latest(g, d)
    BY <2>2 DEF Latest
  <2> QED
    BY <2>1, <2>3
<1> QED
  BY <1>2, <1>5, <1>6, <1>7 DEF HistoryInv

\* What the commit of a heartbeat adds.
LEMMA CommitBeatAdds ==
  ASSUME TypeInv, NEW b \in Beats, CommitBeat(b)
  PROVE  /\ device[b] \in Devices /\ now[b] \in Nat
         /\ lastSeen' \in [Devices -> Nat \cup {None}]
         /\ lastSeen'[device[b]] = now[b]
         /\ \A d \in Devices \ {device[b]} : lastSeen'[d] = lastSeen[d]
         /\ heartbeats' = heartbeats \cup {[by |-> b, device |-> device[b], at |-> now[b]]}
         /\ pc[b] = "commit" /\ pc'[b] = "done" /\ now' = now /\ since' = since
         /\ b \in Actors
<1> USE DEF TypeInv, TypeOK, Actors
<1>1. device[b] \in Devices
  BY DEF CommitBeat, BeatRuns
<1> QED
  BY <1>1 DEF CommitBeat, Goto

\* A heartbeat that is accepted stays so.
LEMMA AcceptedStays ==
  ASSUME TypeInv, HistoryInv, [Next]_vars, NEW h \in heartbeats
  PROVE  /\ Accepted(h)' /\ Before(h)' = Before(h)
         /\ h.by \notin {b \in Beats : CommitBeat(b)}
<1>1. Accepted(h) /\ h \in HeartbeatRows
  BY DEF HistoryInv, TypeInv, TypeOK
<1>2. h.by = None \/ (h.by \in Actors /\ pc[h.by] = "done" /\ now[h.by] = h.at)
  <2>1. h.by = None \/ h.by \in Actors
    BY <1>1 DEF HeartbeatRows, Actors
  <2> QED
    BY <1>1, <2>1 DEF Accepted
<1>3. h.by \in Actors => pc'[h.by] = "done" /\ now'[h.by] = now[h.by] /\ since'[h.by] = since[h.by]
  <2> SUFFICES ASSUME h.by \in Actors, h.by # None
               PROVE  pc'[h.by] = "done" /\ now'[h.by] = now[h.by] /\ since'[h.by] = since[h.by]
    BY ActorsAssumption DEF Actors
  <2>1. CASE Runs
    BY <1>2, <2>1 DEF Runs, Ended
  <2>2. ASSUME NEW a \in Actors, Began(a) \/ Failed(a)
        PROVE  pc'[h.by] = "done" /\ now'[h.by] = now[h.by] /\ since'[h.by] = since[h.by]
    <3>1. pc[a] # "done"
      BY <2>2 DEF Began, Failed, InTransaction, SweepPlaces, BeatPlaces
    <3> QED
      BY <1>2, <2>2, <3>1 DEF Began, Failed, Start, Fail, Goto, TypeInv, TypeOK
  <2> QED
    BY <2>1, <2>2, Moves
<1>4. lastSeen'[h.device] # None
  <2>1. CASE UNCHANGED lastSeen
    BY <1>1, <2>1 DEF Accepted
  <2>2. ASSUME NEW b \in Beats, CommitBeat(b) PROVE lastSeen'[h.device] # None
    <3>1. h.device \in Devices /\ lastSeen[h.device] # None
      BY <1>1 DEF Accepted, HeartbeatRows
    <3>2. CASE h.device = device[b]
      BY <2>2, <3>2, CommitBeatAdds, DevicesAssumption
    <3>3. CASE h.device # device[b]
      BY <2>2, <3>1, <3>3, CommitBeatAdds
    <3> QED
      BY <3>2, <3>3
  <2> QED
    BY <2>1, <2>2, BeatsCommitted
<1>5. h.at <= clock'
  BY <1>1, ClockMoves DEF Accepted, HeartbeatRows, TypeInv, TypeOK
<1>6. Accepted(h)'
  BY <1>1, <1>2, <1>3, <1>4, <1>5 DEF Accepted
<1>7. Before(h)' = Before(h)
  BY <1>2, <1>3 DEF Before
<1>8. h.by \notin {b \in Beats : CommitBeat(b)}
  BY <1>2, ActorsAssumption DEF CommitBeat
<1> QED
  BY <1>6, <1>7, <1>8

LEMMA RemembersStep ==
  ASSUME TypeInv, HistoryInv, [Next]_vars, NEW a \in Actors
  PROVE  Remembers(a)'
<1> USE DEF TypeInv, TypeOK
<1>1. heartbeats \subseteq heartbeats'
  BY BeatsCommitted DEF CommitBeat
<1>2. /\ DOMAIN alarms \subseteq DOMAIN alarms'
      /\ \A i \in DOMAIN alarms : alarms[i].status = "RESOLVED" => alarms'[i].status = "RESOLVED"
  BY RowsMove
<1>3. clock \in Nat /\ clock' \in Nat /\ clock <= clock' /\ StartTime <= clock /\ StartTime \in Nat
  BY ClockMoves, TimesAssumption DEF HistoryInv
<1>4. Remembers(a) /\ now[a] \in Nat
  BY DEF HistoryInv
<1>5. CASE now'[a] = now[a] /\ since'[a] = since[a]
  BY <1>1, <1>2, <1>3, <1>4, <1>5 DEF Remembers
<1>6. CASE Began(a)
  <2>1. /\ now'[a] = clock /\ clock' = clock /\ heartbeats' = heartbeats /\ alarms' = alarms
        /\ since'[a] = [open |-> {i \in DOMAIN alarms : alarms[i].status = "OPEN"},
                        closed |-> {i \in DOMAIN alarms : alarms[i].status = "RESOLVED"},
                        beats |-> heartbeats]
    BY <1>6 DEF Began, Start, dbVars
  <2>2. \A h \in heartbeats : h.at <= clock
    BY DEF HistoryInv, Accepted
  <2> QED
    BY <1>3, <2>1, <2>2 DEF Remembers
<1>7. CASE Failed(a)
  <2>1. now'[a] = StartTime /\ since'[a] = NothingBefore
    BY <1>7 DEF Failed, Fail
  <2> QED
    BY <1>3, <2>1 DEF Remembers, NothingBefore
<1>8. ASSUME NEW c \in Actors, c # a, Began(c) \/ Failed(c)
      PROVE  now'[a] = now[a] /\ since'[a] = since[a]
  BY <1>8 DEF Began, Failed, Start, Fail
<1> QED
  BY <1>5, <1>6, <1>7, <1>8, Moves DEF Runs

LEMMA HistoryStep ==
  ASSUME TypeInv, HistoryInv, [Next]_vars
  PROVE  HistoryInv'
<1> USE DEF TypeInv, TypeOK
<1>1. StartTime <= clock'
  BY ClockMoves, TimesAssumption DEF HistoryInv
<1>2. \A a \in Actors : Remembers(a)'
  BY RemembersStep
<1>3. CASE UNCHANGED << lastSeen, heartbeats >>
  <2>1. \A h \in heartbeats' : Accepted(h)'
    BY <1>3, AcceptedStays
  <2>2. ASSUME NEW d \in Devices, lastSeen'[d] # None
        PROVE  \E g \in heartbeats' : Latest(g, d)'
    <3>1. PICK g \in heartbeats : Latest(g, d)
      BY <1>3, <2>2 DEF HistoryInv
    <3>2. \A h \in heartbeats : Before(h)' = Before(h)
      BY AcceptedStays
    <3>3. Latest(g, d)'
      BY <1>3, <3>1, <3>2 DEF Latest
    <3> QED
      BY <1>3, <3>3
  <2> QED
    BY <1>1, <1>2, <2>1, <2>2 DEF HistoryInv
<1>4. ASSUME NEW b \in Beats, CommitBeat(b) PROVE HistoryInv'
  <2> PICK e, new : e = device[b] /\ new = [by |-> b, device |-> e, at |-> now[b]]
    OBVIOUS
  <2>1. /\ e \in Devices /\ now[b] \in Nat
        /\ lastSeen'[e] = now[b]
        /\ \A d \in Devices \ {e} : lastSeen'[d] = lastSeen[d]
        /\ heartbeats' = heartbeats \cup {new}
        /\ pc[b] = "commit" /\ pc'[b] = "done" /\ now' = now /\ since' = since
        /\ b \in Actors
    BY <1>4, CommitBeatAdds
  <2>2. \A h \in heartbeats : h.by # b
    BY <1>4, AcceptedStays
  <2>3. new \notin heartbeats
    BY <2>2
  <2>4. \A h \in heartbeats : Before(h)' = Before(h) /\ Accepted(h)'
    BY AcceptedStays
  <2>5. clock \in Nat /\ clock' \in Nat /\ now[b] <= clock'
    BY <2>1, ClockMoves DEF HistoryInv, Remembers
  <2>6. b # None /\ None \notin Nat
    BY ActorsAssumption, DevicesAssumption
  <2>7. Accepted(new)'
    BY <2>1, <2>5, <2>6 DEF Accepted
  <2>8. \A c \in Actors : since[c].beats \subseteq heartbeats
    BY DEF HistoryInv, Remembers
  <2>9. Before(new)' = since[b].beats
    BY <2>1, <2>6 DEF Before
  <2>10. \A h \in heartbeats : Before(h) \subseteq heartbeats
    <3>1. \A h \in heartbeats : h.by = None \/ h.by \in Actors
      BY DEF HeartbeatRows, Actors
    <3> QED
      BY <2>8, <3>1 DEF Before
  <2>11. \A h \in heartbeats' : new \notin Before(h)'
    BY <2>1, <2>3, <2>4, <2>8, <2>9, <2>10
  <2>12. Latest(new, e)'
    BY <2>1, <2>11 DEF Latest
  <2>13. ASSUME NEW d \in Devices \ {e}, lastSeen'[d] # None
         PROVE  \E g \in heartbeats' : Latest(g, d)'
    <3>1. PICK g \in heartbeats : Latest(g, d)
      BY <2>1, <2>13 DEF HistoryInv
    <3>2. \A h \in heartbeats' : h.device = d => g \notin Before(h)'
      BY <2>1, <2>4, <3>1 DEF Latest
    <3>3. Latest(g, d)'
      BY <2>1, <3>1, <3>2 DEF Latest
    <3> QED
      BY <2>1, <3>3
  <2>14. \A d \in Devices : lastSeen'[d] # None => \E g \in heartbeats' : Latest(g, d)'
    BY <2>1, <2>12, <2>13
  <2>15. \A h \in heartbeats' : Accepted(h)'
    BY <2>1, <2>4, <2>7
  <2> QED
    BY <1>1, <1>2, <2>14, <2>15 DEF HistoryInv
<1> QED
  BY <1>3, <1>4, BeatsCommitted

\* Whatever was accepted last is no older than any heartbeat but those that
\* overlapped it.
LEMMA LaterOverlaps ==
  ASSUME TypeInv, HistoryInv, NEW h \in heartbeats, h.at > lastSeen[h.device]
  PROVE  \E g \in heartbeats : Overlap(g, h) /\ g.at = lastSeen[h.device]
<1> USE DEF TypeInv, TypeOK
<1>1. h \in HeartbeatRows /\ Accepted(h) /\ h.device \in Devices
  BY DEF HistoryInv, HeartbeatRows
<1>2. PICK g \in heartbeats : Latest(g, h.device)
  BY <1>1 DEF HistoryInv, Accepted
<1>3. g \in HeartbeatRows /\ Accepted(g)
  BY DEF HistoryInv
<1>4. h \notin Before(g)
  <2> SUFFICES ASSUME h \in Before(g) PROVE FALSE
    OBVIOUS
  <2>1. g.by # None /\ h \in since[g.by].beats
    BY DEF Before
  <2>2. g.by \in Actors /\ now[g.by] = g.at
    BY <1>3, <2>1 DEF HeartbeatRows, Actors, Accepted
  <2>3. h.at <= g.at
    BY <2>1, <2>2 DEF HistoryInv, Remembers
  <2> QED
    BY <1>1, <1>2, <1>3, <2>3 DEF HeartbeatRows, Latest
<1> QED
  BY <1>2, <1>4 DEF Latest, Overlap

\* heartbeat.py writes its own 'now' over whatever is there, so a late commit
\* may take last_seen_at back; but only a heartbeat that overlapped does.
THEOREM OnlyOverlapMovesBackHolds == Spec => []OnlyOverlapMovesBack
<1>1. TypeInv /\ HistoryInv => OnlyOverlapMovesBack
  BY LaterOverlaps DEF OnlyOverlapMovesBack
<1> QED
  BY <1>1, TypeInit, TypeStep, HistoryInit, HistoryStep, PTL DEF Spec
-----------------------------------------------------------------------------
(* Sweeps one by one: what a sweep does itself, and what stays of it while  *)
(* others act.                                                              *)

Still(s) ==
  /\ sweep'[s] = sweep[s] /\ pc'[s] = pc[s] /\ now'[s] = now[s] /\ since'[s] = since[s]
  /\ \A l \in Locks : owner[l] = s => owner'[l] = s

\* The steps of a sweep but its failures.
Works(s) ==
  \/ Activate(s) \/ EndActivate(s) \/ Complete(s) \/ EndComplete(s)
  \/ ReadMaintenance(s) \/ ReadDevices(s) \/ Lookup(s)
  \/ OpenAlarm(s) \/ ResolveAlarm(s) \/ LeaveAlarm(s) \/ ReadFailures(s) \/ Commit(s)

LEMMA SameActor ==
  ASSUME TypeInv, [Next]_vars, NEW s \in Sweeps,
         sweep'[s] = sweep[s], pc'[s] = pc[s], now'[s] = now[s],
         \A l \in Locks : owner[l] = s => owner'[l] = s
  PROVE  Still(s)
<1>1. s \in Actors /\ pc[s] = pc'[s]
  BY DEF Actors
<1>2. CASE Runs
  BY <1>2 DEF Runs, Still
<1>3. ASSUME NEW a \in Actors, Began(a) \/ Failed(a) PROVE Still(s)
  <2>1. pc'[a] # pc[a]
    BY <1>3 DEF Began, Failed, Fail, Goto, InTransaction, SweepPlaces, BeatPlaces,
       TypeInv, TypeOK
  <2>2. since'[s] = since[s]
    BY <1>1, <1>3, <2>1 DEF Began, Failed, Start, Fail, TypeInv, TypeOK
  <2> QED
    BY <2>2 DEF Still
<1> QED
  BY <1>2, <1>3, Moves

LEMMA SweepActs ==
  ASSUME TypeInv, [Next]_vars, NEW s \in Sweeps
  PROVE  Begin(s) \/ Works(s) \/ Failed(s) \/ Still(s)
<1> USE DEF TypeInv, TypeOK
<1>1. s \in Actors /\ s # None
  BY ActorsAssumption DEF Actors
<1>2. CASE RunSweep(s)
  BY <1>2, VictimRuns DEF RunSweep, Works, AlarmCollides, DeadlockVictim, Failed,
     InTransaction, SweepPlaces
<1>3. CASE Abort(s)
  BY <1>3 DEF Abort, Failed
<1>4. ASSUME NEW a \in Actors, a # s, ActsAlone(a) PROVE Still(s)
  <2>1. \A l \in Locks : owner[l] = s => owner'[l] = s
    BY <1>1, <1>4 DEF ActsAlone, TakeLock, ReleaseLocks
  <2>2. sweep'[s] = sweep[s] /\ pc'[s] = pc[s] /\ now'[s] = now[s]
    BY <1>1, <1>4 DEF ActsAlone
  <2> HIDE DEF TypeInv, TypeOK
  <2> QED
    BY <2>1, <2>2, SameActor
<1>5. ASSUME NEW t \in Sweeps, t # s, Begin(t) \/ RunSweep(t) PROVE Still(s)
  BY <1>4, <1>5, SweepActsAlone DEF Actors
<1>6. ASSUME NEW b \in Beats, (\E d \in ActiveDevices : Receive(b, d)) \/ Serve(b) PROVE Still(s)
  BY <1>4, <1>6, BeatActsAlone, ActorsAssumption DEF Actors
<1>7. ASSUME NEW a \in Actors, a # s, Abort(a) PROVE Still(s)
  BY <1>4, <1>7, FailAlone DEF Abort
<1>8. ASSUME NEW e \in Executions, ExecutionFails(e) \/ ExecutionRestarts(e) PROVE Still(s)
  BY <1>8 DEF ExecutionFails, ExecutionRestarts, Still
<1>9. Tick \/ UNCHANGED vars => Still(s)
  BY DEF Tick, vars, dbVars, Still
<1> HIDE DEF TypeInv, TypeOK
<1> QED
  BY <1>2, <1>3, <1>5, <1>6, <1>7, <1>8, <1>9 DEF Next, Step, Over

\* A sweep that has ended well is never heard of again.
LEMMA DoneStays ==
  ASSUME TypeInv, [Next]_vars, NEW s \in Sweeps, pc[s] = "done"
  PROVE  Still(s)
<1>1. ~Begin(s) /\ ~Works(s) /\ ~Failed(s)
  BY DEF Begin, Works, Activate, EndActivate, Complete, EndComplete, ReadMaintenance,
     ReadDevices, Lookup, OpenAlarm, ResolveAlarm, LeaveAlarm, ReadFailures, Commit,
     Failed, InTransaction, SweepPlaces, BeatPlaces
<1> QED
  BY <1>1, SweepActs

\* What a sweep has at its begin, and what is left of it when it fails.
LEMMA BeginAndFail ==
  ASSUME TypeInv, WindowInv, NEW s \in Sweeps
  PROVE  /\ Begin(s) => /\ pc[s] = "idle" /\ pc'[s] = "activate" /\ sweep'[s] = NewSweep
                        /\ now'[s] = clock /\ UNCHANGED << dbVars, clock, sweep, owner >>
                        /\ since'[s] = [open |-> {i \in DOMAIN alarms : alarms[i].status = "OPEN"},
                              closed |-> {i \in DOMAIN alarms : alarms[i].status = "RESOLVED"},
                              beats |-> heartbeats]
         /\ Failed(s) => /\ pc'[s] = "failed" /\ sweep'[s] = NewSweep
                         /\ since'[s] = NothingBefore
<1>1. s \in Actors
  BY DEF Actors
<1>2. ASSUME Begin(s) PROVE sweep'[s] = NewSweep
  BY <1>2 DEF Begin, WindowInv
<1> USE DEF TypeInv, TypeOK
<1>3. ASSUME Begin(s)
      PROVE  /\ pc[s] = "idle" /\ pc'[s] = "activate" /\ now'[s] = clock
             /\ UNCHANGED << dbVars, clock, sweep, owner >>
  BY <1>1, <1>3 DEF Begin, Start, Goto, dbVars
<1>4. ASSUME Begin(s)
      PROVE  since'[s] = [open |-> {i \in DOMAIN alarms : alarms[i].status = "OPEN"},
                          closed |-> {i \in DOMAIN alarms : alarms[i].status = "RESOLVED"},
                          beats |-> heartbeats]
  BY <1>1, <1>4 DEF Begin, Start
<1>5. ASSUME Failed(s)
      PROVE  pc'[s] = "failed" /\ sweep'[s] = NewSweep
  BY <1>1, <1>5 DEF Failed, Fail, Goto
<1>6. ASSUME Failed(s)
      PROVE  since'[s] = NothingBefore
  BY <1>1, <1>6 DEF Failed, Fail
<1> HIDE DEF TypeInv, TypeOK
<1> QED
  BY <1>2, <1>3, <1>4, <1>5, <1>6
-----------------------------------------------------------------------------
(* Maintenance windows.                                                     *)

LEMMA WindowForward ==
  ASSUME TypeInv, WindowInv, [Next]_vars, NEW w \in Windows
  PROVE  /\ window[w] = "COMPLETED" => window'[w] = "COMPLETED"
         /\ window'[w] = "SCHEDULED" => window[w] = "SCHEDULED"
<1>1. window[w] \in {"SCHEDULED", "ACTIVE", "COMPLETED"}
  BY DEF TypeInv, TypeOK
<1>2. ASSUME NEW s \in Sweeps, Commit(s), window'[w] = StatusFor(s, w),
             w \in sweep[s].activated \cup sweep[s].completed
      PROVE  window'[w] = "COMPLETED" \/ (window[w] = "SCHEDULED" /\ window'[w] = "ACTIVE")
  <2>1. pc[s] \in InTransaction
    BY <1>2 DEF Commit, InTransaction
  <2>2. w \notin sweep[s].completed => window[w] = "SCHEDULED"
    BY <1>2, <2>1 DEF WindowInv
  <2> QED
    BY <1>2, <2>2 DEF StatusFor
<1> QED
  BY <1>1, <1>2, WindowsCommitted

\* Places of a sweep from one of the given on.
From(s, places) == pc[s] \in places \cup {"commit", "done"}

Loops == {"lookup", "evaluate", "failures"}

\* Which windows sweep s completed, and what it left behind: no window that
\* covers its 'now' is still scheduled for it, and when it read which devices
\* are in maintenance only a window that was completed escaped it.
WindowHistory(s) ==
  /\ \A w \in sweep[s].completed : EndsAt[w] <= now[s]
  /\ \A w \in Windows : Covers(w, now[s]) =>
       /\ pc[s] \in {"complete", "maintenance"} => StatusFor(s, w) # "SCHEDULED"
       /\ From(s, Loops \cup {"devices"}) =>
            DeviceOf[w] \in sweep[s].maintenance \cup {None} \/ window[w] = "COMPLETED"

Active(s) == pc[s] \in InTransaction \cup {"done"}

CompletedBySome(w) ==
  window[w] = "COMPLETED" =>
    \E t \in Sweeps : pc[t] = "done" /\ EndsAt[w] <= now[t] /\ w \in sweep[t].completed

WindowsInv ==
  /\ \A s \in Sweeps : Active(s) => WindowHistory(s)
  /\ \A w \in Windows : CompletedBySome(w)

LEMMA WindowsInit == Init => WindowsInv
<1> SUFFICES ASSUME Init PROVE WindowsInv
  OBVIOUS
<1>1. \A s \in Sweeps : ~Active(s)
  BY DEF Init, Active, Actors, InTransaction, SweepPlaces, BeatPlaces
<1>2. \A w \in Windows : window[w] # "COMPLETED"
  BY WindowsAssumption DEF Init
<1> QED
  BY <1>1, <1>2 DEF WindowsInv, CompletedBySome

LEMMA WindowHistoryStill ==
  ASSUME TypeInv, WindowInv, [Next]_vars, NEW s \in Sweeps, Still(s), WindowHistory(s)
  PROVE  WindowHistory(s)'
<1>1. /\ now'[s] = now[s] /\ pc'[s] = pc[s] /\ sweep'[s] = sweep[s]
  BY DEF Still
<1>2. ASSUME NEW w \in Windows, Covers(w, now[s]), pc[s] \in {"complete", "maintenance"}
      PROVE  StatusFor(s, w)' # "SCHEDULED"
  <2>1. StatusFor(s, w) # "SCHEDULED"
    BY <1>2 DEF WindowHistory
  <2> QED
    BY <1>1, <2>1, WindowForward DEF StatusFor
<1>3. ASSUME NEW w \in Windows, Covers(w, now[s]), From(s, Loops \cup {"devices"})
      PROVE  DeviceOf[w] \in sweep'[s].maintenance \cup {None} \/ window'[w] = "COMPLETED"
  BY <1>1, <1>3, WindowForward DEF WindowHistory
<1> QED
  BY <1>1, <1>2, <1>3 DEF WindowHistory, From

LEMMA WindowHistoryOwn ==
  ASSUME TypeInv, WindowInv, [Next]_vars, NEW s \in Sweeps, Works(s), WindowHistory(s)
  PROVE  WindowHistory(s)'
<1> USE DEF TypeInv, TypeOK
<1>1. s \in Actors /\ sweep[s] \in SweepStates /\ now[s] \in Nat
  BY DEF Actors
<1>2. now' = now
  BY DEF Works, Activate, EndActivate, Complete, EndComplete, ReadMaintenance,
     ReadDevices, Lookup, OpenAlarm, ResolveAlarm, LeaveAlarm, ReadFailures, Commit, Keep
<1>3. CASE Activate(s)
  <2>1. PICK w \in ToActivate(s) : sweep' = [sweep EXCEPT ![s].activated = @ \cup {w}]
    BY <1>3 DEF Activate
  <2>2. sweep'[s].completed = sweep[s].completed /\ pc'[s] = "activate"
    BY <1>1, <1>3, <2>1 DEF Activate, SweepStates
  <2> QED
    BY <1>2, <2>2 DEF WindowHistory, From, Loops
<1>4. CASE EndActivate(s)
  <2>1. pc'[s] = "complete" /\ sweep' = sweep /\ window' = window /\ ToActivate(s) = {}
    BY <1>1, <1>4 DEF EndActivate, Goto, Keep, dbVars
  <2>2. \A w \in Windows : Covers(w, now[s]) => StatusFor(s, w) # "SCHEDULED"
    BY <2>1 DEF ToActivate
  <2>3. \A w \in Windows : StatusFor(s, w)' = StatusFor(s, w)
    BY <2>1 DEF StatusFor
  <2> QED
    BY <1>2, <2>1, <2>2, <2>3 DEF WindowHistory, From, Loops
<1>5. CASE Complete(s)
  <2>1. PICK w \in ToComplete(s) : sweep' = [sweep EXCEPT ![s].completed = @ \cup {w}]
    BY <1>5 DEF Complete
  <2>2. /\ sweep'[s].completed = sweep[s].completed \cup {w}
        /\ sweep'[s].activated = sweep[s].activated
        /\ pc'[s] = "complete" /\ pc[s] = "complete" /\ window' = window
    BY <1>1, <1>5, <2>1 DEF Complete, SweepStates, Keep, dbVars
  <2>3. EndsAt[w] <= now[s]
    BY DEF ToComplete
  <2>4. \A v \in Windows : StatusFor(s, v)' = "SCHEDULED" => StatusFor(s, v) = "SCHEDULED"
    BY <2>2 DEF StatusFor
  <2> QED
    BY <1>2, <2>2, <2>3, <2>4 DEF WindowHistory, From, Loops
<1>6. CASE EndComplete(s)
  <2>1. pc'[s] = "maintenance" /\ pc[s] = "complete" /\ sweep' = sweep /\ window' = window
    BY <1>1, <1>6 DEF EndComplete, Goto, Keep, dbVars
  <2>2. \A w \in Windows : StatusFor(s, w)' = StatusFor(s, w)
    BY <2>1 DEF StatusFor
  <2> QED
    BY <1>2, <2>1, <2>2 DEF WindowHistory, From, Loops
<1>7. CASE ReadMaintenance(s)
  <2>1. /\ pc'[s] = "devices" /\ pc[s] = "maintenance" /\ window' = window
        /\ sweep'[s].maintenance = InMaintenance(s)
        /\ sweep'[s].completed = sweep[s].completed
    BY <1>1, <1>7 DEF ReadMaintenance, Goto, SweepStates, Keep, dbVars
  <2>2. ASSUME NEW w \in Windows, Covers(w, now[s])
        PROVE  DeviceOf[w] \in InMaintenance(s) \cup {None} \/ window[w] = "COMPLETED"
    <3>1. StatusFor(s, w) # "SCHEDULED"
      BY <2>1, <2>2 DEF WindowHistory
    <3>2. w \notin sweep[s].completed
      <4>1. now[s] < EndsAt[w] /\ EndsAt[w] \in Nat
        BY <2>2, WindowsAssumption DEF Covers
      <4> QED
        BY <1>1, <4>1 DEF WindowHistory
    <3>3. StatusFor(s, w) = "ACTIVE" \/ window[w] = "COMPLETED"
      BY <3>1, <3>2 DEF StatusFor
    <3> QED
      BY <2>2, <3>3 DEF InMaintenance
  <2> QED
    BY <1>2, <2>1, <2>2 DEF WindowHistory, From, Loops
<1>8. CASE ReadDevices(s) \/ Lookup(s) \/ OpenAlarm(s) \/ ResolveAlarm(s) \/ LeaveAlarm(s)
           \/ ReadFailures(s)
  <2>1. /\ sweep'[s].maintenance = sweep[s].maintenance
        /\ sweep'[s].completed = sweep[s].completed
    <3>1. CASE LeaveAlarm(s)
      BY <3>1 DEF LeaveAlarm
    <3>2. CASE ReadDevices(s) \/ ReadFailures(s)
      BY <1>1, <3>2 DEF ReadDevices, ReadFailures, SweepStates
    <3>3. CASE Lookup(s)
      BY <1>1, <3>3 DEF Lookup, SweepStates
    <3>4. CASE OpenAlarm(s) \/ ResolveAlarm(s)
      BY <1>1, <3>4 DEF OpenAlarm, ResolveAlarm, SweepStates
    <3> QED
      BY <1>8, <3>1, <3>2, <3>3, <3>4
  <2>2. window' = window /\ From(s, Loops \cup {"devices"})
    BY <1>8 DEF ReadDevices, Lookup, OpenAlarm, ResolveAlarm, LeaveAlarm, ReadFailures,
       Keep, dbVars, From, Loops
  <2>3. pc'[s] \notin {"complete", "maintenance"}
    BY <1>1, <1>8 DEF ReadDevices, Lookup, OpenAlarm, ResolveAlarm, LeaveAlarm, ReadFailures,
       NextKey, Goto
  <2> QED
    BY <1>2, <2>1, <2>2, <2>3 DEF WindowHistory
<1>9. CASE Commit(s)
  <2>1. sweep' = sweep /\ pc'[s] = "done" /\ pc[s] = "commit"
    BY <1>1, <1>9 DEF Commit, Goto
  <2> HIDE DEF TypeInv, TypeOK
  <2>2. \A w \in Windows : window[w] = "COMPLETED" => window'[w] = "COMPLETED"
    BY WindowForward
  <2> QED
    BY <1>2, <2>1, <2>2 DEF WindowHistory, From
<1> QED
  BY <1>3, <1>4, <1>5, <1>6, <1>7, <1>8, <1>9 DEF Works

LEMMA WindowsStep ==
  ASSUME TypeInv, WindowInv, WindowsInv, [Next]_vars
  PROVE  WindowsInv'
<1>1. ASSUME NEW s \in Sweeps, Active(s)' PROVE WindowHistory(s)'
  <2>1. CASE Begin(s)
    <3>1. sweep'[s] = NewSweep /\ pc'[s] = "activate"
      BY <2>1, BeginAndFail
    <3> QED
      BY <3>1 DEF WindowHistory, NewSweep, From, Loops
  <2>2. CASE Works(s)
    <3>1. Active(s)
      BY <2>2 DEF Works, Activate, EndActivate, Complete, EndComplete, ReadMaintenance,
         ReadDevices, Lookup, OpenAlarm, ResolveAlarm, LeaveAlarm, ReadFailures, Commit,
         Active, InTransaction, SweepPlaces
    <3> QED
      BY <2>2, <3>1, WindowHistoryOwn DEF WindowsInv
  <2>3. CASE Failed(s)
    BY <1>1, <2>3, BeginAndFail DEF Active, InTransaction, SweepPlaces, BeatPlaces
  <2>4. CASE Still(s)
    <3>1. Active(s)
      BY <1>1, <2>4 DEF Active, Still
    <3> QED
      BY <2>4, <3>1, WindowHistoryStill DEF WindowsInv
  <2> QED
    BY <2>1, <2>2, <2>3, <2>4, SweepActs
<1>2. ASSUME NEW w \in Windows, window'[w] = "COMPLETED"
      PROVE  \E t \in Sweeps : pc'[t] = "done" /\ EndsAt[w] <= now'[t] /\ w \in sweep'[t].completed
  <2>1. CASE window[w] = "COMPLETED"
    <3>1. PICK t \in Sweeps : pc[t] = "done" /\ EndsAt[w] <= now[t] /\ w \in sweep[t].completed
      BY <2>1 DEF WindowsInv, CompletedBySome
    <3> QED
      BY <3>1, DoneStays DEF Still
  <2>2. ASSUME window[w] # "COMPLETED", NEW s \in Sweeps, Commit(s), window'[w] = StatusFor(s, w)
        PROVE  pc'[s] = "done" /\ EndsAt[w] <= now'[s] /\ w \in sweep'[s].completed
    <3>1. pc'[s] = "done" /\ now' = now /\ sweep' = sweep /\ Active(s)
      BY <2>2 DEF Commit, Goto, Active, InTransaction, Actors, TypeInv, TypeOK
    <3>2. w \in sweep[s].completed
      BY <1>2, <2>2 DEF StatusFor
    <3> QED
      BY <3>1, <3>2 DEF WindowsInv, WindowHistory
  <2> QED
    BY <1>2, <2>1, <2>2, WindowsCommitted
<1> QED
  BY <1>1, <1>2 DEF WindowsInv, CompletedBySome
-----------------------------------------------------------------------------
(* The loops of a sweep: what it read of the devices, what it raised and    *)
(* resolves.                                                                *)

Preparing == {"activate", "complete", "maintenance", "devices"}

\* What sweep s read of a device is of a heartbeat, and any that was accepted
\* before it began is no later, or overlapped another.
Heard(s) ==
  From(s, Loops) =>
    \A d \in Devices :
      /\ sweep[s].seen[d] # None =>
           \E h \in heartbeats : h.device = d /\ h.at = sweep[s].seen[d]
      /\ \A h \in since[s].beats : h.device = d =>
           /\ sweep[s].seen[d] # None
           /\ h.at <= sweep[s].seen[d] \/ \E g \in heartbeats : g # h /\ Overlap(g, h)

RaisedRightly(s) ==
  /\ pc[s] \in Preparing => Opened(s) = {} /\ sweep[s].resolved = {}
  /\ From(s, Loops) =>
       \A d \in Devices : << "offline", d >> \in Opened(s) =>
         /\ sweep[s].seen[d] # None /\ sweep[s].seen[d] + AlarmAfter < now[s]
         /\ d \notin sweep[s].maintenance

SawOnline(s, d) == sweep[s].seen[d] = None \/ now[s] <= sweep[s].seen[d] + OfflineAfter

\* A row that sweep s resolves is open and its key locked, until it commits.
Resolving(s) ==
  /\ pc[s] = "evaluate" /\ sweep[s].existing # None =>
       /\ sweep[s].existing \in DOMAIN alarms
       /\ alarms[sweep[s].existing].key = sweep[s].key
  /\ \A i \in sweep[s].resolved :
       /\ i \in DOMAIN alarms /\ alarms[i].status = "OPEN"
       /\ owner[alarms[i].key] = s
       /\ \E d \in Devices : alarms[i].key = << "offline", d >> /\ SawOnline(s, d)

\* The alarm of a device that is back is resolved, or sweep s will see to it.
SeenTo(s, d, i) ==
  \/ alarms[i].status = "RESOLVED"
  \/ pc[s] \in {"lookup", "evaluate"} /\ << "offline", d >> \in sweep[s].todo
  \/ pc[s] = "evaluate" /\ sweep[s].key = << "offline", d >> /\ sweep[s].existing = i
  \/ pc[s] # "done" /\ i \in sweep[s].resolved

Recovers(s) ==
  From(s, Loops) =>
    \A d \in ActiveDevices :
      sweep[s].seen[d] # None /\ now[s] <= sweep[s].seen[d] + OfflineAfter =>
        \A i \in since[s].open : alarms[i].key = << "offline", d >> => SeenTo(s, d, i)

LoopInv(s) ==
  /\ Heard(s) /\ RaisedRightly(s) /\ Recovers(s)
  /\ pc[s] \in InTransaction => Resolving(s)

LoopsInv == \A s \in Sweeps : Active(s) => LoopInv(s)

\* What each step of a sweep leaves alone.
LEMMA WorksKeep ==
  ASSUME TypeInv, NEW s \in Sweeps, Works(s)
  PROVE  /\ now' = now /\ since' = since /\ clock' = clock
         /\ heartbeats' = heartbeats /\ lastSeen' = lastSeen
         /\ Commit(s) \/ alarms' = alarms
         /\ ReadDevices(s) \/ sweep'[s].seen = sweep[s].seen
         /\ ReadMaintenance(s) \/ sweep'[s].maintenance = sweep[s].maintenance
         /\ OpenAlarm(s) \/ sweep'[s].opened = sweep[s].opened
         /\ ResolveAlarm(s) \/ sweep'[s].resolved = sweep[s].resolved
         /\ Lookup(s) \/ /\ sweep'[s].key = sweep[s].key
                         /\ sweep'[s].existing = sweep[s].existing
         /\ Lookup(s) \/ ReadDevices(s) \/ ReadFailures(s) \/ sweep'[s].todo = sweep[s].todo
<1> USE DEF TypeInv, TypeOK
<1>1. sweep[s] \in SweepStates
  OBVIOUS
<1>2. /\ now' = now /\ since' = since /\ clock' = clock
      /\ heartbeats' = heartbeats /\ lastSeen' = lastSeen
      /\ Commit(s) \/ alarms' = alarms
  BY DEF Works, Activate, EndActivate, Complete, EndComplete, ReadMaintenance,
     ReadDevices, Lookup, OpenAlarm, ResolveAlarm, LeaveAlarm, ReadFailures, Commit, Keep, dbVars
<1>3. CASE EndActivate(s) \/ EndComplete(s) \/ LeaveAlarm(s) \/ Commit(s)
  BY <1>2, <1>3 DEF EndActivate, EndComplete, LeaveAlarm, Commit
<1>4. CASE Activate(s)
  BY <1>1, <1>2, <1>4 DEF Activate, SweepStates
<1>5. CASE Complete(s)
  BY <1>1, <1>2, <1>5 DEF Complete, SweepStates
<1>6. CASE ReadMaintenance(s)
  BY <1>1, <1>2, <1>6 DEF ReadMaintenance, SweepStates
<1>7. CASE ReadDevices(s)
  BY <1>1, <1>2, <1>7 DEF ReadDevices, SweepStates
<1>8. CASE Lookup(s)
  <2>1. PICK k, existing :
          sweep' = [sweep EXCEPT ![s].key = k, ![s].todo = @ \ {k}, ![s].existing = existing]
    BY <1>8 DEF Lookup
  <2>2. /\ sweep'[s].seen = sweep[s].seen /\ sweep'[s].maintenance = sweep[s].maintenance
        /\ sweep'[s].opened = sweep[s].opened /\ sweep'[s].resolved = sweep[s].resolved
    BY <1>1, <2>1 DEF SweepStates
  <2> QED
    BY <1>2, <1>8, <2>2
<1>9. CASE OpenAlarm(s)
  BY <1>1, <1>2, <1>9 DEF OpenAlarm, SweepStates
<1>10. CASE ResolveAlarm(s)
  BY <1>1, <1>2, <1>10 DEF ResolveAlarm, SweepStates
<1>11. CASE ReadFailures(s)
  BY <1>1, <1>2, <1>11 DEF ReadFailures, SweepStates
<1> QED
  BY <1>3, <1>4, <1>5, <1>6, <1>7, <1>8, <1>9, <1>10, <1>11 DEF Works

\* Where each step of a sweep is, and where it goes.
LEMMA WorksGo ==
  ASSUME TypeInv, NEW s \in Sweeps
  PROVE  /\ Activate(s) \/ EndActivate(s) \/ Complete(s) \/ EndComplete(s) \/ ReadMaintenance(s) =>
              pc[s] \in Preparing \ {"devices"} /\ pc'[s] \in Preparing
         /\ ReadDevices(s) => pc[s] = "devices" /\ pc'[s] \in {"lookup", "failures"}
         /\ Lookup(s) => pc[s] = "lookup" /\ pc'[s] = "evaluate"
         /\ OpenAlarm(s) \/ ResolveAlarm(s) \/ LeaveAlarm(s) =>
              /\ pc[s] = "evaluate"
              /\ pc'[s] = IF sweep[s].todo # {} THEN "lookup"
                          ELSE IF sweep[s].key[1] = "offline" THEN "failures" ELSE "commit"
         /\ ReadFailures(s) => pc[s] = "failures" /\ pc'[s] \in {"lookup", "commit"}
         /\ Commit(s) => pc[s] = "commit" /\ pc'[s] = "done"
<1> USE DEF TypeInv, TypeOK, Actors, Goto
<1>1. Activate(s) \/ EndActivate(s) \/ Complete(s) \/ EndComplete(s) \/ ReadMaintenance(s) =>
        pc[s] \in Preparing \ {"devices"} /\ pc'[s] \in Preparing
  BY DEF Activate, EndActivate, Complete, EndComplete, ReadMaintenance, Preparing
<1>2. ReadDevices(s) => pc[s] = "devices" /\ pc'[s] \in {"lookup", "failures"}
  BY DEF ReadDevices
<1>3. Lookup(s) => pc[s] = "lookup" /\ pc'[s] = "evaluate"
  BY DEF Lookup
<1>4. OpenAlarm(s) \/ ResolveAlarm(s) \/ LeaveAlarm(s) =>
        /\ pc[s] = "evaluate"
        /\ pc'[s] = IF sweep[s].todo # {} THEN "lookup"
                    ELSE IF sweep[s].key[1] = "offline" THEN "failures" ELSE "commit"
  BY DEF OpenAlarm, ResolveAlarm, LeaveAlarm, NextKey
<1>5. ReadFailures(s) => pc[s] = "failures" /\ pc'[s] \in {"lookup", "commit"}
  BY DEF ReadFailures
<1>6. Commit(s) => pc[s] = "commit" /\ pc'[s] = "done"
  BY DEF Commit
<1> QED
  BY <1>1, <1>2, <1>3, <1>4, <1>5, <1>6

LEMMA WorksActive ==
  ASSUME TypeInv, NEW s \in Sweeps, Works(s)
  PROVE  pc[s] \in InTransaction /\ Active(s)
BY WorksGo DEF Works, Active, InTransaction, SweepPlaces, Preparing

\* Heartbeats that overlap do so for ever.
LEMMA OverlapStays ==
  ASSUME TypeInv, HistoryInv, [Next]_vars, NEW g \in heartbeats, NEW h \in heartbeats
  PROVE  g \in heartbeats' /\ (Overlap(g, h)' <=> Overlap(g, h))
<1>1. heartbeats \subseteq heartbeats'
  BY BeatsCommitted DEF CommitBeat
<1>2. Before(g)' = Before(g) /\ Before(h)' = Before(h)
  BY AcceptedStays
<1> QED
  BY <1>1, <1>2 DEF Overlap

LEMMA HeardStep ==
  ASSUME TypeInv, HistoryInv, [Next]_vars, NEW s \in Sweeps, Works(s) \/ Still(s), Heard(s)
  PROVE  Heard(s)'
<1> USE DEF TypeInv, TypeOK
<1>1. s \in Actors /\ since[s].beats \subseteq heartbeats
  BY DEF Actors, HistoryInv, Remembers
<1>2. heartbeats \subseteq heartbeats'
  BY BeatsCommitted DEF CommitBeat
<1>3. CASE ReadDevices(s) /\ Works(s)
  <2>1. sweep'[s].seen = lastSeen /\ since' = since /\ heartbeats' = heartbeats
    <3>1. sweep'[s].seen = lastSeen
      BY <1>3 DEF ReadDevices, SweepStates
    <3> HIDE DEF TypeInv, TypeOK
    <3> QED
      BY <1>3, <3>1, WorksKeep
  <2>2. ASSUME NEW d \in Devices, lastSeen[d] # None
        PROVE  \E h \in heartbeats : h.device = d /\ h.at = lastSeen[d]
    BY <2>2 DEF HistoryInv, Latest
  <2>3. ASSUME NEW d \in Devices, NEW h \in since[s].beats, h.device = d
        PROVE  /\ lastSeen[d] # None
               /\ h.at <= lastSeen[d] \/ \E g \in heartbeats : g # h /\ Overlap(g, h)'
    <3>1. h \in heartbeats /\ h.at \in Nat /\ lastSeen[d] # None
      BY <1>1, <2>3 DEF HistoryInv, Accepted, HeartbeatRows
    <3>2. CASE h.at > lastSeen[d]
      <4>1. PICK g \in heartbeats : Overlap(g, h) /\ g.at = lastSeen[d]
        BY <2>3, <3>1, <3>2, LaterOverlaps
      <4>2. g # h
        BY <3>1, <3>2, <4>1
      <4> HIDE DEF TypeInv, TypeOK
      <4> QED
        BY <3>1, <4>1, <4>2, OverlapStays
    <3>3. lastSeen[d] \in Nat
      BY <3>1
    <3> QED
      BY <3>1, <3>2, <3>3
  <2> QED
    BY <2>1, <2>2, <2>3 DEF Heard
<1>4. CASE From(s, Loops) /\ sweep'[s].seen = sweep[s].seen /\ since'[s] = since[s]
  <2>1. \A h \in since[s].beats, g \in heartbeats : Overlap(g, h) => Overlap(g, h)'
    BY <1>1, OverlapStays
  <2>2. Heard(s)
    OBVIOUS
  <2> HIDE DEF TypeInv, TypeOK
  <2> QED
    BY <1>2, <1>4, <2>1, <2>2 DEF Heard
<1>5. CASE Still(s)
  <2>1. From(s, Loops)' => From(s, Loops)
    BY <1>5 DEF Still, From
  <2> HIDE DEF TypeInv, TypeOK
  <2> QED
    BY <1>4, <1>5, <2>1 DEF Still, Heard
<1>6. CASE Works(s) /\ ~ReadDevices(s)
  <2> HIDE DEF TypeInv, TypeOK
  <2>1. From(s, Loops)' => From(s, Loops)
    BY <1>6, WorksGo DEF Works, From, Loops, Preparing
  <2> QED
    BY <1>4, <1>6, <2>1, WorksKeep DEF Heard
<1> QED
  BY <1>3, <1>5, <1>6

LEMMA RaisedStep ==
  ASSUME TypeInv, NEW s \in Sweeps, Works(s) \/ Still(s), RaisedRightly(s)
  PROVE  RaisedRightly(s)'
<1>1. CASE Still(s)
  BY <1>1 DEF Still, RaisedRightly, Opened, From
<1>2. CASE OpenAlarm(s) /\ Works(s)
  <2> DEFINE key == sweep[s].key
             opened == sweep[s].opened
  <2>1. opened \in Seq(AlarmKeys) /\ key \in AlarmKeys
    BY <1>2 DEF OpenAlarm, TypeInv, TypeOK, SweepStates
  <2>2. sweep'[s].opened = Append(opened, key)
    BY <1>2 DEF OpenAlarm, TypeInv, TypeOK, SweepStates
  <2>3. Opened(s)' = Opened(s) \cup {key}
    <3>1. {Append(opened, key)[i] : i \in DOMAIN Append(opened, key)}
            = {opened[i] : i \in DOMAIN opened} \cup {key}
      <4> HIDE DEF opened, key
      <4> QED
        BY <2>1, AppendImage
    <3>2. Opened(s)' = {Append(opened, key)[i] : i \in DOMAIN Append(opened, key)}
      BY <2>2 DEF Opened
    <3> QED
      BY <3>1, <3>2 DEF Opened
  <2>4. /\ sweep'[s].seen = sweep[s].seen /\ sweep'[s].maintenance = sweep[s].maintenance
        /\ now' = now /\ From(s, Loops) /\ pc'[s] \notin Preparing
    BY <1>2, WorksKeep, WorksGo DEF OpenAlarm, ReadDevices, ReadMaintenance, From, Loops, Preparing
  <2>5. ASSUME NEW d \in Devices, key = << "offline", d >>
        PROVE  /\ sweep[s].seen[d] # None /\ sweep[s].seen[d] + AlarmAfter < now[s]
               /\ d \notin sweep[s].maintenance
    BY <1>2, <2>5 DEF OpenAlarm, MustOpen, AlarmIsDue, SilentFor
  <2> QED
    BY <2>3, <2>4, <2>5 DEF RaisedRightly
<1>3. CASE Works(s) /\ ~OpenAlarm(s)
  <2>1. Opened(s)' = Opened(s) /\ now' = now
    BY <1>3, WorksKeep DEF Opened
  <2>2. CASE From(s, Loops)
    <3>1. /\ sweep'[s].seen = sweep[s].seen /\ sweep'[s].maintenance = sweep[s].maintenance
          /\ pc'[s] \notin Preparing
      BY <1>3, <2>2, WorksKeep, WorksGo DEF Works, From, Loops, Preparing
    <3> QED
      BY <2>1, <2>2, <3>1 DEF RaisedRightly
  <2>3. CASE ~From(s, Loops)
    <3>1. pc[s] \in Preparing
      BY <1>3, <2>3, WorksGo DEF Works, From, Loops, Preparing
    <3>2. Opened(s)' = {} /\ sweep'[s].resolved = {}
      <4>1. ~ResolveAlarm(s)
        BY <3>1 DEF ResolveAlarm, Preparing
      <4> QED
        BY <1>3, <2>1, <3>1, <4>1, WorksKeep DEF RaisedRightly
    <3> QED
      BY <3>2 DEF RaisedRightly
  <2> QED
    BY <2>2, <2>3
<1> QED
  BY <1>1, <1>2, <1>3

\* Where a row is that a commit touches.
LEMMA CommitTouches ==
  ASSUME TypeInv, NEW s \in Sweeps, Commit(s), NEW i \in DOMAIN alarms
  PROVE  /\ i \in sweep[s].resolved =>
              alarms'[i].status = "RESOLVED" /\ alarms'[i].closedAt = now[s]
         /\ i \notin sweep[s].resolved => alarms'[i] = alarms[i]
<1>1. /\ Len(alarms) \in Nat /\ DOMAIN alarms = 1 .. Len(alarms)
      /\ alarms'[i] = IF i \in sweep[s].resolved
                      THEN [alarms[i] EXCEPT !.status = "RESOLVED", !.closedAt = now[s]]
                      ELSE alarms[i]
  BY CommitRows
<1>2. alarms[i] \in AlarmRows
  BY <1>1, ElementOfSeq DEF TypeInv, TypeOK
<1>3. ASSUME i \in sweep[s].resolved
      PROVE  alarms'[i].status = "RESOLVED" /\ alarms'[i].closedAt = now[s]
  <2>1. alarms'[i] = [alarms[i] EXCEPT !.status = "RESOLVED", !.closedAt = now[s]]
    BY <1>1, <1>3
  <2> QED
    BY <1>2, <2>1 DEF AlarmRows
<1> QED
  BY <1>1, <1>3

\* While a sweep resolves a row, nobody else does; and nobody touches a row
\* that is resolved.
LEMMA RowsStay ==
  ASSUME TypeInv, LoopsInv, [Next]_vars, NEW i \in DOMAIN alarms
  PROVE  /\ alarms[i].status = "RESOLVED" => alarms'[i] = alarms[i]
         /\ \A s \in Sweeps : i \in sweep[s].resolved /\ owner[alarms[i].key] = s /\ ~Commit(s)
              => alarms'[i] = alarms[i]
<1>1. ASSUME NEW t \in Sweeps, Commit(t), i \in sweep[t].resolved
      PROVE  alarms[i].status = "OPEN" /\ owner[alarms[i].key] = t
  <2>1. Resolving(t)
    BY <1>1, WorksActive DEF Works, LoopsInv, LoopInv
  <2> QED
    BY <1>1, <2>1 DEF Resolving
<1>2. ASSUME NEW t \in Sweeps, Commit(t), i \notin sweep[t].resolved
      PROVE  alarms'[i] = alarms[i]
  BY <1>2, CommitTouches
<1> QED
  BY <1>1, <1>2, RowsCommitted

LEMMA RowTypes ==
  ASSUME TypeInv, NEW i \in DOMAIN alarms
  PROVE  /\ alarms[i].key \in AlarmKeys /\ alarms[i].key \in Locks
         /\ alarms[i].status \in {"OPEN", "RESOLVED"}
         /\ alarms[i].closedAt \in Nat \cup {None}
<1>1. Len(alarms) \in Nat /\ DOMAIN alarms = 1 .. Len(alarms)
  BY LenProperties DEF TypeInv, TypeOK
<1>2. alarms[i] \in AlarmRows
  BY <1>1, ElementOfSeq DEF TypeInv, TypeOK
<1> QED
  BY <1>2 DEF AlarmRows, Locks

LEMMA ResolvingStep ==
  ASSUME TypeInv, LoopsInv, [Next]_vars, NEW s \in Sweeps, Works(s) \/ Still(s),
         Resolving(s), RaisedRightly(s), pc'[s] \in InTransaction
  PROVE  Resolving(s)'
<1>1. s \in Actors /\ s # None /\ sweep[s] \in SweepStates
  BY ActorsAssumption DEF Actors, TypeInv, TypeOK
<1>2. /\ DOMAIN alarms \subseteq DOMAIN alarms'
      /\ \A i \in DOMAIN alarms : alarms'[i].key = alarms[i].key
  BY RowsMove
<1>3. CASE Still(s)
  <2>1. ~Commit(s)
    BY <1>3, WorksGo DEF Still
  <2>2. ASSUME NEW i \in sweep[s].resolved
        PROVE  /\ i \in DOMAIN alarms' /\ alarms'[i].status = "OPEN"
               /\ owner'[alarms'[i].key] = s
               /\ \E d \in Devices : alarms'[i].key = << "offline", d >> /\ SawOnline(s, d)
    <3>1. /\ i \in DOMAIN alarms /\ alarms[i].status = "OPEN" /\ owner[alarms[i].key] = s
          /\ \E d \in Devices : alarms[i].key = << "offline", d >> /\ SawOnline(s, d)
      BY <2>2 DEF Resolving
    <3>2. alarms'[i] = alarms[i]
      BY <2>1, <2>2, <3>1, RowsStay
    <3>3. owner'[alarms[i].key] = s
      BY <1>3, <3>1, RowTypes DEF Still
    <3> QED
      BY <1>2, <3>1, <3>2, <3>3
  <2>3. \A d : SawOnline(s, d)' <=> SawOnline(s, d)
    BY <1>3 DEF Still, SawOnline
  <2> QED
    BY <1>2, <1>3, <2>2, <2>3 DEF Still, Resolving
<1>4. CASE Works(s)
  <2>1. ~Commit(s) /\ alarms' = alarms /\ now' = now
    BY <1>4, WorksKeep, WorksGo DEF InTransaction, SweepPlaces, BeatPlaces
  <2>2. owner' = owner \/ \E l : TakeLock(s, l)
    BY <1>4, <2>1 DEF Works, Activate, EndActivate, Complete, EndComplete, ReadMaintenance,
       ReadDevices, Lookup, OpenAlarm, ResolveAlarm, LeaveAlarm, ReadFailures
  <2>3. \A l \in Locks : owner[l] = s => owner'[l] = s
    BY <2>2 DEF TakeLock, TypeInv, TypeOK
  <2>4. ASSUME NEW i \in sweep[s].resolved, sweep'[s].seen = sweep[s].seen
        PROVE  /\ i \in DOMAIN alarms' /\ alarms'[i].status = "OPEN"
               /\ owner'[alarms'[i].key] = s
               /\ \E d \in Devices : alarms'[i].key = << "offline", d >> /\ SawOnline(s, d)'
    <3>1. /\ i \in DOMAIN alarms /\ alarms[i].status = "OPEN" /\ owner[alarms[i].key] = s
          /\ \E d \in Devices : alarms[i].key = << "offline", d >> /\ SawOnline(s, d)
      BY <2>4 DEF Resolving
    <3>2. \A d : SawOnline(s, d)' <=> SawOnline(s, d)
      BY <2>1, <2>4 DEF SawOnline
    <3> QED
      BY <2>1, <2>3, <3>1, <3>2, RowTypes
  <2>5. CASE ReadDevices(s)
    <3>1. sweep'[s].resolved = {} /\ pc'[s] # "evaluate"
      <4>1. ~ResolveAlarm(s) /\ pc[s] \in Preparing
        BY <2>5, WorksGo DEF ResolveAlarm, Preparing
      <4> QED
        BY <1>4, <2>5, <4>1, WorksKeep, WorksGo DEF RaisedRightly
    <3> QED
      BY <3>1 DEF Resolving
  <2>6. CASE Lookup(s)
    <3>1. PICK k \in sweep[s].todo :
            \E existing \in IF OpenRows(k) = {} THEN {None} ELSE OpenRows(k) :
              sweep' = [sweep EXCEPT ![s].key = k, ![s].todo = @ \ {k}, ![s].existing = existing]
      BY <2>6 DEF Lookup
    <3>2. PICK existing \in IF OpenRows(k) = {} THEN {None} ELSE OpenRows(k) :
              sweep' = [sweep EXCEPT ![s].key = k, ![s].todo = @ \ {k}, ![s].existing = existing]
      BY <3>1
    <3>3. /\ sweep'[s].key = k /\ sweep'[s].existing = existing
          /\ sweep'[s].resolved = sweep[s].resolved /\ sweep'[s].seen = sweep[s].seen
      BY <1>1, <3>2 DEF TypeInv, TypeOK, SweepStates
    <3>4. existing # None => existing \in DOMAIN alarms /\ alarms[existing].key = k
      BY DEF OpenRows, OpenIn
    <3> QED
      BY <2>1, <2>4, <3>3, <3>4 DEF Resolving
  <2>7. CASE ResolveAlarm(s)
    <3> DEFINE i == sweep[s].existing
               key == sweep[s].key
    <3>1. /\ sweep'[s].resolved = sweep[s].resolved \cup {i}
          /\ sweep'[s].seen = sweep[s].seen
      BY <1>1, <2>7 DEF ResolveAlarm, TypeInv, TypeOK, SweepStates
    <3>2. /\ pc[s] = "evaluate" /\ MustResolve(s) /\ alarms[i].status = "OPEN"
          /\ TakeLock(s, key) /\ key \in AlarmKeys
      BY <2>7 DEF ResolveAlarm, TypeInv
    <3>3. i \in DOMAIN alarms /\ alarms[i].key = key
      BY <3>2 DEF MustResolve, Resolving
    <3>4. owner'[key] = s
      BY <3>2 DEF TakeLock, TypeInv, TypeOK, Locks
    <3>5. PICK d \in Devices : key = << "offline", d >>
      <4>1. key[1] # "failures"
        BY <3>2 DEF MustResolve, AlarmIsDue
      <4> QED
        BY <3>2, <4>1 DEF AlarmKeys
    <3>6. SawOnline(s, d)
      <4>1. ~SilentFor(s, d, OfflineAfter)
        BY <3>2, <3>5 DEF MustResolve
      <4>2. sweep[s].seen[d] \in Nat \cup {None} /\ now[s] \in Nat /\ OfflineAfter \in Nat
        BY <1>1, TimesAssumption DEF TypeInv, TypeOK, SweepStates
      <4> QED
        BY <4>1, <4>2 DEF SilentFor, SawOnline
    <3>7. SawOnline(s, d)'
      BY <2>1, <3>1, <3>6 DEF SawOnline
    <3>8. pc'[s] # "evaluate"
      BY <2>7, WorksGo
    <3>9. ASSUME NEW j \in sweep'[s].resolved
          PROVE  /\ j \in DOMAIN alarms' /\ alarms'[j].status = "OPEN"
                 /\ owner'[alarms'[j].key] = s
                 /\ \E e \in Devices : alarms'[j].key = << "offline", e >> /\ SawOnline(s, e)'
      <4>1. CASE j = i
        BY <2>1, <3>2, <3>3, <3>4, <3>5, <3>7, <4>1
      <4>2. CASE j # i
        <5>1. j \in sweep[s].resolved
          BY <3>1, <4>2
        <5> QED
          BY <2>4, <3>1, <5>1
      <4> QED
        BY <4>1, <4>2
    <3> QED
      BY <3>8, <3>9 DEF Resolving
  <2>8. CASE ~ReadDevices(s) /\ ~Lookup(s) /\ ~ResolveAlarm(s)
    <3>1. /\ sweep'[s].resolved = sweep[s].resolved /\ sweep'[s].seen = sweep[s].seen
          /\ pc'[s] # "evaluate"
      BY <1>4, <2>8, WorksKeep, WorksGo DEF Works, Preparing
    <3> QED
      BY <2>4, <3>1 DEF Resolving
  <2> QED
    BY <2>5, <2>6, <2>7, <2>8
<1> QED
  BY <1>3, <1>4

\* One alarm of a device that sweep s found online, while the sweep acts.
LEMMA SeenToStep ==
  ASSUME TypeInv, AlarmInv, LoopsInv, [Next]_vars, NEW s \in Sweeps, Works(s),
         NEW d \in ActiveDevices, NEW i \in DOMAIN alarms, alarms[i].key = << "offline", d >>,
         sweep[s].seen[d] # None, now[s] <= sweep[s].seen[d] + OfflineAfter,
         ~ReadDevices(s), SeenTo(s, d, i)
  PROVE  SeenTo(s, d, i)'
<1> DEFINE k == << "offline", d >>
<1>1. /\ s \in Actors /\ d \in Devices /\ k \in AlarmKeys /\ i \in Nat /\ i # None
      /\ sweep[s] \in SweepStates /\ now[s] \in Nat
  <2>1. i \in Nat
    BY LenProperties DEF TypeInv, TypeOK
  <2> QED
    BY <2>1, DevicesAssumption DEF Actors, AlarmKeys, TypeInv, TypeOK
<1>2. alarms[i].status = "RESOLVED" => alarms'[i].status = "RESOLVED"
  BY RowsMove
<1>3. alarms[i].status \in {"OPEN", "RESOLVED"}
  BY RowTypes
<1> SUFFICES ASSUME alarms[i].status = "OPEN" PROVE SeenTo(s, d, i)'
  BY <1>2, <1>3 DEF SeenTo
<1>4. CASE i \in sweep[s].resolved
  <2>1. CASE Commit(s)
    BY <1>4, <2>1, CommitTouches DEF SeenTo
  <2>2. CASE ~Commit(s)
    <3>1. pc'[s] # "done"
      BY <2>2, WorksGo DEF Works, Preparing
    <3>2. i \in sweep'[s].resolved
      <4>1. CASE ResolveAlarm(s)
        BY <1>1, <1>4, <4>1 DEF ResolveAlarm, SweepStates, TypeInv, TypeOK
      <4> QED
        BY <1>4, <4>1, WorksKeep
    <3> QED
      BY <3>1, <3>2 DEF SeenTo
  <2> QED
    BY <2>1, <2>2
<1>5. CASE pc[s] \in {"lookup", "evaluate"} /\ k \in sweep[s].todo
  <2>1. CASE Lookup(s)
    <3>1. PICK key \in sweep[s].todo :
            \E existing \in IF OpenRows(key) = {} THEN {None} ELSE OpenRows(key) :
              sweep' = [sweep EXCEPT ![s].key = key, ![s].todo = @ \ {key},
                                     ![s].existing = existing]
      BY <2>1 DEF Lookup
    <3>2. PICK existing \in IF OpenRows(key) = {} THEN {None} ELSE OpenRows(key) :
              sweep' = [sweep EXCEPT ![s].key = key, ![s].todo = @ \ {key},
                                     ![s].existing = existing]
      BY <3>1
    <3>3. /\ sweep'[s].key = key /\ sweep'[s].existing = existing
          /\ sweep'[s].todo = sweep[s].todo \ {key} /\ pc'[s] = "evaluate"
      BY <1>1, <2>1, <3>2, WorksGo DEF SweepStates, TypeInv, TypeOK
    <3>4. i \in OpenRows(k)
      BY DEF OpenRows, OpenIn
    <3>5. key = k => existing = i
      BY <1>1, <3>4 DEF AlarmInv
    <3> QED
      BY <1>5, <3>3, <3>5 DEF SeenTo
  <2>2. CASE ~Lookup(s)
    <3>1. sweep'[s].todo = sweep[s].todo /\ pc'[s] = "lookup"
      BY <1>5, <2>2, WorksKeep, WorksGo DEF Works, Preparing
    <3> QED
      BY <1>5, <3>1 DEF SeenTo
  <2> QED
    BY <2>1, <2>2
<1>6. CASE pc[s] = "evaluate" /\ sweep[s].key = k /\ sweep[s].existing = i
  <2>1. OpenAlarm(s) \/ ResolveAlarm(s) \/ LeaveAlarm(s)
    BY <1>6, WorksGo DEF Works, Preparing
  <2>2. ~SilentFor(s, d, OfflineAfter) /\ ~SilentFor(s, d, AlarmAfter)
    <3>1. /\ sweep[s].seen[d] \in Nat /\ now[s] \in Nat /\ now[s] <= sweep[s].seen[d] + OfflineAfter
          /\ OfflineAfter \in Nat /\ AlarmAfter \in Nat /\ OfflineAfter < AlarmAfter
      BY <1>1, TimesAssumption DEF SweepStates
    <3> QED
      BY <3>1 DEF SilentFor
  <2>3. ~MustOpen(s) /\ MustResolve(s)
    BY <1>1, <1>6, <2>2 DEF MustOpen, MustResolve, AlarmIsDue
  <2>4. ResolveAlarm(s)
    BY <1>6, <2>1, <2>3 DEF OpenAlarm, LeaveAlarm
  <2>5. i \in sweep'[s].resolved /\ pc'[s] # "done"
    <3>1. i \in sweep'[s].resolved
      BY <1>1, <1>6, <2>4 DEF ResolveAlarm, SweepStates, TypeInv, TypeOK
    <3> QED
      BY <2>4, <3>1, WorksGo
  <2> QED
    BY <2>5 DEF SeenTo
<1> QED
  BY <1>4, <1>5, <1>6 DEF SeenTo

LEMMA RecoversStep ==
  ASSUME TypeInv, HistoryInv, AlarmInv, LoopsInv, [Next]_vars, NEW s \in Sweeps,
         Works(s) \/ Still(s), Recovers(s)
  PROVE  Recovers(s)'
<1>1. s \in Actors /\ ActiveDevices \subseteq Devices
  BY DevicesAssumption DEF Actors
<1>2. /\ since[s].open \subseteq DOMAIN alarms
      /\ \A i \in DOMAIN alarms :
           /\ alarms'[i].key = alarms[i].key
           /\ alarms[i].status = "RESOLVED" => alarms'[i].status = "RESOLVED"
  BY <1>1, RowsMove DEF HistoryInv, Remembers
<1>3. CASE Still(s)
  <2>1. ASSUME NEW d \in ActiveDevices, NEW i, alarms[i].status = "RESOLVED" => alarms'[i].status = "RESOLVED",
               SeenTo(s, d, i)
        PROVE  SeenTo(s, d, i)'
    BY <1>3, <2>1 DEF Still, SeenTo
  <2> QED
    BY <1>2, <1>3, <2>1 DEF Still, Recovers, From
<1>4. CASE Works(s) /\ ReadDevices(s)
  <2>1. sweep'[s].todo = {"offline"} \X ActiveDevices
    BY <1>1, <1>4 DEF ReadDevices, TypeInv, TypeOK, SweepStates
  <2>2. ActiveDevices # {} => pc'[s] = "lookup"
    BY <1>1, <1>4 DEF ReadDevices, Goto, TypeInv, TypeOK
  <2>3. \A d \in ActiveDevices : << "offline", d >> \in sweep'[s].todo /\ pc'[s] = "lookup"
    BY <2>1, <2>2
  <2> QED
    BY <2>3 DEF Recovers, SeenTo
<1>5. CASE Works(s) /\ ~ReadDevices(s)
  <2>1. sweep'[s].seen = sweep[s].seen /\ now' = now /\ since' = since
    BY <1>5, WorksKeep
  <2>2. From(s, Loops)' => From(s, Loops)
    BY <1>5, WorksGo DEF Works, From, Loops, Preparing
  <2>3. ASSUME NEW d \in ActiveDevices, NEW i \in since[s].open, From(s, Loops),
               sweep[s].seen[d] # None, now[s] <= sweep[s].seen[d] + OfflineAfter,
               alarms'[i].key = << "offline", d >>
        PROVE  SeenTo(s, d, i)'
    <3>1. i \in DOMAIN alarms /\ alarms[i].key = << "offline", d >>
      BY <1>2, <2>3
    <3>2. SeenTo(s, d, i)
      BY <2>3, <3>1 DEF Recovers
    <3> QED
      BY <1>5, <2>3, <3>1, <3>2, SeenToStep
  <2> QED
    BY <2>1, <2>2, <2>3 DEF Recovers
<1> QED
  BY <1>3, <1>4, <1>5

LEMMA LoopsInit == Init => LoopsInv
<1> SUFFICES ASSUME Init PROVE LoopsInv
  OBVIOUS
<1>1. \A s \in Sweeps : ~Active(s)
  BY DEF Init, Active, Actors, InTransaction, SweepPlaces, BeatPlaces
<1> QED
  BY <1>1 DEF LoopsInv

LEMMA LoopsStep ==
  ASSUME TypeInv, WindowInv, AlarmInv, HistoryInv, LoopsInv, [Next]_vars
  PROVE  LoopsInv'
<1> SUFFICES ASSUME NEW s \in Sweeps, Active(s)' PROVE LoopInv(s)'
  BY DEF LoopsInv
<1>1. CASE Begin(s)
  <2>1. sweep'[s] = NewSweep /\ pc'[s] = "activate"
    BY <1>1, BeginAndFail
  <2>2. Opened(s)' = {} /\ sweep'[s].resolved = {} /\ ~From(s, Loops)'
    BY <2>1 DEF Opened, NewSweep, From, Loops
  <2> QED
    BY <2>1, <2>2 DEF LoopInv, Heard, RaisedRightly, Recovers, Resolving
<1>2. CASE Works(s) \/ Still(s)
  <2>1. LoopInv(s)
    <3>1. CASE Works(s)
      BY <3>1, WorksActive DEF LoopsInv
    <3>2. CASE Still(s)
      BY <3>2 DEF LoopsInv, Active, Still
    <3> QED
      BY <1>2, <3>1, <3>2
  <2>2. Heard(s)' /\ RaisedRightly(s)' /\ Recovers(s)'
    BY <1>2, <2>1, HeardStep, RaisedStep, RecoversStep DEF LoopInv
  <2>3. ASSUME pc'[s] \in InTransaction PROVE Resolving(s)'
    <3>1. pc[s] \in InTransaction
      BY <1>2, <2>3, WorksActive DEF Still
    <3> QED
      BY <1>2, <2>1, <2>3, <3>1, ResolvingStep DEF LoopInv
  <2> QED
    BY <2>2, <2>3 DEF LoopInv
<1>3. CASE Failed(s)
  BY <1>3, BeginAndFail DEF Active, InTransaction, SweepPlaces, BeatPlaces
<1> QED
  BY <1>1, <1>2, <1>3, SweepActs
-----------------------------------------------------------------------------
(* Closed alarms: what the sweep that resolved an alarm had heard.          *)

\* Row i was resolved after one of the given heartbeats of device d, or by a
\* sweep that had read none.
ResolvedAfter(i, d, beats) ==
  /\ alarms[i].closedAt # None
  /\ \/ \E h \in beats : h.device = d /\ alarms[i].closedAt <= h.at + OfflineAfter
     \/ \E t \in Sweeps : pc[t] = "done" /\ i \in sweep[t].resolved /\ sweep[t].seen[d] = None

ClosedInv ==
  \A d \in Devices :
    /\ \A i \in DOMAIN alarms :
         alarms[i].key = << "offline", d >> /\ alarms[i].status = "RESOLVED" =>
           ResolvedAfter(i, d, heartbeats)
    /\ \A s \in Sweeps : \A i \in since[s].closed :
         alarms[i].key = << "offline", d >> => ResolvedAfter(i, d, since[s].beats)

LEMMA ClosedInit == Init => ClosedInv
<1> SUFFICES ASSUME Init, NEW d \in Devices
             PROVE  /\ \A i \in DOMAIN alarms :
                         alarms[i].key = << "offline", d >> /\ alarms[i].status = "RESOLVED" =>
                           ResolvedAfter(i, d, heartbeats)
                    /\ \A s \in Sweeps : since[s].closed = {}
  BY DEF ClosedInv
<1>1. \A s \in Sweeps : since[s].closed = {}
  BY DEF Init, Actors, NothingBefore
<1>2. ASSUME NEW i \in DOMAIN alarms, alarms[i].key = << "offline", d >>,
             alarms[i].status = "RESOLVED"
      PROVE  ResolvedAfter(i, d, heartbeats)
  <2>1. /\ lastSeen[d] # None /\ alarms[i].closedAt # None
        /\ alarms[i].closedAt <= lastSeen[d] + OfflineAfter
    BY <1>2 DEF Init
  <2>2. [by |-> None, device |-> d, at |-> lastSeen[d]] \in heartbeats
    BY <2>1 DEF Init
  <2> QED
    BY <2>1, <2>2 DEF ResolvedAfter
<1> QED
  BY <1>1, <1>2

\* Nothing that comes later takes back why a row was resolved.
LEMMA ResolvedStays ==
  ASSUME TypeInv, LoopsInv, [Next]_vars, NEW d \in Devices, NEW i \in DOMAIN alarms,
         alarms[i].status = "RESOLVED", NEW beats, NEW later, beats \subseteq later,
         ResolvedAfter(i, d, beats)
  PROVE  /\ alarms'[i] = alarms[i]
         /\ alarms'[i].closedAt # None
         /\ \/ \E h \in later : h.device = d /\ alarms'[i].closedAt <= h.at + OfflineAfter
            \/ \E t \in Sweeps :
                 pc'[t] = "done" /\ i \in sweep'[t].resolved /\ sweep'[t].seen[d] = None
<1>1. alarms'[i] = alarms[i]
  BY RowsStay
<1>2. \A t \in Sweeps : pc[t] = "done" => pc'[t] = "done" /\ sweep'[t] = sweep[t]
  BY DoneStays DEF Still
<1> QED
  BY <1>1, <1>2 DEF ResolvedAfter

\* A row is resolved by a commit, and the sweep had found the device online.
LEMMA CommitResolves ==
  ASSUME TypeInv, LoopsInv, [Next]_vars, NEW d \in Devices, NEW i \in DOMAIN alarms',
         alarms'[i].key = << "offline", d >>, alarms'[i].status = "RESOLVED",
         i \in DOMAIN alarms => alarms[i].status # "RESOLVED"
  PROVE  ResolvedAfter(i, d, heartbeats)'
<1>1. alarms' # alarms
  OBVIOUS
<1>2. PICK s \in Sweeps : Commit(s)
  BY <1>1, RowsCommitted
<1>3. /\ s \in Actors /\ heartbeats' = heartbeats /\ now' = now /\ sweep' = sweep
      /\ pc[s] = "commit" /\ pc'[s] = "done"
      /\ now[s] \in Nat /\ sweep[s] \in SweepStates
  BY <1>2 DEF Commit, Goto, Actors, TypeInv, TypeOK
<1>4. i \in DOMAIN alarms
  <2> SUFFICES ASSUME i \notin DOMAIN alarms PROVE FALSE
    OBVIOUS
  <2> PICK len, more : len = Len(alarms) /\ more = Len(sweep[s].opened)
    OBVIOUS
  <2>1. /\ len \in Nat /\ more \in Nat /\ i \in 1 .. len + more /\ i \notin 1 .. len
        /\ DOMAIN sweep[s].opened = 1 .. more
        /\ \A j \in DOMAIN sweep[s].opened : alarms'[len + j] = OpenRow(s, sweep[s].opened[j])
    BY <1>2, CommitRows
  <2>2. PICK j \in 1 .. more : i = len + j
    <3>1. i - len \in 1 .. more /\ i = len + (i - len)
      BY <2>1
    <3> QED
      BY <3>1
  <2>3. alarms'[i] = OpenRow(s, sweep[s].opened[j])
    BY <2>1, <2>2
  <2> QED
    BY <2>3 DEF OpenRow
<1>5. i \in sweep[s].resolved /\ alarms'[i].closedAt = now[s]
  BY <1>2, <1>4, CommitTouches
<1>6. /\ Heard(s) /\ From(s, Loops)
      /\ alarms[i].key = << "offline", d >> /\ SawOnline(s, d)
  <2>1. LoopInv(s) /\ Resolving(s)
    BY <1>2, <1>3, WorksActive DEF Works, LoopsInv, LoopInv
  <2>2. PICK e \in Devices : alarms[i].key = << "offline", e >> /\ SawOnline(s, e)
    BY <1>5, <2>1 DEF Resolving
  <2>3. alarms'[i].key = alarms[i].key
    BY <1>4, RowsMove
  <2> QED
    BY <1>3, <2>1, <2>2, <2>3 DEF LoopInv, From
<1>7. now[s] # None
  BY <1>3, DevicesAssumption
<1>8. CASE sweep[s].seen[d] = None
  BY <1>3, <1>5, <1>7, <1>8 DEF ResolvedAfter
<1>9. CASE sweep[s].seen[d] # None
  <2>1. PICK h \in heartbeats : h.device = d /\ h.at = sweep[s].seen[d]
    BY <1>6, <1>9 DEF Heard
  <2>2. now[s] <= h.at + OfflineAfter
    BY <1>6, <1>9, <2>1 DEF SawOnline
  <2> QED
    BY <1>3, <1>5, <1>7, <2>1, <2>2 DEF ResolvedAfter
<1> QED
  BY <1>8, <1>9

LEMMA ClosedStep ==
  ASSUME TypeInv, HistoryInv, LoopsInv, ClosedInv, [Next]_vars
  PROVE  ClosedInv'
<1>1. /\ DOMAIN alarms \subseteq DOMAIN alarms'
      /\ \A i \in DOMAIN alarms : alarms'[i].key = alarms[i].key
  BY RowsMove
<1>2. ASSUME NEW d \in Devices, NEW i \in DOMAIN alarms', alarms'[i].key = << "offline", d >>,
             alarms'[i].status = "RESOLVED"
      PROVE  ResolvedAfter(i, d, heartbeats)'
  <2>1. CASE i \in DOMAIN alarms /\ alarms[i].status = "RESOLVED"
    <3>1. ResolvedAfter(i, d, heartbeats)
      BY <1>1, <1>2, <2>1 DEF ClosedInv
    <3>2. heartbeats \subseteq heartbeats'
      BY BeatsCommitted DEF CommitBeat
    <3> QED
      BY <2>1, <3>1, <3>2, ResolvedStays DEF ResolvedAfter
  <2>2. CASE i \in DOMAIN alarms => alarms[i].status # "RESOLVED"
    BY <1>2, <2>2, CommitResolves
  <2> QED
    BY <2>1, <2>2
<1>3. ASSUME NEW d \in Devices, NEW s \in Sweeps, NEW i \in since'[s].closed,
             alarms'[i].key = << "offline", d >>
      PROVE  ResolvedAfter(i, d, since[s].beats)'
  <2>1. s \in Actors
    BY DEF Actors
  <2>2. CASE since'[s] = since[s]
    <3>1. i \in DOMAIN alarms /\ alarms[i].status = "RESOLVED"
      BY <1>3, <2>1, <2>2 DEF HistoryInv, Remembers
    <3>2. ResolvedAfter(i, d, since[s].beats)
      BY <1>1, <1>3, <2>2, <3>1 DEF ClosedInv
    <3> QED
      BY <2>2, <3>1, <3>2, ResolvedStays DEF ResolvedAfter
  <2>3. CASE Begin(s)
    <3>1. /\ since'[s].closed = {n \in DOMAIN alarms : alarms[n].status = "RESOLVED"}
          /\ since'[s].beats = heartbeats
      BY <2>1, <2>3 DEF Begin, Start, TypeInv, TypeOK
    <3>2. i \in DOMAIN alarms /\ alarms[i].status = "RESOLVED"
      BY <1>3, <3>1
    <3>3. ResolvedAfter(i, d, heartbeats)
      BY <1>1, <1>3, <3>2 DEF ClosedInv
    <3> QED
      BY <3>1, <3>2, <3>3, ResolvedStays DEF ResolvedAfter
  <2>4. CASE Failed(s)
    <3>1. since'[s].closed = {}
      BY <2>1, <2>4 DEF Failed, Fail, NothingBefore, TypeInv, TypeOK
    <3> QED
      BY <1>3, <3>1
  <2>5. Works(s) => since'[s] = since[s]
    BY WorksKeep
  <2> QED
    BY <2>2, <2>3, <2>4, <2>5, SweepActs DEF Still
<1> QED
  BY <1>2, <1>3 DEF ClosedInv
-----------------------------------------------------------------------------
(* What sweeps promise. *)

MonitoringInv ==
  /\ TypeInv /\ WindowInv /\ AlarmInv
  /\ HistoryInv /\ WindowsInv /\ LoopsInv /\ ClosedInv

LEMMA MonitoringInvHolds == Spec => []MonitoringInv
<1>1. Init => MonitoringInv
  BY TypeInit, WindowInit, AlarmInit, HistoryInit, WindowsInit, LoopsInit, ClosedInit
     DEF MonitoringInv
<1>2. MonitoringInv /\ [Next]_vars => MonitoringInv'
  BY TypeStep, WindowStep, AlarmStep, HistoryStep, WindowsStep, LoopsStep, ClosedStep
     DEF MonitoringInv
<1> QED
  BY <1>1, <1>2, PTL DEF Spec

\* What the end of a sweep shows of its loops.
LEMMA AtTheEnd ==
  ASSUME MonitoringInv, NEW s \in Sweeps, pc[s] = "done"
  PROVE  /\ WindowHistory(s) /\ Heard(s) /\ RaisedRightly(s) /\ Recovers(s)
         /\ \A places : From(s, places)
         /\ \A d : Raised(s, d) <=> << "offline", d >> \in Opened(s)
BY DEF MonitoringInv, WindowsInv, LoopsInv, LoopInv, Active, From, Raised, Opened

\* Heartbeats that came in turn are no later than what a sweep read.
LEMMA HeardInTurn ==
  ASSUME MonitoringInv, NEW s \in Sweeps, pc[s] = "done", NEW d \in Devices, InTurn(d),
         NEW h \in since[s].beats, h.device = d
  PROVE  sweep[s].seen[d] \in Nat /\ h.at \in Nat /\ h.at <= sweep[s].seen[d]
<1>1. h \in heartbeats /\ h \in HeartbeatRows
  BY DEF MonitoringInv, HistoryInv, Remembers, TypeInv, TypeOK, Actors
<1>2. /\ sweep[s].seen[d] # None
      /\ h.at <= sweep[s].seen[d] \/ \E g \in heartbeats : g # h /\ Overlap(g, h)
  BY AtTheEnd DEF Heard
<1>3. ~\E g \in heartbeats : g # h /\ Overlap(g, h)
  BY <1>1 DEF InTurn, Overlap
<1>4. sweep[s].seen[d] \in Nat \cup {None}
  BY DEF MonitoringInv, TypeInv, TypeOK, SweepStates
<1> QED
  BY <1>1, <1>2, <1>3, <1>4 DEF HeartbeatRows

\* worker.py reads all devices before its loop, and looks for an open alarm
\* only then: whatever other sweeps open and resolve meanwhile, a device that
\* was found online has none of its earlier offline alarms when it ends.
THEOREM RecoveredDeviceIsResolvedHolds == Spec => []RecoveredDeviceIsResolved
<1>1. MonitoringInv => RecoveredDeviceIsResolved
  BY AtTheEnd DEF RecoveredDeviceIsResolved, Recovers, SeenTo
<1> QED
  BY <1>1, MonitoringInvHolds, PTL

\* An offline alarm that worker.py raises is of a device that had been silent
\* for AlarmAfter when the sweep began, if its heartbeats came in turn.
THEOREM AlarmMeansSilenceHolds == Spec => []AlarmMeansSilence
<1>1. ASSUME MonitoringInv PROVE AlarmMeansSilence
  <2> SUFFICES ASSUME NEW s \in Sweeps, NEW d \in Devices, pc[s] = "done", Raised(s, d), InTurn(d),
                      NEW h \in since[s].beats, h.device = d
               PROVE  h.at + AlarmAfter < now[s]
    BY DEF AlarmMeansSilence
  <2>1. sweep[s].seen[d] + AlarmAfter < now[s]
    BY <1>1, AtTheEnd DEF RaisedRightly
  <2>2. sweep[s].seen[d] \in Nat /\ h.at \in Nat /\ h.at <= sweep[s].seen[d]
    BY <1>1, HeardInTurn
  <2>3. now[s] \in Nat /\ AlarmAfter \in Nat
    BY <1>1, TimesAssumption DEF MonitoringInv, TypeInv, TypeOK, Actors
  <2> QED
    BY <2>1, <2>2, <2>3
<1> QED
  BY <1>1, MonitoringInvHolds, PTL

\* worker.py activates the windows that cover its 'now' before it reads which
\* devices are in maintenance: it raises an alarm in a window only if a sweep
\* with a later 'now' completed the window in between.
THEOREM NoAlarmInMaintenanceHolds == Spec => []NoAlarmInMaintenance
<1>1. ASSUME MonitoringInv PROVE NoAlarmInMaintenance
  <2> SUFFICES ASSUME NEW s \in Sweeps, NEW w \in Windows, pc[s] = "done", Covers(w, now[s]),
                      Raised(s, DeviceOf[w])
               PROVE  \E t \in Sweeps : /\ pc[t] = "done" /\ EndsAt[w] <= now[t]
                                        /\ w \in sweep[t].completed
    BY DEF NoAlarmInMaintenance
  <2>1. << "offline", DeviceOf[w] >> \in Opened(s)
    BY <1>1, AtTheEnd
  <2>2. Opened(s) \subseteq AlarmKeys
    BY <1>1 DEF MonitoringInv, TypeInv, TypeOK, SweepStates, Opened
  <2>3. DeviceOf[w] \in Devices /\ DeviceOf[w] # None
    BY <2>1, <2>2, DevicesAssumption DEF AlarmKeys
  <2>4. DeviceOf[w] \notin sweep[s].maintenance
    BY <1>1, <2>1, <2>3, AtTheEnd DEF RaisedRightly
  <2>5. window[w] = "COMPLETED"
    BY <1>1, <2>3, <2>4, AtTheEnd DEF WindowHistory
  <2> QED
    BY <1>1, <2>5 DEF MonitoringInv, WindowsInv, CompletedBySome
<1> QED
  BY <1>1, MonitoringInvHolds, PTL

\* The 2 and 5 minutes of worker.py keep alarms from flapping: an alarm comes
\* more than their difference after the last was resolved, but for a sweep
\* that had read the device before its first heartbeat.
THEOREM AlarmsFollowEachOtherHolds == Spec => []AlarmsFollowEachOther
<1>1. ASSUME MonitoringInv PROVE AlarmsFollowEachOther
  <2> SUFFICES ASSUME NEW s \in Sweeps, NEW d \in Devices, pc[s] = "done", Raised(s, d), InTurn(d),
                      NEW i \in since[s].closed, alarms[i].key = << "offline", d >>,
                      ~\E t \in Sweeps : /\ pc[t] = "done" /\ i \in sweep[t].resolved
                                         /\ sweep[t].seen[d] = None
               PROVE  alarms[i].closedAt + (AlarmAfter - OfflineAfter) < now[s]
    BY DEF AlarmsFollowEachOther
  <2>1. alarms[i].closedAt \in Nat
    <3>1. i \in DOMAIN alarms
      BY <1>1 DEF MonitoringInv, HistoryInv, Remembers, Actors
    <3>2. alarms[i].closedAt \in Nat \cup {None}
      BY <1>1, <3>1, RowTypes DEF MonitoringInv
    <3>3. alarms[i].closedAt # None
      BY <1>1 DEF MonitoringInv, ClosedInv, ResolvedAfter
    <3> QED
      BY <3>2, <3>3
  <2>2. PICK h \in since[s].beats : h.device = d /\ alarms[i].closedAt <= h.at + OfflineAfter
    BY <1>1 DEF MonitoringInv, ClosedInv, ResolvedAfter
  <2>3. sweep[s].seen[d] + AlarmAfter < now[s]
    BY <1>1, AtTheEnd DEF RaisedRightly
  <2>4. sweep[s].seen[d] \in Nat /\ h.at \in Nat /\ h.at <= sweep[s].seen[d]
    BY <1>1, <2>2, HeardInTurn
  <2>5. now[s] \in Nat /\ AlarmAfter \in Nat /\ OfflineAfter \in Nat
    BY <1>1, TimesAssumption DEF MonitoringInv, TypeInv, TypeOK, Actors
  <2> QED
    BY <2>1, <2>2, <2>3, <2>4, <2>5
<1> QED
  BY <1>1, MonitoringInvHolds, PTL
=============================================================================
