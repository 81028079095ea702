---------------------------- MODULE MCMonitoring ----------------------------
(* Monitoring on small instances: the constants of the runs. *)
EXTENDS Monitoring, TLC

CONSTANTS w1, w2, e1, e2

\* Devices were seen when the clock was at 0, or never.
SeenOrNot == [Devices -> {0, None}]
NeverSeen == {[d \in Devices |-> None]}

MCDeviceOf == [w \in Windows |-> 1]
MCStartsAt == [w \in Windows |-> 4]
MCEndsAt == [w \in Windows |-> 5]
MCFirstStatus == [w \in Windows |-> "SCHEDULED"]

MCExecutedBy == [e \in Executions |-> IF e = e1 THEN 1 ELSE 2]
MCExecutedAt == [e \in Executions |-> 0]

OldAlarm == [key |-> << "offline", 1 >>, status |-> "OPEN", openedAt |-> 3, closedAt |-> None]
ClosedAlarm ==
  [key |-> << "offline", 1 >>, status |-> "RESOLVED", openedAt |-> 0, closedAt |-> 1]
NoAlarms == {<< >>}
OldAlarmsOrNone == {<< >>, << OldAlarm >>, << ClosedAlarm >>}

ActorSymmetry == Permutations(Sweeps) \cup Permutations(Beats)
=============================================================================
