SPECIFICATION Spec
CONSTANTS
  None = None
  w1 = w1
  w2 = w2
  e1 = e1
  e2 = e2
  Sweeps = {s1, s2}
  Beats = {b1, b2}
  Devices = {1}
  ActiveDevices = {1}
  FirstSeen <- SeenOrNot
  Windows = {w1}
  DeviceOf <- MCDeviceOf
  StartsAt <- MCStartsAt
  EndsAt <- MCEndsAt
  FirstStatus <- MCFirstStatus
  Executions = {}
  ExecutedBy <- MCExecutedBy
  ExecutedAt <- MCExecutedAt
  OfflineAfter = 1
  AlarmAfter = 2
  FailurePeriod = 2
  FailureLimit = 1
  StartTime = 3
  MaxTime = 6
  FirstAlarms <- OldAlarmsOrNone
SYMMETRY ActorSymmetry
INVARIANTS
  TypeOK
  OneOpenAlarmPerKey
  RecoveredDeviceIsResolved
  OnlyOverlapMovesBack
  AlarmMeansSilence
  NoAlarmInMaintenance
  AlarmsFollowEachOther
PROPERTIES
  MaintenanceMovesForward
