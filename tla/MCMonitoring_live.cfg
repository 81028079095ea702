SPECIFICATION FairSpec
CONSTANTS
  None = None
  w1 = w1
  w2 = w2
  e1 = e1
  e2 = e2
  Sweeps = {s1, s2}
  Beats = {b1}
  Devices = {1, 2}
  ActiveDevices = {2}
  FirstSeen <- NeverSeen
  Windows = {}
  DeviceOf <- MCDeviceOf
  StartsAt <- MCStartsAt
  EndsAt <- MCEndsAt
  FirstStatus <- MCFirstStatus
  Executions = {e1, e2}
  ExecutedBy <- MCExecutedBy
  ExecutedAt <- MCExecutedAt
  OfflineAfter = 1
  AlarmAfter = 2
  FailurePeriod = 2
  FailureLimit = 1
  StartTime = 0
  MaxTime = 0
  FirstAlarms <- NoAlarms
PROPERTIES
  EveryTransactionEnds
