SPECIFICATION FairSpec
CONSTANTS
  None = None
  d1 = d1
  d2 = d2
  Slots = {s1, s2}
  Devices = {d1, d2}
  CommandIds = {1, 2}
  DeviceOf <- MCDeviceOf
  CreatedAt <- MCCreatedAt
  Limits = {1, 2}
  ResultKeys = {k1}
  ResultBodies <- EveryOutcome
  AckTimeout = 2
  ResultTimeout = 2
  StartTime = 0
  MaxTime = 1
PROPERTIES
  EveryRequestEnds
