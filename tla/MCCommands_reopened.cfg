SPECIFICATION Spec
CONSTANTS
  None = None
  d1 = d1
  d2 = d2
  Slots = {s1, s2}
  Devices = {d1}
  CommandIds = {1}
  DeviceOf <- MCDeviceOf
  CreatedAt <- MCCreatedAt
  Limits = {1}
  ResultKeys = {k1}
  ResultBodies <- TwoOutcomes
  AckTimeout = 2
  ResultTimeout = 2
  StartTime = 0
  MaxTime = 0
INVARIANTS
  ExecutionMatchesCommand
