SPECIFICATION Spec
CONSTANTS
  None = None
  Clients = {1, 2}
  Matrices = {m1}
  Solo = {s1}
  RunIdOf <- MCRunIdOf
  Leftover <- MCLeftover
  Overwrites = {TRUE, FALSE}
  Drivers = {}
  Cases <- MCCases
  WARMUP_RUNS = 1
  MIN_MEASURED_RUNS = 2
  MAX_MEASURED_RUNS = 3
  LoadCalls = 2
  MaxSignals = 2
CHECK_DEADLOCK FALSE
INVARIANTS
  TypeOK
  MeasuredAlone
  BalancedMatrix
