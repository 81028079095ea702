SPECIFICATION Spec
CONSTANTS
  None = None
  Clients = {1, 2}
  Matrices = {}
  Solo = {s1}
  RunIdOf <- MCRunIdOf
  Leftover = {}
  Overwrites = {FALSE}
  Drivers = {d1, d2}
  Cases <- MCCases
  WARMUP_RUNS = 1
  MIN_MEASURED_RUNS = 2
  MAX_MEASURED_RUNS = 3
  LoadCalls = 1
  MaxSignals = 1
SYMMETRY RunSymmetry
CHECK_DEADLOCK FALSE
INVARIANTS
  MeasuredAlone
  CountedCallsAreTheTrials
  PassMeansEveryCaseWasClean
