SPECIFICATION FairSpec
CONSTANTS
  None = None
  Companies = 2
  Stations = 4
  Devices = 40
  SeedPayments = 20
  MinFixtures = 4
  MinCommands = 2
  Overviews = {o1}
  Payers = {p1, p2}
  p1 = p1
  KeyOf <- MCKeyOf
  OutcomeOf <- MCOutcomeOf
  PayDevices = {9}
  Failing = {1}
  PoolSize = 2
  OnlineFor = 1
  DayLength = 2
  MonthStarts <- MCMonthStarts
  StartTime = 13
  MaxTime = 14
INVARIANTS
  TypeOK
  BlocksAgreeUpToCommits
  HoldersNeverQueue
  FixturesServeTheRuns
PROPERTIES
  EveryRequestEnds
