CONSTANTS
  Any = Any
  A = A
  B = B
  t = t
  u = u
  Filters <- MCFilters
  Merge = {TRUE, FALSE}
  Logs <- MCLogs
  Final = 4
  Latest = 5
  StartingSize = 4
  Limit = 2
  MaxAttempts = 2
  Rps = 1
  TicksPerSecond = 2
  MaxObserved = 1
  MaxFaults = 1
  MaxOthers = 1
SPECIFICATION FairSpec
INVARIANTS TypeOK BackfilledExactly NoLogTwice RateKept
PROPERTY NeverStalls
