CONSTANTS
  Block <- MCBlock
  Number <- MCNumber
  At <- MCAt
  BatchSize = 1
  Genesis <- MCGenesis
  Matching <- MCMatching
  HeaderAlways = FALSE
  RangeSize = 2
  Start <- FromGenesis
  NoEnding = NoEnding
  Ending = NoEnding
  NoBlock = NoBlock
  Switch <- AnySwitch
  MaxReorgs = 1
  MaxRestarts = 0
  AtomicReads = FALSE
  Prompt = FALSE
  FastRequests = FALSE
  Lagging = TRUE
  MaxNumber = 3
  Branches = {0, 1}
  ForkDepth = 1
SPECIFICATION Spec
INVARIANT TypeOK
PROPERTIES PromiseKept LogsOrdered
CHECK_DEADLOCK FALSE
