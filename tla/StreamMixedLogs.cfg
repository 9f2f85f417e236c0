CONSTANTS
  Block <- MCBlock
  Number <- MCNumber
  At <- MCAt
  BatchSize = 1
  Genesis <- MCGenesis
  Matching <- FirstMatching
  HeaderAlways = FALSE
  RangeSize = 2
  Start <- FromGenesis
  NoEnding = NoEnding
  Ending = NoEnding
  NoBlock = NoBlock
  Switch <- NewBranchesOnly
  MaxReorgs = 1
  MaxRestarts = 0
  AtomicReads = FALSE
  Prompt = TRUE
  FastRequests = FALSE
  Lagging = FALSE
  MaxNumber = 3
  Branches = {0, 1}
  ForkDepth = 3
SPECIFICATION Spec
INVARIANT LogsOfTheBlock
CHECK_DEADLOCK FALSE
