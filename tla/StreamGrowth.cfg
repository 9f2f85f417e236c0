CONSTANTS
  Block <- MCBlock
  Number <- MCNumber
  At <- MCAt
  BatchSize = 1
  Genesis <- MCGenesis
  Matching <- MCMatching
  HeaderAlways = FALSE
  RangeSize = 2
  Start <- FromGenesis
  NoEnding = NoEnding
  Ending = NoEnding
  NoBlock = NoBlock
  Switch <- NewBranchesOnly
  MaxReorgs = 0
  MaxRestarts = 1
  AtomicReads = FALSE
  Prompt = FALSE
  FastRequests = TRUE
  Lagging = FALSE
  MaxNumber = 4
  Branches = {0}
  ForkDepth = 0
SPECIFICATION FairSpec
INVARIANT GrowthIsHandled
PROPERTIES EventuallyCaughtUp IntervalsAnswered
CHECK_DEADLOCK FALSE
