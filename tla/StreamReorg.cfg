CONSTANTS
  Block <- MCBlock
  Number <- MCNumber
  At <- MCAt
  BatchSize = 1
  Genesis <- MCGenesis
  Matching <- MCMatching
  HeaderAlways = FALSE
  RangeSize = 2
  Start <- FromGenesis
  NoEnding = NoEnding
  Ending = NoEnding
  NoBlock = NoBlock
  Switch <- NewBranchesOnly
  MaxReorgs = 2
  MaxRestarts = 0
  AtomicReads = TRUE
  Prompt = TRUE
  FastRequests = FALSE
  Lagging = FALSE
  MaxNumber = 3
  Branches = {0, 1}
  ForkDepth = 3
SPECIFICATION Spec
INVARIANTS HeadIsCanonical ConsistentAtHead
CHECK_DEADLOCK FALSE
