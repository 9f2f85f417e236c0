CONSTANTS
  Block <- MCBlock
  Number <- MCNumber
  At <- MCAt
  BatchSize = 1
  Genesis <- MCGenesis
  Matching <- MCMatching
  HeaderAlways = TRUE
  RangeSize = 2
  Start <- FromGenesis
  NoEnding = NoEnding
  Ending = 3
  NoBlock = NoBlock
  Switch <- NewBranchesOnly
  MaxReorgs = 2
  MaxRestarts = 1
  AtomicReads = TRUE
  Prompt = TRUE
  FastRequests = FALSE
  Lagging = FALSE
  MaxNumber = 4
  Branches = {0, 1}
  ForkDepth = 2
SPECIFICATION Spec
INVARIANTS HeldIsChain CompleteAtEnding
PROPERTY LogsOrdered
CHECK_DEADLOCK FALSE
