CONSTANTS
  poolA = poolA
  poolB = poolB
  Contract = {poolA, poolB}
  MaxNumber = 4
  Block <- MCBlock
  Number <- MCNumber
  At <- MCAt
  Genesis <- MCGenesis
  Creates <- MCCreates
  NewBranch <- MCNewBranch
  Plugins = {"mongo"}
  NoBlock = NoBlock
  MaxRetries = 3
  MaxReorgs = 2
  MaxRestarts = 1
  StillDuringFactory = TRUE
SPECIFICATION Spec
PROPERTY RestartIsClean
CHECK_DEADLOCK FALSE
