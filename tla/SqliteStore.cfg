CONSTANTS
  Indexer = {i}
  Key = {k}
  Value = {v, w}
  Absent = Absent
  Null = Null
  NoTx = NoTx
  MaxBlock = 4
  StartingCursor = 0
  Finalities = {"pending", "accepted"}
  AlwaysReindex = {FALSE}
SPECIFICATION Spec
PROPERTY StoreSpec
INVARIANTS TypeOK VersionsDisjoint
SYMMETRY Symmetry
