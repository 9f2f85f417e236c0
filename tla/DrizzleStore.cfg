CONSTANTS
  Key = {k}
  Value = {v, w}
  Absent = Absent
  NoTx = NoTx
  MaxBlock = 3
  MaxLog = 4
  StartingCursor = 0
  AlwaysReindex = {TRUE, FALSE}
SPECIFICATION Spec
PROPERTY StoreSpec
INVARIANTS TypeOK UndoApplies CheckpointKeepsUp
SYMMETRY Symmetry
