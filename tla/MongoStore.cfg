CONSTANTS
  Key = {k, l}
  Value = {v}
  Absent = Absent
  Null = Null
  NoTx = NoTx
  MaxBlock = 2
  StartingCursor = 0
  Finalities = {"pending", "accepted"}
  AlwaysReindex = {TRUE, FALSE}
SPECIFICATION Spec
PROPERTY StoreSpec
INVARIANTS TypeOK PendingRemembered
SYMMETRY Symmetry
