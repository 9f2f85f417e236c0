CONSTANTS
  Indexer = {i, j}
  Key = {k}
  Value = {v}
  Absent = Absent
  Null = Null
  NoTx = NoTx
  MaxBlock = 1
  StartingCursor <- NoStartingCursor
  Finalities = {"pending", "accepted"}
  AlwaysReindex = {TRUE, FALSE}
SPECIFICATION Spec
PROPERTY OwnRowsOnly
SYMMETRY Symmetry
