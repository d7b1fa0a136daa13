SPECIFICATION Spec
CONSTANTS
  Null = Null
  Empty = Empty
  Master = master
  Processes = {master, w1, w2}
  Keys = {k1, k2, k3}
  Legacy = {f1, f2}
  MaxDeaths = 2
INVARIANTS OneKeyEver LegacyFilesAreKept
PROPERTY ImportNeverUndoesASync
CHECK_DEADLOCK FALSE
