SPECIFICATION FairSpec
CONSTANTS
  Files = {f1}
  Contents = {"plain", "raw", "empty"}
  Captured <- Read
  Empty = "empty"
  Absent = Absent
  Writers = {w1}
  Reverters = {r1, r2}
  MaxRows = 2
  MaxMishaps = 1
INVARIANTS
  RevertedWasUndone
PROPERTIES
  UndoRestores
  RevertsAreAudited
CHECK_DEADLOCK FALSE
