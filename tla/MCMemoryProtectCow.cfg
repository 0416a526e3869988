SPECIFICATION MemorySpec
CONSTANTS
  Start = 2
  End = 7
  MaxPages = 2
  Procs = {p1, p2}
  NPages = 4
  Frames = {f1, f2, f3}
  Values = {0, 1}
  FilePages = {0}
  HeapBottom = 1
  Repertoires <- ForksAndProtects
  Nobody = Nobody
SYMMETRY Symmetry
CHECK_DEADLOCK FALSE
INVARIANTS
  CowProtects
