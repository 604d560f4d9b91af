SPECIFICATION Spec
CONSTANTS
  f1 = f1
  f2 = f2
  t1 = t1
  t2 = t2
  NoOne = NoOne
  Threads <- MCThreads
  Files <- MCFiles
  CacheSize = 3
  Cells0 <- MCCells
  MaxOps = 3
SYMMETRY MCSymmetry
INVARIANTS
  TypeOK
  ScanInList
  OneTaker
  NoStandoff
PROPERTY KeepsOrder
CHECK_DEADLOCK FALSE
