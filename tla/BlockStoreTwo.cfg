SPECIFICATION Spec
CONSTANTS
  f1 = f1
  f2 = f2
  t1 = t1
  t2 = t2
  x = x
  y = y
  Nobody = Nobody
  Fresh = Fresh
  Old = Old
  Files <- OneFile
  Threads <- TwoThreads
  Values <- OneValue
  MaxBlocks = 3
  CacheSize = 6
  InitBlocks <- OneOfThree
  Ops <- AllOps
  MaxOps = 2
  Results <- AllResults
  MaxFails = 1
SYMMETRY ThreadSymmetry
INVARIANTS
  MappedIsOwned
  NoCellLost
  SnapshotPinned
  DirtyCovered
  CleanIsSaved
\* The calls come to an end.
CHECK_DEADLOCK FALSE
