SPECIFICATION Spec
CONSTANTS
  f1 = f1
  f2 = f2
  t1 = t1
  t2 = t2
  x = x
  y = y
  Nobody = Nobody
  Fresh = Fresh
  Old = Old
  Files <- TwoFiles
  Threads <- TwoThreads
  Values <- OneValue
  MaxBlocks = 1
  CacheSize = 1
  InitBlocks <- AllOld
  Ops <- NoWrite
  MaxOps = 4
  Results <- NoResults
  MaxFails = 0
SYMMETRY ThreadSymmetry
INVARIANTS
  CacheBound
  EvictInRange
  ThrowsOnlyBeyond
\* The calls come to an end.
CHECK_DEADLOCK FALSE
