SPECIFICATION Spec
CONSTANTS
  f1 = f1
  f2 = f2
  t1 = t1
  t2 = t2
  x = x
  y = y
  Nobody = Nobody
  Fresh = Fresh
  Old = Old
  Files <- TwoFiles
  Threads <- OneThread
  Values <- OneValue
  MaxBlocks = 2
  CacheSize = 2
  InitBlocks <- OldAndNew
  Ops <- AllOps
  MaxOps = 3
  Results <- NoResults
  MaxFails = 0
INVARIANTS
  TypeOK
  ReadsLatest
\* The calls come to an end.
CHECK_DEADLOCK FALSE
