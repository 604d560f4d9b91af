SPECIFICATION FairSpec
CONSTANTS
  f1 = f1
  f2 = f2
  c1 = c1
  c2 = c2
  NoOne = NoOne
  Files <- MCFiles
  Stored <- MCStored
  Clients <- OneClient
  MaxVer = 2
  Results <- AllResults
  RawStatus <- DebugStatus
  RawExist <- DebugExist
  Spurious = FALSE
INVARIANTS
  StopDrained
PROPERTIES
  DirtyIsSaved
  LoopEnds
  KeepsPromise
\* Unmounting is the end of the program.
CHECK_DEADLOCK FALSE
