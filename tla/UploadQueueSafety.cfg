SPECIFICATION Spec
CONSTANTS
  f1 = f1
  f2 = f2
  c1 = c1
  c2 = c2
  NoOne = NoOne
  Files <- MCFiles
  Stored <- MCStored
  Clients <- MCClients
  MaxVer = 3
  Results <- Retryable
  RawStatus <- DebugStatus
  RawExist <- DebugExist
  Spurious = TRUE
SYMMETRY ClientSymmetry
INVARIANTS
  TypeOK
  DirtyIsQueued
  RestIsSaved
  
PROPERTY NoRegress
\* Unmounting is the end of the program.
CHECK_DEADLOCK FALSE
