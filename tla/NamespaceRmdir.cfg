SPECIFICATION Spec
CONSTANTS
  root = root
  dirA = dirA
  fileB = fileB
  n1 = n1
  n2 = n2
  a = a
  b = b
  t1 = t1
  t2 = t2
  Root = root
  Null = Null
  NoOne = NoOne
  Dot = Dot
  DotDot = DotDot
  Ids <- MCIds
  Names <- MCNames
  Parents <- MCParents
  Threads <- MCThreads
  Tree0 <- MCTree
  Files0 <- MCFiles
  Movable <- OnlyFiles
  MaxOps = 3
SYMMETRY MCSymmetry
PROPERTY RemovesOnlyEmpty
\* The calls come to an end.
CHECK_DEADLOCK FALSE
