SPECIFICATION Spec
CONSTANTS
  root = root
  dirA = dirA
  fileB = fileB
  n1 = n1
  n2 = n2
  a = a
  b = b
  None = None
  Dot = Dot
  DotDot = DotDot
  Junk = Junk
  Guids <- MCGuids
  Names <- MCNames
  Stored0 <- MCTree
  Root0 = root
  Ops <- AllOps
  MaxOps = 2
  MaxCrashes = 1
INVARIANTS
  TypeOK
  SizeWithinData
  
  
PROPERTY RootKept
CHECK_DEADLOCK FALSE
