SPECIFICATION Spec
CONSTANTS
  h1 = h1
  Handles <- MCHandles
  BlockSize = 2
  MaxSize = 6
  StoredSize = 5
  MaxOps = 1
  Junk = Junk
  Any = Any
  None = None
  Closed = Closed
INVARIANT WriteStores
\* The calls come to an end.
CHECK_DEADLOCK FALSE
