SPECIFICATION Spec
CONSTANTS
  n1 = n1
  n2 = n2
  v1 = v1
  e0 = e0
  Empty = e0
  None = None
  Nodes <- MCNodes
  Values <- MCValues
  MaxTerm = 3
  MaxLog = 2
  MaxMessages = 2
  MaxQueue = 1
SYMMETRY Symmetry
CHECK_DEADLOCK FALSE
INVARIANT WonByMajority
