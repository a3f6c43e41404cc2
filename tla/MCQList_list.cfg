CONSTANTS
  a = a
  b = b
  x = x
  y = y
  n1 = n1
  n2 = n2
  n3 = n3
  n4 = n4
  Caller <- Callers
  Datum <- Data
  Node <- Nodes
  Index <- Indices
  Operations <- All
  NULL = NULL
  Recursive = TRUE
  Disciplined = TRUE

SPECIFICATION Spec
SYMMETRY Symmetry

INVARIANTS
  TypeOK
  WellFormed
  UsesLiveNode
  LockPaired

PROPERTY ImplementsList
