SPECIFICATION Spec
CONSTANTS
  None = None
  Windows = {w1, w2}
  Completions = {"NO_FLUSH", "LOCAL_FLUSH", "REMOTE_FLUSH"}
  Shapes <- LocalShape
  PREALLOC = 3
  Counts = {1, 2}
  EXPR_COUNT = 2
  MaxAccesses = 4
INVARIANTS
  TypeOK
  OwnData
  NeverUndefined
PROPERTIES
  ImplementsDeferred
CHECK_DEADLOCK FALSE
