SPECIFICATION Spec
CONSTANTS
  None = None
  Windows = {w1, w2}
  Completions = {"NO_FLUSH"}
  Shapes <- LocalShape
  PREALLOC = 3
  Counts = {1}
  EXPR_COUNT = 2
  MaxAccesses = 3
INVARIANT
  FindsRecords
CHECK_DEADLOCK FALSE
