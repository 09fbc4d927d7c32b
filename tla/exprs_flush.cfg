SPECIFICATION Spec
CONSTANTS
  None = None
  Threads = {t1}
  Windows = {w1}
  Completions = {"NO_FLUSH"}
  Shapes <- LocalShape
  PREALLOC = 3
  Counts = {1}
  STORE = 6
  OBJECT = 2
  MaxAccesses = 2
PROPERTY
  FlushCompletes
CHECK_DEADLOCK FALSE
