SPECIFICATION Spec
CONSTANTS
  None = None
  Threads = {t1}
  Windows = {w1, w2}
  Completions = {"NO_FLUSH", "LOCAL_FLUSH", "REMOTE_FLUSH"}
  Shapes <- AllShapes
  PREALLOC = 3
  Counts = {1, 2}
  STORE = 6
  OBJECT = 2
  MaxAccesses = 4
INVARIANTS
  TypeOK
  OwnData
  RecordsKept
  PutsOwn
  NeverUndefined
PROPERTIES
  FlushReturns
CHECK_DEADLOCK FALSE
