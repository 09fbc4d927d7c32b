SPECIFICATION Spec
CONSTANTS
  None = None
  Threads = {t1, t2}
  Targets = {p1, p2}
  Boxes <- MCBoxes
  Types <- MCTypes
  Ops = {"SUM"}
  ndims = 2
  Concurrent = TRUE
  Completions = {"LOCAL_FLUSH", "REMOTE_FLUSH"}
  Atomicities = {"ATOMIC_NONE", "ATOMIC_PUT_GET"}
INVARIANTS
  TypeOK
  AsAsked
  CompletesAtReturn
PROPERTIES
  KeepsFirstType
  LockReleased
CHECK_DEADLOCK FALSE
