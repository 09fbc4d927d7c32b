SPECIFICATION Spec
CONSTANTS
  commSize = 3
  Layouts <- MCLayouts
  Completions = {"NO_FLUSH", "REMOTE_FLUSH"}
  sizeofT = 2
  MaxStart = 1
  MaxCoord = 5
INVARIANTS
  TypeOK
  NothingStray
  WholePatch
  NeverFails
  BlockingCompletes
PROPERTIES
  EachCellOnce
  AccessReturns
  ImplementsArray
CHECK_DEADLOCK FALSE
