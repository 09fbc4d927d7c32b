SPECIFICATION Spec
CONSTANTS
  commSize = 3
  Layouts <- MCLayouts
  Completions = {"REMOTE_FLUSH"}
  sizeofT = 4
  MaxStart = 1
  MaxCoord = 4
INVARIANT StridedOrigin
CHECK_DEADLOCK FALSE
