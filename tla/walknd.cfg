SPECIFICATION Spec
CONSTANTS
  commSize = 4
  ndims = 2
  Rows = 3
  Cols = 3
  Layouts <- MCLayouts
  Points <- MCPoints
  Origins <- MCOrigins
INVARIANTS
  TypeOK
  NothingStray
  Delivered
  NeverFails
  ElemInPlace
PROPERTIES
  AccessReturns
CHECK_DEADLOCK FALSE
