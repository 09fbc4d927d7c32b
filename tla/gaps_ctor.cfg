SPECIFICATION Spec
CONSTANTS
  commSize = 2
  ndims = 2
  Rows = 2
  Cols = 2
  Layouts <- MCLayouts
  Sizes <- MCSizes
INVARIANT GapsRejected
CHECK_DEADLOCK FALSE
