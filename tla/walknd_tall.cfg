SPECIFICATION Spec
CONSTANTS
  commSize = 2
  ndims = 2
  Rows = 3
  Cols = 3
  Layouts <- TallLayouts
  Points <- TallPoints
  Origins <- TallOrigins
INVARIANT NextTargetExists
CHECK_DEADLOCK FALSE
