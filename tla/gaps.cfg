SPECIFICATION Spec
CONSTANTS
  commSize = 3
  ndims = 2
  Rows = 3
  Cols = 2
  Layouts <- MCLayouts
  Sizes <- MCSizes
INVARIANTS
  TypeOK
  Remaining
  BoxesApart
  CheckExact
PROPERTIES
  Terminates
CHECK_DEADLOCK FALSE
