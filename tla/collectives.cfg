SPECIFICATION Spec
CONSTANTS
  commSize = 3
  WindowsOf <- Windows3
  MaxCalls = 3
  MaxPuts = 1
INVARIANTS
  TypeOK
  InStep
  PrintsWhole
  OnlyDisorderFails
PROPERTIES
  PutsHold
  CallReturns
CHECK_DEADLOCK FALSE
