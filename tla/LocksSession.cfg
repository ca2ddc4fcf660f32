SPECIFICATION Spec
CONSTANTS
  Owners = {a, b, c}
  Sessions = {{a}, {b}, {c}}
  Size = 2
  Tables <- PosixTable
SYMMETRY Symmetry
PROPERTY WokenHoldsLock
CHECK_DEADLOCK FALSE
