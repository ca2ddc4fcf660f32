SPECIFICATION Spec
CONSTANTS
  Owners = {a, b, c}
  Sessions = {{a}, {b}, {c}}
  Size = 3
  Tables <- LockTables
SYMMETRY Symmetry
INVARIANTS
  TypeOK
  VectorsInOrder
PROPERTIES
  WaiterHasToWait
  ImplementsByteLocks
CHECK_DEADLOCK FALSE
