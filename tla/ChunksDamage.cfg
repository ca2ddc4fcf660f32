SPECIFICATION Spec
CONSTANTS
  Servers = {a, b}
  LockIds = {l1, l2}
  Setups <- Damage
  MaxVersion = 3
SYMMETRY Symmetry
INVARIANTS
  InvalidPartForcesVersion
CHECK_DEADLOCK FALSE
