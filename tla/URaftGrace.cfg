SPECIFICATION Spec
CONSTANTS
  Nodes = {a, b, c}
  NoNode = NoNode
  HeartbeatPeriod = 1
  ElectionMin = 2
  Setups <- DefaultGrace
  MaxTerm = 2
  MaxInFlight = 2
SYMMETRY Symmetry
INVARIANTS
  OnePresident
CHECK_DEADLOCK FALSE
