SPECIFICATION Spec
CONSTANTS
  Nodes = {a, b, c}
  NoNode = NoNode
  HeartbeatPeriod = 1
  ElectionMin = 2
  Setups <- Lease
  MaxTerm = 2
  MaxInFlight = 2
SYMMETRY Symmetry
INVARIANTS
  TypeOK
  OnePresident
  PresidentHasLoyalQuorum
  OneLeaderPerTerm
CHECK_DEADLOCK FALSE
