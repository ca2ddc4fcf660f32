SPECIFICATION Spec
CONSTANTS
  Nodes = {a, b, c}
  NoNode = NoNode
  HeartbeatPeriod = 1
  ElectionMin = 2
  Setups <- Failures
  MaxTerm = 2
  MaxInFlight = 2
SYMMETRY Symmetry
INVARIANTS
  PresidentHasLoyalQuorum
  LeaderHasNewestVersion
CHECK_DEADLOCK FALSE
