SPECIFICATION Spec
CONSTANTS
  Servers = {a, b, c}
  LockIds = {l1, l2}
  Setups <- PairsAndTriple
  MaxVersion = 3
SYMMETRY Symmetry
INVARIANTS
  TypeOK
  AcknowledgedDataIsRead
  AcknowledgedDataSurvives
  GrantCoversCopies
  OperationWillEnd
  ValidPartIsCurrent
  NoFutureVersion
  ReplayAgrees
  WriteEndWillCome
  ClientAwaitsOperation
CHECK_DEADLOCK FALSE
