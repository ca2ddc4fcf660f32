SPECIFICATION Spec
CONSTANTS
  Servers = {x, y}
  First = x
  MaxVersion = 3
  Budgets <- SyncBudgets
INVARIANTS
  TypeOK
  SynchronizedIsPrefix
  NothingIsLost
  RequestIsAnswered
PROPERTIES
  ConnectedShadowCatchesUp
CHECK_DEADLOCK FALSE
