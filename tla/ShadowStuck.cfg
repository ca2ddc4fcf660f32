SPECIFICATION Spec
CONSTANTS
  Servers = {x, y}
  First = x
  MaxVersion = 2
  Budgets <- StuckBudgets
PROPERTIES
  ShadowCatchesUp
CHECK_DEADLOCK FALSE
