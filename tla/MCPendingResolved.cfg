SPECIFICATION Resumed
CONSTANTS
  d = d
  r = r
  Deletes = {d}
  Others = {r}
  Selects = FALSE
  PlanOrder <- MCPlanOrder
  Finalized = {}
  Recreatable = {d}
  LastUid = 2
  MaxPolls = 1
  MaxLost = 1
  Faults = {}
CHECK_DEADLOCK FALSE
PROPERTY
  PendingIsResolved
