SPECIFICATION Spec
CONSTANTS
  d = d
  r = r
  Deletes = {d}
  Others = {r}
  Selects = TRUE
  PlanOrder <- MCPlanOrder
  Finalized = {r}
  Recreatable = {d, r}
  LastUid = 2
  MaxPolls = 1
  MaxLost = 1
  Faults = {"error", "unverified", "unknown", "incomplete", "rejected", "blocked", "late", "pause", "crash", "reinstall"}
CHECK_DEADLOCK FALSE
INVARIANT
  ResidualTypeOK
  GoneIsGone
  NothingHalfDeleted
  OneOpenDecision
PROPERTY
  TouchedIsDecided
  FailedIsFinal
  CleanupEnds
