SPECIFICATION AuditSpec
CONSTANTS
  dep = dep
  rs = rs
  pod = pod
  Resources = {dep, rs, pod}
  KindOf <- MCKindOf
  RefsOf <- MCRefsOf
  HintsOf <- MCHintsOf
  Identity = {}
  Plans <- MCPlans
  PlanSeq <- MCPlanSeq
  Remade = {}
  LastLife = 1
  MaxAttempts = 3
  Exposed <- MCExposed
  AuditFaults = {}
  NoResource = NoResource
CHECK_DEADLOCK FALSE
INVARIANT
  CascadeIsRetried
