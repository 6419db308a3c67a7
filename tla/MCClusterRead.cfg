SPECIFICATION Spec
CONSTANTS
  c1 = c1
  c2 = c2
  c3 = c3
  get = get
  list = list
  pod = pod
  set = set
  node = node
  Consumers = {c1, c2, c3}
  Keys = {get, list}
  PageCount <- MCPageCount
  Wants <- MCWants
  MaxPermits = 1
  MaxRetries = 1
  Droppable = {c1}
  None = None
  Found <- MCFound
  Objects = {pod, set, node}
  OwnerOf <- MCOwnerOf
  ScanPermits = 1
  Window = 2
  Recreatable = {pod, set}
  MaxGen = 2
  NoOwner = NoOwner
  dep = dep
  rs = rs
  replica = replica
  cron = cron
  job = job
  root = root
  crd = crd
  Resources = {dep, rs, replica, cron, job, root, crd}
  KindOf <- MCKindOf
  RefsOf <- MCRefsOf
  HintsOf <- MCHintsOf
  Identity = {dep}
  Plans <- MCPlans
  PlanSeq <- MCPlanSeq
  Remade = {dep, cron}
  LastLife = 2
  MaxAttempts = 2
  Exposed <- MCExposed
  AuditFaults = {root, "Deployment", "generation"}
  NoResource = NoResource
CHECK_DEADLOCK FALSE
INVARIANT
  TypeOK
  LedgerIsHonest
  OneRequestPerKey
  AliasesAreStable
  NothingMissingSilently
  WalkLeavesNoGap
  AuditTellsWhatIsThere
PROPERTY
  EveryDemandIsAnswered
  PlannerImplementsContract
  ScanEnds
