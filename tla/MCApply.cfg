SPECIFICATION Spec
CONSTANTS
  None = None
  Operators = {"A", "B", "X"}
  Subscription <- MCSubscription
  Crs = {"a", "b", "r", "s"}
  Apis = {"As", "Bs", "Rs", "Ss"}
  Api <- MCApi
  Owned <- MCOwned
  Required <- MCRequired
  Extras = {"cm", "pod", "deploy"}
  Listed = {"pod", "deploy"}
  Refers <- MCRefers
  Clusters <- MCClusters
  Policies <- MCPolicies
  WithBackup = TRUE
  RunNames = {"n1", "n2"}
  Movable = {"a", "pod", "cm"}
  MaxDrift = 1
  MaxApplies = 2
  MaxCrashes = 1
INVARIANTS ReviewedIsApplied BackedUpBeforeRun
PROPERTIES AllowedReferrersGo PlanIsSound
CHECK_DEADLOCK FALSE
