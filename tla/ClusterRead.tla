---------------------------- MODULE ClusterRead ----------------------------
(***************************************************************************)
(* The readers of the cluster.  A command that reads is given a query      *)
(* planner, which all its consumers share, or it is not, and its readers   *)
(* make their own calls (get_with_retry_planner, list_all_with_retry_      *)
(* planner, scan_namespace_with_semaphore: Option<SharedPlanner>).  The    *)
(* residual audit makes a planner for each of its observations, and is the *)
(* only one to use it.                                                     *)
(***************************************************************************)
EXTENDS QueryPlanner, NamespaceScan, ResidualAudit

VARIABLE command   \* "planned": it passes a planner; "direct"; or "audit"

vars == <<command, plannerVars, scanVars, auditVars>>

\* The readers of another command stay as they are at the start, so one start
\* of theirs is enough.
Init ==
  /\ command \in {"planned", "direct", "audit"}
  /\ PlannerInit
  /\ ScanInit
  /\ AuditInit
  /\ command # "direct" => reader = "index" /\ limited
  /\ command # "audit" => plan = CHOOSE p \in Plans : TRUE

WithPlanner(Step) ==
  command = "planned" /\ Step /\ UNCHANGED <<command, scanVars, auditVars>>
WithNone(Step) ==
  command = "direct" /\ Step /\ UNCHANGED <<command, plannerVars, auditVars>>
AsAudit(Step) ==
  command = "audit" /\ Step /\ UNCHANGED <<command, plannerVars, scanVars>>

Next == WithPlanner(PlannerNext) \/ WithNone(ScanNext) \/ AsAudit(AuditNext)

\* The fairness of the first two, in the runs that use them.
Fairness ==
  /\ \A c \in Consumers : WF_vars(WithPlanner(DemandStep(c) \/ QueryStep(c)))
  /\ WF_vars(WithNone(WalkStep))
  /\ \A i \in Targets : WF_vars(WithNone(TargetStep(i)))

Spec == Init /\ [][Next]_vars /\ Fairness

TypeOK == PlannerTypeOK /\ ScanTypeOK /\ AuditTypeOK
=============================================================================
