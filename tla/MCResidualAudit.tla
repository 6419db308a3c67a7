-------------------------- MODULE MCResidualAudit --------------------------
\* A Deployment the plan deletes, its ReplicaSet and a pod the plan knows nothing
\* of, with the operator's account.
EXTENDS ResidualAudit, TLC

CONSTANTS dep, rs, pod

Controlled(by) == {[owner |-> by, controller |-> TRUE]}
MCKindOf == (dep :> "Deployment") @@ (rs :> "ReplicaSet") @@ (pod :> "Pod")
MCRefsOf == (dep :> {}) @@ (rs :> Controlled(dep)) @@ (pod :> Controlled(rs))
MCHintsOf == (dep :> {}) @@ (rs :> {}) @@ (pod :> {"account"})
MCPlans ==
  [action : {(dep :> "delete") @@ (rs :> "none") @@ (pod :> "none")},
   broad : BOOLEAN, resolved : {TRUE}]
MCExposed == [p \in MCPlans |-> {}]
MCPlanSeq == <<dep, rs, pod>>
=============================================================================
