--------------------------- MODULE MCClusterRead ---------------------------
\* Three consumers of a GET and of a LIST with two pages; and three types, two
\* of which list the same object, with a cycle of owners outside the namespace.
EXTENDS ClusterRead, TLC

CONSTANTS c1, c2, c3, get, list, pod, set, node

MCPageCount == (get :> 1) @@ (list :> 2)
MCWants ==
  LET Want(k, reqs) == [key : {k}, req : reqs]
  IN  (c1 :> Want(list, {"Required", "Optional"}))
        @@ (c2 :> Want(list, {"Required", "Optional"}))
        @@ (c3 :> Want(get, {"Required"}) \union Want(list, {"Optional"}))
MCFound == <<{pod}, {pod}, {}>>
MCOwnerOf == (pod :> set) @@ (set :> node) @@ (node :> set)

\* A Deployment of a root, with its ReplicaSet and pod; a CronJob with its job.
CONSTANTS dep, rs, replica, cron, job, root, crd

Controlled(by) == {[owner |-> by, controller |-> TRUE]}
MCKindOf ==
  (dep :> "Deployment") @@ (rs :> "ReplicaSet") @@ (replica :> "Pod")
    @@ (cron :> "CronJob") @@ (job :> "Job") @@ (root :> "Root") @@ (crd :> "Crd")
MCRefsOf ==
  (dep :> Controlled(root)) @@ (rs :> Controlled(dep)) @@ (replica :> Controlled(rs))
    @@ (job :> Controlled(cron)) @@ [r \in {cron, root, crd} |-> {}]
MCHintsOf ==
  [r \in {rs, crd} |-> {}] @@ (dep :> {"account"}) @@ (replica :> {"account"})
    @@ (cron :> {"label"}) @@ (job :> {"label", "manager"}) @@ (root :> {"account"})
Scope(planned, action) ==
  [action |-> [r \in Resources |-> IF r \in planned THEN action[r] ELSE "none"],
   broad |-> TRUE, resolved |-> TRUE]
Cascading  == Scope({cron, root}, (cron :> "keep") @@ (root :> "delete"))
Keeping    == Scope({dep, job, root}, (dep :> "keep") @@ (job :> "keep") @@ (root :> "related"))
WithoutCrd == Scope({crd, rs}, (crd :> "delete") @@ (rs :> "expect"))
MCPlans == {Cascading, Keeping, WithoutCrd}
MCExposed == (Cascading :> {cron}) @@ (Keeping :> {dep, rs}) @@ (WithoutCrd :> {cron})
MCPlanSeq == <<dep, rs, replica, cron, job, root, crd>>
=============================================================================
