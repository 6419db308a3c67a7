--------------------------- MODULE ResidualAudit ---------------------------
(***************************************************************************)
(* The residual audit (src/src/teardown/audit.rs run_residual_audit) and   *)
(* the loop that repeats it until what the teardown deleted has settled    *)
(* (settle_loop).  An audit GETs what the plan deletes, expects to go or   *)
(* asks a review of, LISTs every other kind of the namespace, one after    *)
(* the other, and judges what it has read; meanwhile the garbage collector *)
(* and others change the cluster.                                          *)
(*                                                                         *)
(* An audit has a query planner of its own and asks it one thing at a      *)
(* time, so a key is sent once and its answer kept (QueryContract).  What  *)
(* the API serves has a name, a uid and a type.  One namespace; DaemonSets *)
(* are treated like StatefulSets, Services like Routes, ImageStreams,      *)
(* Subscriptions and CSVs, and "Root" is the kind of the operator's CRs.   *)
(***************************************************************************)
EXTENDS Naturals, Sequences, SequencesExt, FiniteSets

CONSTANTS
  Resources,    \* what there is, by name
  KindOf,       \* KindOf[r]: a kind of Kinds, "Crd", or another ("foreign")
  RefsOf,       \* RefsOf[r]: the owners it names: [owner, controller]
  HintsOf,      \* HintsOf[r]: "label", "manager", "account": what it has of the operator
  Identity,     \* the operator's own: CSV, Subscriptions, Deployments, accounts
  Plans,        \* plans and scopes: [action, broad, resolved], see AuditAssumption
  PlanSeq,      \* the resources in the order of the plan
  Remade,       \* the resources a controller or a user may create again
  LastLife,     \* how many incarnations they have (bound)
  MaxAttempts,  \* observations until settle_loop's deadline: 120 s, 3 s apart
  Exposed,      \* Exposed[p]: what others than the garbage collector may delete
                \* under plan p (bound)
  AuditFaults,  \* the resources whose GET and the kinds whose LIST may fail;
                \* "generation": the operator may be back
  NoResource

\* WORKLOAD_TARGETS; RELATED_TARGETS and the owned CRs; and all in the order in
\* which they are listed, POD_NORMALIZATION_TARGETS last.
Workloads == {"Deployment", "DaemonSet", "Job", "CronJob"}
Related   == {"Service", "Root"}
Kinds     == <<"Deployment", "DaemonSet", "Job", "CronJob", "Service", "Root",
               "Pod", "ReplicaSet">>

ASSUME AuditAssumption ==
  /\ IsFiniteSet(Resources) /\ NoResource \notin Resources
  /\ Resources \intersect ToSet(Kinds) = {}
  /\ KindOf \in [Resources -> ToSet(Kinds) \union {"Crd", "foreign"}]
  /\ \A r \in Resources :
       RefsOf[r] \subseteq [owner : Resources, controller : BOOLEAN]
  /\ HintsOf \in [Resources -> SUBSET {"label", "manager", "account"}]
  /\ Identity \union Remade \subseteq Resources
  /\ Exposed \in [Plans -> SUBSET Resources]
  /\ Plans \subseteq
       [action : [Resources -> {"none", "delete", "expect", "keep", "related"}],
        broad : BOOLEAN, resolved : BOOLEAN]
  /\ PlanSeq \in Seq(Resources) /\ ToSet(PlanSeq) = Resources
  /\ LastLife \in Nat \ {0} /\ MaxAttempts \in Nat \ {0}
  /\ AuditFaults \subseteq Resources \union ToSet(Kinds) \union {"generation"}

VARIABLES
  plan,      \* action[r]: "keep" is a KEEP or a REVIEW, "related" the REVIEW of a
             \* root found by its label only; broad: the namespace is in scope only
             \* because the operator watches all of them; resolved: the journal
             \* knows the APIs of the plan's resources and of the CRDs
  live,      \* live[r]: its last incarnation, the owners that one names, and
             \* whether it is there
  begun,     \* live when the observation began
  todo,      \* the reads it has left: resources to GET, kinds to LIST
  probed,    \* probed[r]: what the GET of r came to
  listed,    \* listed[k]: what the LIST of k came to
  attempts,  \* observations so far
  report,    \* the ResidualAudit of the last observation
  stage      \* where settle_loop is, or how it ended

auditVars == <<plan, live, begun, todo, probed, listed, attempts, report, stage>>

Id(r, uid) == [res |-> r, uid |-> uid]
NoId == Id(NoResource, 0)
IsThere(id) == live[id.res].there /\ live[id.res].uid = id.uid

\* r as the API serves it.
Served(r) == [id |-> Id(r, live[r].uid), refs |-> live[r].refs]

Planned(r)     == plan.action[r] \in {"delete", "expect"}
RelatedOnly(r) == plan.action[r] = "related"

Unprobed == [is |-> "none", uid |-> 0]
Unlisted == [is |-> "none", items |-> {}]
NoReport == [planned |-> {}, likely |-> {}, unattributed |-> {}, preserved |-> {},
             errors |-> {}]

AuditInit ==
  /\ plan \in Plans
  /\ live = [r \in Resources |->
       [uid |-> 1, there |-> TRUE,
        refs |-> {[owner |-> Id(ref.owner, 1), controller |-> ref.controller] :
                    ref \in RefsOf[r]}]]
  /\ begun = live
  /\ todo = {}
  /\ probed = [r \in Resources |-> Unprobed]
  /\ listed = [k \in ToSet(Kinds) |-> Unlisted]
  /\ attempts = 0
  /\ report = NoReport
  /\ stage = "idle"
-----------------------------------------------------------------------------
(***************************************************************************)
(* The cluster: the run's DELETEs take effect, the garbage collector       *)
(* follows them, what is gone may be created again.                        *)
(***************************************************************************)

Running == stage \in {"idle", "reading"}

Vanish(r) ==
  /\ live[r].there
  /\ \/ plan.action[r] = "delete" \/ r \in Exposed[plan]
     \/ live[r].refs # {} /\ \A ref \in live[r].refs : ~IsThere(ref.owner)
  /\ live' = [live EXCEPT ![r].there = FALSE]

Remake(r) ==
  /\ r \in Remade /\ ~live[r].there /\ live[r].uid < LastLife
  /\ \A ref \in RefsOf[r] : live[ref.owner].there
  /\ live' = [live EXCEPT ![r] =
       [uid |-> @.uid + 1, there |-> TRUE,
        refs |-> {[owner |-> Id(ref.owner, live[ref.owner].uid),
                   controller |-> ref.controller] : ref \in RefsOf[r]}]]

ClusterMoves ==
  /\ Running
  /\ \E r \in Resources : Vanish(r) \/ Remake(r)
  /\ UNCHANGED <<plan, begun, todo, probed, listed, attempts, report, stage>>
-----------------------------------------------------------------------------
(***************************************************************************)
(* The reads                                                               *)
(***************************************************************************)

Exists(k) == \E r \in Resources : KindOf[r] = k  \* the other LISTs stay empty

\* observe_residual_state: a new planner, the operator's generation, the audit.
Observe ==
  /\ stage = "idle"
  /\ stage' = "reading"
  /\ attempts' = attempts + 1
  /\ begun' = live
  /\ todo' = {r \in Resources : Planned(r) \/ RelatedOnly(r)}
               \union {k \in ToSet(Kinds) : Exists(k)}
  /\ probed' = [r \in Resources |-> Unprobed]
  /\ listed' = [k \in ToSet(Kinds) |-> Unlisted]
  /\ report' = NoReport
  /\ UNCHANGED <<plan, live>>

OperatorIsBack ==
  /\ "generation" \in AuditFaults
  /\ stage = "idle"
  /\ stage' = "unavailable"
  /\ attempts' = attempts + 1
  /\ report' = NoReport
  /\ UNCHANGED <<plan, live, begun, todo, probed, listed>>

\* The GETs of the plan come first, then those of the REVIEWs, then the LISTs.
Place(x, s) == CHOOSE i \in DOMAIN s : s[i] = x
Rank(x) ==
  IF x \in ToSet(Kinds) THEN 2 * Len(PlanSeq) + Place(x, Kinds)
  ELSE (IF Planned(x) THEN 0 ELSE Len(PlanSeq)) + Place(x, PlanSeq)

AtRead(x) == stage = "reading" /\ x \in todo /\ \A y \in todo : Rank(x) <= Rank(y)
Reads == UNCHANGED <<plan, live, begun, attempts, report, stage>>

Learn(r, answer, uid) == probed' = [probed EXCEPT ![r] = [is |-> answer, uid |-> uid]]

GetFinds(r) ==
  /\ AtRead(r) /\ probed[r] = Unprobed /\ live[r].there
  /\ Learn(r, "present", live[r].uid)
  /\ todo' = todo \ {r}
  /\ UNCHANGED listed /\ Reads

GetFails(r) ==
  /\ r \in AuditFaults
  /\ AtRead(r) /\ probed[r] = Unprobed
  /\ Learn(r, "failed", 0)
  /\ todo' = todo \ {r}
  /\ UNCHANGED listed /\ Reads

GetFindsNothing(r) ==
  /\ AtRead(r) /\ probed[r] = Unprobed /\ ~live[r].there
  /\ Learn(r, "404", 0)
  /\ UNCHANGED <<todo, listed>> /\ Reads

OkList(items) == [is |-> "ok", items |-> items]
FailedList    == [is |-> "failed", items |-> {}]
Serving(k) == {Served(r) : r \in {x \in Resources : KindOf[x] = k /\ live[x].there}}

AnswersQuietly(k) ==
  IF listed[k] # Unlisted THEN {listed[k]}
  ELSE {OkList(Serving(k))} \union {OkList({}) : f \in AuditFaults \intersect {k}}

\* What the planner answers to a LIST of k: the first answer is kept.
Answers(k) ==
  IF listed[k] # Unlisted THEN {listed[k]}
  ELSE {OkList(Serving(k))} \union {FailedList : f \in AuditFaults \intersect {k}}

\* A 404 counts once a LIST has shown that the endpoint is there.
Verify(r) ==
  /\ AtRead(r) /\ probed[r].is = "404"
  /\ IF KindOf[r] \in ToSet(Kinds)
     THEN listed' \in {[listed EXCEPT ![KindOf[r]] = a] : a \in Answers(KindOf[r])}
     ELSE UNCHANGED listed
  /\ Learn(r, IF KindOf[r] \in ToSet(Kinds) /\ listed'[KindOf[r]].is = "failed"
            THEN "failed" ELSE "gone", 0)
  /\ todo' = todo \ {r}
  /\ Reads

\* The CRD of the operator's CRs was to be deleted and is not seen: its CRs are
\* not listed, and the audit says so.
Pruned ==
  \E r \in Resources :
    KindOf[r] = "Crd" /\ plan.action[r] = "delete" /\ probed[r].is # "present"

List(k) ==
  /\ AtRead(k)
  /\ IF k = "Root" /\ Pruned THEN UNCHANGED listed
     ELSE listed' \in {[listed EXCEPT ![k] = a] : a \in Answers(k)}
  /\ todo' = todo \ {k}
  /\ UNCHANGED probed /\ Reads
-----------------------------------------------------------------------------
(***************************************************************************)
(* What an object has of the operator                                      *)
(***************************************************************************)

TargetIds == {Id(r, 1) : r \in {x \in Resources : Planned(x) \/ x \in Identity}}

Evidence(e) ==
  HintsOf[e.id.res]
    \union {s \in {"owner"} : \E ref \in e.refs : ref.owner \in TargetIds}

Positive(e) ==
  \/ Evidence(e) \intersect {"owner", "account"} # {}
  \/ {"manager", "label"} \subseteq Evidence(e)

\* compute_confidence: None, whatever the account.
NoConfidence(e) == Evidence(e) \subseteq {"account"}
-----------------------------------------------------------------------------
(***************************************************************************)
(* The owners of what was listed                                           *)
(***************************************************************************)

Scanned(k) == {e \in listed[k].items : ~Planned(e.id.res)}
\* What owners are looked up in; the ReplicaSets of the plan are among them.
Native == (UNION {Scanned(k) : k \in Workloads}) \union listed["ReplicaSet"].items
Named(r) == {e \in Native : e.id.res = r}

\* The controller, or the only owner.
SoleOwner(refs) ==
  LET controllers == {ref \in refs : ref.controller}
  IN  {ref \in refs : controllers = {ref} \/ (controllers = {} /\ refs = {ref})}

Resolved(id)   == [is |-> "resolved", id |-> id]
Foreign        == [is |-> "foreign", id |-> NoId]
Incomplete(id) == [is |-> "incomplete", id |-> id]

\* An owner is looked up by name, and must be the incarnation that was named.
LookUp(id, whenMissing) ==
  IF Named(id.res) = {} THEN whenMissing
  ELSE IF \E e \in Named(id.res) : e.id = id THEN Resolved(id)
  ELSE Incomplete(NoId)

Above(kind) == IF kind = "Job" THEN "CronJob" ELSE "Deployment"

\* normalize_pod_owner.  An owner that is missing is named, a ReplicaSet is not.
TopOwner(id) ==
  LET kind  == KindOf[id.res]
      found == LookUp(id, Incomplete(IF kind = "ReplicaSet" THEN NoId ELSE id))
      refs  == UNION {e.refs : e \in Named(id.res)}
      up    == (CHOOSE ref \in SoleOwner(refs) : TRUE).owner
  IN  IF kind \notin {"ReplicaSet", "DaemonSet", "Job"} THEN Foreign
      ELSE IF found.is # "resolved" \/ kind = "DaemonSet" \/ refs = {} THEN found
      ELSE IF SoleOwner(refs) = {} THEN Incomplete(NoId)
      ELSE IF KindOf[up.res] # Above(kind)
           THEN IF kind = "Job" THEN Foreign ELSE Incomplete(NoId)
      ELSE LookUp(up, Incomplete(up))

OwnerOfPod(e) ==
  IF SoleOwner(e.refs) = {} THEN Incomplete(NoId)
  ELSE TopOwner((CHOOSE ref \in SoleOwner(e.refs) : TRUE).owner)

\* normalize_jobs_to_cronjobs
OwnerOfJob(e) ==
  LET up == (CHOOSE ref \in SoleOwner(e.refs) : TRUE).owner
  IN  IF SoleOwner(e.refs) = {} \/ KindOf[up.res] # "CronJob" THEN Incomplete(NoId)
      ELSE LookUp(up, Incomplete(up))
-----------------------------------------------------------------------------
(***************************************************************************)
(* The report                                                              *)
(***************************************************************************)

IdsOf(es) == {e.id : e \in es}
Kept(id)      == plan.action[id.res] \in {"keep", "related"}
Unchanged(id) == id.uid = 1    \* the uid of the plan

\* What is listed with evidence of its own, and not under its owner.
Owned(e) == KindOf[e.id.res] = "Job" /\ e.refs # {}
Direct == {e \in Native : Positive(e) /\ KindOf[e.id.res] # "ReplicaSet"}
Jobs == {e \in Direct : Owned(e)}
JobsWhose(owner) == {e \in Jobs : OwnerOfJob(e).is = owner}
CronJobsOfJobs == {OwnerOfJob(e).id : e \in JobsWhose("resolved")}

Dependents == {e \in Scanned("Pod") : e.refs # {}}
PodsWhose(owner) == {p \in Dependents : OwnerOfPod(p).is = owner}
OwnersOfPods == {OwnerOfPod(p).id : p \in PodsWhose("resolved")}
LonePods == {p \in Scanned("Pod") : p.refs = {} /\ Positive(p)}

\* workload_map, by its three sources; the first to enter a workload classifies it.
OfLists == IdsOf(Direct \ Jobs)
OfJobs  == CronJobsOfJobs \ OfLists
OfPods  == ({id \in OwnersOfPods : \E e \in Named(id.res) : Positive(e)}
              \union IdsOf(LonePods)) \ (OfLists \union OfJobs)
OfRelated == UNION {{e \in Scanned(k) : Positive(e)} :
                      k \in {x \in Related : ~(x = "Root" /\ Pruned)}}

Persistent == [missing |-> NoId, pod |-> FALSE]
When(condition, error) == IF condition THEN {error} ELSE {}

Failures ==
  When(\/ ~plan.resolved \/ Pruned
       \/ \E r \in Resources : probed[r].is = "failed"
       \/ \E k \in ToSet(Kinds) : listed[k].is = "failed"
       \/ \E id \in IdsOf(Direct) : Kept(id) /\ ~Unchanged(id), Persistent)

JobErrors ==
  {[missing |-> OwnerOfJob(e).id, pod |-> FALSE] : e \in JobsWhose("incomplete")}

\* A pod of another's is passed over unless it looks like the operator's; one
\* whose owner is uncertain is, unless the namespace is in scope for its own sake.
PodErrors ==
  {Persistent : p \in {x \in PodsWhose("foreign") : Positive(x)}}
    \union {[missing |-> OwnerOfPod(p).id, pod |-> TRUE] :
              p \in {x \in PodsWhose("incomplete") :
                       Positive(x) \/ ~plan.broad \/ SoleOwner(x.refs) = {}}}

ProbedPresent(rs) == {Id(r, probed[r].uid) : r \in {x \in rs : probed[x].is = "present"}}

Judgement ==
  [planned |-> ProbedPresent({r \in Resources : Planned(r)}),
   likely |-> {id \in OfLists : ~Kept(id)} \union OfPods
                \union IdsOf({e \in OfRelated : ~NoConfidence(e)}),
   unattributed |-> {id \in OfLists : Kept(id) /\ ~Unchanged(id)}
                      \union {id \in OfJobs : ~(Kept(id) /\ Unchanged(id))}
                      \union IdsOf({e \in OfRelated : NoConfidence(e)})
                      \union ProbedPresent({r \in Resources : RelatedOnly(r)}),
   preserved |-> {id \in OfLists \union OfJobs : Kept(id) /\ Unchanged(id)},
   errors |-> Failures \union JobErrors \union PodErrors]
-----------------------------------------------------------------------------
(***************************************************************************)
(* settle_loop                                                             *)
(***************************************************************************)

\* is_transient_scan_error: the owner that is missing was deleted by the run, or
\* is the controller of a pod that counts.
Transient(error) ==
  /\ error.missing # NoId
  /\ \/ plan.action[error.missing.res] = "delete" /\ Unchanged(error.missing)
     \/ /\ error.pod
        /\ KindOf[error.missing.res] \in {"DaemonSet", "Deployment", "ReplicaSet", "Job"}

Conclude ==
  /\ stage = "reading" /\ todo = {}
  /\ report' = Judgement
  /\ stage' = IF report'.errors = {} THEN "settled"
              ELSE IF attempts < MaxAttempts /\ \A error \in report'.errors : Transient(error)
              THEN "idle" ELSE "unsettled"
  /\ UNCHANGED <<plan, live, begun, todo, probed, listed, attempts>>

AuditStep ==
  \/ Observe \/ OperatorIsBack \/ Conclude
  \/ \E r \in Resources : GetFinds(r) \/ GetFails(r) \/ GetFindsNothing(r) \/ Verify(r)
  \/ \E k \in ToSet(Kinds) : List(k)

AuditNext == AuditStep \/ ClusterMoves

AuditSpec == AuditInit /\ [][AuditNext]_auditVars /\ WF_auditVars(AuditStep)
-----------------------------------------------------------------------------
(***************************************************************************)
(* Properties                                                              *)
(***************************************************************************)

AuditTypeOK ==
  /\ plan \in Plans
  /\ \A r \in Resources : live[r].uid \in 1..LastLife /\ live[r].there \in BOOLEAN
  /\ todo \subseteq Resources \union ToSet(Kinds)
  /\ \A r \in Resources : probed[r].is \in {"none", "404", "gone", "failed", "present"}
  /\ \A k \in ToSet(Kinds) : listed[k].is \in {"none", "ok", "failed"}
  /\ attempts \in 0..MaxAttempts
  /\ stage \in {"idle", "reading", "settled", "unsettled", "unavailable"}

\* The uid was in the cluster at some time since the observation began.
WasThere(id) ==
  /\ id.uid <= live[id.res].uid
  /\ id.uid >= IF begun[id.res].there THEN begun[id.res].uid ELSE begun[id.res].uid + 1
Stayed(r) == begun[r].there /\ IsThere(Id(r, begun[r].uid))

ReportedIds ==
  report.planned \union report.likely \union report.unattributed \union report.preserved
Reported(r) == Served(r).id \in ReportedIds
OwnersOf(r) == {ref.owner : ref \in SoleOwner(live[r].refs)}

\* What a report without errors owes r, which was there all the time.
Accounted(r) ==
  LET positive == Positive(Served(r))
      ownerless == live[r].refs = {}
  IN  /\ Planned(r) \/ RelatedOnly(r) => Reported(r)
      /\ KindOf[r] \in {"Deployment", "DaemonSet", "CronJob", "Service", "Root"} /\ positive =>
           Reported(r)
      /\ KindOf[r] = "Job" /\ positive /\ ~Planned(r) =>
           IF ownerless THEN Reported(r) ELSE OwnersOf(r) \intersect ReportedIds # {}
      /\ KindOf[r] = "Pod" /\ positive /\ ~Planned(r) =>
           IF ownerless THEN Reported(r) ELSE \E id \in OwnersOf(r) : WasThere(id)
      /\ KindOf[r] = "Pod" /\ ~Planned(r) =>
           \A id \in OwnersOf(r) :
             /\ KindOf[id.res] = "ReplicaSet" /\ IsThere(id) /\ Stayed(id.res)
             /\ live[id.res].refs = {} /\ Positive(Served(id.res))
             => id \in ReportedIds

\* The audit reads one kind after the other while the cluster changes.  What it
\* reports was there at some time since it began, and when it reports no errors
\* nothing is missing that was there all the time: what is in the plan, what has
\* evidence of its own, the CronJob that stands for a job, the ReplicaSet without
\* a Deployment that stands for a pod; and no pod of the operator's has outlived
\* its owner.
AuditTellsWhatIsThere ==
  attempts > 0 /\ stage \in {"idle", "settled", "unsettled"} =>
    /\ \A id \in ReportedIds : WasThere(id)
    /\ report.errors = {} => \A r \in Resources : Stayed(r) => Accounted(r)

\* audit.rs observe_residual_state_until_settled: "Transient blockers (just-deleted
\* controller Pods not yet terminated) are retried; persistent errors (Forbidden,
\* 500, identity ambiguity) fail immediately."  Where nothing happens but that
\* the DELETEs take effect and the garbage collector follows, the audit gives up
\* only at the deadline.
CascadeIsRetried ==
  /\ AuditFaults \union Remade \union Exposed[plan] = {} /\ plan.resolved
  /\ stage = "unsettled"
  => attempts = MaxAttempts
=============================================================================
