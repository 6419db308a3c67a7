-------------------------------- MODULE Apply --------------------------------
(***************************************************************************)
(* From a plan to the first DELETE: teardown plan saves an execution plan, *)
(* the cluster moves on, teardown apply makes the plan afresh and must     *)
(* find the same (workflow.rs apply_execution_plan), takes a backup of     *)
(* what it is about to remove (backup.rs), writes the run journal and      *)
(* runs.  A process may die at any point; a journal is resumed.            *)
(*                                                                         *)
(* Simplifications.  A plan is made from one reading of the cluster.  The  *)
(* GETs of one operator's backup are one step, and so are the files of one *)
(* staging directory: it has a name of its own and nobody looks into it.   *)
(* The directories of the operators are one, so a run name is not used     *)
(* twice by one process: it counts its names.                              *)
(* What the phases then do is the module Execution's.                      *)
(***************************************************************************)
EXTENDS TeardownPlanner

CONSTANTS
  Clusters,    \* the clusters to begin with
  Policies,    \* what the command line of teardown plan may say: the operators to
               \* remove, and what is to be deleted or kept
  WithBackup,  \* whether apply is given --backup-dir
  RunNames,    \* the run names of the moment: time, pid and sequence number
  Movable,     \* the objects that change (bound)
  MaxDrift,    \* changes to the cluster (bound)
  MaxApplies,  \* calls of teardown apply (bound)
  MaxCrashes   \* crashes (bound)

ASSUME PoliciesAssumption ==
  \A p \in Policies : p.operators \subseteq Operators /\ p.operators # {}

VARIABLES
  cluster,   \* what the API server holds
  policy,    \* the arguments of teardown plan
  seen,      \* what discovery found, for the plan that is being made, or None
  saved,     \* the execution plan file
  pc,        \* where teardown apply is
  plan,      \* its plan: phases and blockers, or None
  targets,   \* its explicit targets: object, uid and referrers
  toBackUp,  \* operators still to be backed up
  candidates,\* the uids to be captured for the operator in hand
  staged,    \* what its staging directory holds, or None
  runName,   \* the name its backup is to be published under, or None
  receipts,  \* the receipts so far: operator, run name and content
  journal,   \* the run journal on disk
  dir,       \* dir[n]: the published directory n: content and whether synced
  locks,     \* the .lock-<run name> files
  other,     \* another process that backs up into the same directory
  drift, applies, crashes

clusterVars == <<cluster, drift>>
planVars == <<policy, saved, seen>>
processVars == <<pc, plan, targets, toBackUp, candidates, staged, runName, receipts>>
diskVars == <<journal, dir, locks>>
vars == <<cluster, policy, saved, seen, pc, plan, targets, toBackUp, candidates, staged,
          runName, receipts, journal, dir, locks, other, drift, applies, crashes>>

NoFile == [made |-> FALSE, phases |-> <<>>, targets |-> {}]
NoJournal == [written |-> FALSE, plan |-> None, receipts |-> {}]
NoDirectory == [there |-> FALSE, content |-> None, synced |-> FALSE]
Foreign == "foreign"  \* the content of the other process's backup

Init ==
  /\ cluster \in Clusters /\ policy \in Policies
  /\ saved = NoFile /\ seen = None /\ plan = None /\ journal = NoJournal
  /\ pc = "idle"
  /\ targets = {} /\ toBackUp = {} /\ candidates = {} /\ receipts = {}
  /\ staged = None /\ runName = None
  /\ dir = [n \in RunNames |-> NoDirectory] /\ locks = {}
  /\ other = [at |-> "idle", name |-> None]
  /\ drift = 0 /\ applies = 0 /\ crashes = 0
-----------------------------------------------------------------------------
(***************************************************************************)
(* The cluster                                                             *)
(***************************************************************************)

Change(o, object) ==
  /\ drift' = drift + 1
  /\ cluster' = [cluster EXCEPT ![o] = object]
  /\ UNCHANGED <<planVars, processVars, diskVars, other, applies, crashes>>

Vanish(o) == cluster[o] # None /\ Change(o, None)

\* S and what is owned, directly or not, by one of S.
Beneath(c, S) == LET Grow(T) == {o \in Live(c) : OwnersIn(c, o, T) # {}}
                 IN Least(Live(c), S, Grow)

\* Deleted and made again, by a controller or by hand: another uid.
Recreate(o) ==
  /\ cluster[o] # None
  /\ Change(o, [cluster[o] EXCEPT !.gen = @ + 1])

\* Objects that are new since the plan; owned by nobody or by a live object.
Appear(o) ==
  /\ cluster[o] = None
  /\ \E owners \in {{}} \union {{Uid(cluster, p)} : p \in Live(cluster)} :
       Change(o, [gen |-> MaxDrift + 2, owners |-> owners])

\* An owner, not below the object itself, is added to a live object, or all are
\* taken from it.
Reown(o) ==
  /\ cluster[o] # None
  /\ \E owners \in {{}} \union {cluster[o].owners \union {Uid(cluster, p)} :
                                  p \in Live(cluster) \ Beneath(cluster, {o})} :
       /\ owners # cluster[o].owners
       /\ Change(o, [cluster[o] EXCEPT !.owners = owners])

\* A change that nothing reads any more is left out, and one that is before the
\* plan, which is another cluster to begin with.
Watched == saved.made /\ ~journal.written
           /\ pc \in {"idle", "bailed", "explicit", "scanning", "discover", "fetch"}

Drift == Watched /\ drift < MaxDrift /\
         \E o \in Movable : Vanish(o) \/ Recreate(o) \/ Appear(o) \/ Reown(o)
-----------------------------------------------------------------------------
(***************************************************************************)
(* teardown plan                                                           *)
(***************************************************************************)

\* discover_operators and the LISTs of generate_teardown_plan: the beginning of
\* teardown plan and of teardown apply.
MayApply == saved.made /\ ~journal.written /\ applies < MaxApplies

Discover ==
  /\ seen = None /\ pc \in {"idle", "bailed"}
  /\ ~saved.made \/ MayApply
  /\ policy.operators \subseteq Live(cluster)
  /\ seen' = Discovery(policy.operators, cluster)
  /\ UNCHANGED <<policy, saved, processVars, clusterVars, diskVars, other, applies,
                 crashes>>

Choices == Picks(Layers(policy.operators), seen.crs)

Fresh(pick) == Phases(cluster, seen, policy, pick)

Bound(o) == [obj |-> o, uid |-> Uid(cluster, o)]

\* Whether the objects in ts may be deleted with the phases, and the targets
\* with the evidence that is saved.
Free(ts, phases) ==
  \A t \in ts : Outside(cluster, PlannedUids(Inject(phases, ts)), t.obj) = {}

Evidence(ts) == {[obj |-> t.obj, uid |-> t.uid,
                  refs |-> Uids(cluster, Referrers(cluster, t.obj))] : t \in ts}

\* The plan is saved even when it has blockers.
MakePlan ==
  /\ ~saved.made /\ seen # None /\ seen' = None
  /\ PolicyFits(seen.crs, policy) /\ policy.explicit \subseteq Live(cluster)
  /\ \E pick \in Choices :
       LET ts == {Bound(o) : o \in policy.explicit}
       IN /\ Free(ts, Fresh(pick))
          /\ saved' = [made |-> TRUE, phases |-> Inject(Fresh(pick), ts), targets |-> Evidence(ts)]
  /\ UNCHANGED <<policy, clusterVars, processVars, diskVars, other, applies, crashes>>
-----------------------------------------------------------------------------
(***************************************************************************)
(* teardown apply, as far as the backup                                    *)
(***************************************************************************)

Goto(from, to) == pc = from /\ pc' = to

\* The process bails out: what it held in memory and its staging directory go.
Bail ==
  /\ pc' = "bailed"
  /\ plan' = None /\ targets' = {} /\ toBackUp' = {} /\ candidates' = {}
  /\ staged' = None /\ runName' = None /\ receipts' = {}

\* generate_teardown_plan with the saved arguments, and
\* validate_execution_plan_against_fresh: the same phases, actions and uids.
Regenerate ==
  /\ MayApply /\ seen # None /\ seen' = None
  /\ applies' = applies + 1
  /\ \/ /\ PolicyFits(seen.crs, policy)
        /\ \E pick \in Choices :
             LET fresh == Fresh(pick)
             IN IF fresh = WithoutExplicit(saved.phases)
                THEN /\ plan' = [phases |-> fresh,
                                 blockers |-> Blockers(seen.crs, policy, pick)]
                     /\ pc' = IF saved.targets = {} THEN "resolved" ELSE "explicit"
                     /\ UNCHANGED <<targets, toBackUp, candidates, staged, runName,
                                    receipts>>
                ELSE Bail
     \/ ~PolicyFits(seen.crs, policy) /\ Bail
  /\ UNCHANGED <<policy, saved, clusterVars, diskVars, other, crashes>>

\* resolve_explicit_delete_targets: first every target is read,
GetTargets ==
  /\ Goto("explicit", "scanning")
  /\ LET wanted == {t.obj : t \in saved.targets}
     IN /\ wanted \subseteq Live(cluster)
        /\ targets' = {Bound(o) : o \in wanted}
  /\ UNCHANGED <<planVars, plan, toBackUp, candidates, staged, runName, receipts,
                 clusterVars, diskVars, other, applies, crashes>>

ScanReferrersUnbound ==
  /\ Goto("scanning", "resolved")
  /\ Free(targets, plan.phases)
  /\ plan' = [plan EXCEPT !.phases = Inject(@, targets)]
  /\ UNCHANGED <<planVars, targets, toBackUp, candidates, staged, runName, receipts,
                 clusterVars, diskVars, other, applies, crashes>>

\* then what refers to them is listed and must be the evidence that was saved
\* (validate_explicit_targets_authority).
ScanReferrers ==
  /\ Goto("scanning", "resolved")
  /\ Free(targets, plan.phases)
  /\ Evidence(targets) = saved.targets
  /\ plan' = [plan EXCEPT !.phases = Inject(@, targets)]
  /\ UNCHANGED <<planVars, targets, toBackUp, candidates, staged, runName, receipts,
                 clusterVars, diskVars, other, applies, crashes>>

\* A target is gone, is referred to from outside or is not what was saved, or
\* a LIST or GET of the process fails.
Refuse ==
  /\ pc \in {"explicit", "scanning", "discover", "fetch"}
  /\ Bail
  /\ UNCHANGED <<planVars, clusterVars, diskVars, other, applies, crashes>>
-----------------------------------------------------------------------------
(***************************************************************************)
(* The backup gate                                                         *)
(***************************************************************************)

InHand == CHOOSE op \in toBackUp : TRUE

EnterGate ==
  /\ Goto("resolved", IF WithBackup THEN "discover" ELSE "backedUp")
  /\ toBackUp' = IF WithBackup THEN policy.operators ELSE {}
  /\ UNCHANGED <<planVars, plan, targets, candidates, staged, runName, receipts,
                 clusterVars, diskVars, other, applies, crashes>>

\* discover_operator_backup finds what operator resources finds, here every
\* custom resource and extra; merge_backup_candidates adds the plan's.
DiscoverBackup ==
  /\ Goto("discover", "fetch")
  /\ candidates' = Uids(cluster, Crs \union Extras) \union PlannedUids(plan.phases)
  /\ UNCHANGED <<planVars, plan, targets, toBackUp, staged, runName, receipts,
                 clusterVars, diskVars, other, applies, crashes>>

FetchBackupByName ==
  /\ Goto("fetch", "staged")
  /\ LET absent == {u \in candidates : cluster[u[1]] = None}
     IN staged' = [captured |-> {Uid(cluster, u[1]) : u \in candidates \ absent},
                   absent |-> absent]
  /\ runName' \in RunNames \ {r.name : r \in receipts}
  /\ candidates' = {}
  /\ UNCHANGED <<planVars, plan, targets, toBackUp, receipts, clusterVars, diskVars,
                 other, applies, crashes>>

\* fetch_backup_resources, which bails out on another uid under the name; then
\* all files are written and synced in the staging directory.
FetchBackup ==
  /\ Goto("fetch", "staged")
  /\ LET absent == {u \in candidates : cluster[u[1]] = None}
     IN /\ candidates \ absent \subseteq Uids(cluster, Objects)
        /\ staged' = [captured |-> candidates \ absent, absent |-> absent]
  /\ runName' \in RunNames \ {r.name : r \in receipts}
  /\ candidates' = {}
  /\ UNCHANGED <<planVars, plan, targets, toBackUp, receipts, clusterVars, diskVars,
                 other, applies, crashes>>

\* The name is reserved with create_new, then the staging directory is renamed,
\* which fails by itself on a directory that is there.
Reserve ==
  /\ Goto("staged", "reserved")
  /\ runName \notin locks
  /\ locks' = locks \union {runName}
  /\ UNCHANGED <<planVars, plan, targets, toBackUp, candidates, staged, runName,
                 receipts, clusterVars, journal, dir, other, applies, crashes>>

Publish ==
  /\ Goto("reserved", "published")
  /\ ~dir[runName].there
  /\ dir' = [dir EXCEPT ![runName] = [there |-> TRUE, content |-> staged, synced |-> FALSE]]
  /\ UNCHANGED <<planVars, plan, targets, toBackUp, candidates, staged, runName,
                 receipts, clusterVars, journal, locks, other, applies, crashes>>

\* The lock is removed, the parent synced, the receipt returned.
FinishBackup ==
  /\ pc = "published"
  /\ locks' = locks \ {runName}
  /\ dir' = [dir EXCEPT ![runName].synced = TRUE]
  /\ receipts' = receipts \union {[op |-> InHand, name |-> runName, content |-> staged]}
  /\ toBackUp' = toBackUp \ {InHand}
  /\ pc' = IF toBackUp' = {} THEN "backedUp" ELSE "discover"
  /\ staged' = None /\ runName' = None
  /\ UNCHANGED <<planVars, plan, targets, candidates, clusterVars, journal, other,
                 applies, crashes>>

\* The name is reserved or taken by somebody else.
NameTaken ==
  /\ \/ pc = "staged" /\ runName \in locks /\ UNCHANGED locks
     \/ pc = "reserved" /\ dir[runName].there /\ locks' = locks \ {runName}
  /\ Bail
  /\ UNCHANGED <<planVars, clusterVars, journal, dir, other, applies, crashes>>

\* Another process backs up into the same directory, with the same clock and
\* perhaps the same pid (of another host).
OtherReserve(n) ==
  /\ other.at = "idle" /\ n \notin locks
  /\ \/ pc \in {"staged", "reserved", "published"}  \* where it matters
     \/ pc = "bailed" /\ journal.written
  /\ locks' = locks \union {n}
  /\ other' = [at |-> "reserved", name |-> n]
  /\ UNCHANGED <<planVars, processVars, clusterVars, journal, dir, applies, crashes>>

OtherPublish ==
  /\ other.at = "reserved"
  /\ other' = [other EXCEPT !.at = "published"]
  /\ dir' = [dir EXCEPT ![other.name] =
               IF @.there THEN @ ELSE [there |-> TRUE, content |-> Foreign, synced |-> FALSE]]
  /\ UNCHANGED <<planVars, processVars, clusterVars, journal, locks, applies, crashes>>

OtherFinish ==
  /\ other.at = "published"
  /\ other' = [other EXCEPT !.at = "done"]
  /\ locks' = locks \ {other.name}
  /\ UNCHANGED <<planVars, processVars, clusterVars, journal, dir, applies, crashes>>

Other == (\E n \in RunNames : OtherReserve(n)) \/ OtherPublish \/ OtherFinish
-----------------------------------------------------------------------------
(***************************************************************************)
(* The journal, crashes and teardown resume                                *)
(***************************************************************************)

\* create_run_journal refuses more than one operator, all of which have been backed
\* up by then.
WriteJournal ==
  /\ pc = "backedUp"
  /\ \/ /\ Cardinality(policy.operators) = 1
        /\ pc' = "journaled"
        /\ journal' = [written |-> TRUE, plan |-> plan, receipts |-> receipts]
        /\ UNCHANGED <<plan, targets, toBackUp, candidates, staged, runName, receipts>>
     \/ Cardinality(policy.operators) > 1 /\ Bail /\ UNCHANGED journal
  /\ UNCHANGED <<planVars, clusterVars, dir, locks, other, applies, crashes>>

\* execute_plan_with_store does nothing for a plan with blockers.
Start ==
  /\ pc = "journaled"
  /\ IF plan.blockers = {}
     THEN pc' = "running" /\ UNCHANGED <<plan, targets, toBackUp, candidates, staged,
                                         runName, receipts>>
     ELSE Bail
  /\ UNCHANGED <<planVars, clusterVars, diskVars, other, applies, crashes>>

\* The machine goes down.  Renames that were not yet synced may be undone, the
\* lock files stay, and so do staging directories, which nobody looks into.
Crash ==
  /\ crashes < MaxCrashes /\ pc \notin {"idle", "bailed"}
  /\ crashes' = crashes + 1
  /\ Bail
  /\ \E lost \in SUBSET {n \in RunNames : dir[n].there /\ ~dir[n].synced} :
       dir' = [n \in RunNames |-> IF n \in lost \/ ~dir[n].there THEN NoDirectory
                                  ELSE [dir[n] EXCEPT !.synced = TRUE]]
  /\ other' = [other EXCEPT !.at = IF @ = "idle" THEN @ ELSE "done"]
  /\ UNCHANGED <<planVars, clusterVars, journal, locks, applies>>

\* validate_receipt for every receipt of the journal; the plan is the journal's.
Intact(r) == dir[r.name].there /\ dir[r.name].content = r.content

Resume ==
  /\ pc = "bailed" /\ journal.written
  /\ \A r \in journal.receipts : Intact(r)
  /\ plan' = journal.plan /\ receipts' = journal.receipts
  /\ pc' = "journaled"
  /\ UNCHANGED <<planVars, targets, toBackUp, candidates, staged, runName, clusterVars,
                 diskVars, other, applies, crashes>>
-----------------------------------------------------------------------------
Apply == Discover \/ MakePlan \/ Regenerate \/ GetTargets \/ ScanReferrers \/ Refuse

Gate == EnterGate \/ DiscoverBackup \/ FetchBackup \/ Reserve \/ Publish \/ FinishBackup
        \/ NameTaken

Next == Drift \/ Apply \/ Gate \/ Other \/ WriteJournal \/ Start \/ Crash \/ Resume

Spec == Init /\ [][Next]_vars
-----------------------------------------------------------------------------
\* What is journaled and run is, phase for phase and uid for uid, what was
\* saved for review, explicit targets included, however the cluster, the
\* process and its restarts interleave (workflow.rs:1306-1370).
ReviewedIsApplied ==
  /\ journal.written => journal.plan.phases = saved.phases
  /\ pc = "running" => plan.phases = saved.phases

\* Before the first DELETE every uid the plan removes has been captured for
\* every target, or was answered with 404, in a published directory that is
\* durable and still holds what its receipt says, through crashes, a resume
\* and a second writer (workflow.rs:1372-1387, backup.rs:1149-1200).
BackedUpBeforeRun ==
  WithBackup /\ pc = "running" =>
    \A op \in policy.operators : \E r \in journal.receipts :
      /\ r.op = op /\ Intact(r) /\ dir[r.name].synced
      /\ PlannedUids(plan.phases) \subseteq r.content.captured \union r.content.absent

\* What the garbage collector removes after the uids in S: the objects all of
\* whose owners are gone.
Collected(c, S) ==
  LET inS == {o \in Live(c) : Uid(c, o) \in S}
      Grow(T) == {o \in Live(c) :
                    /\ c[o].owners # {}
                    /\ \A u \in c[o].owners : u \notin Uids(c, DOMAIN c) \/ u[1] \in T}
  IN Least(Live(c), inS, Grow)

\* An explicit target is accepted, for the plan and again for its execution,
\* only if all that refers to it goes with what the plan removes
\* (ref_guard.rs:199-240).
AllowedReferrersGo ==
  [][LET phases == IF ~saved.made THEN saved'.phases ELSE plan'.phases
         accepted == \/ ~saved.made /\ saved'.made
                     \/ pc = "scanning" /\ pc' = "resolved"
     IN accepted => \A t \in policy.explicit :
          Referrers(cluster, t) \subseteq Collected(cluster, PlannedUids(phases))]_vars

Before(phases, S, T) ==
  \A i, j \in DOMAIN phases :
    Doomed(phases[i].actions) \intersect S # {} /\ Doomed(phases[j].actions) \intersect T # {}
      => i < j

\* A plan removes the operands of an operator before its controller and, of two
\* targets, the operands and the controller of the one that depends on the
\* other first; what it expects to vanish is below something it has deleted by
\* then (planner.rs:1081-1150, 3323-3434, 2346-2405).
Sound(phases) ==
  LET crs == seen.crs
      of(op) == {n \in DOMAIN crs \ LabelOnly(crs) : crs[n].operators = {op}}
      Children(S) == {n \in DOMAIN crs : crs[n].parents \intersect S # {}}
      Below(S) == Least(DOMAIN crs, S, Children)
  IN /\ \A op \in policy.operators : Before(phases, of(op), {op})
     /\ \A d \in DependsOn(policy.operators) : InCycle(policy.operators) = {} =>
          Before(phases, of(d[1]), of(d[2])) /\ Before(phases, {d[1]}, {d[2]})
     /\ \A i \in DOMAIN phases :
          With(phases[i].actions, {"EXPECT"}) \subseteq
            Below(UNION {With(phases[j].actions, {"DELETE"}) : j \in {k \in DOMAIN phases : k <= i}})

PlanIsSound == [][saved' # saved => Sound(saved'.phases)]_vars

\* What is kept because "cleanup trigger not scheduled for deletion" has no
\* owner that the plan deletes (planner.rs:2395-2399).
DemotedHasNoTrigger ==
  [][saved' # saved =>
       LET Of(act) == UNION {With(saved'.phases[i].actions, {act}) : i \in DOMAIN saved'.phases}
       IN \A n \in Of("KEEP") \intersect In(seen.crs, "descendant") :
            seen.crs[n].parents \intersect Of("DELETE") = {}]_vars
==============================================================================
