# A verification of oc-deps

`oc-deps` inspects the dependencies of OpenShift operators and tears operators
down: it plans the deletion of an operator and of everything that belongs to it,
executes the plan phase after phase, records what it does in a journal on disk,
and resumes after a pause or a crash. What it gets wrong it gets wrong on a live
cluster, so the teardown is what these modules are about. They are translated
from `src/src/**`; the line numbers of every definition are in `PROJECT.json`
under `map`.

## 1. The system

### Components

| Component | State it keeps | Operations that change it | Modelled in |
|---|---|---|---|
| Mutation gate `teardown/permit.rs` | an atomic `open`, a fair semaphore, a cancel channel | `acquire`, drop of a permit, `close_and_drain`, `reopen` | `MutationGate`, `PauseContract` |
| Runtime state store `teardown/runtime.rs` | one entry per tracked resource: state, uid, finalizers, last progress | `register`, `apply_authoritative`, `apply_non_authoritative`, `update_from_executor` | `RuntimeEntry` |
| Watch barrier `teardown/watch.rs` | the round of GETs under way, WATCH tasks, consecutive unknown rounds | `wait_for_gone_cancellable`, `run_watch_loop`, `observe_resource` | `Barrier` |
| Plan executor `teardown/executor.rs` | phase, `ExecutionResult`, resources with re-delete authority, re-delete iterations | phase loop, delete waves, re-deletes, finalizer recovery, deferral, residual cleanup | `Execution`, `TeardownContract`, `ResidualCleanup` |
| Run journal `teardown/journal.rs` | `RunJournal` in memory and on disk, lock file | `update`, `new_with_lock`, load; records of DELETEs, re-deletes, patches, cleanups | `Execution`, `ResidualCleanup` |
| Workflow, resume `teardown/workflow.rs`, `commands/teardown.rs` | run state, stage | `apply_execution_plan`, `run_execute_stage`, `run_post_execution_audit`, `resume_from_journal`, `run_resume_cleanup`, batch | `Apply`, `Execution`, `ResidualCleanup` |
| Residual audit `teardown/audit.rs` | none of its own; reads the cluster until it settles | `settle_loop`, `run_residual_audit`, `check_operator_generation` | `ResidualAudit`; in `ResidualCleanup` as what it may answer |
| Teardown planner `teardown/planner.rs`, `plan.rs`, `explain.rs` | the saved execution plan | discovery, decisions, layers, phases, drift check | `TeardownPlanner`, `Apply` |
| Reference guard `teardown/ref_guard.rs` | none | inbound references to a closure | `TeardownPlanner`, `Apply` |
| Teardown backup `teardown/backup.rs` | directories on disk, lock files, receipts | `prepare_backup_gate`, `write_backup_directory`, `validate_receipt` | `Apply` |
| Query planner `kube/planner.rs` | cells of queries that are shared by concurrent demands, requirements, permits | `demand`, `execute_get`, `execute_list`, `cancel`, `flush_to_ledger` | `QueryPlanner`, `ApiCall`, `QueryContract` |
| Cluster access `kube/scanner.rs`, `discovery.rs`, `resource.rs` | permits, index of a scan, visited owners | retried and paged calls, the scan of a namespace, walks to owners | `ApiCall`, `NamespaceScan`; `ClusterRead` composes them with the planner |
| Snapshot `kube/snapshot.rs`, `commands/snapshot.rs` | a file | build, save, load, diff | build in `NamespaceScan` |
| Analyzers, operator audit, graph, trees | none | read-only and pure | not modelled |
| Command line, output | none | parsing, formatting; Ctrl-C closes the gate (`Execution!Interrupt`) | not modelled |

### How they interact

The executor calls the gate for a permit before every mutation and keeps the permit
until what the mutation did is in the journal. It registers what it deleted in the
runtime store and calls the barrier, which starts WATCH tasks and rounds of GETs;
both write the store while the barrier reads it. Ctrl-C runs `close_and_drain` in a
task of its own: the gate's flag is read by the executor before each phase and its
cancel channel is raced against every await of the barrier. The journal is written by
the executor and the workflow, and read back by `resume`. The cluster is shared with
controllers, the garbage collector and users, none of which wait for the run.

Before that, `teardown plan` saves what it would do; `teardown apply` makes the plan
afresh, refuses to go on when it is another one, backs up what the plan removes, and
writes the journal with which the executor starts. After the execution the residual
audit looks at what is left, and its decisions are journaled and acted upon, by this
process or by the one that resumes the run under the journal's lock. Whatever reads the
cluster does so through one query planner per command, or through calls of its own.

### What is hard

* the order of gate, semaphore and cancel signal in acquire, drain and reopen;
* a store that is written by GETs, LISTs and WATCH events, each some time after it
  looked, and a decision (`AllGone`, `Recreated`) that must be true of the cluster;
* names that outlive objects: a controller creates an object again under a new uid
  while the run waits for the old one, and only uids tell them apart;
* replies that are lost after the request took effect, for DELETEs and patches;
* a crash between a mutation and its record, and a journal write that fails, before
  or after the rename, while the copy in memory has gone ahead;
* decisions about objects that change between reading, comparing, saving and deleting
  them: plan and apply, backup and DELETE, audit and cleanup, list and owner;
* two processes with one journal or one backup directory;
* queries that are shared, with a leader whose future may be dropped;
* termination: waits, waves and re-delete loops against a cluster that never
  cooperates.

`PROJECT.json` lists the hazards at their lines, with the properties about each.

## 2. The modules

| Module | Role |
|---|---|
| `PauseContract` | abstract: mutations are admitted only while running, a pause is complete when nothing is in flight |
| `MutationGate` | `permit.rs` at the granularity of its atomics and of the (tokio, external) semaphore |
| `MutationGate_proofs` | its proofs |
| `RuntimeEntry` | `runtime.rs` as operators on one entry of the store |
| `Barrier` | `watch.rs` over the store, and a cluster that marks, finalizes, removes and recreates |
| `Barrier_proofs` | its proofs |
| `TeardownContract` | abstract: objects are deleted phase after phase, complete only when all are gone |
| `Execution` | `executor.rs`, `journal.rs`, `workflow.rs`: the run of a plan with pauses, crashes and resumes |
| `Execution_proofs` | its inductive invariant, and that what is recorded as completed is gone |
| `ExecutionContract_proofs` | its types, the authority of its DELETEs, pauses and strips, and that it implements `TeardownContract` |
| `ResidualCleanup` | what follows the execution: audit, cleanup of residuals, resume, the lock |
| `ResidualCleanup_proofs` | that what is decided, recorded, deleted and reported in it agree |
| `ApiCall` | one retried and paged API call, as operators |
| `QueryContract` | abstract: a query is sent once for all who demand it, and all get its result |
| `QueryPlanner` | `kube/planner.rs`: flights, permits, retries, pages, cancel, ledger |
| `QueryPlanner_proofs` | its safety, and that it implements `QueryContract` |
| `NamespaceScan` | `kube/scanner.rs`, `kube/snapshot.rs`: concurrent LISTs of all types, index, walks to owners |
| `ResidualAudit` | `teardown/audit.rs`: GETs and LISTs of a moving cluster, the judgement of what they read, `settle_loop` |
| `ClusterRead` | the three as the readers of a command |
| `ClusterRead_proofs` | the safety of the scan, of the walks and of the audit, and of the planner among other readers |
| `TeardownPlanner` | `teardown/planner.rs`, `ref_guard.rs` as operators on a cluster: what a plan is |
| `Apply` | plan, drift check, explicit targets, backup, journal, with the cluster moving on |
| `Apply_proofs` | that what runs is what was reviewed, and has been backed up |
| `MC*` | instances for TLC |

### MutationGate

`open`, `avail` and `queue` are the atomic flag, the semaphore's permits and its FIFO
of waiters; `cancelled` the watch channel. A task runs `FastCheck` (the first read of
`open`), `Acquire` (takes a permit or queues), `GrantTask`, `DoubleCheck` (the second
read), `Issue` and `Checkpoint` (the mutation and its journal record, by the caller)
and `DropPermit`. `close_and_drain` is `Close`, `SendCancel`, `DrainAcquire` (all
permits at once), `GrantDrain`, `DropDrain`; `reopen` is `Reopen` and `ResetCancel`.
Every shared access is a step of its own. Tasks and closer go round any number of
times.

### RuntimeEntry and Barrier

`Authoritative` and `NonAuthoritative` are the two ways an observation changes an
entry; they return a set of outcomes because whether the stall threshold has passed
is left open. In `Barrier`, `life[r]` is the history of versions of `r`, of which the
API server serves the last and a WATCH stream any suffix. `Get(r)` answers the GET of
one worker with the version the server has at that moment, or fails; `Apply` writes a
whole round to the store (`reconcile_barrier_states` collects, then applies), which
may happen much later. `List`, `ApplyList`, `Event`, `Disconnect` are the WATCH task.
`Judge*` are the branches of the loop body in the order of the code. Time is
abstracted: the total timeout and the stall threshold may expire at any judgement
that looks at them. The cluster may stop serving the kind altogether
(`EndpointGone`, a CRD that was deleted), which `observe_resource` tells from a 404
by a LIST. `absent` is a history variable.

### Execution

One process at a time executes the run. `live` is the cluster, `disk` and `mem` the
journal, `gate`/`permit` the gate as PauseContract sees it, and `pc` the place in
`execute_plan_with_store` and in the functions it calls:

| Code | Actions |
|---|---|
| phase loop, guards, checkpoint | `PhaseTop`, `EntryGuard`, `Enter`, `PhaseEnd` |
| `execute_delete_waves`, `delete_resource_inner` | `Acquire`, `Get`, `Send` (concurrently per target), `Checkpoint`, `WaveDeleted`, `Wave*`, `RewaitFails` |
| barrier and re-delete loop | `Barrier*`, `RedeleteAgain`, `RedeleteDone`, `RedeleteGone` |
| `attempt_single_redelete` | `RedeleteGet`, `RedeleteGetFails`, `Authorize`, `RedeleteSend`, `RedeleteRecord` |
| `can_defer_to_residual` | `DeferRoot`, `DeferYes`, `DeferNo` |
| `attempt_finalizer_recovery` | `Authority`, `Eligible`, `Recover*`, `Patch`, `PatchRecord`, `RecoveryWaits`, `*RecoveryFails`, `RecoveryDefers` |
| `run_execute_stage`, `determine_final_state` | `Start`, `Finish`, `MarkFailed` |
| `classify_resume_stage`, `resume_from_journal` | `Resumable`, `Resume` |
| Ctrl-C, SIGKILL | `Interrupt`, `Drained`, `Crash` |

What is abstracted, and how:

* a wait is one state, `"waiting"`: it may report gone what was absent, and recreated
  what was back, at some moment since it began, and may stall or time out at any time.
  That is `AllGoneIsFresh` and `RecreationHappened` of `Barrier`;
* the gate is a flag and a permit, as PauseContract allows;
* `Write` is `JournalStore::update`: it changes memory, then the disk; a failing write
  leaves the disk as it was or as it should be. Every action that ends in an update
  has both outcomes. Records that no decision reads (the barrier's timeout, the list
  of failed names) are left out, but the write that would carry them stays;
* guards at a phase's entry (explicit targets, REVIEW, packages) are one choice that
  may stop the run; CRDs and APIServices that have instances are blocked in `Enter`;
* whether finalizer recovery was approved is a choice of its candidates:
  not approved is a recovery that skips all of them;
* the GETs of a recovery candidate and of its owner, its permit and the write of the
  intent are one action; the patch itself tests uid, owner and finalizers, which is what
  protects it;
* the roots whose DELETE is an authority to strip (`deleted_roots`) are the journal's
  `deleted`, from which a resume starts and to which every phase adds, with the uids of
  the re-deletes on record. A wave hands over only what it has deleted itself, but what it
  recovers is explicit, and needs no root;
* a dependent has one ownerReference (`ref`), the code skips those with more. It may name
  any of `Owners`, and when its owner is gone and made again, the operator may put the
  new uid in (`Adopt`), also between the GET and the patch;
* there is one re-delete record per object, as `find` on the latest one makes of the
  list; phases that have no action are skipped by the code and are assumed away.

`Execution` ends where the run is `ApplyCompleted`, `Failed` or `Paused`;
`ResidualCleanup` has what comes after.

### ResidualCleanup

`live[o]` is the last incarnation of `o` and how it is; `journal` the journal on disk;
`job` what the process under the lock is at, with its work list, which keeps every item
at its place in the list it was made from (so a decision is found again by its index);
`newcomer` one that has created or read
the journal and has not yet the lock. `touched` is a history variable.

| Code | Actions |
|---|---|
| `create_run_journal`, load and lock of a resume, SIGKILL, Ctrl-C | `Create`, `Load`, `Lock`, `Crash`, `Pause` |
| the main execution in outline (`Execution` has it) | `BeginMain`, `MainDelete`, `MainDone`, `MainEnds` |
| `run_post_execution_audit`, `auto_cleanup_candidates` | `PostAudit`, `Candidates` |
| `execute_residual_cleanup` per residual | `Recheck`, `Validate`, `Decide`, `Send`, `Checkpoint`, `WaitGone`, `StripIntent`, `Patch` |
| its last audits, `settle_loop` | `CleanupOver`, `Settle`, `Conclude` |
| `resume_from_journal` | `CheckGeneration`, `Reconcile`, `ReconcileRecord`, `Classify` |
| `run_resume_cleanup` | `ResumeCleanup` ... `ResumeAudit`: an accepted DELETE lingers, is sent again or found gone |

Abstracted: an audit and a generation check are one look at the cluster each; the
execution is one phase; a "late" DELETE is accepted and marks the object only later;
the explicit cleanup modes are left out; writes of the journal do not fail here (they
do in `Execution`). `Selects` is a constant, since its only caller today passes FALSE.
"Re-deleted object live" in `ReconcileRecord` needs a third incarnation, which
`LastUid = 2` leaves out. What a resume makes of the code's corner cases is visible in
the model: a crash between ApplyCompleted and the automatic cleanup leaves a run whose
resume only audits; a planned root that was recreated blocks every resume; the audit
after an execution without candidates reports completion with planned objects present.

### ApiCall, QueryPlanner, NamespaceScan, ClusterRead

`ApiCall` is the loop of `get_with_retry`, `list_all_with_retry` and of the planner's
`execute_*`: a page is retried at most `MaxRetries` times, a list of pages has one
count of attempts, a refusal ends it. In `QueryPlanner` a consumer's demand goes
through `Demand`, `CacheHit`/`Join`/`Lead`/`Follow`, `GetPermit`, `PageArrives`,
`RetryAttempt`, `LastPage`/`Fails`/`SeesCancel`, `Finish`; `Drop` is a future that is
dropped anywhere, after which a waiter of the OnceCell leads. `QueryPlanner::cancel` is
called by tests only and is the action `Cancel`. `NamespaceScan` has a task per type
(`Ask`, `Start`, `ListArrives`, `ListSleeps`, `ListFails`), the collection in the order
of the types, the index (`Assemble`) and the two walks to owners, while `Recreate` gives
objects new uids. `ClusterRead` runs one of them: a command is given a planner that its
consumers share, or it is not, or it is the audit, which makes a planner for itself.

### ResidualAudit

`live[r]` is the last incarnation of `r`, with the owners that one names by uid. An
observation is a set of reads (`todo`), done in the order of the code (`Rank`): GETs of
what the plan deletes or expects, then of the roots that were put up for review by their
label only, then a LIST of each kind. The cluster moves between any two of them, and between a GET
that finds nothing and the LIST that confirms it.

| Code | Definitions |
|---|---|
| `observe_residual_state`, `check_operator_generation` | `Observe`, `OperatorIsBack` |
| `probe_resource`, `gen_get` | `GetFinds`, `GetFails`, `GetFindsNothing`, `Verify` |
| `audit_list`, with the planner's kept answers | `List`, `Answers` |
| `classify_evidence`, `has_positive_target_evidence`, `compute_confidence` | `Evidence`, `Positive`, `NoConfidence` |
| `select_sole_owner`, `verify_owner_identity`, `normalize_pod_owner`, `normalize_jobs_to_cronjobs` | `SoleOwner`, `LookUp`, `TopOwner`, `OwnerOfPod`, `OwnerOfJob` |
| `workload_map` and the views of it | `OfLists`, `OfJobs`, `OfPods`, `OfRelated`, `Judgement` |
| scan errors, `is_transient_scan_error`, `settle_loop` | `Failures`, `JobErrors`, `PodErrors`, `Transient`, `Conclude` |
| the cluster | `Vanish`, `Remake` |

Abstracted: one namespace; a kind stands for the kinds the code treats alike
(DaemonSet for StatefulSet, Service for Route, ImageStream, Subscription and CSV, Root
for every owned CR API); what `check_operator_generation` compares is one answer, absent or not;
what a report says is sets of uids, without order and text. The judgement is an
expression of what was read, since nothing is read after it; the code judges in
between, which cannot be told from outside.

### TeardownPlanner and Apply

A cluster gives for every object its generation and its owners' uids; a stale
reference is one to a generation that is over. `TeardownPlanner` follows
`generate_teardown_plan` from top to bottom: what is linked and what has only a label,
`Position`, `ByApi` and `ByTrigger` (the operators an instance belongs to), decisions
(`PolicyFits`, `Approved`, `ActionOf`), `Layers`, the operand phases with the demotion of
`enforce_expect_delete_invariant`, `Blockers`, `ApiActions`, `Phases`; and the reference
guard (`OwnedByClosure`, `Outside`). The operators to remove are part of the command line
(`policy`), and the definitions have them as a parameter. A plan is a function on places: a layer without
operands has no phase at its place, and the explicit phase has a place of its own, so
that to take it out again is to restrict the function. The one thing in it that is not a function is which
operator a HashSet yields first for a root several targets share: `Picks`.

| Code | Actions of Apply |
|---|---|
| `teardown plan` | `Discover`, `MakePlan` |
| `apply_execution_plan`: discovery, fresh plan and its comparison | `Discover`, `Regenerate` |
| `resolve_explicit_delete_targets`, `validate_explicit_targets_authority` | `GetTargets`, `ScanReferrers`, `Refuse` |
| `prepare_backup_gate`, per operator | `EnterGate`, `DiscoverBackup`, `FetchBackup` |
| `write_backup_directory` | `Reserve`, `Publish`, `FinishBackup`, `NameTaken` |
| journal, start, resume, a machine that goes down | `WriteJournal`, `Start`, `Resume`, `Crash` |
| another backup into the same directory | `OtherReserve`, `OtherPublish`, `OtherFinish` |
| the cluster | `Vanish`, `Recreate`, `Appear`, `Reown` |

`create_run_journal` refuses more than one operator, after the backup, so `WriteJournal`
of a plan for several ends the process: such a plan is reviewed, compared and backed up,
and never run.

Abstracted: instances are read at one moment (`Discover`) and the rest of the plan at
another; the files of a staging directory, which nobody else looks into, are one step;
a crash may undo renames that were not synced. The directories of the operators are
one. Names stand for group, kind, namespace and name.

## 3. What is checked

| Run | Module, cfg | Question |
|---|---|---|
| `gate` | `MCMutationGate` | does the gate keep PauseContract, and do closes and waiters end? |
| `barrier` | `MCBarrier` | is what a wait reports true, and does it end? |
| `execution` | `MCExecution` | is only what was authorised deleted or stripped, is what the journal says true, is TeardownContract kept, does every process end? |
| `cluster_read` | `MCClusterRead` | is every demand answered, by one request, as QueryContract says; does a scan miss nothing silently and end; does an audit tell what is there? |
| `residual_cleanup` | `MCResidualCleanup` | is what is deleted decided on, what is recorded gone gone, is a complete run complete? |
| `apply` | `MCApply` | is what runs what was reviewed and backed up, in the right order? |
| `execution_ambiguity`, `execution_paused`, `execution_failed`, `pending_unresolved`, `audit_cascade`, `kept_collected` | as named by `PROJECT.json` | violations, see section 5 |

**gate**: three tasks and two permits, so that tasks queue behind tasks, the drain
queues behind tasks and tasks behind the drain. Tasks repeat; nothing is bounded.

**barrier**: one target with a finalizer or none, recreated at most once (uids 1 and 2),
three unknown rounds as in the code. One target is what TLC can do with two
unsynchronised observers of a version history; that the safety properties do not
depend on it is what `Barrier_proofs` shows for any set of targets. A name that is
recreated twice differs for the barrier from one that is recreated once only in the
value of the uid, which it only compares with the tracked one.

**execution**: a phase that deletes `R` and `C`, then one that deletes the CRD `D` and
expects `E`, each with a barrier. `E` is the dependent of `D`, of its own phase, or of
`R`, of the phase before. `R` and `E` may be recreated once (`LastUid = 2`) and are
created with a finalizer, a recreated `R` may be deleted by its controller, and may be
given `E` to own. One journal write may fail and the run may be
started twice (`MaxFaults`, `MaxStarts`): a run that fails, pauses or crashes at any
step is resumed once. So `E` is stripped because of a DELETE of its own phase, of the
phase before, of the process before, or because of the re-DELETE of a recreated `R`, and
`R` itself is stripped under either uid. Two resources in one wave are enough for one to
fail while another is accepted, or to be rejected while another makes progress; two
phases for an object that is left behind to be passed. A phase without a barrier goes on
as one that has nothing to wait for (`BarrierSkip`). `RunEnds` is checked over the same
behaviours: every process of the run comes to an end. 1.2 million states.

**cluster_read**: three consumers, two of whom may want the same LIST with either
requirement and one either query; one permit, one retry, two pages; one consumer may be
dropped at any await, so that a flight loses its leader with followers of both kinds.
In the scan three types, two of which list the same object, owners outside the
namespace in a cycle, two of them recreated once. In the audit a Deployment owned by a CR,
its ReplicaSet and pod, a CronJob and its job, under three plans: one that deletes the CR
and keeps the CronJob, one that keeps the workloads and reviews the CR, one that deletes
the CRD and expects the ReplicaSet to go. Besides what the plan deletes and what loses
its owners, one or two objects may vanish (`Exposed`), the Deployment and the CronJob may
come back once under another uid, a GET, a LIST and the operator's generation may fail,
and there are two observations. That is an owner that vanishes, or is another, between
the LIST it is in and the LIST of what it owns, in both orders, at both hops of the
chains. The three commands do not run together, so their states add up: 161 000.

**residual_cleanup**: one planned object and one that is expected or attributed; every
fault (errors, an endpoint that is gone, an incomplete audit, a rejected or late DELETE,
Ctrl-C, crashes, the operator installed again) may happen at any step, any number of
times; one reply is lost, each object comes back once. Two objects are enough for one
decision to be open while another is to be made. 775 000 states.

**apply**: two operators of which one depends on the other and both own one API, and a
third that stays and owns an API too; four instances over six shapes of ownership (managed
by a CSV, by one that is gone, by each other, through a label only, shared), one explicit
target with a referrer that is or is not below a planned object or is still to come;
four command lines, two that remove one operator and two that remove both. With one the
run goes on to its journal, its start and a resume; with two it ends after the backup, so
that two operators are about layers, shared operands and a backup of each.
The cluster changes once (any of three objects vanishes, comes back,
appears, or changes owners) between any two steps that still read it, apply is called
twice, one crash, two run names, one other writer. One change is what tells a check from
its absence: each check compares two moments. 1.4 million states. Required CRDs that an
operator outside the plan needs, and cycles of operators, are in the operators but not
in this instance: both block every plan.

The search is exhaustive in all passing runs. Deadlock is checked in `gate` only: a wait
that has returned, a query that is answered and a run that is over have nothing left to
do, and an API server or a controller that does not answer may leave them there.

### Fairness

* gate: a task that has begun goes on, and so does `close_and_drain`: the calls inside
  a permit are API requests with a client timeout and journal writes. Nobody has to
  begin a mutation, close or reopen.
* barrier: weak fairness of the loop, strong fairness of the judgement that its
  timeout has passed (elapsed time only grows, so a loop that returns to the judgement
  for ever passes it). `WaitEnds` assumes in addition that a GET is answered;
  `CancelReturns` does not: a cancelled wait returns although the API server hangs.
* execution: weak fairness of the executor's own steps. The cluster, the user and the
  operating system owe nothing. API calls return there too, with an error at least.
* cluster_read: for the consumers and the scan only, weak fairness of each consumer and of each LIST: a call returns, if only
  with its client timeout, and tokio polls a task that is ready. Nobody has to demand,
  cancel or be dropped, and no leader is fair beyond its own steps.
* residual_cleanup: weak fairness of the process that holds the lock. No second process
  has to come, and nothing has to be deleted.
* audit_cascade: weak fairness of the audit. apply: none; its properties are about safety.

## 4. What is proved

TLAPS proves, for every value of the constants:

* `MutationGate_proofs`: type correctness, `DrainedIsSettled`, `NoAdmissionWhileClosed`
  and that every step of the gate is a step of PauseContract or a stutter, for any set
  of tasks and number of permits. Neither of the properties is inductive: what carries
  them is a count (`PermitsConserved`): a permit is in the semaphore, with a task or
  with the drain, so who holds them all knows that no task is inside. A task that was
  granted a permit before the drain reads `open` again and finds it false
  (`OpenIsIdle`, `NobodyInside`).
* `Barrier_proofs`: type correctness, `AllGoneIsFresh` and `RecreationHappened` for any
  set of targets. `AllGoneIsFresh` speaks of one moment and the store of another; the
  invariant follows the answer between them: what a full round found absent was absent
  during the round (`RoundIsHonest`), applying the round replaces every entry, and no
  WATCH event or LIST makes an entry Gone after that (`GoneIsFresh`). For
  `RecreationHappened` it is that a tracked uid other than the planned one, or the
  state Recreated, implies that the object came back (`TrackedCameBack`).

* `Execution_proofs`: `CompletedIsGone` for any plan, any behaviour of the cluster and
  any number of faults, crashes and resumes. The journal's `completed` is written at a
  phase's end, long after the DELETEs, so the invariant follows the targets of the
  phase that did not fail and whose planned object still exists (`Left`): in a wave
  they are pending, asked about, accepted or rejected; during its wait they are
  rejected or among the targets of the wait; in the recovery they are rejected or
  among what it strips; from the barrier on there are none (`LeftOK`). With it, a phase
  is entered only when the phases before it are gone (`DeadBefore`), and that stays
  true because uids are not used twice: a name that has lost the planned object never
  has it again (`Kept`). `Good` of disk and memory separately is what makes it survive
  a crash, which takes the memory back to the disk.
* `ExecutionContract_proofs`: type correctness, `TouchedIsAuthorized`,
  `SettledAfterPause`, `PausedIsDurable`, `StripIsSafe` and the refinement of
  `TeardownContract`. The invariant `AInv` follows the authority of a re-DELETE: a name
  has it (`acc`) when a wave waited for it; a wave waits only for accepted DELETEs;
  and an accepted DELETE took effect on the planned object (`Mine`). The intent is in
  the records on disk when the re-DELETE is sent, and no later write takes it back,
  because memory holds every record the disk holds while a process runs
  (`RecordsOK`). For the refinement, a DELETE is a `Request` since the waves of a phase
  delete only its own targets (`WaveOK`) and the phases before are gone; a change of
  the cluster is a `Go` or nothing; `Finish` is a `Report` past the last phase.
  `SettledAfterPause` holds because every place from which the executor changes the
  cluster is one with a permit, and a pause completes when there is none (`PermitOK`).
  For `PausedIsDurable` the invariant follows an accepted DELETE from the answer to the
  journal: it is in memory's `deleted` before its wave is waited for, and a journal that
  says Paused is that of a process with nothing to add (`DurableOK`). `StripIsSafe`
  speaks of a patch that takes effect after it was decided: what was decided is true of
  one uid and one owner (`PatchOK`), the patch tests both, an object neither leaves
  deletion nor comes back under its uid (`Aged`, `LifeOK`), an owner that is gone stays
  gone (`BereftStays`), and owners are objects that there were, and are changed by the
  cluster only (`RefOK`, `RefMoves`). What makes the decision right is that what the
  journal calls deleted was deleted (`DeletedOK`), through all phases and processes, that a
  re-delete on record took effect or found its object gone (`RecordsTrue`; together
  `AuthorityBereft`), and that a recovery of the planned object itself is only for what a
  wave had accepted or a barrier waits for (`TodoOK`).

* `QueryPlanner_proofs`: type correctness, `OneRequestPerKey`, `LedgerIsHonest` and the
  refinement of `QueryContract`, for any consumers, keys, pages, retries and permits. A
  key has at most one initialiser and none once its cell is set (`OneLeader`), so what
  two consumers are told comes from one call, and a request that was sent is charged to
  the key's flight or to a consumer that was dropped while it led (`RequestsAreCharged`); permits
  are conserved; a call under way has exactly the pages before its current one
  (`CallOK`), which is why a success is the whole list.
* `ClusterRead_proofs`: type correctness, `AliasesAreStable`, `NothingMissingSilently`,
  `WalkLeavesNoGap` and `AuditTellsWhatIsThere` for any types, objects, graph of owners
  and number of permits, and that each command implements `QueryContract` with the planner its consumers share: a
  step of one reader leaves the others' variables alone (`ReadersAreApart`), so each
  keeps its own invariant. In the scan's (`ScanInv`) permits are conserved, the types
  that are missing are those that were reported, results are yielded in the order of
  the types, who owns an object depends on its name only, and whatever a walk has
  visited has its owner visited or about to be. The audit's (`AuditInv`) compares each
  read with the moment the observation began: what was read was there since then, what
  was not found has not stayed, and a list that was read has everything of its kind that
  stayed as it still is (`Probes`, `Listings`), since an object does not come back as the
  incarnation it was (`Grows`). No kind is listed before all GETs are done (`Owed`), so
  the CRD that is not seen stays so. At the end a report without errors has every owner
  told apart (`NothingWrong`), and what stayed is followed through the judgement to the
  place where it, or the workload that stands for it, is reported. The proof is also
  what showed that a pod may name an owner whose name another incarnation has taken:
  then it is the incarnation, and not the name, that the report owes.
* `ResidualCleanup_proofs`: type correctness, `GoneIsGone`, `OneOpenDecision`,
  `NothingHalfDeleted`, `TouchedIsDecided` and `FailedIsFinal` for any objects, plan,
  faults and bounds. `CleanupInv` says what the process under the lock owes to the disk
  at each place: before the cleanup there are no decisions; while it cleans up the last
  decision is the one it works on and no other is open (`AtLast`), and its work list
  holds only objects that no decision is about (`Listing`); in a resume the work list
  are open decisions at their places (`Reopened`). No incarnation on disk is ahead of
  the cluster (`Seen`), and what was deleted is in the journal, decided, or was found
  gone (`Traced`); the last is what makes a "complete" true of DELETEs whose reply was
  lost.
* `Apply_proofs`: `ReviewedIsApplied` and `BackedUpBeforeRun`, for any operators,
  clusters, changes to them, command lines and run names, however often apply is called
  or dies. `ReviewInv`: the plan of the process equals the saved one less its explicit
  phase while the explicit targets are read again, and all of it once their evidence
  was compared. That needs that taking the explicit phase out undoes putting it in
  (`ExplicitIsTakenOut`), which holds since nothing else is called that
  (`PhasesArePlain`), and that evidence determines the targets it is about
  (`EvidenceNames`). `BackupInv`: a receipt is about a directory that is published,
  durable and holds what it says; nobody overwrites a directory that is there and a
  crash takes only what was not synced (`Durable`); and operators without a receipt are
  still to be backed up. The planner's operators are opaque in these proofs: they hold
  whatever a plan is made of.

The assumptions are those of the modules, each evaluated by TLC on its instance:
`GateAssumption`, `BarrierAssumption` (finite sets, at least one permit and one target),
`ExecutionAssumption` (the phases of a plan are disjoint, none is without actions, an
expected object has a set of objects that may own it), `RetriesAssumption`, `PlannerAssumption` and
`NoResultIsNone` (finite sets, at least one page and one permit, `None` is not a value
that means something), `ScanAssumption` (a type lists some of the objects, `NoOwner` is
not one), `AuditAssumption` (a kind is not a resource, the plan's order has every resource),
`CleanupAssumption` (the plan lists each object once: the planner drops
duplicates by their uid),
`TeardownAssumption` and `PoliciesAssumption` (a plan removes some of the operators).

Only model-checked:

* the liveness properties (`CloseCompletes`, `WaiterIsServed`, `CancelReturns`,
  `WaitEnds`, `RunEnds`, `EveryDemandIsAnswered`, `ScanEnds`, `CleanupEnds`), which TLAPS
  cannot prove under fairness;
* `AllowedReferrersGo`, `PlanIsSound` and `DemotedHasNoTrigger` of `Apply`: they are about
  what `Least`, `Layers` and `Supported` compute, which are recursive functions, and a
  proof is an induction over their data.

## 5. Where code and text disagree

* `execution_ambiguity`: `attempt_finalizer_recovery` returns an error so that "the run
  must NOT continue to further mutations"; its caller in the re-delete loop drops it.
* `execution_paused`: a run that is paused while it waits for a re-delete is advertised
  as resumable and refused by `classify_resume_stage`.
* `execution_failed`: a re-DELETE whose reply is lost in transport is recorded Failed, a
  status that means it had no effect; only codes of 500 and above are UnknownOutcome.
* `pending_unresolved`: a cleanup decision with UnknownOutcome "needs reconciliation on
  resume", and the resume that finds the object gone looks for a decision without a
  result, so the decision stays pending for ever.
* `audit_cascade`: "just-deleted controller Pods not yet terminated" are to be retried, and a
  missing ReplicaSet is among the owners worth waiting for; but `normalize_pod_owner` does
  not name a ReplicaSet that is missing, so the pod that outlives it is an error for good
  and the audit is incomplete at its first attempt. Garbage collection in the background
  passes through that state after every deletion of a Deployment with pods. When the ReplicaSet is named like every other
  owner, `CascadeIsRetried` holds in this instance.
* `kept_collected`: a descendant is kept because its "cleanup trigger" is "not scheduled
  for deletion", when its root is approved as label-only and deleted in a later phase;
  the garbage collector then removes what the plan keeps, and what the plan adds to the
  backup does not include it.

The `execution_*` runs have `MaxFaults = 0`, and `pending_unresolved` has no fault but
the lost reply.

Met while modelling, without a run of their own:

* An entry that became Unknown stays so when its GETs succeed again as long as the object
  has no deletionTimestamp (`runtime.rs:358`, `RuntimeEntry!Transition`); three such rounds
  end the wait with "resource(s) unreachable" although each was answered in its last round.
* `audit.rs:1057` says that KEEP and REVIEW resources appear as preserved workloads. Services,
  CRs and whatever is found through a pod are reported as the operator's instead
  (`OfRelated`, `OfPods` do not look at the plan).
* Deployments of the plan are left out of what owners are looked up in (`Scanned`), so a
  planned Deployment that is still there makes its pods errors and the audit incomplete.
* `classify_list_results` adds to `residual_workloads`, which is replaced by the values of
  `workload_map` at the end: Services and CRs are in the lists of residuals only.
* `runtime.rs:102-106` says that only authoritative observations revive a Gone resource;
  an event MODIFIED with a deletionTimestamp that is delivered after the GET that found
  nothing does so too (`RuntimeEntry!NonAuthoritative`), until the next GET.
* `scanner.rs:1082` speaks of the first group of an object that is served under two; the
  index keeps the last, the snapshot the first (`IndexEntry`, `SnapshotEntry`).
* A 404 of a GET is ApiAbsent in the planner (`kube/planner.rs:168`) and TargetMissing
  on the direct path.
* `planner.rs:3436` says that shared roots which are not approved block the plan; one
  whose HashSet yields an operator of a later layer first is dropped from every phase
  and blocks nothing (`LayersFor`), and the plan made next may differ from the saved one.
* `enforce_expect_delete_invariant` is content with one owner that goes, the garbage
  collector waits for all: an expected object with a second, kept owner is waited for in
  vain.
* A shared descendant is REVIEWed in the first layer, which `debug_assert` at
  `planner.rs:3987` does not expect.
* A fresh plan may have blockers the saved one had not: the comparison does not look at
  them, the executor does, after the backup.
* A failure to remove the lock file makes a published backup an error; the parents of a
  new backup directory are not synced; a 404 counts as absent in a backup without the
  endpoint check the barrier makes.
* A transient error of the last audit in `run_resume_cleanup` makes the run Failed; the
  same in the executor can be retried.

## 6. Not modelled, and what is left

Not modelled, because they read and print, and a model would repeat their data:
analyzers (selectors, OLM ownership, references, adapters), operator audit, graph and
trees, command line and output. Of the components modelled in part: several
namespaces, objects without name or uid and `check_operator_generation` in the audit, the batch of entries and the explicit cleanup modes
of the workflow, ancillary namespace resources, APIServices, preflight and short forms
of arguments in the planner, the extractors of the reference guard, the content and the
restore order of backups, saving and comparing snapshots, the discovery of API types.

The batch (`workflow.rs:2043`) stops at the first entry that fails or pauses and leaves
the journals of the entries before it as they are; each entry is a run of its own.

Left, in this order:

1. The explicit cleanup modes and the batch, composed with `ResidualCleanup`.
2. `check_operator_generation`, which tells a new installation from the old one.
