----------------------------- MODULE Execution -----------------------------
(***************************************************************************)
(* The execution of a teardown plan: the phases, their delete waves, the   *)
(* barrier, the re-delete loop, finalizer recovery and the deferral to the *)
(* residual audit (src/src/teardown/executor.rs), the journal they write   *)
(* (journal.rs), the stage around them and the resume (workflow.rs).       *)
(*                                                                         *)
(* A wait is one call of wait_for_gone_cancellable, reduced to what        *)
(* Barrier shows of it: what it reports gone was absent and what it        *)
(* reports recreated was back at some moment of the wait.  Pausing is      *)
(* MutationGate reduced to PauseContract: a permit is granted only while   *)
(* the run is running, and the pause is complete when none is held.        *)
(***************************************************************************)
EXTENDS Integers, Sequences, FiniteSets

CONSTANTS
  Resources,
  Phases,       \* sequence of [delete, expect : SUBSET Resources, barrier : BOOLEAN]
  Owners,       \* Owners[e]: the resources of which the expected e may be one's dependent
  Finalized,    \* the resources that are created with a finalizer
  Recreatable,  \* those a controller may create again
  Withdrawn,    \* those it may then delete again
  Counted,      \* CRDs and APIServices: deleted only without live instances
  LastUid,      \* bound: the last uid a name is given
  MaxFaults,    \* bound: journal writes that fail
  MaxStarts     \* bound: processes that execute the run

PlannedIn(i) == Phases[i].delete \union Phases[i].expect

ASSUME ExecutionAssumption ==
  /\ IsFiniteSet(Resources)
  /\ Phases \in Seq([delete : SUBSET Resources, expect : SUBSET Resources, barrier : BOOLEAN])
  /\ \A i \in DOMAIN Phases : PlannedIn(i) # {}  \* phases without actions are skipped
  /\ \A i, j \in DOMAIN Phases : i # j => PlannedIn(i) \intersect PlannedIn(j) = {}
  /\ \A i \in DOMAIN Phases : Phases[i].delete \intersect Phases[i].expect = {}
  /\ Owners \in [UNION {Phases[i].expect : i \in DOMAIN Phases} -> SUBSET Resources]
  /\ LastUid \in Nat \ {0} /\ MaxFaults \in Nat /\ MaxStarts \in Nat

MaxRedeleteIterations == 3

VARIABLES
  live,       \* live[r]: what the API server has under the name r
  ref,        \* ref[e]: the ownerReference of the planned e, its owner and its uid
  touched,    \* history: the objects <<r, uid>> a DELETE of the run took effect on
  gate,       \* "running", "pausing" or "paused"
  permit,     \* the executor holds a mutation permit
  disk,       \* the journal on disk
  mem,        \* the journal in memory, ahead of the disk when a write failed
  faults,     \* journal writes that have failed
  starts,     \* processes started
  pc,         \* where the executor is, "off" when no process runs
  phase,      \* the phase under execution; those before it are completed
  failed,     \* ExecutionResult.failed
  acc,        \* all_accepted_gone of the phase, which have re-delete authority
  del,        \* del[r]: the DELETE of r in the wave under way
  caller,     \* who called the wait, the recovery or the deferral under way
  targets,    \* the targets of the wait
  sawGone,    \* those that were absent at some moment of it
  sawBack,    \* those that were back, and not being deleted, at some moment
  remaining,  \* what the last wait reports as not gone
  todo,       \* the resources still to be handled by the loop under way
  iter,       \* redelete_iterations
  cur,        \* the resource and uid the mutation under way is bound to
  answer,     \* what the API server answered to it
  recovered   \* recovery has stripped something

world == <<live, ref, touched>>
control == <<gate, permit, starts>>
journal == <<disk, mem, faults>>
phaseVars == <<phase, failed, acc, del>>
waitVars == <<caller, targets, sawGone, sawBack, remaining, iter>>
stepVars == <<todo, cur, answer, recovered>>
vars == <<world, control, journal, pc, phaseVars, waitVars, stepVars>>

Uids == 0..LastUid
None == [r |-> "none", uid |-> 0]

Deletes == UNION {Phases[i].delete : i \in DOMAIN Phases}
Delete == Phases[phase].delete
Expect == Phases[phase].expect
PhaseOf == [r \in Deletes |-> CHOOSE i \in DOMAIN Phases : r \in Phases[i].delete]

Exists(r) == live[r].uid # 0

\* The object the plan is about has uid 1, and no object after it.
Dead(r) == live[r].uid # 1

Absent(last) == [uid |-> 0, last |-> last, deleting |-> FALSE, fin |-> FALSE]

Object(r, uid) == [uid |-> uid, last |-> uid, deleting |-> FALSE, fin |-> r \in Finalized]

NoRecords == [r \in Resources |-> [u \in Uids |-> "none"]]

\* The plan was made of objects that existed; it is bound to their uids.
Init ==
  /\ live = [r \in Resources |-> Object(r, 1)]
  /\ ref \in {f \in [DOMAIN Owners -> [r : Resources, uid : {1}]] :
                \A e \in DOMAIN Owners : f[e].r \in Owners[e]}
  /\ touched = {}
  /\ gate = "running" /\ permit = FALSE
  /\ disk = [state |-> "Prepared", completed |-> 0, deleted |-> {},
             redelete |-> NoRecords, unresolved |-> {}]
  /\ mem = disk
  /\ faults = 0 /\ starts = 0
  /\ pc = "off" /\ phase = 1 /\ failed = {} /\ acc = {}
  /\ del = [r \in Resources |-> "idle"]
  /\ caller = "none" /\ targets = {} /\ sawGone = {} /\ sawBack = {}
  /\ remaining = {} /\ todo = {} /\ iter = 0
  /\ cur = None /\ answer = "none" /\ recovered = FALSE
-----------------------------------------------------------------------------
(***************************************************************************)
(* The cluster: external, as the code expects it to behave                 *)
(***************************************************************************)

\* The object under the name r becomes v; a wait under way may see it.
Become(r, v) ==
  /\ live' = [live EXCEPT ![r] = v] /\ UNCHANGED ref
  /\ sawGone' = sawGone \union {t \in targets : t = r /\ v.uid = 0}
  /\ sawBack' = sawBack \union {t \in targets : t = r /\ v.uid > 1 /\ ~v.deleting}

Undisturbed ==
  UNCHANGED <<touched, control, journal, pc, phaseVars, caller, targets,
              remaining, iter, stepVars>>

\* The object that the planned r names as its owner is gone, and if there is one
\* under that name it is another.
Orphan(r) == r \in DOMAIN Owners /\ live[ref[r].r].uid # ref[r].uid

\* The garbage collector deletes what belonged to an object that is gone; what
\* a controller has created again, it may delete again.
Cascade(r) ==
  /\ \/ r \in Withdrawn /\ live[r].uid > 1
     \/ Orphan(r) /\ live[r].uid = 1
  /\ ~live[r].deleting
  /\ Become(r, [live[r] EXCEPT !.deleting = TRUE])
  /\ Undisturbed

DropFinalizer(r) ==
  /\ live[r].deleting /\ live[r].fin
  /\ Become(r, [live[r] EXCEPT !.fin = FALSE])
  /\ Undisturbed

Vanish(r) ==
  /\ live[r].deleting /\ ~live[r].fin
  /\ Become(r, Absent(live[r].last))
  /\ Undisturbed

Recreate(r) ==
  /\ r \in Recreatable /\ ~Exists(r) /\ live[r].last < LastUid
  /\ Become(r, Object(r, live[r].last + 1))
  /\ Undisturbed

\* The operator gives a dependent that is still there to the owner it has made
\* again.
Adopt(r) ==
  /\ Orphan(r) /\ live[r].uid = 1 /\ Exists(ref[r].r)
  /\ ref' = [ref EXCEPT ![r].uid = live[ref[r].r].uid]
  /\ UNCHANGED <<live, sawGone, sawBack>>
  /\ Undisturbed

Cluster == \E r \in Resources :
  Cascade(r) \/ DropFinalizer(r) \/ Vanish(r) \/ Recreate(r) \/ Adopt(r)
-----------------------------------------------------------------------------
(***************************************************************************)
(* The journal and the gate                                                *)
(***************************************************************************)

\* JournalStore::update: memory first, then the disk.  The write may fail, and
\* the rename may have happened all the same.
Write(m, done, error) ==
  /\ mem' = m
  /\ \/ /\ disk' = m
        /\ pc' = done
        /\ UNCHANGED faults
     \/ /\ faults < MaxFaults
        /\ faults' = faults + 1
        /\ disk' \in {disk, m}
        /\ pc' = error

\* Ctrl-C: close_and_drain begins, and ends when no permit is held.
Interrupt ==
  /\ pc # "off" /\ gate = "running"
  /\ gate' = "pausing"
  /\ UNCHANGED <<world, permit, journal, starts, pc, phaseVars, waitVars, stepVars>>

Drained ==
  /\ pc # "off" /\ gate = "pausing" /\ ~permit
  /\ gate' = "paused"
  /\ UNCHANGED <<world, permit, journal, starts, pc, phaseVars, waitVars, stepVars>>
-----------------------------------------------------------------------------
(***************************************************************************)
(* The process: started, resumed, ended, killed                            *)
(***************************************************************************)

\* classify_resume_stage: what the journal must not have left open.
Resumable(j) ==
  /\ j.unresolved = {}
  /\ \A r \in Resources, u \in Uids :
       j.redelete[r][u] \notin {"Authorized", "Accepted", "UnknownOutcome"}

\* A process begins at phase `first`, with the journal it has read.
Launch(first, error) ==
  /\ starts < MaxStarts /\ starts' = starts + 1
  /\ phase' = first
  /\ Write([disk EXCEPT !.state = "Applying"], "phase", error)
  /\ UNCHANGED <<world, gate, permit, failed, acc, del, waitVars, stepVars>>

Start ==
  /\ pc = "off" /\ disk.state = "Prepared"
  /\ Launch(1, "err")

\* resume_from_journal: a planned object that is still there sends the run back
\* to its phase, another object under its name refuses the resume.
Resume ==
  /\ pc = "off" /\ disk.state \in {"Paused", "Applying"}
  /\ Resumable(disk)
  /\ \E first \in 1..(disk.completed + 1) :
       /\ first <= disk.completed => \E r \in PlannedIn(first) : ~Dead(r)
       /\ \A k \in 1..(first - 1) : \A r \in PlannedIn(k) : ~Exists(r)
       /\ \E error \in {"off", "err"} : Launch(first, error)

EndWait == targets' = {} /\ sawGone' = {} /\ sawBack' = {}

\* The locals of the loops and waits are out of scope.
Unwind ==
  /\ EndWait
  /\ caller' = "none" /\ remaining' = {} /\ iter' = 0
  /\ todo' = {} /\ cur' = None /\ answer' = "none" /\ recovered' = FALSE

\* The process is over, and with it all that it had in memory.
Ended ==
  /\ gate' = "running" /\ permit' = FALSE
  /\ phase' = 1 /\ failed' = {} /\ acc' = {} /\ del' = [r \in Resources |-> "idle"]
  /\ Unwind
  /\ UNCHANGED <<world, starts>>

\* determine_final_state
FinalState ==
  IF gate # "running" THEN "Paused"
  ELSE IF phase > Len(Phases) THEN "ApplyCompleted"
  ELSE "Failed"

Finish ==
  /\ pc = "finish"
  /\ Write([mem EXCEPT !.state = FinalState], "off", "off")
  /\ Ended

\* An error of the executor: mark_failed_preserving_retryable
MarkFailed ==
  /\ pc = "err"
  /\ Write([mem EXCEPT !.state = "Failed"], "off", "off")
  /\ Ended

Crash ==
  /\ pc # "off" /\ pc' = "off"
  /\ mem' = disk /\ UNCHANGED <<disk, faults>>
  /\ Ended
-----------------------------------------------------------------------------
(***************************************************************************)
(* execute_plan_with_store: the phase loop                                 *)
(***************************************************************************)

PhaseTop ==
  /\ pc = "phase"
  /\ pc' = IF phase > Len(Phases) \/ gate # "running" THEN "finish" ELSE "entry"
  /\ UNCHANGED <<world, control, journal, phaseVars, waitVars, stepVars>>

\* A guard at the phase's entry stops the run: an explicit target that changed,
\* a REVIEW that is terminating, a Subscription of unverified package.
EntryGuard ==
  /\ pc = "entry" /\ Delete # {}
  /\ pc' \in {"finish", "err"}
  /\ UNCHANGED <<world, control, journal, phaseVars, waitVars, stepVars>>

\* CRDs and APIServices with live instances, or an unknown number of them, are
\* not deleted; the other targets go to the delete waves.
Enter ==
  /\ pc = "entry"
  /\ \E blocked \in SUBSET (Counted \intersect Delete) :
       /\ failed' = blocked
       /\ del' = [r \in Resources |-> IF r \in Delete \ blocked THEN "pending" ELSE "idle"]
  /\ acc' = {}
  /\ pc' = "acquire"
  /\ UNCHANGED <<world, control, journal, phase, waitVars, stepVars>>

PhaseEndRegardless ==
  /\ pc = "phase end"
  /\ Write([mem EXCEPT !.completed = phase], "phase", "err")
  /\ phase' = phase + 1
  /\ Unwind
  /\ UNCHANGED <<world, control, failed, acc, del>>

\* Nothing proceeds past a phase with a failure; otherwise it is completed.
PhaseEnd ==
  /\ pc = "phase end"
  /\ \/ /\ failed # {}
        /\ Write([mem EXCEPT !.completed = phase - 1], "finish", "err")
        /\ UNCHANGED phase
     \/ /\ failed = {}
        /\ Write([mem EXCEPT !.completed = phase], "phase", "err")
        /\ phase' = phase + 1
  /\ Unwind
  /\ UNCHANGED <<world, control, failed, acc, del>>
-----------------------------------------------------------------------------
(***************************************************************************)
(* execute_delete_waves and delete_resource_inner                          *)
(***************************************************************************)

With(status) == {r \in Resources : del[r] \in status}

\* A wave begins with a permit, on the targets that are pending or that the
\* admission webhooks rejected in the wave before.
Acquire ==
  /\ pc = "acquire"
  /\ LET wave == With({"pending", "Rejected"})
     IN  \/ /\ wave = {} /\ pc' = "barrier"
            /\ UNCHANGED <<permit, del>>
         \/ /\ wave # {} /\ gate = "running"
            /\ permit' = TRUE
            /\ del' = [r \in Resources |-> IF r \in wave THEN "get" ELSE "idle"]
            /\ pc' = "deleting"
         \/ /\ wave # {} /\ gate # "running" /\ pc' = "finish"
            /\ UNCHANGED <<permit, del>>
  /\ UNCHANGED <<world, gate, starts, journal, phase, failed, acc, waitVars, stepVars>>

\* The GET that verifies the identity.  "Stop" stands for Blocked and Unknown.
Get(r) ==
  /\ pc = "deleting" /\ del[r] = "get"
  /\ \E found \in {"got", "AlreadyGone", "Stop"} :
       /\ found = "got" => live[r].uid = 1
       /\ found = "AlreadyGone" => ~Exists(r)
       /\ del' = [del EXCEPT ![r] = found]
  /\ UNCHANGED <<world, control, journal, pc, phase, failed, acc,
                 waitVars, stepVars>>

\* The DELETE takes effect on the object named r.
TakesEffect(r) ==
  /\ Become(r, [live[r] EXCEPT !.deleting = TRUE])
  /\ touched' = touched \union {<<r, live[r].uid>>}

\* The DELETE, with the uid as a precondition.  Its reply may be lost.
Send(r) ==
  /\ pc = "deleting" /\ del[r] = "got"
  /\ \/ /\ live[r].uid = 1
        /\ TakesEffect(r)
        /\ \E told \in {"Accepted", "Stop"} : del' = [del EXCEPT ![r] = told]
     \/ /\ \E told \in {"Rejected", "AlreadyGone", "Stop"} :
             /\ told = "AlreadyGone" => ~Exists(r)
             /\ told = "Rejected" => Exists(r)
             /\ del' = [del EXCEPT ![r] = told]
        /\ UNCHANGED <<live, ref, touched, sawGone, sawBack>>
  /\ UNCHANGED <<control, journal, pc, phase, failed, acc, caller, targets,
                 remaining, iter, stepVars>>

CheckpointGone ==
  /\ pc = "deleting" /\ With({"get", "got"}) = {}
  /\ Write([mem EXCEPT !.deleted = @ \union acc], "deleted", "err")
  /\ UNCHANGED <<world, control, phaseVars, waitVars, stepVars>>

\* Every DELETE has been answered: the accepted ones are recorded.
Checkpoint ==
  /\ pc = "deleting" /\ With({"get", "got"}) = {}
  /\ Write([mem EXCEPT !.deleted = @ \union With({"Accepted"})], "deleted", "err")
  /\ UNCHANGED <<world, control, phaseVars, waitVars, stepVars>>

-----------------------------------------------------------------------------
(***************************************************************************)
(* One call of wait_for_gone_cancellable, and what it may return           *)
(***************************************************************************)

StartWait(who, rs) ==
  /\ pc' = "waiting" /\ caller' = who /\ targets' = rs
  /\ sawGone' = {r \in rs : ~Exists(r)}
  /\ sawBack' = {r \in rs : live[r].uid > 1 /\ ~live[r].deleting}

Waiting == pc = "waiting"
AnyGone == Waiting /\ targets \intersect sawGone # {}

AllGone == Waiting /\ targets \subseteq sawGone
Cancelled == Waiting /\ gate # "running"
Stalled == Waiting

\* The sets it may report recreated, and with one of them, or none, gone.
Back == IF Waiting THEN (SUBSET sawBack) \ {{}} ELSE {}
GoneBut(back) == IF Waiting THEN SUBSET (sawGone \ back) ELSE {}

Return(to) == pc' = to /\ EndWait

\* The caller goes on to strip finalizers, or to see whether it may defer.
Recover(rs) == Return("recover") /\ todo' = rs /\ recovered' = FALSE
Defer(rs) ==
  /\ pc' = IF rs = {} THEN "phase end" ELSE "defer"
  /\ todo' = IF rs = {} THEN {} ELSE Delete
  /\ EndWait
  /\ remaining' = {} /\ iter' = 0 /\ cur' = None /\ answer' = "none" /\ recovered' = FALSE
-----------------------------------------------------------------------------
(***************************************************************************)
(* What the waves wait for                                                 *)
(***************************************************************************)

\* The permit is dropped; the run stops, or waits for what was accepted.
WaveDeleted ==
  /\ pc = "deleted"
  /\ permit' = FALSE
  /\ \/ /\ With({"Stop"}) # {}
        /\ failed' = failed \union With({"Stop", "Rejected"})
        /\ Write(mem, "finish", "err")
        /\ UNCHANGED waitVars
     \/ /\ With({"Stop"}) = {} /\ With({"Accepted"}) # {}
        /\ StartWait("wave", With({"Accepted"}))
        /\ UNCHANGED <<failed, journal, remaining, iter>>
     \/ /\ With({"Stop", "Accepted"}) = {}
        /\ pc' = "wave over"
        /\ UNCHANGED <<failed, journal, waitVars>>
  /\ UNCHANGED <<world, gate, starts, phase, acc, del, stepVars>>

\* Every accepted target is gone, or recreated, which takes the same.
WaveGone ==
  /\ caller \in {"wave", "rewait", "wave recovered"} /\ AllGone
  /\ acc' = acc \union targets
  /\ pc' = "wave over" /\ Unwind
  /\ UNCHANGED <<world, control, journal, phase, failed, del>>

WaveRecreated ==
  /\ caller \in {"wave", "rewait"}
  /\ \E back \in Back : \E gone \in GoneBut(back) :
       LET rest == targets \ (gone \union back)
       IN  /\ acc' = acc \union gone \union back
           /\ IF rest = {} THEN pc' = "wave over" /\ Unwind
              ELSE StartWait("rewait", rest) /\ UNCHANGED <<remaining, iter, stepVars>>
  /\ UNCHANGED <<world, control, journal, phase, failed, del>>

WaveStalled ==
  /\ caller = "wave"
  /\ \E gone \in GoneBut({}) :
       /\ acc' = acc \union gone
       /\ remaining' = targets \ gone
       /\ Recover(targets \ gone)
  /\ UNCHANGED <<world, control, journal, phase, failed, del, caller, iter, cur, answer>>

WaveCancelled ==
  /\ caller = "wave" /\ Cancelled
  /\ Write(mem, "finish", "err")
  /\ Unwind
  /\ UNCHANGED <<world, control, phaseVars>>

\* The second wait of a wave stalls, is cancelled or, after recovery, is
\* answered with anything but all gone.
RewaitFails ==
  /\ \/ /\ caller = "rewait" /\ (Cancelled \/ Stalled)
        /\ pc' = "finish" /\ UNCHANGED journal
     \/ /\ caller = "wave recovered" /\ (Cancelled \/ Stalled \/ Back # {})
        /\ Write(mem, "finish", "err")
  /\ failed' = failed \union targets \union
       (IF caller = "wave recovered" THEN With({"Rejected"}) ELSE {})
  /\ Unwind
  /\ UNCHANGED <<world, control, phase, acc, del>>

\* Rejected targets are tried again only when others of the wave are gone.
WaveOver ==
  /\ pc = "wave over"
  /\ LET progress == With({"Accepted", "AlreadyGone"}) # {}
     IN  \/ /\ With({"Rejected"}) # {} /\ ~progress
            /\ failed' = failed \union With({"Rejected"})
            /\ Write(mem, "finish", "err")
         \/ /\ With({"Rejected"}) = {} \/ progress
            /\ pc' = "acquire"
            /\ UNCHANGED <<failed, journal>>
  /\ UNCHANGED <<world, control, phase, acc, del, waitVars, stepVars>>
-----------------------------------------------------------------------------
(***************************************************************************)
(* The barrier at the end of a phase, and the re-delete loop               *)
(***************************************************************************)

BarrierTargets == acc \union Expect

BarrierSkip ==
  /\ pc = "barrier"
  /\ ~Phases[phase].barrier \/ BarrierTargets = {}
  /\ pc' = "phase end"
  /\ UNCHANGED <<world, control, journal, phaseVars, waitVars, stepVars>>

\* The DELETE results are recorded before the wait.
BarrierBegins ==
  /\ pc = "barrier"
  /\ Phases[phase].barrier /\ BarrierTargets # {}
  /\ Write([mem EXCEPT !.completed = phase - 1], "barrier recorded", "err")
  /\ UNCHANGED <<world, control, phaseVars, waitVars, stepVars>>

BarrierWaits ==
  /\ pc = "barrier recorded"
  /\ StartWait("barrier", BarrierTargets)
  /\ iter' = 0
  /\ UNCHANGED <<world, control, journal, phaseVars, remaining, stepVars>>

BarrierPassed ==
  /\ caller \in {"barrier", "barrier recovered", "redelete recovered", "limit"} /\ AllGone
  /\ pc' = "phase end" /\ Unwind
  /\ UNCHANGED <<world, control, journal, phaseVars>>

BarrierCancelled ==
  /\ \/ caller \in {"barrier", "redelete", "limit"} /\ Cancelled
     \/ caller = "limit" /\ Back # {}
  /\ pc' = "finish" /\ Unwind
  /\ UNCHANGED <<world, control, journal, phaseVars>>

BarrierStalled ==
  /\ caller \in {"barrier", "redelete"}
  /\ \E gone \in GoneBut({}) :
       /\ remaining' = targets \ gone
       /\ Recover(targets \ gone)
  /\ UNCHANGED <<world, control, journal, phaseVars, caller, iter, cur, answer>>

\* A wait after recovery, or after the last re-delete, that is not satisfied.
BarrierDefers ==
  /\ \/ /\ caller = "barrier recovered" /\ (Cancelled \/ Stalled \/ Back # {})
        /\ Defer(remaining)
     \/ /\ caller = "redelete recovered" /\ (Cancelled \/ Stalled)
        /\ Defer(remaining)
     \/ /\ caller = "limit"
        /\ \E gone \in GoneBut({}) : Defer(targets \ gone)
  /\ UNCHANGED <<world, control, journal, phaseVars, caller>>

RedeleteUnlimited(back) ==
  /\ iter' = iter + 1
  /\ todo' = back \intersect acc
  /\ Return("redelete") /\ UNCHANGED caller

RedeleteUncounted(back) ==
  /\ iter < MaxRedeleteIterations /\ UNCHANGED iter
  /\ todo' = back \intersect acc
  /\ Return("redelete") /\ UNCHANGED caller

RedeleteExpected(back) ==
  /\ iter < MaxRedeleteIterations /\ iter' = iter + 1
  /\ todo' = back
  /\ Return("redelete") /\ UNCHANGED caller

\* Those with re-delete authority are deleted again, the expected ones are only
\* observed.
RedeleteAgain(back) ==
  /\ iter < MaxRedeleteIterations /\ iter' = iter + 1
  /\ todo' = back \intersect acc
  /\ Return("redelete") /\ UNCHANGED caller

\* After the third time what is recreated is left to the residual audit.
BarrierRecreated ==
  /\ caller \in {"barrier", "redelete", "redelete recovered"}
  /\ \E back \in Back :
       LET rest == BarrierTargets \ back
       IN  \/ /\ RedeleteAgain(back)
              /\ UNCHANGED <<remaining, cur, answer, recovered>>
           \/ /\ iter = MaxRedeleteIterations
              /\ rest \intersect targets \subseteq sawGone
              /\ pc' = "phase end" /\ Unwind
           \/ /\ iter = MaxRedeleteIterations /\ rest # {}
              /\ StartWait("limit", rest)
              /\ UNCHANGED <<remaining, iter, stepVars>>
  /\ UNCHANGED <<world, control, journal, phaseVars>>

\* The GET before a re-delete.
RedeleteGet(r) ==
  /\ pc = "redelete" /\ r \in todo
  /\ \/ /\ ~Exists(r) \/ live[r].deleting
        /\ todo' = todo \ {r}
        /\ UNCHANGED <<pc, cur>>
     \/ /\ live[r].uid > 1 /\ ~live[r].deleting
        /\ cur' = [r |-> r, uid |-> live[r].uid]
        /\ pc' = "authorize"
        /\ UNCHANGED todo
  /\ UNCHANGED <<world, control, journal, phaseVars, waitVars, answer, recovered>>

RedeleteGetFails ==
  /\ pc = "redelete" /\ todo # {}
  /\ pc' = "finish" /\ Unwind
  /\ UNCHANGED <<world, control, journal, phaseVars>>

AuthorizeUnpermitted ==
  /\ pc = "authorize"
  /\ \/ /\ gate = "running"
        /\ Write([mem EXCEPT !.redelete[cur.r][cur.uid] = "Authorized"], "redelete send", "finish")
     \/ /\ gate # "running" /\ pc' = "finish"
        /\ UNCHANGED journal
  /\ UNCHANGED <<world, control, phaseVars, waitVars, stepVars>>

\* A permit, then the intent on disk, then the DELETE.
Authorize ==
  /\ pc = "authorize"
  /\ \/ /\ gate = "running"
        /\ Write([mem EXCEPT !.redelete[cur.r][cur.uid] = "Authorized"], "redelete send", "finish")
        /\ permit' = (pc' = "redelete send")
     \/ /\ gate # "running" /\ pc' = "finish"
        /\ UNCHANGED <<permit, journal>>
  /\ UNCHANGED <<world, gate, starts, phaseVars, waitVars, stepVars>>

RedeleteSend ==
  /\ pc = "redelete send"
  /\ \/ /\ live[cur.r].uid = cur.uid
        /\ TakesEffect(cur.r)
        /\ answer' \in {"Accepted", "UnknownOutcome", "Failed"}
     \/ /\ answer' \in {"UnknownOutcome", "Failed"} \union (IF Exists(cur.r) THEN {} ELSE {"Gone"})
        /\ UNCHANGED <<world, sawGone, sawBack>>
  /\ pc' = "redelete record"
  /\ UNCHANGED <<control, journal, phaseVars, caller, targets, remaining, iter, todo, cur,
                 recovered>>

RedeleteRecord ==
  /\ pc = "redelete record"
  /\ Write([mem EXCEPT !.redelete[cur.r][cur.uid] = answer],
           IF answer \in {"Accepted", "Gone"} THEN "redelete" ELSE "finish", "finish")
  /\ permit' = FALSE
  /\ todo' = todo \ {cur.r} /\ cur' = None /\ answer' = "none"
  /\ UNCHANGED <<world, gate, starts, phaseVars, waitVars, recovered>>

RedeleteDone ==
  /\ pc = "redelete" /\ todo = {}
  /\ StartWait("redelete", BarrierTargets)
  /\ UNCHANGED <<world, control, journal, phaseVars, remaining, iter, stepVars>>

RedeleteGone ==
  /\ caller = "redelete" /\ AllGone
  /\ LET settled(r, status) == IF r \in acc /\ status = "Accepted" THEN "Gone" ELSE status
     IN  Write([mem EXCEPT !.redelete =
                  [r \in Resources |-> [u \in Uids |-> settled(r, @[r][u])]]],
               "phase end", "err")
  /\ Unwind
  /\ UNCHANGED <<world, control, phaseVars>>
-----------------------------------------------------------------------------
(***************************************************************************)
(* can_defer_to_residual: what is left may be left to the residual audit   *)
(***************************************************************************)

Redeleted(r, uid) == uid > 0 /\ mem.redelete[r][uid] \in {"Accepted", "Gone"}

DeferRoot(r) ==
  /\ pc = "defer" /\ r \in todo
  /\ ~Exists(r) \/ Redeleted(r, live[r].uid)
  /\ todo' = todo \ {r}
  /\ UNCHANGED <<world, control, journal, pc, phaseVars, waitVars, cur, answer, recovered>>

DeferYes ==
  /\ pc = "defer" /\ todo = {}
  /\ pc' = "phase end" /\ Unwind
  /\ UNCHANGED <<world, control, journal, phaseVars>>

\* A root that is neither, or a GET that fails.  The barrier's timeout is
\* recorded, that of the re-delete loop is not.
DeferNo ==
  /\ pc = "defer"
  /\ IF caller \in {"barrier", "barrier recovered"} THEN Write(mem, "finish", "err")
     ELSE pc' = "finish" /\ UNCHANGED journal
  /\ Unwind
  /\ UNCHANGED <<world, control, phaseVars>>
-----------------------------------------------------------------------------
(***************************************************************************)
(* attempt_finalizer_recovery                                              *)
(***************************************************************************)

\* The DELETEs that recovery may act for: those in the journal, of this phase,
\* of earlier ones and of earlier processes, and the re-DELETEs of the same
\* names.
Authority(o) == o.r \in mem.deleted /\ (o.uid = 1 \/ Redeleted(o.r, o.uid))

EligibleOwnerless(r) ==
  /\ live[r].deleting /\ live[r].fin
  /\ \/ r \in Delete /\ (live[r].uid = 1 \/ Redeleted(r, live[r].uid))
     \/ r \in Expect /\ live[r].uid = 1 /\ Authority(ref[r])

\* Which finalizers may be stripped: those of an object that is being deleted,
\* by the plan or by a re-delete, or that is expected to go with a deleted one,
\* when that one is gone.
Eligible(r) ==
  /\ live[r].deleting /\ live[r].fin
  /\ \/ r \in Delete /\ (live[r].uid = 1 \/ Redeleted(r, live[r].uid))
     \/ r \in Expect /\ live[r].uid = 1 /\ Authority(ref[r]) /\ Orphan(r)

\* What the patch is bound to: the uid, and of an expected object the owner.
Read(r) == [r |-> r, uid |-> live[r].uid, ref |-> IF r \in Expect THEN ref[r] ELSE None]

RecoverSkip(r) ==
  /\ pc = "recover" /\ r \in todo
  /\ todo' = todo \ {r}
  /\ UNCHANGED <<world, control, journal, pc, phaseVars, waitVars, cur, answer, recovered>>

RecoveryOver == todo' = {} /\ recovered' = FALSE

\* The GET, a permit, and the intent on disk.
RecoverIntent(r) ==
  /\ pc = "recover" /\ r \in todo /\ Eligible(r)
  /\ gate = "running"
  /\ Write([mem EXCEPT !.unresolved = @ \union {r}], "patch", "recovery error")
  /\ IF pc' = "patch"
     THEN /\ cur' = Read(r) /\ permit' = TRUE
          /\ UNCHANGED <<todo, recovered>>
     ELSE RecoveryOver /\ UNCHANGED <<cur, permit>>
  /\ UNCHANGED <<world, gate, starts, phaseVars, waitVars, answer>>

RecoverPaused(r) ==
  /\ pc = "recover" /\ r \in todo /\ Eligible(r)
  /\ gate # "running"
  /\ todo' = {}
  /\ UNCHANGED <<world, control, journal, pc, phaseVars, waitVars, cur, answer, recovered>>

\* The JSON patch tests the uid, the finalizers and, of an expected object, the
\* ownerReference.  Its reply may be lost; then the object is read again, which
\* may not tell what became of the patch.
PatchApplies ==
  /\ live[cur.r].uid = cur.uid /\ live[cur.r].fin
  /\ cur.r \in Expect => ref[cur.r] = cur.ref

Patch ==
  /\ pc = "patch"
  /\ \/ /\ PatchApplies
        /\ Become(cur.r, [live[cur.r] EXCEPT !.fin = FALSE])
        /\ answer' \in {"Stripped", "Gone", "PatchRequested"}
     \/ /\ answer' \in {"Failed", "PatchRequested"} \union
             (IF ~Exists(cur.r) THEN {"Gone"} ELSE {}) \union
             (IF live[cur.r].uid = cur.uid /\ ~live[cur.r].fin THEN {"Stripped"} ELSE {})
        /\ UNCHANGED <<live, ref, sawGone, sawBack>>
  /\ pc' = "patch record"
  /\ UNCHANGED <<touched, control, journal, phaseVars, caller, targets, remaining, iter,
                 todo, cur, recovered>>

\* After a lost reply no other candidate is tried.
PatchRecord ==
  /\ pc = "patch record"
  /\ Write([mem EXCEPT !.unresolved = IF answer = "PatchRequested" THEN @ ELSE @ \ {cur.r}],
           "recover", "recovery error")
  /\ permit' = FALSE
  /\ IF pc' = "recover"
     THEN /\ recovered' = (recovered \/ answer \in {"Stripped", "Gone"})
          /\ \/ answer \in {"Stripped", "Failed"} /\ todo' = todo \ {cur.r}
             \/ answer # "Failed" /\ todo' = {}
     ELSE RecoveryOver
  /\ cur' = None /\ answer' = "none"
  /\ UNCHANGED <<world, gate, starts, phaseVars, waitVars>>

AfterRecovery == [wave |-> "wave recovered", barrier |-> "barrier recovered",
                  redelete |-> "redelete recovered"]

Recovered == pc = "recover" /\ todo = {} /\ mem.unresolved = {}
RecoveryError == pc = "recovery error" \/ (pc = "recover" /\ todo = {} /\ mem.unresolved # {})

RecoveryWaits ==
  /\ Recovered /\ recovered
  /\ StartWait(AfterRecovery[caller], remaining)
  /\ UNCHANGED <<world, control, journal, phaseVars, remaining, iter, stepVars>>

\* A wave that strips nothing, or fails to, fails with what remains.
WaveRecoveryFails ==
  /\ caller = "wave"
  /\ RecoveryError \/ (Recovered /\ ~recovered)
  /\ failed' = failed \union remaining \union With({"Rejected"})
  /\ Write(mem, "finish", "err")
  /\ Unwind
  /\ UNCHANGED <<world, control, phase, acc, del>>

\* At the barrier an error of the recovery stops the run.
BarrierRecoveryFails ==
  /\ caller = "barrier" /\ RecoveryError
  /\ pc' = "err" /\ Unwind
  /\ UNCHANGED <<world, control, journal, phaseVars>>

\* In the re-delete loop it counts as nothing recovered.
RecoveryDefers ==
  /\ \/ caller \in {"barrier", "redelete"} /\ Recovered /\ ~recovered
     \/ caller = "redelete" /\ RecoveryError
  /\ Defer(remaining)
  /\ UNCHANGED <<world, control, journal, phaseVars, caller>>
-----------------------------------------------------------------------------
WaveWait == Waiting /\ (WaveGone \/ WaveRecreated \/ WaveStalled \/ WaveCancelled \/ RewaitFails)

WaveStep ==
  \/ Acquire \/ Checkpoint \/ WaveDeleted \/ WaveOver \/ WaveWait
  \/ pc = "deleting" /\ \E r \in Resources : Get(r) \/ Send(r)

BarrierWait ==
  /\ Waiting
  /\ \/ BarrierPassed \/ BarrierCancelled \/ BarrierStalled \/ BarrierDefers
     \/ BarrierRecreated \/ RedeleteGone

BarrierStep ==
  \/ BarrierSkip \/ BarrierBegins \/ BarrierWaits \/ BarrierWait
  \/ RedeleteGetFails \/ Authorize \/ RedeleteSend \/ RedeleteRecord \/ RedeleteDone
  \/ DeferYes \/ DeferNo
  \/ pc \in {"redelete", "defer"} /\ \E r \in Resources : RedeleteGet(r) \/ DeferRoot(r)

RecoveryStep ==
  \/ Patch \/ PatchRecord
  \/ RecoveryWaits \/ WaveRecoveryFails \/ BarrierRecoveryFails \/ RecoveryDefers
  \/ pc = "recover" /\ \E r \in Resources : RecoverSkip(r) \/ RecoverIntent(r) \/ RecoverPaused(r)

Executor ==
  \/ PhaseTop \/ EntryGuard \/ Enter \/ PhaseEnd \/ Finish \/ MarkFailed
  \/ WaveStep \/ BarrierStep \/ RecoveryStep

Next == Executor \/ Cluster \/ Interrupt \/ Drained \/ Start \/ Resume \/ Crash

\* The executor's task is scheduled again and again; the cluster, the user and
\* the operating system owe it nothing.
Spec == Init /\ [][Next]_vars /\ WF_vars(Executor)
-----------------------------------------------------------------------------
Uid == Resources \X Uids

TypeOK ==
  /\ live \in [Resources -> [uid : Uids, last : Uids, deleting : BOOLEAN, fin : BOOLEAN]]
  /\ ref \in [DOMAIN Owners -> [r : Resources, uid : Uids]] /\ touched \subseteq Uid
  /\ gate \in {"running", "pausing", "paused"} /\ permit \in BOOLEAN
  /\ \A j \in {disk, mem} :
       /\ j.state \in {"Prepared", "Applying", "Paused", "Failed", "ApplyCompleted"}
       /\ j.completed \in 0..Len(Phases)
       /\ j.deleted \subseteq Deletes /\ j.unresolved \subseteq Resources
       /\ j.redelete \in [Resources -> [Uids -> {"none", "Authorized", "Accepted",
                                                 "Gone", "Failed", "UnknownOutcome"}]]
  /\ faults \in 0..MaxFaults /\ starts \in 0..MaxStarts
  /\ phase \in 1..(Len(Phases) + 1) /\ iter \in 0..MaxRedeleteIterations
  /\ failed \subseteq Deletes /\ acc \subseteq Deletes
  /\ sawGone \union sawBack \subseteq targets /\ targets \union remaining \subseteq Resources
  /\ todo \subseteq Resources /\ recovered \in BOOLEAN
  /\ cur = None \/ (cur.r \in Resources /\ cur.uid \in Uids)

\* The run deletes only what the plan names for deletion, and another object
\* under the same name only when the first one was deleted by this run and the
\* intent is on disk (executor.rs, attempt_single_redelete).
TouchedIsAuthorized ==
  \A t \in touched :
    /\ t[1] \in Deletes
    /\ t[2] # 1 => <<t[1], 1>> \in touched /\ disk.redelete[t[1]][t[2]] # "none"

\* What the journal records as completed is true: the objects that the phases
\* were to delete are gone, whatever crash, failed write or deferral came
\* between (executor.rs, the phase checkpoint).
CompletedIsGone ==
  \A k \in 1..disk.completed : \A r \in Phases[k].delete : Dead(r)

\* A run that paused has every accepted DELETE of its last phase on disk, so
\* that the resumed run can tell (executor.rs, execute_delete_waves).
PausedIsDurable ==
  [][pc # "off" /\ pc' = "off" /\ disk'.state = "Paused" =>
       acc \union With({"Accepted"}) \subseteq disk'.deleted]_vars

\* A finalizer is stripped only from an object that is being deleted and that
\* the run itself deleted, or that at this moment belongs to nothing but one
\* that is gone and that the run deleted or, when it came to delete it again,
\* found gone: also when an earlier process or phase deleted it, and when the
\* operator gives the object to a new owner meanwhile (executor.rs,
\* attempt_finalizer_recovery).
StripIsSafe ==
  [][pc = "patch" /\ pc' # pc /\ live[cur.r].fin # live'[cur.r].fin =>
       /\ live[cur.r].deleting
       /\ \/ <<cur.r, live[cur.r].uid>> \in touched
          \/ LET o == ref[cur.r]
             IN  /\ Orphan(cur.r) /\ <<o.r, 1>> \in touched
                 /\ <<o.r, o.uid>> \in touched \/ disk.redelete[o.r][o.uid] = "Gone"]_vars

\* Once the pause is complete the executor changes nothing in the cluster, even
\* though it is still to unwind (permit.rs, the permits of executor.rs).
SettledAfterPause == [][gate = "paused" => UNCHANGED world \/ Cluster]_vars

\* Phase after phase, and complete only when all is gone: TeardownContract.
Contract == INSTANCE TeardownContract WITH
  Planned <- Deletes,
  requested <- {r \in Deletes : <<r, 1>> \in touched},
  gone <- {r \in Deletes : Dead(r)},
  complete <- disk.state = "ApplyCompleted"

ImplementsContract == Contract!ContractSpec

\* Every wait, wave and re-delete loop comes to an end: a process that executes
\* the run ends, whatever the cluster does.
RunEnds == []<>(pc = "off")
-----------------------------------------------------------------------------
(***************************************************************************)
(* What comments of the source say, and the code does not do               *)
(***************************************************************************)

\* "the run must NOT continue to further mutations" (executor.rs, the end of
\* attempt_finalizer_recovery): no DELETE while a patch is unresolved on disk.
NoMutationAfterAmbiguity ==
  [][pc \notin {"patch", "patch record"} /\ disk.unresolved # {} => touched' = touched]_vars

\* "Paused at phase i/n. Use 'teardown resume' to continue" (workflow.rs).
PausedCanResume == pc = "off" /\ disk.state = "Paused" => Resumable(disk)

\* "Re-DELETE failed (UID changed again, 403, etc.)", while an outcome that is
\* unknown is UnknownOutcome (journal.rs, ReDeleteResult).
FailedHadNoEffect ==
  \A r \in Resources, u \in Uids : disk.redelete[r][u] = "Failed" => <<r, u>> \notin touched
=============================================================================
