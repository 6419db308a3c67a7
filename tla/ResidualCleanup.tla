-------------------------- MODULE ResidualCleanup --------------------------
(***************************************************************************)
(* What follows the main execution of a teardown: the audit of what is     *)
(* left, the cleanup of the residuals (src/src/teardown/executor.rs        *)
(* execute_residual_cleanup) and the resume of an interrupted run          *)
(* (src/src/teardown/workflow.rs resume_from_journal, run_resume_cleanup). *)
(* A process works on the one journal of the run under its lock; it may be *)
(* paused or killed at any step, a reply may be lost, and the cluster      *)
(* deletes and recreates objects all the while.  Execution has the main    *)
(* execution in detail, and the writes of the journal that fail.           *)
(***************************************************************************)
EXTENDS Naturals, Sequences, Functions, FiniteSets

CONSTANTS
  Deletes,      \* the objects the plan deletes
  Others,       \* other objects: the plan expects them to go, or knows nothing
                \* of them and the audit attributes them to the operator
  PlanOrder,    \* the objects in the order of the plan, where each is found once:
                \* the planner drops duplicates by their uid (planner.rs)
  Selects,      \* whether the caller has attributed ones cleaned up as well; the
                \* one caller of today, run_post_execution_audit, has not
  Finalized,    \* objects with a finalizer
  Recreatable,  \* objects a controller may create again
  LastUid,      \* how many incarnations an object has (bound)
  MaxPolls,     \* GETs of a wait: 15 or 30 in the code, 120 s when settling
  MaxLost,      \* lost replies (bound)
  Faults        \* the faults that may happen; see the ASSUME

Objects == Deletes \union Others

ASSUME CleanupAssumption ==
  /\ IsFiniteSet(Objects) /\ Deletes \intersect Others = {} /\ Selects \in BOOLEAN
  /\ PlanOrder \in Seq(Objects) /\ Range(PlanOrder) = Objects
  /\ \A i, k \in DOMAIN PlanOrder : PlanOrder[i] = PlanOrder[k] => i = k
  /\ Finalized \subseteq Objects /\ Recreatable \subseteq Objects
  /\ LastUid \in Nat \ {0} /\ MaxPolls \in Nat /\ MaxLost \in Nat
  /\ Faults \subseteq {"error", "unverified", "unknown", "incomplete",
                       "rejected", "blocked", "late", "pause", "crash", "reinstall"}

VARIABLES
  expects,      \* the objects the plan expects to go with those it deletes
  live,         \* live[o]: the last incarnation of o and how it is
  reinstalled,  \* the operator is installed again
  touched,      \* history: the incarnations a DELETE of the run took effect on
  lost,         \* replies lost so far
  journal,      \* the journal on disk
  newcomer,     \* a process that has created or read the journal, without its
                \* lock: "created", "loaded", or "none"
  job,          \* what the process that holds the lock is at
  completed     \* the last process to hold the lock reported the run complete

vars == <<expects, live, reinstalled, touched, lost, journal, newcomer, job, completed>>
cluster == <<expects, live, reinstalled, touched, lost>>

NoJob == [at |-> "off", queue |-> <<>>, polls |-> 0, answer |-> "none",
          flags |-> {}, closed |-> FALSE]
NoJournal == [state |-> "none", complete |-> FALSE, deleted |-> {}, redelete |-> {},
              decisions |-> <<>>, audited |-> FALSE, patching |-> FALSE]

\* A list of which only some are to be worked on is a function on their places
\* in it; the first place comes first.
First(list) == CHOOSE i \in DOMAIN list : \A k \in DOMAIN list : i <= k
Rest(list) == Restrict(list, DOMAIN list \ {First(list)})
Empty(list) == DOMAIN list = {}

Planned == Deletes \union expects
InPlan(o) == o \in Planned
Plan == RestrictValues(PlanOrder, InPlan)

Init ==
  /\ expects \in SUBSET Others
  /\ live = [o \in Objects |-> [uid |-> 1, phase |-> "live"]]
  /\ reinstalled = FALSE /\ touched = {} /\ lost = 0
  /\ journal = NoJournal
  /\ newcomer = "none" /\ job = NoJob /\ completed = FALSE
-----------------------------------------------------------------------------
(***************************************************************************)
(* The cluster, and what is read of it                                     *)
(***************************************************************************)

Present(o) == live[o].phase # "gone"
Is(item) == Present(item.res) /\ live[item.res].uid = item.uid
Deleted(o) == IF o \in Finalized THEN "held" ELSE "deleting"

\* The user, a controller or the garbage collector deletes it.
DeletedByOther(o) ==
  /\ live[o].phase = "live"
  /\ live' = [live EXCEPT ![o].phase = Deleted(o)]

Vanish(o) ==
  /\ live[o].phase \in {"deleting", "held"}
  /\ live' = [live EXCEPT ![o].phase = "gone"]

Recreate(o) ==
  /\ o \in Recreatable /\ ~Present(o) /\ live[o].uid < LastUid
  /\ live' = [live EXCEPT ![o] = [uid |-> @.uid + 1, phase |-> "live"]]

Cluster ==
  \/ /\ \E o \in Objects : DeletedByOther(o) \/ Vanish(o) \/ Recreate(o)
     /\ UNCHANGED <<expects, reinstalled, touched, lost, journal, newcomer, job, completed>>
  \/ /\ "reinstall" \in Faults /\ ~reinstalled /\ reinstalled' = TRUE
     /\ UNCHANGED <<expects, live, touched, lost, journal, newcomer, job, completed>>

\* A GET: a 404 counts once a LIST has shown that the endpoint is there; when
\* the endpoint is not, the object may well be.
Reads(o) == {IF Present(o) THEN "live" ELSE "gone"}
              \union (Faults \intersect {"error", "unverified"})

\* check_operator_generation: the operator is there as long as a planned object
\* is that existed when the plan was made.
Generation ==
  IF reinstalled THEN "new"
  ELSE IF \E d \in Deletes : Present(d) /\ live[d].uid = 1 THEN "same"
  ELSE "absent"
Generations == {Generation} \union (Faults \intersect {"unknown"})

\* An audit reads the generation, then the cluster.
Audits ==
  IF Generation = "absent" THEN {"complete"} \union (Faults \intersect {"incomplete", "error"})
  ELSE {"error"}

\* Planned objects are left out of the attributed residuals.
Attributed(o) == o \notin Planned /\ Present(o)
StillPresent == {o \in Planned : Present(o)}
-----------------------------------------------------------------------------
(***************************************************************************)
(* The journal and its lock                                                *)
(***************************************************************************)

PendingKnown(d) == d.result \in {"none", "requested"}
Pending(d) == d.result \in {"none", "requested", "unknown"}
HardFailed(d) == d.result = "failed"
Decided(d) == d.result \in {"gone", "alreadyGone"}
AnyDecision(Test(_)) == \E i \in DOMAIN journal.decisions : Test(journal.decisions[i])

Record(fields) == journal' = fields
SetState(s) == Record([journal EXCEPT !.state = s])

\* The last decision on item.res whose result is one of `from`, if any.
Resolved(item, from, result) ==
  LET of == {i \in DOMAIN journal.decisions :
               /\ journal.decisions[i].res = item.res
               /\ journal.decisions[i].result \in from}
  IN  IF of = {} THEN journal
      ELSE [journal EXCEPT !.decisions[CHOOSE i \in of : \A k \in of : k <= i].result = result]

At(place) == job.at = place
Locked == ~At("off")
Item == job.queue[First(job.queue)]

GoWith(place, queue, answer, flags) ==
  job' = [at |-> place, queue |-> queue, polls |-> 0, answer |-> answer,
          flags |-> flags, closed |-> job.closed]
Go(place) == GoWith(place, job.queue, "none", job.flags)
\* On with the next one, after a flag has been raised, or none.
Onward(place, flags) == GoWith(place, Rest(job.queue), "none", job.flags \union flags)
Stay == UNCHANGED <<newcomer, completed>>
Still == UNCHANGED journal

\* The process returns; the lock goes with it.
End(how) == job' = NoJob /\ completed' = how /\ UNCHANGED newcomer
Complete == End(TRUE)
Fail == End(FALSE)

\* Resumable without the modes of the explicit cleanup.
Resumable(s) == s \in {"Paused", "Applying", "InteractiveCleanup", "ApplyCompleted"}

\* create_run_journal: the journal is written first, then locked.
Create ==
  /\ newcomer = "none" /\ journal.state = "none"
  /\ SetState("Prepared") /\ newcomer' = "created"
  /\ UNCHANGED <<job, completed>>

\* resume_from_journal reads the journal, and refuses some states.
Load ==
  /\ newcomer = "none" /\ Resumable(journal.state)
  /\ newcomer' = "loaded"
  /\ UNCHANGED <<journal, job, completed>>

Locks ==
  /\ job' = [NoJob EXCEPT !.at = IF newcomer = "created" THEN "start" ELSE "generation"]
  /\ completed' = FALSE

LockTrusting ==
  /\ newcomer # "none" /\ newcomer' = "none"
  /\ IF Locked THEN UNCHANGED <<job, completed>> ELSE Locks
  /\ UNCHANGED journal

\* JournalStore::new_with_lock fails if the lock is held, and reads the journal
\* again, whose state is looked at again.
Lock ==
  /\ newcomer # "none" /\ newcomer' = "none"
  /\ IF Locked \/ (newcomer = "loaded" /\ ~Resumable(journal.state))
     THEN UNCHANGED <<job, completed>> ELSE Locks
  /\ UNCHANGED journal

Crash ==
  /\ "crash" \in Faults
  /\ \/ newcomer # "none" /\ newcomer' = "none" /\ UNCHANGED <<job, completed>>
     \/ Locked /\ job' = NoJob /\ completed' = FALSE /\ UNCHANGED newcomer
  /\ UNCHANGED journal

\* Ctrl-C closes the gate of the process; a permit that is held stays so.
Pause ==
  /\ "pause" \in Faults /\ Locked /\ ~job.closed
  /\ job' = [job EXCEPT !.closed = TRUE]
  /\ Stay /\ Still
-----------------------------------------------------------------------------
(***************************************************************************)
(* The main execution, in outline                                          *)
(***************************************************************************)

DeleteObject(o) ==
  /\ live' = [live EXCEPT ![o].phase = IF @ = "live" THEN Deleted(o) ELSE @]
  /\ touched' = touched \union {<<o, live[o].uid>>}

BeginMain ==
  /\ At("start")
  /\ SetState("Applying") /\ Go("main") /\ Stay
  /\ UNCHANGED cluster

\* A planned object, or another one that has taken the place of one deleted.
MainDelete(d) ==
  /\ At("main") /\ ~job.closed /\ Present(d) /\ d \notin journal.redelete
  /\ \/ /\ live[d].uid = 1
        /\ Record([journal EXCEPT !.deleted = @ \union {d}])
     \/ /\ live[d].uid > 1 /\ d \in journal.deleted
        /\ Record([journal EXCEPT !.redelete = @ \union {d}])
  /\ DeleteObject(d)
  /\ UNCHANGED <<expects, reinstalled, lost, newcomer, job, completed>>

\* All phases are completed.  What is deleted again may be left to the audit,
\* with its record as it is.
MainDone ==
  /\ At("main")
  /\ \A d \in Deletes : Present(d) => live[d].uid > 1 /\ d \in journal.redelete
  /\ \/ Record([journal EXCEPT !.complete = TRUE])
     \/ StillPresent = {} /\ Record([journal EXCEPT !.complete = TRUE, !.redelete = {}])
  /\ Go("done") /\ Stay
  /\ UNCHANGED cluster

\* determine_final_state; a run that fails or pauses leaves its phase before.
MainEnds ==
  /\ \/ /\ At("main") /\ ~job.closed
        /\ SetState("Failed") /\ Fail
     \/ /\ At("main") \/ At("done")
        /\ job.closed
        /\ SetState("Paused") /\ Fail
     \/ /\ At("done") /\ ~job.closed
        /\ SetState("ApplyCompleted") /\ Go("post audit") /\ Stay
  /\ UNCHANGED cluster
-----------------------------------------------------------------------------
(***************************************************************************)
(* run_post_execution_audit                                                *)
(***************************************************************************)

\* auto_cleanup_candidates: a planned DELETE of which the run deleted an earlier
\* incarnation, as it is now; a planned EXPECT only as it was planned.
Candidate(o) ==
  /\ Present(o) /\ o \in Planned
  /\ o \in Deletes => o \in journal.deleted
  /\ o \in expects => live[o].uid = 1

\* The attributed ones come after those.
Listed(i) == PlanOrder[IF i > Len(PlanOrder) THEN i - Len(PlanOrder) ELSE i]

Candidates ==
  [i \in {k \in 1..(2 * Len(PlanOrder)) :
            IF k > Len(PlanOrder) THEN Selects /\ Attributed(Listed(k)) ELSE Candidate(Listed(k))}
     |-> [res |-> Listed(i), uid |-> live[Listed(i)].uid]]

PostAudit ==
  /\ At("post audit")
  /\ \E g \in Generations, a \in Audits :
       IF g # "absent" \/ a = "error" THEN Fail
       ELSE GoWith("recheck", Candidates, a, job.flags) /\ Stay
  /\ Still /\ UNCHANGED cluster

\* The generation is checked once more, and only then is the audit kept.
Recheck ==
  /\ At("recheck")
  /\ \E g \in Generations :
       IF g # "absent" THEN Fail /\ Still
       ELSE /\ Record([journal EXCEPT !.audited = TRUE])
            /\ IF job.answer = "incomplete" THEN Fail
               ELSE IF Empty(job.queue) THEN Complete
               ELSE Go("validate") /\ Stay
  /\ UNCHANGED cluster
-----------------------------------------------------------------------------
(***************************************************************************)
(* execute_residual_cleanup                                                *)
(***************************************************************************)

\* Only what a fresh, complete audit still shows is deleted.
Validate ==
  /\ At("validate")
  /\ \E g \in Generations, a \in Audits :
       LET valid == RestrictValues(job.queue, Is)
       IN  IF g # "absent" \/ a # "complete" \/ Empty(valid) THEN Fail /\ Still
           ELSE /\ SetState("InteractiveCleanup") /\ Stay
                /\ GoWith("next", valid, "none",
                          IF DOMAIN valid = DOMAIN job.queue THEN {} ELSE {"skipped"})
  /\ UNCHANGED cluster

DecideLate ==
  /\ At("next") /\ ~Empty(job.queue)
  /\ IF job.closed THEN Fail
     ELSE \E g \in Generations, r \in Reads(Item.res) :
       \/ g = "absent" /\ r = "live" /\ Is(Item) /\ Go("send") /\ Stay
       \/ g = "absent" /\ ~(r = "live" /\ Is(Item)) /\ Onward("next", {"skipped"}) /\ Stay
  /\ Still /\ UNCHANGED cluster

\* Under a permit: the generation, the uid, and the decision on disk before the
\* DELETE.
Decide ==
  /\ At("next") /\ ~Empty(job.queue)
  /\ IF job.closed THEN Fail /\ Still
     ELSE \E g \in Generations, r \in Reads(Item.res) :
       \/ /\ g # "absent" /\ Still /\ Stay
          /\ GoWith("settle", job.queue, "none", job.flags \union {"skipped"})
       \/ /\ g = "absent" /\ r \in {"error", "unverified"} /\ Still /\ Fail
       \/ /\ g = "absent" /\ r \in {"gone", "live"} /\ ~(r = "live" /\ Is(Item))
          /\ Onward("next", {"skipped"}) /\ Still /\ Stay
       \/ /\ g = "absent" /\ r = "live" /\ Is(Item)
          /\ Record([journal EXCEPT !.decisions =
                Append(@, [res |-> Item.res, uid |-> Item.uid, result |-> "none"])])
          /\ Go("send") /\ Stay
  /\ UNCHANGED cluster

\* delete_resource_pub: GET, the uid, DELETE with the uid as precondition.  The
\* reply may be lost, whether the DELETE has taken effect or not.
Answers ==
  IF ~Present(Item.res) THEN {"alreadyGone"}
  ELSE IF ~Is(Item) THEN {"blocked"}
  ELSE {"accepted"} \union (Faults \intersect {"rejected", "blocked"})

\* Accepted, but not marked as deleted yet.
DeleteLate(o) == touched' = touched \union {<<o, live[o].uid>>} /\ UNCHANGED live

Send ==
  /\ At("send") \/ At("send again")
  /\ \/ \E a \in Answers \union
                 (IF Faults \intersect {"error", "unverified"} = {} THEN {} ELSE {"unknown"}) :
          /\ job' = [job EXCEPT !.answer = a, !.at = IF @ = "send" THEN "record" ELSE "record again"]
          /\ \/ a = "accepted" /\ DeleteObject(Item.res)
             \/ a = "accepted" /\ "late" \in Faults /\ DeleteLate(Item.res)
             \/ a # "accepted" /\ UNCHANGED <<live, touched>>
          /\ UNCHANGED lost
     \/ /\ lost < MaxLost /\ lost' = lost + 1
        /\ job' = [job EXCEPT !.answer = "unknown", !.at = IF @ = "send" THEN "record" ELSE "record again"]
        /\ \/ UNCHANGED <<live, touched>>
           \/ Is(Item) /\ DeleteObject(Item.res)
  /\ Still /\ Stay
  /\ UNCHANGED <<expects, reinstalled>>

ResultOf == [accepted |-> "requested", alreadyGone |-> "alreadyGone",
             unknown |-> "unknown", blocked |-> "failed", rejected |-> "failed"]

CheckpointGoesOn ==
  /\ At("record")
  /\ Record(Resolved(Item, {"none"}, ResultOf[job.answer]))
  /\ IF job.answer = "accepted" THEN Go("wait") ELSE Onward("next", {"failed"})
  /\ Stay /\ UNCHANGED cluster

Checkpoint ==
  /\ At("record")
  /\ Record(Resolved(Item, {"none"}, ResultOf[job.answer]))
  /\ CASE job.answer = "accepted" -> Go("wait")
       [] job.answer = "alreadyGone" -> Onward("next", {})
       [] job.answer = "rejected" -> Onward("next", {"failed"})
       [] job.answer \in {"blocked", "unknown"} -> Onward("settle", {"failed"})
  /\ Stay /\ UNCHANGED cluster

\* The wait for it to go, before and after a recovery of its finalizers.
WaitGone ==
  /\ At("wait") \/ At("wait again")
  /\ \E r \in Reads(Item.res) :
       \/ /\ r = "gone"
          /\ Record(Resolved(Item, {"requested"}, "gone"))
          /\ Onward("next", {}) /\ Stay
       \/ /\ r = "live" /\ Is(Item) /\ job.polls < MaxPolls
          /\ job' = [job EXCEPT !.polls = @ + 1]
          /\ Still /\ Stay
       \/ /\ r = "live" /\ Is(Item) /\ job.polls = MaxPolls
          /\ At("wait") /\ live[Item.res].phase = "held"
          /\ Go("strip") /\ Still /\ Stay
       \/ /\ \/ r # "gone" /\ (r # "live" \/ ~Is(Item))
             \/ /\ r = "live" /\ job.polls = MaxPolls
                /\ ~(At("wait") /\ live[Item.res].phase = "held")
          /\ Fail /\ Still
  /\ UNCHANGED cluster

\* attempt_finalizer_recovery on this one object: the intent on disk, then the
\* patch, whose outcome may remain unknown.
StripIntent ==
  /\ At("strip")
  /\ \/ /\ ~job.closed /\ Is(Item) /\ live[Item.res].phase = "held"
        /\ Record([journal EXCEPT !.patching = TRUE])
        /\ Go("patch") /\ Stay
     \/ Still /\ Fail
  /\ UNCHANGED cluster

Patch ==
  /\ At("patch")
  /\ LET applies == Is(Item) /\ live[Item.res].phase = "held"
     IN  \/ /\ applies
            /\ live' = [live EXCEPT ![Item.res].phase = "gone"]
            /\ Record([journal EXCEPT !.patching = FALSE])
            /\ Go("wait again") /\ Stay /\ UNCHANGED lost
         \/ /\ ~applies
            /\ Record([journal EXCEPT !.patching = FALSE])
            /\ Fail /\ UNCHANGED <<live, lost>>
         \/ /\ lost < MaxLost /\ lost' = lost + 1
            /\ \/ UNCHANGED live
               \/ applies /\ live' = [live EXCEPT ![Item.res].phase = "gone"]
            /\ Still /\ Fail
  /\ UNCHANGED <<expects, reinstalled, touched>>

CleanupOver == At("next") /\ Empty(job.queue) /\ Go("settle") /\ Still /\ Stay /\ UNCHANGED cluster

SettleForever ==
  /\ At("settle") \/ At("resume audit")
  /\ "incomplete" \in Faults /\ Generation = "absent"
  /\ job' = [job EXCEPT !.polls = 1 - @]
  /\ Still /\ Stay /\ UNCHANGED cluster

\* settle_loop: an audit that errors for owners just deleted is repeated.
SettleAgain ==
  /\ At("settle") \/ At("resume audit")
  /\ "incomplete" \in Faults /\ Generation = "absent" /\ job.polls < MaxPolls
  /\ job' = [job EXCEPT !.polls = @ + 1]
  /\ Still /\ Stay /\ UNCHANGED cluster

Settle ==
  /\ At("settle")
  /\ \E g \in Generations, a \in Audits :
       IF g # "absent" \/ a = "error"
       THEN SetState("InteractiveCleanup") /\ Fail
       ELSE /\ Record([journal EXCEPT !.audited = TRUE])
            /\ GoWith("conclude", job.queue, a,
                      job.flags \union IF StillPresent = {} THEN {} ELSE {"left"})
            /\ Stay
  /\ UNCHANGED cluster

FinalState ==
  IF AnyDecision(HardFailed) THEN "Failed"
  ELSE IF \/ job.answer = "incomplete"
          \/ job.flags \intersect {"skipped", "failed"} # {}
          \/ AnyDecision(Pending) THEN "InteractiveCleanup"
  ELSE "ApplyCompleted"

\* The caller reports planned objects that the last audit still saw.
Conclude ==
  /\ At("conclude")
  /\ SetState(FinalState)
  /\ End(FinalState = "ApplyCompleted" /\ "left" \notin job.flags)
  /\ UNCHANGED cluster
-----------------------------------------------------------------------------
(***************************************************************************)
(* resume_from_journal                                                     *)
(***************************************************************************)

\* The operator must not have come back; then the planned objects of completed
\* phases are looked at, in the order of the plan.
CheckGeneration ==
  /\ At("generation")
  /\ \E g \in Generations :
       IF g \in {"new", "unknown"} THEN Fail
       ELSE GoWith("reconcile", IF journal.complete THEN Plan ELSE <<>>, "none", job.flags) /\ Stay
  /\ Still /\ UNCHANGED cluster

Early == "early" \in job.flags

LeftToAudit(o) == journal.state = "ApplyCompleted" /\ ~Early /\ o \in journal.redelete

\* The first that is still there sends the run back to its phase; another
\* object under its name refuses the resume.
Reconcile ==
  /\ At("reconcile")
  /\ IF Empty(job.queue)
     THEN GoWith("records", RestrictValues(Plan, LeftToAudit), "none", job.flags) /\ Stay
     ELSE \E r \in Reads(Item) :
       \/ r = "gone" /\ Onward("reconcile", {}) /\ Stay
       \/ /\ r = "live" /\ live[Item].uid = 1
          /\ GoWith("reconcile", <<>>, "none", {"early"}) /\ Stay
       \/ (r # "gone" /\ ~(r = "live" /\ live[Item].uid = 1)) /\ Fail
  /\ Still /\ UNCHANGED cluster

\* The records of objects deleted again, that were left to the audit.
ReconcileRecord ==
  /\ At("records") /\ ~Empty(job.queue)
  /\ \E r \in Reads(Item) :
       \/ r = "gone" /\ Record([journal EXCEPT !.redelete = @ \ {Item}])
            /\ Onward("records", {}) /\ Stay
       \/ r = "live" /\ Onward("records", {}) /\ Still /\ Stay
       \/ r \notin {"gone", "live"} /\ Fail /\ Still
  /\ UNCHANGED cluster

\* classify_resume_stage
Refused ==
  \/ journal.patching \/ journal.redelete # {}
  \/ /\ ~journal.complete
     /\ \/ journal.decisions # <<>>
        \/ journal.state \in {"InteractiveCleanup", "ApplyCompleted"}

GoesToCleanupIfPending ==
  /\ journal.complete
  /\ \/ journal.state \in {"InteractiveCleanup", "ApplyCompleted"}
     \/ journal.state = "Paused" /\ AnyDecision(Pending)

GoesToCleanup ==
  /\ journal.complete
  /\ \/ journal.state \in {"InteractiveCleanup", "ApplyCompleted"}
     \/ journal.state = "Paused" /\ (journal.audited \/ AnyDecision(Pending))

Classify ==
  /\ At("records") /\ Empty(job.queue)
  /\ \/ Refused /\ Fail /\ Still
     \/ ~Refused /\ GoesToCleanup /\ Go("resume") /\ Still /\ Stay
     \/ /\ ~Refused /\ ~GoesToCleanup
        /\ SetState("Applying") /\ Stay
        /\ GoWith(IF journal.complete /\ ~Early THEN "done" ELSE "main", job.queue, "none", {})
  /\ UNCHANGED cluster
-----------------------------------------------------------------------------
(***************************************************************************)
(* run_resume_cleanup                                                      *)
(***************************************************************************)

\* Its list of decisions is the one of the journal as it was read.
ResumeCleanup ==
  /\ At("resume")
  /\ IF AnyDecision(HardFailed) THEN SetState("Failed") /\ Fail
     ELSE /\ SetState("InteractiveCleanup") /\ Stay
          /\ LET pending == RestrictValues(journal.decisions, Pending)
             IN  GoWith(IF Empty(pending) THEN "nothing pending" ELSE "resume next",
                        pending, "none", {})
  /\ UNCHANGED cluster

NothingPending ==
  /\ At("nothing pending")
  /\ \E g \in Generations :
       IF g # "absent" THEN Fail ELSE Go("resume audit") /\ Stay
  /\ Still /\ UNCHANGED cluster

ResumeNext ==
  /\ At("resume next")
  /\ IF Empty(job.queue) THEN Go("resume audit") /\ Still
     ELSE IF job.closed THEN SetState("Paused") /\ Go("resume audit")
     ELSE Go(IF Item.result = "requested" THEN "requested" ELSE "unresolved") /\ Still
  /\ Stay /\ UNCHANGED cluster

\* A DELETE was accepted: is it gone, is it going, or must it be sent again?
Requested ==
  /\ At("requested")
  /\ \E r \in Reads(Item.res) :
       \/ /\ r = "gone" \/ (r = "live" /\ ~Is(Item))
          /\ Record(Resolved(Item, {"requested"}, "gone"))
          /\ Onward("resume next", {})
       \/ /\ r = "live" /\ Is(Item)
          /\ Go(IF live[Item.res].phase = "live" THEN "permit" ELSE "linger")
          /\ Still
       \/ r \in {"error", "unverified"} /\ Onward("resume next", {"retryable"}) /\ Still
  /\ Stay /\ UNCHANGED cluster

LingerCredulous ==
  /\ At("linger")
  /\ \E r \in Reads(Item.res) :
       \/ /\ r \in {"gone", "unverified"}
          /\ Record(Resolved(Item, {"requested"}, "gone"))
          /\ Onward("resume next", {})
       \/ /\ r \in {"live", "error"}
          /\ Onward("resume next", {"retryable"}) /\ Still
  /\ Stay /\ UNCHANGED cluster

\* A wait that gives up leaves the decision to the next resume.
Linger ==
  /\ At("linger")
  /\ \E r \in Reads(Item.res) :
       \/ /\ r = "gone"
          /\ Record(Resolved(Item, {"requested"}, "gone"))
          /\ Onward("resume next", {})
       \/ /\ r = "live" /\ job.polls < MaxPolls
          /\ job' = [job EXCEPT !.polls = @ + 1] /\ Still
       \/ /\ r # "gone" /\ (r = "live" => job.polls = MaxPolls)
          /\ Onward("resume next", {"retryable"}) /\ Still
  /\ Stay /\ UNCHANGED cluster

\* Before an accepted DELETE is sent again: a permit, the generation, an audit
\* that shows this very incarnation as attributed, the generation.
PermitAgain ==
  /\ At("permit")
  /\ IF job.closed THEN Fail
     ELSE /\ Stay
          /\ \E g \in Generations, a \in Audits :
               IF g = "absent" /\ a = "complete" /\ Attributed(Item.res) /\ Is(Item)
               THEN Go("send again") ELSE Onward("resume next", {"retryable"})
  /\ Still /\ UNCHANGED cluster

\* A decision without a known outcome: generation, audit, membership by name.
Unresolved ==
  /\ At("unresolved")
  /\ IF job.closed THEN SetState("Paused") /\ Go("resume audit") /\ Stay
     ELSE /\ Still
          /\ \E g \in Generations, a \in Audits :
               IF g # "absent" \/ a # "complete" THEN Fail
               ELSE Go(IF Attributed(Item.res) THEN "compare" ELSE "absent") /\ Stay
  /\ UNCHANGED cluster

\* The object itself: only a decision never acted upon is settled by its absence.
Compare ==
  /\ At("compare") \/ At("absent")
  /\ \E r \in Reads(Item.res) :
       \/ /\ r = "gone"
          /\ Record(Resolved(Item, {"none"}, "alreadyGone"))
          /\ Onward("resume next", {}) /\ Stay
       \/ At("compare") /\ r = "live" /\ Is(Item) /\ Go("recheck all") /\ Still /\ Stay
       \/ /\ r # "gone" /\ ~(At("compare") /\ r = "live" /\ Is(Item))
          /\ Fail /\ Still
  /\ UNCHANGED cluster

\* Under the permit: generation, audit, membership, generation.
RecheckAll ==
  /\ At("recheck all")
  /\ \E g \in Generations, a \in Audits :
       IF job.closed \/ g # "absent" \/ a # "complete" \/ ~Attributed(Item.res)
       THEN Fail ELSE Go("send again") /\ Stay
  /\ Still /\ UNCHANGED cluster

CheckpointRequested ==
  CASE job.answer = "accepted" -> Go("linger") /\ Still
    [] job.answer = "alreadyGone" ->
         Record(Resolved(Item, {"requested"}, "gone")) /\ Onward("resume next", {})
    [] job.answer = "unknown" ->
         Record(Resolved(Item, {"requested"}, "unknown")) /\ Onward("resume audit", {"retryable"})
    [] OTHER -> Onward("resume next", {"hard"}) /\ Still

CheckpointUnresolved ==
  /\ Record(Resolved(Item, {"none"}, ResultOf[job.answer]))
  /\ CASE job.answer = "accepted" -> Go("linger")
       [] job.answer = "alreadyGone" -> Onward("resume next", {})
       [] job.answer = "rejected" -> Onward("resume next", {"hard"})
       [] job.answer = "unknown" -> Onward("resume audit", {"retryable"})
       [] job.answer = "blocked" -> Onward("resume audit", {"hard"})

CheckpointAgain ==
  /\ At("record again")
  /\ IF Item.result = "requested" THEN CheckpointRequested ELSE CheckpointUnresolved
  /\ Stay /\ UNCHANGED cluster

\* The audit after a resume, and the state it leaves.
ResumeAudit ==
  /\ At("resume audit")
  /\ IF job.closed THEN SetState("Paused") /\ Fail
     ELSE IF "hard" \in job.flags THEN SetState("Failed") /\ Fail
     ELSE IF "retryable" \in job.flags THEN SetState("InteractiveCleanup") /\ Fail
     ELSE \E g \in Generations, a \in Audits :
       LET state ==
             IF g # "absent" \/ a = "error" \/ (a = "complete" /\ AnyDecision(HardFailed))
             THEN "Failed"
             ELSE IF a = "incomplete" \/ AnyDecision(Pending) THEN "InteractiveCleanup"
             ELSE "ApplyCompleted"
       IN  /\ Record([journal EXCEPT !.state = state,
                        !.audited = @ \/ (g = "absent" /\ a # "error")])
           /\ End(state = "ApplyCompleted")
  /\ UNCHANGED cluster
-----------------------------------------------------------------------------
Main == BeginMain \/ (\E d \in Deletes : MainDelete(d)) \/ MainDone \/ MainEnds

Cleanup ==
  \/ PostAudit \/ Recheck \/ Validate \/ Decide \/ Send \/ Checkpoint \/ WaitGone
  \/ StripIntent \/ Patch \/ CleanupOver \/ SettleAgain \/ Settle \/ Conclude

ResumeStep ==
  \/ CheckGeneration \/ Reconcile \/ ReconcileRecord \/ Classify \/ ResumeCleanup
  \/ NothingPending \/ ResumeNext \/ Requested \/ Linger \/ PermitAgain \/ Unresolved
  \/ Compare \/ RecheckAll \/ CheckpointAgain \/ ResumeAudit

Process == (Create \/ Load \/ Lock \/ Crash \/ Pause) /\ UNCHANGED cluster

Next ==
  \/ Cluster \/ Process \/ Main \/ Cleanup \/ ResumeStep

\* A process that holds the lock goes on with its work.
Spec == Init /\ [][Next]_vars /\ WF_vars(Main \/ Cleanup \/ ResumeStep)

\* And the user resumes the run for as long as there is something to resume,
\* while what is being deleted goes away unless a finalizer holds it.
Resumed ==
  /\ Spec
  /\ WF_vars((Load \/ Lock) /\ UNCHANGED cluster)
  /\ \A o \in Objects \ Finalized :
       WF_vars(Vanish(o) /\ UNCHANGED <<expects, reinstalled, touched, lost, journal, newcomer, job, completed>>)
-----------------------------------------------------------------------------
Uids == 1..LastUid
Places ==
  {"off", "start", "main", "done", "post audit", "recheck", "validate", "next", "send",
   "record", "wait", "wait again", "strip", "patch", "settle", "conclude", "generation",
   "reconcile", "records", "resume", "nothing pending", "resume next", "requested",
   "linger", "permit", "unresolved", "compare", "absent", "recheck all", "send again",
   "record again", "resume audit"}
Results == {"none", "requested", "gone", "alreadyGone", "unknown", "failed"}

\* Types; and an object is decided upon at most once in a run, which the updates of the journal rely on: they find a
\* decision by its resource and its result (executor.rs, workflow.rs).
ResidualTypeOK ==
  /\ live \in [Objects -> [uid : Uids, phase : {"live", "deleting", "held", "gone"}]]
  /\ reinstalled \in BOOLEAN /\ touched \subseteq Objects \X Uids /\ lost \in 0..MaxLost
  /\ journal.state \in {"none", "Prepared", "Applying", "ApplyCompleted",
                        "InteractiveCleanup", "Paused", "Failed"}
  /\ journal.deleted \subseteq Deletes /\ journal.redelete \subseteq journal.deleted
  /\ \A i \in DOMAIN journal.decisions :
       journal.decisions[i] \in [res : Objects, uid : Uids, result : Results]
  /\ \A i, k \in DOMAIN journal.decisions :
       journal.decisions[i].res = journal.decisions[k].res => i = k
  /\ newcomer \in {"none", "created", "loaded"}
  /\ job.at \in Places /\ job.polls \in 0..MaxPolls
  /\ completed \in BOOLEAN

\* Apart from the main execution, a DELETE takes effect only on an incarnation
\* for which a decision is on disk that is not yet settled (executor.rs, "Record
\* decision BEFORE mutation"; workflow.rs, the DELETEs of a resume).
TouchedIsDecided ==
  [][\A t \in touched' \ touched :
       At("main") \/ AnyDecision(LAMBDA d : d.res = t[1] /\ d.uid = t[2] /\ Pending(d))]_vars

\* What the journal says is gone is gone: that incarnation does not exist, even
\* when the endpoint was away or another object has its name (executor.rs, the
\* waits; workflow.rs, the reconciliation of DeleteRequested).
GoneIsGone ==
  \A i \in DOMAIN journal.decisions :
    Decided(journal.decisions[i]) => ~Is(journal.decisions[i])

\* When the run is reported complete, nothing is left that it deleted, in the
\* main execution, again, or as a residual, and no decision is open or failed;
\* whatever was lost, paused or resumed before (workflow.rs require_completed).
NothingHalfDeleted ==
  completed =>
    /\ journal.state = "ApplyCompleted" \/ Locked
    /\ \A t \in touched : ~Is([res |-> t[1], uid |-> t[2]])
    /\ \A i \in DOMAIN journal.decisions : Decided(journal.decisions[i])

\* While it is not known what became of a DELETE no other one is begun: one
\* decision at most is open, and it is the last (executor.rs, "outcome unknown
\* or blocked", and the wait that stops the cleanup), through all resumes.
OneOpenDecision ==
  \A i \in DOMAIN journal.decisions :
    Pending(journal.decisions[i]) => i = Len(journal.decisions)

\* A run that has failed is not taken up again, not even by a process that read
\* the journal before it failed (workflow.rs, "Re-verify after lock").
FailedIsFinal == [][journal.state = "Failed" => journal' = journal]_vars

\* Every wait is bounded: a process that holds the lock ends, unless its main
\* execution goes on deleting (executor.rs, workflow.rs, audit.rs settle_loop).
CleanupEnds == []<>~Locked

\* "UnknownOutcome is NOT hard failure -- it needs reconciliation on resume"
\* (journal.rs, is_hard_failed): a decision that is open is settled when the run
\* is resumed and resumed.
PendingIsResolved == AnyDecision(Pending) ~> ~AnyDecision(Pending)
=============================================================================
