------------------------------ MODULE Barrier ------------------------------
(***************************************************************************)
(* The barrier between two phases of a teardown: wait_for_gone_cancellable *)
(* with its reconcile GETs and its WATCH task (src/src/teardown/watch.rs)  *)
(* over the runtime store (RuntimeEntry), against a cluster that deletes,  *)
(* recreates and stops serving the targets meanwhile.                      *)
(*                                                                         *)
(* A GET or a LIST takes what the server has at one moment; its answer is  *)
(* applied at a later one, and anything may happen in between.  The        *)
(* targets are of one kind and namespace, so one WATCH task follows them.  *)
(* It runs one stream after the other, so that no event of an older stream *)
(* arrives after a newer one's and the stream ids are left out.            *)
(***************************************************************************)
EXTENDS RuntimeEntry, Sequences, FiniteSets

CONSTANTS
  Resources,    \* the barrier's targets
  Recreatable   \* those a controller creates again, once

ASSUME BarrierAssumption ==
  /\ IsFiniteSet(Resources) /\ Resources # {}
  /\ Recreatable \subseteq Resources

MaxUid == 2
MaxFins == 1
MaxUnknownRetries == 3

VARIABLES
  life,      \* life[r]: the versions of r in the cluster, the last one is live
  served,    \* the API server serves the targets' endpoint
  entry,     \* the runtime store
  pc,        \* where wait_for_gone_cancellable is
  asked,     \* the targets of the reconcile under way
  pending,   \* those among them whose GET has not been answered
  got,       \* got[r]: the version the last answered GET of r returned
  failed,    \* the targets whose last GET failed
  stream,    \* the WATCH task: "off", "listed" or "watching"
  at,        \* at[r]: the version the WATCH task has reached
  unknowns,  \* consecutive_unknown_cycles
  cancelled, \* the cancel signal
  result,    \* the WatchWaitResult
  absent     \* history: the targets absent at some moment of the round under way

cluster == <<life, served>>
rounds  == <<asked, pending, got, failed, absent>>
watch   == <<stream, at>>
vars == <<life, served, entry, pc, asked, pending, got, failed, stream, at,
          unknowns, cancelled, result, absent>>

Live(r) == life[r][Len(life[r])]

\* The targets that are absent now; only a served endpoint can tell.
AbsentNow == {r \in Resources : ~Exists(Live(r)) /\ served}

\* The executor has deleted a target, which left a deletionTimestamp or, where
\* no finalizer holds the object, nothing; or it expects it to go without one.
Init ==
  /\ life \in [Resources -> {<<v>> : v \in {Absent} \union Version(1, MaxFins)}]
  /\ \A r \in Resources : Exists(life[r][1]) \/ life[r][1] = Absent
  /\ served = TRUE
  /\ entry = [r \in Resources |->
                Registered(IF Exists(Live(r)) /\ ~Live(r).deleting
                           THEN "ExpectingGone" ELSE "DeleteRequested", 1)]
  /\ pc = "initial"
  /\ asked = Resources /\ pending = Resources
  /\ got = [r \in Resources |-> 0] /\ failed = {}
  /\ stream = "off" /\ at = [r \in Resources |-> 0]
  /\ unknowns = 0
  /\ cancelled = FALSE
  /\ result = "none"
  /\ absent = AbsentNow

Waiting == result = "none"

\* While the GETs of all the targets are under way.
FullRound == {"initial", "reconcile"}
-----------------------------------------------------------------------------
(***************************************************************************)
(* The cluster: external, as the code expects it to behave                 *)
(***************************************************************************)

Become(r, v) ==
  /\ Waiting
  /\ life' = [life EXCEPT ![r] = Append(@, v)]
  /\ absent' = IF pc \in FullRound /\ ~Exists(v) /\ served THEN absent \union {r} ELSE absent
  /\ UNCHANGED <<served, entry, pc, asked, pending, got, failed, watch, unknowns,
                 cancelled, result>>

\* The owner or the garbage collector deletes an object that is expected to go.
\* A recreated one stays: the executor deletes it again after the wait.
Mark(r) ==
  /\ Live(r).uid = 1 /\ ~Live(r).deleting
  /\ Become(r, [Live(r) EXCEPT !.deleting = TRUE])

DropFinalizer(r) ==
  /\ Live(r).deleting /\ Live(r).fins > 0
  /\ Become(r, [Live(r) EXCEPT !.fins = @ - 1])

Vanish(r) ==
  /\ Live(r).deleting /\ Live(r).fins = 0
  /\ Become(r, Absent)

Recreate(r) ==
  /\ r \in Recreatable /\ ~Exists(Live(r)) /\ served
  /\ \A i \in DOMAIN life[r] : life[r][i].uid < MaxUid
  /\ Become(r, [uid |-> MaxUid, deleting |-> FALSE, fins |-> 0])

\* The endpoint goes away, with its CRD or its API service, and stays away.
EndpointGone ==
  /\ Waiting /\ served
  /\ served' = FALSE
  /\ UNCHANGED <<life, entry, pc, rounds, watch, unknowns, cancelled, result>>
-----------------------------------------------------------------------------
(***************************************************************************)
(* reconcile: parallel GETs, applied together when all have answered       *)
(***************************************************************************)

Fetching == pc \in {"initial", "verify", "reconcile"}

\* observe_resource: the GET is answered with the live version, or fails.  A
\* 404 counts only when a LIST of the same endpoint succeeds.
Get(r) ==
  /\ Fetching /\ r \in pending
  /\ pending' = pending \ {r}
  /\ \/ /\ served
        /\ got' = [got EXCEPT ![r] = Len(life[r])]
        /\ failed' = failed \ {r}
     \/ /\ failed' = failed \union {r}
        /\ UNCHANGED got
  /\ UNCHANGED <<cluster, entry, pc, asked, watch, unknowns, cancelled, result, absent>>

FailureIsAbsence(r) ==
  IF r \notin asked THEN {entry[r]}
  ELSE IF r \in failed THEN Authoritative(entry[r], Absent)
  ELSE Authoritative(entry[r], life[r][got[r]])

\* What the round makes of an entry: an answer is authoritative, a failed GET
\* makes the target unknown.
Observed(r) ==
  IF r \notin asked THEN {entry[r]}
  ELSE IF r \in failed THEN {Unobserved(entry[r])}
  ELSE Authoritative(entry[r], life[r][got[r]])

\* The store with each entry replaced by one of the outcomes `outcomes` allows.
StoreBecomes(outcomes(_)) ==
  entry' \in {e \in [Resources -> UNION {outcomes(r) : r \in Resources}] :
               \A r \in Resources : e[r] \in outcomes(r)}

StartRound(stage, targets) ==
  /\ pc' = stage
  /\ asked' = targets /\ pending' = targets /\ failed' = {}
  /\ absent' = IF stage \in FullRound THEN AbsentNow ELSE {}

\* The answers are in: the store takes them, and the wait goes on to the next
\* round or judges what it has.
Apply ==
  /\ Fetching /\ pending = {}
  /\ StoreBecomes(Observed)
  /\ got' = [r \in Resources |-> 0]
  /\ \/ /\ pc = "initial" /\ pc' = "first look"
        /\ UNCHANGED <<asked, pending, absent>>
     \/ /\ pc = "verify" /\ pc' = "reconcile"
        /\ asked' = Resources /\ pending' = Resources
        /\ absent' = AbsentNow
     \/ /\ pc = "reconcile" /\ pc' = "judge"
        /\ UNCHANGED <<asked, pending, absent>>
  /\ UNCHANGED <<cluster, failed, watch, unknowns, cancelled, result>>
-----------------------------------------------------------------------------
(***************************************************************************)
(* wait_for_gone_cancellable                                               *)
(***************************************************************************)

AllGone == \A r \in Resources :
  entry[r].state = "Gone" /\ ~entry[r].needs_verification

In(states) == {r \in Resources : entry[r].state \in states}

Return(res) == result' = res /\ pc' = "returned"

\* last_progress_check = now
Noticed == [r \in Resources |-> [entry[r] EXCEPT !.progressed = FALSE]]

\* After the initial reconcile: done already, or start the WATCH task and the
\* timers.
FirstLook ==
  /\ pc = "first look"
  /\ IF AllGone THEN Return("AllGone") ELSE pc' = "top" /\ UNCHANGED result
  /\ entry' = Noticed
  /\ UNCHANGED <<cluster, rounds, watch, unknowns, cancelled>>

\* The top of the loop: hinted targets first, then all of them.
Top ==
  /\ pc = "top" /\ ~cancelled
  /\ LET hinted == {r \in Resources : entry[r].needs_verification}
     IN  IF hinted # {} THEN StartRound("verify", hinted)
                        ELSE StartRound("reconcile", Resources)
  /\ UNCHANGED <<cluster, entry, got, watch, unknowns, cancelled, result>>

JudgeAllGone ==
  /\ pc = "judge" /\ AllGone
  /\ Return("AllGone")
  /\ UNCHANGED <<cluster, entry, rounds, watch, unknowns, cancelled>>

JudgeUnknownForever ==
  /\ pc = "judge" /\ ~AllGone /\ In({"Unknown"}) # {}
  /\ pc' = "backoff"
  /\ UNCHANGED <<unknowns, result>>
  /\ UNCHANGED <<cluster, entry, rounds, watch, cancelled>>

JudgeUnknownLate ==
  /\ pc = "judge" /\ ~AllGone /\ In({"Unknown"}) # {}
  /\ unknowns' = unknowns + 1
  /\ IF unknowns' > MaxUnknownRetries
     THEN Return("unreachable")
     ELSE pc' = "backoff" /\ UNCHANGED result
  /\ UNCHANGED <<cluster, entry, rounds, watch, cancelled>>

\* A target is unknown: try again, and give up at the third time in a row.
JudgeUnknown ==
  /\ pc = "judge" /\ ~AllGone /\ In({"Unknown"}) # {}
  /\ unknowns' = unknowns + 1
  /\ IF unknowns' >= MaxUnknownRetries
     THEN Return("unreachable")
     ELSE pc' = "backoff" /\ UNCHANGED result
  /\ UNCHANGED <<cluster, entry, rounds, watch, cancelled>>

\* Every target was observed: the timeout, a recreated target and a stall end
\* the wait, in this order.  How long it has lasted is left open.
JudgedKnown == pc = "judge" /\ ~AllGone /\ In({"Unknown"}) = {}

JudgeTimeout ==
  /\ JudgedKnown
  /\ unknowns' = 0
  /\ entry' = Noticed
  /\ Return("timeout")
  /\ UNCHANGED <<cluster, rounds, watch, cancelled>>

JudgeKnown ==
  /\ JudgedKnown
  /\ unknowns' = 0
  /\ entry' = Noticed
  /\ \/ /\ In({"Recreated"}) # {}
        /\ Return("Recreated")
     \/ /\ In({"Recreated"}) = {}
        /\ pc' = "wait" /\ UNCHANGED result
     \/ /\ In({"Recreated"}) = {}
        /\ In({"Deleting", "FinalizerBlocked", "Stalled"}) # {}
        /\ \A r \in Resources : ~entry[r].progressed
        /\ Return("Stalled")
  /\ UNCHANGED <<cluster, rounds, watch, cancelled>>

\* A hint, the five seconds' poll, or the end of the back-off.
Wake ==
  /\ pc \in {"wait", "backoff"}
  /\ pc' = "top"
  /\ UNCHANGED <<cluster, entry, rounds, watch, unknowns, cancelled, result>>

CancelAtTop ==
  /\ cancelled /\ pc = "top"
  /\ Return("Cancelled")
  /\ UNCHANGED <<cluster, entry, rounds, watch, unknowns, cancelled>>

\* Every await of the wait is raced against the cancel signal.
Cancel ==
  /\ cancelled
  /\ Fetching \/ pc \in {"top", "wait", "backoff"}
  /\ Return("Cancelled")
  /\ UNCHANGED <<cluster, entry, rounds, watch, unknowns, cancelled>>

\* Ctrl-C, from another task.
Interrupt ==
  /\ Waiting /\ ~cancelled
  /\ cancelled' = TRUE
  /\ UNCHANGED <<cluster, entry, pc, rounds, watch, unknowns, result>>
-----------------------------------------------------------------------------
(***************************************************************************)
(* run_watch_loop, alive from the first look until the wait returns        *)
(***************************************************************************)

Watching == Waiting /\ pc \notin {"initial", "first look"}

\* LIST, for a resourceVersion to watch from.
List ==
  /\ Watching /\ stream = "off" /\ served
  /\ stream' = "listed"
  /\ at' = [r \in Resources |-> Len(life[r])]
  /\ UNCHANGED <<cluster, entry, pc, rounds, unknowns, cancelled, result>>

\* The LIST's items are applied as authoritative; an absent target has none.
ApplyList ==
  /\ Watching /\ stream = "listed"
  /\ stream' = "watching"
  /\ LET Listed(r) == IF Exists(life[r][at[r]]) THEN Authoritative(entry[r], life[r][at[r]])
                      ELSE {entry[r]}
     IN  StoreBecomes(Listed)
  /\ UNCHANGED <<cluster, pc, rounds, at, unknowns, cancelled, result>>

\* The next event of the stream, in the order of the changes.
Event(r) ==
  /\ Watching /\ stream = "watching" /\ at[r] < Len(life[r])
  /\ at' = [at EXCEPT ![r] = @ + 1]
  /\ \E e \in NonAuthoritative(entry[r], life[r][at'[r]]) : entry' = [entry EXCEPT ![r] = e]
  /\ UNCHANGED <<cluster, pc, rounds, stream, unknowns, cancelled, result>>

\* An error, a 410 or the stream's own timeout: list again.
Disconnect ==
  /\ Watching /\ stream = "watching"
  /\ stream' = "off"
  /\ at' = [r \in Resources |-> 0]
  /\ UNCHANGED <<cluster, entry, pc, rounds, unknowns, cancelled, result>>
-----------------------------------------------------------------------------
Cluster ==
  \/ EndpointGone
  \/ \E r \in Resources : Mark(r) \/ DropFinalizer(r) \/ Vanish(r) \/ Recreate(r)

Loop ==
  \/ Apply \/ FirstLook \/ Top \/ JudgeAllGone \/ JudgeUnknown \/ JudgeKnown
  \/ JudgeTimeout \/ Wake \/ Cancel

WatchTask ==
  List \/ ApplyList \/ Disconnect \/ \E r \in Resources : Event(r)

Answer == \E r \in Resources : Get(r)

Next == Cluster \/ Answer \/ Loop \/ WatchTask \/ Interrupt

(***************************************************************************)
(* The wait's own steps are scheduled, and a wait that keeps looking is    *)
(* at last past its timeout.  The API server need not answer, and the      *)
(* cluster need not delete anything.                                       *)
(***************************************************************************)
Spec == Init /\ [][Next]_vars /\ WF_vars(Loop) /\ SF_vars(JudgeTimeout)
-----------------------------------------------------------------------------
(***************************************************************************)
(* Properties                                                              *)
(***************************************************************************)

TypeOK ==
  /\ \A r \in Resources : \A i \in DOMAIN life[r] : life[r][i] \in Version(MaxUid, MaxFins)
  /\ entry \in [Resources -> Entry(MaxUid, MaxFins)]
  /\ pc \in {"initial", "first look", "top", "verify", "reconcile", "judge",
             "wait", "backoff", "returned"}
  /\ pending \subseteq asked /\ asked \subseteq Resources /\ failed \subseteq Resources
  /\ \A r \in Resources : got[r] <= Len(life[r]) /\ at[r] <= Len(life[r])
  /\ stream \in {"off", "listed", "watching"}
  /\ unknowns \in 0..MaxUnknownRetries
  /\ result \in {"none", "AllGone", "Cancelled", "unreachable", "timeout", "Recreated", "Stalled"}

\* The barrier passes only when each target was really absent, from an endpoint
\* that was served, at some moment of the last round of GETs: no answer of an
\* earlier round, no WATCH event and no missing endpoint can pass it.
AllGoneIsFresh == result = "AllGone" => absent = Resources

\* When the barrier reports a recreation, some target really came back under
\* another uid than the one that was deleted: a 404 that was transient and a
\* LIST that was late are not recreations.
RecreationHappened ==
  result = "Recreated" =>
    \E r \in Resources : \E i \in DOMAIN life[r] : life[r][i].uid > 1

\* watch.rs, test_barrier_cancel_returns_quickly_during_stalled_get: a cancelled
\* wait returns although the API server never answers again.
CancelReturns == cancelled ~> ~Waiting

\* As long as GETs come back, the wait ends: neither a cluster that deletes
\* nothing nor an API that fails every other time keeps it for ever.
WaitEnds == WF_vars(Answer) => <>~Waiting
=============================================================================
