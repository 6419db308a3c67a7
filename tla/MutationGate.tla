---------------------------- MODULE MutationGate ----------------------------
(***************************************************************************)
(* The gate every mutation of a teardown passes through                    *)
(* (src/src/teardown/permit.rs) with the tasks that use it the way the     *)
(* executor does: acquire a permit, call the API server, write the         *)
(* checkpoint, drop the permit.  Ctrl-C closes the gate and drains it      *)
(* (src/src/commands/teardown.rs).                                         *)
(*                                                                         *)
(* The atomics and the semaphore are separate steps, because the code      *)
(* reads `open` twice, around an await on the semaphore.  The semaphore is *)
(* tokio's: fair, so whoever asks while others wait queues behind them,    *)
(* and acquire_many waits for all its permits.                             *)
(***************************************************************************)
EXTENDS Integers, Sequences, FiniteSets

CONSTANTS
  Tasks,       \* the tasks that mutate
  MaxPermits,  \* MutationGate::new(max_concurrent)
  Closer       \* the Ctrl-C task, which runs close_and_drain

ASSUME GateAssumption ==
  /\ IsFiniteSet(Tasks)
  /\ MaxPermits \in Nat \ {0}
  /\ Closer \notin Tasks

VARIABLES
  open,       \* MutationGate.open
  cancelled,  \* the value of the cancel watch channel
  avail,      \* permits in the semaphore
  queue,      \* who waits for the semaphore, first come first served
  pc,         \* pc[t]: where task t is between acquire and the permit's drop
  drain,      \* where close_and_drain is
  outcome     \* outcome[t]: what the journal knows of t's last mutation

gateVars == <<open, cancelled, avail, queue, drain>>
vars == <<open, cancelled, avail, queue, pc, drain, outcome>>

\* The program counters at which a task owns a permit, and among them those
\* at which acquire has returned it to the caller.
Holding  == {"granted", "admitted", "issued", "recorded"}
Admitted == {"admitted", "issued", "recorded"}

Init ==
  /\ open = TRUE
  /\ cancelled = FALSE
  /\ avail = MaxPermits
  /\ queue = <<>>
  /\ pc = [t \in Tasks |-> "idle"]
  /\ drain = "idle"
  /\ outcome = [t \in Tasks |-> "none"]

Goto(t, from, to) ==
  /\ pc[t] = from
  /\ pc' = [pc EXCEPT ![t] = to]
-----------------------------------------------------------------------------
(***************************************************************************)
(* acquire                                                                 *)
(***************************************************************************)

\* The fast path: a closed gate turns the caller away.
FastCheck(t) ==
  /\ Goto(t, "idle", "checked")
  /\ open
  /\ UNCHANGED <<gateVars, outcome>>

\* acquire_owned: take a permit at once or queue for one.
Acquire(t) ==
  \/ /\ Goto(t, "checked", "granted")
     /\ queue = <<>> /\ avail >= 1
     /\ avail' = avail - 1
     /\ UNCHANGED <<open, cancelled, queue, drain, outcome>>
  \/ /\ Goto(t, "checked", "waiting")
     /\ queue # <<>> \/ avail = 0
     /\ queue' = Append(queue, t)
     /\ UNCHANGED <<open, cancelled, avail, drain, outcome>>

\* The semaphore serves the task at the head of its queue.
GrantTask(t) ==
  /\ queue # <<>> /\ Head(queue) = t /\ avail >= 1
  /\ queue' = Tail(queue)
  /\ Goto(t, "waiting", "granted")
  /\ avail' = avail - 1
  /\ UNCHANGED <<open, cancelled, drain, outcome>>

DoubleCheckForgotten(t) ==
  /\ Goto(t, "granted", "admitted")
  /\ UNCHANGED <<gateVars, outcome>>

DoubleCheckLeak(t) ==
  \/ /\ Goto(t, "granted", "admitted")
     /\ open
     /\ UNCHANGED <<gateVars, outcome>>
  \/ /\ Goto(t, "granted", "idle")
     /\ ~open
     /\ UNCHANGED <<gateVars, outcome>>

\* The second read of `open`, with the permit in hand: the gate may have
\* closed meanwhile, and then the permit goes back.
DoubleCheck(t) ==
  \/ /\ Goto(t, "granted", "admitted")
     /\ open
     /\ UNCHANGED <<gateVars, outcome>>
  \/ /\ Goto(t, "granted", "idle")
     /\ ~open
     /\ avail' = avail + 1
     /\ UNCHANGED <<open, cancelled, queue, drain, outcome>>
-----------------------------------------------------------------------------
(***************************************************************************)
(* What a caller does with the permit                                      *)
(***************************************************************************)

\* The API call is made: from here on the cluster may have changed.
Issue(t) ==
  /\ Goto(t, "admitted", "issued")
  /\ outcome' = [outcome EXCEPT ![t] = "pending"]
  /\ UNCHANGED gateVars

\* The journal update that follows the call; the write may fail.
Checkpoint(t) ==
  /\ Goto(t, "issued", "recorded")
  /\ \E result \in {"durable", "write failed"} :
       outcome' = [outcome EXCEPT ![t] = result]
  /\ UNCHANGED gateVars

DropPermitEarly(t) ==
  /\ \/ Goto(t, "recorded", "idle")
     \/ Goto(t, "issued", "idle")
  /\ avail' = avail + 1
  /\ UNCHANGED <<open, cancelled, queue, drain, outcome>>

\* The permit goes out of scope.
DropPermit(t) ==
  /\ Goto(t, "recorded", "idle")
  /\ avail' = avail + 1
  /\ UNCHANGED <<open, cancelled, queue, drain, outcome>>
-----------------------------------------------------------------------------
(***************************************************************************)
(* close_and_drain and reopen                                              *)
(***************************************************************************)

Close ==
  /\ drain = "idle"
  /\ open' = FALSE
  /\ drain' = "closed"
  /\ UNCHANGED <<cancelled, avail, queue, pc, outcome>>

SendCancel ==
  /\ drain = "closed"
  /\ cancelled' = TRUE
  /\ drain' = "cancel sent"
  /\ UNCHANGED <<open, avail, queue, pc, outcome>>

DrainAcquireOne ==
  /\ drain = "cancel sent"
  /\ queue = <<>> /\ avail >= 1
  /\ avail' = 0
  /\ drain' = "holding"
  /\ UNCHANGED <<open, cancelled, queue, pc, outcome>>

\* acquire_many(max_permits): every permit at once, or a place in the queue.
DrainAcquire ==
  /\ drain = "cancel sent"
  /\ \/ /\ queue = <<>> /\ avail = MaxPermits
        /\ avail' = 0
        /\ drain' = "holding"
        /\ UNCHANGED queue
     \/ /\ queue # <<>> \/ avail < MaxPermits
        /\ queue' = Append(queue, Closer)
        /\ drain' = "waiting"
        /\ UNCHANGED avail
  /\ UNCHANGED <<open, cancelled, pc, outcome>>

GrantDrain ==
  /\ drain = "waiting"
  /\ queue # <<>> /\ Head(queue) = Closer /\ avail = MaxPermits
  /\ queue' = Tail(queue)
  /\ avail' = 0
  /\ drain' = "holding"
  /\ UNCHANGED <<open, cancelled, pc, outcome>>

DropDrainForgotten ==
  /\ drain = "holding"
  /\ drain' = "drained"
  /\ UNCHANGED <<open, cancelled, avail, queue, pc, outcome>>

\* The drained permits are dropped at once and close_and_drain returns.
DropDrain ==
  /\ drain = "holding"
  /\ avail' = avail + MaxPermits
  /\ drain' = "drained"
  /\ UNCHANGED <<open, cancelled, queue, pc, outcome>>

\* reopen is two stores, for use after a pause; no command calls it yet.
Reopen ==
  /\ drain = "drained"
  /\ open' = TRUE
  /\ drain' = "reopening"
  /\ UNCHANGED <<cancelled, avail, queue, pc, outcome>>

ResetCancel ==
  /\ drain = "reopening"
  /\ cancelled' = FALSE
  /\ drain' = "idle"
  /\ UNCHANGED <<open, avail, queue, pc, outcome>>
-----------------------------------------------------------------------------
TaskStep(t) ==
  \/ FastCheck(t) \/ Acquire(t) \/ GrantTask(t) \/ DoubleCheck(t)
  \/ Issue(t) \/ Checkpoint(t) \/ DropPermit(t)

CloserStep ==
  \/ Close \/ SendCancel \/ DrainAcquire \/ GrantDrain \/ DropDrain
  \/ Reopen \/ ResetCancel

Next == CloserStep \/ \E t \in Tasks : TaskStep(t)

(***************************************************************************)
(* A task that has begun goes on: API calls and journal writes return (the *)
(* client has a timeout), a woken waiter runs, and close_and_drain, once   *)
(* called, runs to its end.  Nobody has to start a mutation, press Ctrl-C  *)
(* or reopen the gate.                                                     *)
(***************************************************************************)
Fairness ==
  /\ \A t \in Tasks :
       WF_vars(Acquire(t) \/ GrantTask(t) \/ DoubleCheck(t)
                 \/ Issue(t) \/ Checkpoint(t) \/ DropPermit(t))
  /\ WF_vars(SendCancel \/ DrainAcquire \/ GrantDrain \/ DropDrain \/ ResetCancel)

Spec == Init /\ [][Next]_vars /\ Fairness
-----------------------------------------------------------------------------
(***************************************************************************)
(* Properties                                                              *)
(***************************************************************************)

Holders == {t \in Tasks : pc[t] \in Holding}

TypeOK ==
  /\ open \in BOOLEAN /\ cancelled \in BOOLEAN
  /\ avail \in 0..MaxPermits
  /\ queue \in Seq(Tasks \union {Closer})
  /\ pc \in [Tasks -> Holding \union {"idle", "checked", "waiting"}]
  /\ drain \in {"idle", "closed", "cancel sent", "waiting", "holding",
                "drained", "reopening"}
  /\ outcome \in [Tasks -> {"none", "pending", "durable", "write failed"}]

\* permit.rs, "when close_and_drain returns, every admitted mutation has a
\* durable outcome": after the drain no task is inside a mutation and no
\* mutation waits for its checkpoint.
DrainedIsSettled ==
  drain = "drained" =>
    \A t \in Tasks : pc[t] \notin Admitted /\ outcome[t] # "pending"

\* permit.rs, "No new permits can be acquired": from the moment the gate is
\* closed until it is reopened, no step admits a mutation, whoever was already
\* past the first check or waiting in the queue.
NoAdmissionWhileClosed ==
  [][~open => \A t \in Tasks :
        pc'[t] \in Admitted => pc[t] \in Admitted]_vars

\* A pause that was asked for completes: close_and_drain returns, whatever
\* acquirers are in the queue before it.
CloseCompletes == (drain = "closed") ~> (drain = "drained")

\* Nobody is left hanging in the semaphore's queue, pause or no pause: a
\* waiting acquire returns, with a permit or with an error.
WaiterIsServed == \A t \in Tasks : (pc[t] = "waiting") ~> (pc[t] # "waiting")

\* The gate implements PauseContract: a task is in flight while it holds an
\* admitted permit, and the pause is complete when close_and_drain holds or
\* has held every permit.
Contract == INSTANCE PauseContract WITH
  phase    <- IF drain \in {"idle", "reopening"} THEN "running"
              ELSE IF drain \in {"holding", "drained"} THEN "paused"
              ELSE "pausing",
  inflight <- {t \in Tasks : pc[t] \in Admitted}

ImplementsContract == Contract!ContractSpec
=============================================================================
