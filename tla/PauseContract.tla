--------------------------- MODULE PauseContract ---------------------------
(***************************************************************************)
(* What a pausable teardown promises, as one sees it from outside          *)
(* src/src/teardown/permit.rs: mutations are admitted only while the run   *)
(* is running, and a pause is complete only when nothing is in flight.     *)
(***************************************************************************)

CONSTANT Tasks

VARIABLES
  phase,     \* "running", "pausing" or "paused"
  inflight   \* the tasks whose mutation is admitted and not yet settled

contractVars == <<phase, inflight>>

ContractInit ==
  /\ phase = "running"
  /\ inflight = {}

\* A mutation is admitted: only while nobody asked for a pause.
Admit(t) ==
  /\ phase = "running"
  /\ t \notin inflight
  /\ inflight' = inflight \union {t}
  /\ UNCHANGED phase

\* The mutation and the checkpoint that follows it are over.
Settle(t) ==
  /\ t \in inflight
  /\ inflight' = inflight \ {t}
  /\ UNCHANGED phase

AskPause ==
  /\ phase = "running"
  /\ phase' = "pausing"
  /\ UNCHANGED inflight

\* The pause is reported complete: nothing is in flight.
Paused ==
  /\ phase = "pausing"
  /\ inflight = {}
  /\ phase' = "paused"
  /\ UNCHANGED inflight

Unpause ==
  /\ phase = "paused"
  /\ phase' = "running"
  /\ UNCHANGED inflight

ContractNext ==
  \/ \E t \in Tasks : Admit(t) \/ Settle(t)
  \/ AskPause \/ Paused \/ Unpause

ContractSpec == ContractInit /\ [][ContractNext]_contractVars
=============================================================================
