-------------------------- MODULE TeardownContract --------------------------
(***************************************************************************)
(* What a teardown promises about the objects its plan deletes, as one     *)
(* sees it from outside src/src/teardown/executor.rs: they are deleted     *)
(* phase after phase, a phase is not begun before the objects of the       *)
(* phases before it are gone, and the run is reported complete only when   *)
(* all of them are.                                                        *)
(***************************************************************************)
EXTENDS Naturals

CONSTANTS
  Planned,   \* the objects the plan deletes
  PhaseOf    \* PhaseOf[r]: the phase that deletes r

VARIABLES
  requested,  \* the objects a DELETE of the run took effect on
  gone,       \* the objects that are gone, by whose hand ever
  complete    \* the run is reported complete

contractVars == <<requested, gone, complete>>

ContractInit ==
  /\ requested = {}
  /\ gone \subseteq Planned
  /\ complete = FALSE

Request(r) ==
  /\ r \notin requested
  /\ \A s \in Planned : PhaseOf[s] < PhaseOf[r] => s \in gone
  /\ requested' = requested \union {r}
  /\ UNCHANGED <<gone, complete>>

\* An object that is gone does not come back: what a controller creates under
\* its name is another object.
Go(r) ==
  /\ r \notin gone
  /\ gone' = gone \union {r}
  /\ UNCHANGED <<requested, complete>>

Report ==
  /\ gone = Planned
  /\ complete' = TRUE
  /\ UNCHANGED <<requested, gone>>

ContractNext ==
  \/ \E r \in Planned : Request(r) \/ Go(r)
  \/ Report

ContractSpec == ContractInit /\ [][ContractNext]_contractVars
=============================================================================
