--------------------------- MODULE MCMutationGate ---------------------------
(* Three tasks compete for two permits, so that one waits while the gate   *)
(* closes; the drain can queue before it, behind it or between two waiters. *)
EXTENDS MutationGate
=============================================================================
