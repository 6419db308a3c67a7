----------------------------- MODULE MCBarrier -----------------------------
(* One target, deleted or expected to go, with or without a finalizer,     *)
(* that a controller may create again: the versions it goes through, the   *)
(* GETs of the wait and the WATCH stream interleave in every way.          *)
EXTENDS Barrier
CONSTANTS r1
=============================================================================
