---------------------------- MODULE MCExecution ----------------------------
(* Two roots R and C behind a barrier, then a CRD D with an expected          *)
(* dependent E behind another.  E may be the dependent of D, of its own       *)
(* phase, or of R, of the phase before.  R and E may be recreated, both have  *)
(* a finalizer.                                                               *)
EXTENDS Execution

CONSTANTS R, C, E, D

MCPhases == <<[delete |-> {R, C}, expect |-> {}, barrier |-> TRUE],
              [delete |-> {D}, expect |-> {E}, barrier |-> TRUE]>>
MCOwners == [e \in {E} |-> {R, D}]
=============================================================================
