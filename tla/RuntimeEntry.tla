---------------------------- MODULE RuntimeEntry ----------------------------
(***************************************************************************)
(* What the runtime store keeps about one tracked resource and how an      *)
(* observation changes it (src/src/teardown/runtime.rs), as operators on   *)
(* one entry, without the lock and the map around it.                      *)
(*                                                                         *)
(* A version is what the API server returns for the resource: its uid (0   *)
(* when it is absent), whether it carries a deletionTimestamp, and how     *)
(* many finalizers it has.  Of last_meaningful_progress the entry keeps    *)
(* whether the barrier has seen it yet; whether the stall threshold has    *)
(* passed since is left open, so an observation has several outcomes and   *)
(* the operators return the set of them.                                   *)
(***************************************************************************)
EXTENDS Naturals

Version(maxUid, maxFins) ==
  [uid : 0..maxUid, deleting : BOOLEAN, fins : 0..maxFins]

Absent == [uid |-> 0, deleting |-> FALSE, fins |-> 0]

Exists(v) == v.uid # 0

States == {"DeleteRequested", "ExpectingGone", "Deleting", "Gone", "Recreated",
           "FinalizerBlocked", "Stalled", "Unknown"}

Entry(maxUid, maxFins) ==
  [state : States, uid : 1..maxUid, fins : 0..maxFins,
   needs_verification : BOOLEAN, progressed : BOOLEAN]

\* register, with the state the executor gives it
Registered(state, uid) ==
  [state |-> state, uid |-> uid, fins |-> 0,
   needs_verification |-> FALSE, progressed |-> FALSE]

\* last_meaningful_progress = now
Progress(e) == [e EXCEPT !.progressed = TRUE]

\* is_meaningful_transition, for the transitions an observation can make
Meaningful(prev, new, fewerFinalizers) ==
  \/ new = "Deleting" /\ prev # "Deleting"
  \/ new = "FinalizerBlocked" /\ prev \notin {"FinalizerBlocked", "Deleting", "Stalled"}
  \/ new = "Gone"
  \/ fewerFinalizers

\* apply_state_transition: the object is there, with the uid the entry tracks.
\* Without progress the entry may have stalled meanwhile.
Transition(e, v) ==
  LET state == IF ~v.deleting THEN e.state
               ELSE IF v.fins > 0 THEN "FinalizerBlocked" ELSE "Deleting"
      next  == [e EXCEPT !.state = state, !.fins = v.fins]
  IN  IF Meaningful(e.state, state, v.fins < e.fins) THEN {Progress(next)}
      ELSE IF state \in {"Deleting", "DeleteRequested", "FinalizerBlocked", "ExpectingGone"}
           THEN {next, [next EXCEPT !.state = "Stalled"]}
           ELSE {next}

Recreated(e, v) == Progress([e EXCEPT !.state = "Recreated", !.uid = v.uid])

ReappearedIsRecreated(e, v) == Recreated(e, v)

\* An object that was Gone is there again: a new uid is a new object, the same
\* uid means the 404 was transient.
Reappeared(e, v) ==
  IF v.uid # e.uid THEN Recreated(e, v) ELSE Progress([e EXCEPT !.state = "Unknown"])

\* apply_authoritative: the answer of a GET or of a LIST.
Authoritative(e, v) ==
  LET seen == [e EXCEPT !.needs_verification = FALSE]
  IN  IF ~Exists(v)
      THEN IF e.state = "Gone" THEN {seen}
           ELSE {Progress([seen EXCEPT !.state = "Gone", !.fins = 0])}
      ELSE IF e.state = "Gone" THEN {Reappeared(seen, v)}
      ELSE IF v.uid # e.uid THEN {Recreated(seen, v)}
      ELSE Transition(seen, v)

Hinted(e) == [e EXCEPT !.needs_verification = TRUE]

WatchDeletedIsGone(e, v) ==
  IF ~Exists(v) THEN {Progress([e EXCEPT !.state = "Gone", !.fins = 0])}
  ELSE IF v.uid # e.uid THEN {Hinted(e)}
  ELSE Transition(e, v)

\* apply_non_authoritative: a WATCH event.  It may ask for a GET, but neither
\* confirm an absence nor change the tracked uid.
NonAuthoritative(e, v) ==
  IF ~Exists(v) THEN {IF e.state = "Gone" THEN e ELSE Hinted(e)}
  ELSE IF v.uid # e.uid THEN {Hinted(e)}
  ELSE Transition(e, v)

\* update_from_executor(Unknown): the observation failed.
Unobserved(e) == [e EXCEPT !.state = "Unknown", !.needs_verification = FALSE]
=============================================================================
