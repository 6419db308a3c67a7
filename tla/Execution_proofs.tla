-------------------------- MODULE Execution_proofs --------------------------
(***************************************************************************)
(* What the journal says is completed is gone, for any plan, any cluster   *)
(* and any number of faults, crashes and resumes.  The argument follows    *)
(* the targets of a phase that did not fail and still exist: the waves     *)
(* retry them, wait for them or strip them, and the barrier is reached     *)
(* only when there are none.  A name whose planned object is gone never    *)
(* means that object again, because uids are not used twice.               *)
(***************************************************************************)
EXTENDS Execution, TLAPS

Objects == [uid : Uids, last : Uids, deleting : BOOLEAN, fin : BOOLEAN]

\* A name has had the planned object, so what is created later is another one.
WorldOK ==
  live \in [Resources -> Objects] /\ \A r \in Resources : live[r].last >= 1

DeadBefore(k) == \A i \in 1..(k - 1) : \A r \in Phases[i].delete : Dead(r)

JournalFields == {"state", "completed", "deleted", "redelete", "unresolved"}

\* A journal that is true: what it records as completed is gone.
Good(j) ==
  /\ DOMAIN j = JournalFields
  /\ j.completed \in 0..Len(Phases)
  /\ \A i \in 1..j.completed : \A r \in Phases[i].delete : Dead(r)

\* The memory goes back to the disk only by a crash, so both must be true.
JournalOK == Good(disk) /\ Good(mem)

\* Places between a phase's entry and its end.
Recovering == {"recover", "patch", "patch record", "recovery error"}
Ending == {"barrier", "barrier recorded", "redelete", "authorize", "redelete send",
           "redelete record", "defer", "phase end"}
Inner == Recovering \union Ending \union
         {"entry", "acquire", "deleting", "deleted", "waiting", "wave over"}

PhaseOK ==
  /\ phase \in 1..(Len(Phases) + 1)
  /\ pc \in Inner => phase <= Len(Phases)
  /\ pc # "off" => DeadBefore(phase)

\* What a wait saw gone, or back, is dead, and so is what a wave found gone.
SeenOK == \A r \in Resources : r \in sawGone \union sawBack => Dead(r)

DelOK ==
  /\ del \in [Resources -> {"idle", "pending", "get", "got", "Accepted", "Rejected",
                            "AlreadyGone", "Stop"}]
  /\ \A r \in Resources : del[r] = "AlreadyGone" => Dead(r)

WaveCallers == {"wave", "rewait", "wave recovered"}
EndCallers == {"barrier", "barrier recovered", "redelete", "redelete recovered", "limit"}

CallerOK == pc \in Recovering => caller \in {"wave", "barrier", "redelete"}

\* The executor is past the waves of its phase.
PastWaves ==
  \/ pc \in Ending
  \/ pc = "waiting" /\ caller \in EndCallers
  \/ pc \in Recovering /\ caller \in {"barrier", "redelete"}

\* The targets of the phase that did not fail and still exist.
Left == {r \in Delete : r \notin failed /\ ~Dead(r)}

\* They are retried, answered, waited for or stripped, until there are none.
LeftOK ==
  /\ pc = "acquire" => \A r \in Left : del[r] \in {"pending", "Rejected"}
  /\ pc = "deleting" => \A r \in Left : del[r] \in {"get", "got", "Accepted", "Rejected", "Stop"}
  /\ pc = "deleted" => \A r \in Left : del[r] \in {"Accepted", "Rejected", "Stop"}
  /\ pc = "waiting" /\ caller \in WaveCallers =>
       \A r \in Left : del[r] = "Rejected" \/ r \in targets
  /\ pc \in Recovering /\ caller = "wave" =>
       \A r \in Left : del[r] = "Rejected" \/ r \in remaining
  /\ pc = "wave over" => \A r \in Left : del[r] = "Rejected"
  /\ PastWaves => Left = {}

IInv == WorldOK /\ JournalOK /\ PhaseOK /\ SeenOK /\ DelOK /\ CallerOK /\ LeftOK
-----------------------------------------------------------------------------
(***************************************************************************)
(* What is gone stays gone                                                 *)
(***************************************************************************)

PlanPhase == [delete : SUBSET Resources, expect : SUBSET Resources, barrier : BOOLEAN]

LEMMA ElementOf ==
  ASSUME NEW S, NEW s \in Seq(S)
  PROVE  Len(s) \in Nat /\ \A i \in 1..Len(s) : s[i] \in S
OBVIOUS

LEMMA PlanShape ==
  /\ Len(Phases) \in Nat
  /\ \A i \in 1..Len(Phases) : Phases[i].delete \subseteq Resources
<1>1. Phases \in Seq(PlanPhase)
  BY ExecutionAssumption DEF ExecutionAssumption, PlanPhase
<1>2. Len(Phases) \in Nat /\ \A i \in 1..Len(Phases) : Phases[i] \in PlanPhase
  BY <1>1, ElementOf
<1>3. \A p \in PlanPhase : p.delete \subseteq Resources
  BY DEF PlanPhase
<1> QED
  BY <1>2, <1>3

Kept == \A r \in Resources : Dead(r) => live'[r].uid # 1

LEMMA StillWorld ==
  ASSUME WorldOK, SeenOK, UNCHANGED live
  PROVE  /\ WorldOK' /\ Kept
         /\ UNCHANGED <<sawGone, sawBack>> => SeenOK'
         /\ EndWait => SeenOK'
BY DEF WorldOK, Kept, Dead, SeenOK, EndWait

\* A name changes hands; its object is the planned one only if it was before.
LEMMA BecomeOK ==
  ASSUME WorldOK, SeenOK, NEW r \in Resources, NEW v \in Objects,
         v.last >= 1, Dead(r) => v.uid # 1, Become(r, v)
  PROVE  WorldOK' /\ Kept /\ SeenOK'
<1>1. live' = [live EXCEPT ![r] = v]
  BY DEF Become
<1>2. /\ live' \in [Resources -> Objects]
      /\ live'[r] = v
      /\ \A s \in Resources : s # r => live'[s] = live[s]
  BY <1>1 DEF WorldOK
<1>3. WorldOK'
  BY <1>2 DEF WorldOK
<1>4. Kept
  BY <1>2 DEF Kept, Dead
<1>5. ASSUME NEW s \in Resources, s \in sawGone' \union sawBack'
      PROVE  live'[s].uid # 1
  <2>1. s \in sawGone \union sawBack \/ (s = r /\ (v.uid = 0 \/ v.uid > 1))
    BY <1>5 DEF Become
  <2>2. CASE s \in sawGone \union sawBack
    BY <2>2, <1>4 DEF SeenOK, Kept
  <2>3. CASE s = r /\ (v.uid = 0 \/ v.uid > 1)
    BY <2>3, <1>2
  <2> QED
    BY <2>1, <2>2, <2>3
<1> QED
  BY <1>3, <1>4, <1>5 DEF SeenOK, Dead

Marked(o) == [o EXCEPT !.deleting = TRUE]
Stripped(o) == [o EXCEPT !.fin = FALSE]

LEMMA ObjectUpdates ==
  ASSUME NEW o \in Objects
  PROVE  /\ Marked(o) \in Objects /\ Marked(o).uid = o.uid /\ Marked(o).last = o.last
         /\ Stripped(o) \in Objects /\ Stripped(o).uid = o.uid /\ Stripped(o).last = o.last
BY DEF Objects, Marked, Stripped

\* A name outside the plan's world changes nothing in it.
LEMMA BecomeNobody ==
  ASSUME WorldOK, SeenOK, NEW r, r \notin Resources, NEW v, Become(r, v)
  PROVE  WorldOK' /\ Kept /\ SeenOK'
<1>1. live' = live
  BY DEF Become, WorldOK
<1>2. \A s \in Resources : s \in sawGone' \union sawBack' => s \in sawGone \union sawBack
  BY DEF Become
<1> QED
  BY <1>1, <1>2 DEF WorldOK, Kept, SeenOK, Dead

LEMMA MarkOK ==
  ASSUME WorldOK, SeenOK, NEW r, Become(r, Marked(live[r]))
  PROVE  WorldOK' /\ Kept /\ SeenOK'
<1>1. CASE r \in Resources
  BY <1>1, BecomeOK, ObjectUpdates DEF WorldOK, Dead
<1>2. CASE r \notin Resources
  BY <1>2, BecomeNobody
<1> QED
  BY <1>1, <1>2

LEMMA StripOK ==
  ASSUME WorldOK, SeenOK, NEW r, Become(r, Stripped(live[r]))
  PROVE  WorldOK' /\ Kept /\ SeenOK'
<1>1. CASE r \in Resources
  BY <1>1, BecomeOK, ObjectUpdates DEF WorldOK, Dead
<1>2. CASE r \notin Resources
  BY <1>2, BecomeNobody
<1> QED
  BY <1>1, <1>2

LEMMA ClusterOK ==
  ASSUME WorldOK, SeenOK, Cluster
  PROVE  WorldOK' /\ Kept /\ SeenOK' /\ Undisturbed
<1>1. PICK r \in Resources :
        Cascade(r) \/ DropFinalizer(r) \/ Vanish(r) \/ Recreate(r) \/ Adopt(r)
  BY DEF Cluster
<1>2. live[r] \in Objects /\ live[r].last >= 1 /\ LastUid \in Nat \ {0}
  BY ExecutionAssumption DEF WorldOK, ExecutionAssumption
<1>3. CASE Cascade(r)
  BY <1>3, MarkOK DEF Cascade, Marked
<1>4. CASE DropFinalizer(r)
  BY <1>4, StripOK DEF DropFinalizer, Stripped
<1>5. CASE Vanish(r)
  <2>1. Absent(live[r].last) \in Objects /\ Absent(live[r].last).last >= 1
    BY <1>2 DEF Absent, Objects, Uids
  <2>2. Absent(live[r].last).uid # 1
    BY DEF Absent
  <2> QED
    BY <1>5, <2>1, <2>2, BecomeOK DEF Vanish
<1>6. CASE Recreate(r)
  <2>1. live[r].last + 1 \in Uids /\ live[r].last + 1 > 1
    BY <1>2, <1>6 DEF Recreate, Objects, Uids
  <2>2. PICK u \in Uids : u = live[r].last + 1 /\ u > 1
    BY <2>1
  <2>3. Object(r, u) \in Objects /\ Object(r, u).last >= 1 /\ Object(r, u).uid # 1
    BY <2>2 DEF Object, Objects
  <2> QED
    BY <1>6, <2>2, <2>3, BecomeOK DEF Recreate
<1>7. CASE Adopt(r)
  BY <1>7, StillWorld DEF Adopt
<1> QED
  BY <1>1, <1>3, <1>4, <1>5, <1>6, <1>7
-----------------------------------------------------------------------------
(***************************************************************************)
(* What is true of the journal stays true                                  *)
(***************************************************************************)

\* Good, of a journal that is written, in the world after the step.
GoodNext(j) ==
  /\ DOMAIN j = JournalFields
  /\ j.completed \in 0..Len(Phases)
  /\ \A i \in 1..j.completed : \A r \in Phases[i].delete : live'[r].uid # 1

LEMMA StillGood ==
  ASSUME Kept, NEW j, Good(j)
  PROVE  GoodNext(j)
BY PlanShape DEF Good, GoodNext, Kept

LEMMA UpdateGood ==
  ASSUME NEW j, GoodNext(j), NEW x
  PROVE  /\ GoodNext([j EXCEPT !.state = x])
         /\ GoodNext([j EXCEPT !.deleted = x])
         /\ GoodNext([j EXCEPT !.redelete = x])
         /\ GoodNext([j EXCEPT !.unresolved = x])
BY DEF GoodNext, JournalFields

\* A phase is recorded when the objects of all phases up to it are gone.
LEMMA CompletedGood ==
  ASSUME Kept, NEW j, GoodNext(j), NEW k \in 0..Len(Phases), DeadBefore(k + 1)
  PROVE  GoodNext([j EXCEPT !.completed = k])
<1>1. \A i \in 1..k : \A r \in Phases[i].delete : live'[r].uid # 1
  BY PlanShape DEF DeadBefore, Kept
<1> QED
  BY <1>1 DEF GoodNext, JournalFields

LEMMA WriteGood ==
  ASSUME JournalOK, Kept, NEW m, GoodNext(m), NEW done, NEW error, Write(m, done, error)
  PROVE  JournalOK' /\ pc' \in {done, error}
<1>1. GoodNext(disk)
  BY StillGood DEF JournalOK
<1>2. mem' = m /\ disk' \in {disk, m} /\ pc' \in {done, error}
  BY DEF Write
<1> QED
  BY <1>1, <1>2 DEF JournalOK, Good, GoodNext, Dead

LEMMA JournalStays ==
  ASSUME JournalOK, Kept, UNCHANGED <<disk, mem>>
  PROVE  JournalOK'
<1>1. GoodNext(disk) /\ GoodNext(mem)
  BY StillGood DEF JournalOK
<1> QED
  BY <1>1 DEF JournalOK, Good, GoodNext, Dead

\* A record of the phase's DELETEs says nothing about completion.
LEMMA MemoryGood ==
  ASSUME JournalOK, Kept
  PROVE  /\ GoodNext(mem) /\ GoodNext(disk)
         /\ \A x : GoodNext([mem EXCEPT !.state = x]) /\ GoodNext([disk EXCEPT !.state = x])
         /\ \A x : GoodNext([mem EXCEPT !.deleted = x])
         /\ \A x : GoodNext([mem EXCEPT !.redelete = x])
         /\ \A x : GoodNext([mem EXCEPT !.unresolved = x])
<1>1. GoodNext(mem) /\ GoodNext(disk)
  BY StillGood DEF JournalOK
<1> QED
  BY <1>1, UpdateGood
-----------------------------------------------------------------------------
(***************************************************************************)
(* The kinds of steps                                                      *)
(***************************************************************************)

\* The world, what is seen of it and the journal are in order after the step.
Sound == WorldOK' /\ Kept /\ SeenOK' /\ JournalOK'

LEMMA StartWaitOK ==
  ASSUME UNCHANGED live, NEW who, NEW rs, StartWait(who, rs)
  PROVE  SeenOK'
BY DEF StartWait, SeenOK, Dead, Exists

LEMMA LeftShrinks ==
  ASSUME Kept, PhaseOK, pc \in Inner, UNCHANGED phase, failed \subseteq failed'
  PROVE  Left' \subseteq Left
<1>1. Delete \subseteq Resources /\ Delete' = Delete
  BY PlanShape DEF PhaseOK, Delete
<1> QED
  BY <1>1 DEF Left, Kept, Dead

LEMMA PhaseStays ==
  ASSUME PhaseOK, Kept, UNCHANGED phase, pc # "off", pc' \in Inner => pc \in Inner
  PROVE  PhaseOK'
<1>1. DeadBefore(phase)'
  BY PlanShape DEF PhaseOK, DeadBefore, Kept, Dead
<1> QED
  BY <1>1 DEF PhaseOK

LEMMA DelStays ==
  ASSUME DelOK, Kept, UNCHANGED del
  PROVE  DelOK'
BY DEF DelOK, Kept, Dead

\* The run gives up.
LEMMA StopStep ==
  ASSUME IInv, Sound, UNCHANGED phase, UNCHANGED del, pc # "off", pc' \in {"finish", "err"}
  PROVE  IInv'
<1>1. PhaseOK' /\ DelOK'
  BY PhaseStays, DelStays DEF IInv, Sound, Inner, Recovering, Ending
<1>2. CallerOK' /\ LeftOK'
  BY DEF CallerOK, LeftOK, PastWaves, Recovering, Ending
<1> QED
  BY <1>1, <1>2 DEF IInv, Sound

\* Past the waves of a phase nothing is left, and it stays so.
LEMMA EndStep ==
  ASSUME IInv, Sound, UNCHANGED <<phase, failed, del>>, PastWaves, PastWaves'
  PROVE  IInv'
<1>1. pc \in Inner
  BY DEF PastWaves, Inner, Ending, Recovering
<1>2. PhaseOK' /\ DelOK'
  BY <1>1, PhaseStays, DelStays DEF IInv, Sound, Inner, Recovering, Ending
<1>3. Left' = {}
  BY <1>1, LeftShrinks DEF IInv, Sound, LeftOK
<1>4. LeftOK'
  BY <1>3 DEF LeftOK
<1>5. CallerOK'
  BY DEF PastWaves, CallerOK, Recovering, Ending
<1> QED
  BY <1>2, <1>4, <1>5 DEF IInv, Sound

\* A recovery goes on, for the same caller.
LEMMA RecoverStep ==
  ASSUME IInv, Sound, UNCHANGED <<phase, failed, del, caller, remaining>>,
         pc \in Recovering, pc' \in Recovering
  PROVE  IInv'
<1>1. pc \in Inner /\ pc' \in Inner
  BY DEF Inner
<1>2. PhaseOK' /\ DelOK'
  BY <1>1, PhaseStays, DelStays DEF IInv, Sound, Recovering
<1>3. Left' \subseteq Left
  BY <1>1, LeftShrinks DEF IInv, Sound
<1>4. LeftOK'
  BY <1>3 DEF IInv, LeftOK, PastWaves, Recovering, Ending
<1>5. CallerOK'
  BY DEF IInv, CallerOK
<1> QED
  BY <1>2, <1>4, <1>5 DEF IInv, Sound

\* A step of the waves, with what it leaves.
LEMMA WaveProgress ==
  ASSUME IInv, Sound, UNCHANGED phase, pc \in Inner, DelOK', CallerOK', LeftOK'
  PROVE  IInv'
<1>1. PhaseOK'
  BY PhaseStays DEF IInv, Sound, Inner, Recovering, Ending
<1> QED
  BY <1>1 DEF IInv, Sound

\* Neither the cluster nor the gate is the run's own.
LEMMA OutsideStep ==
  ASSUME IInv, Sound, UNCHANGED <<pc, phase, failed, del, caller, targets, remaining>>
  PROVE  IInv'
<1>1. DelOK' /\ CallerOK'
  BY DelStays DEF IInv, Sound, CallerOK
<1>2. PhaseOK'
  <2>1. CASE pc = "off"
    BY <2>1 DEF IInv, PhaseOK, Inner, Recovering, Ending
  <2>2. CASE pc # "off"
    BY <2>2, PhaseStays DEF IInv, Sound
  <2> QED
    BY <2>1, <2>2
<1>3. LeftOK'
  <2>1. CASE pc \in Inner
    <3>1. Left' \subseteq Left
      BY <2>1, LeftShrinks DEF IInv, Sound
    <3> QED
      BY <3>1 DEF IInv, LeftOK, PastWaves
  <2>2. CASE pc \notin Inner
    BY <2>2 DEF LeftOK, PastWaves, Inner
  <2> QED
    BY <2>1, <2>2
<1> QED
  BY <1>1, <1>2, <1>3 DEF IInv, Sound
-----------------------------------------------------------------------------
(***************************************************************************)
(* The barrier, the re-delete loop and the deferral                        *)
(***************************************************************************)

LEMMA Untouched ==
  ASSUME IInv, UNCHANGED live, UNCHANGED <<sawGone, sawBack>> \/ EndWait,
         UNCHANGED <<disk, mem>>
  PROVE  Sound
BY StillWorld, JournalStays DEF IInv, Sound

LEMMA Recorded ==
  ASSUME IInv, UNCHANGED live, UNCHANGED <<sawGone, sawBack>> \/ EndWait,
         NEW m, GoodNext(m), NEW done, NEW error, Write(m, done, error)
  PROVE  Sound /\ pc' \in {done, error}
BY StillWorld, WriteGood DEF IInv, Sound

LEMMA WaitBegun ==
  ASSUME IInv, UNCHANGED live, NEW who, NEW rs, StartWait(who, rs), UNCHANGED <<disk, mem>>
  PROVE  Sound
BY StillWorld, StartWaitOK, JournalStays DEF IInv, Sound

LEMMA RecordsGood ==
  ASSUME IInv, UNCHANGED live
  PROVE  /\ GoodNext(mem) /\ GoodNext(disk)
         /\ \A x : GoodNext([mem EXCEPT !.state = x]) /\ GoodNext([disk EXCEPT !.state = x])
         /\ \A x : GoodNext([mem EXCEPT !.deleted = x])
         /\ \A x : GoodNext([mem EXCEPT !.redelete = x])
         /\ \A x : GoodNext([mem EXCEPT !.unresolved = x])
BY StillWorld, MemoryGood DEF IInv

\* Steps of the end of a phase that touch neither the world nor the journal.
LEMMA EndMoves ==
  ASSUME IInv,
         \/ BarrierSkip \/ BarrierPassed \/ BarrierCancelled \/ BarrierStalled
         \/ BarrierDefers \/ RedeleteGetFails \/ DeferYes \/ BarrierRecoveryFails
         \/ RecoveryDefers
         \/ \E r \in Resources : RedeleteGet(r) \/ DeferRoot(r)
  PROVE  IInv'
<1> DEFINE Quiet == /\ UNCHANGED <<live, disk, mem, phase, failed, del>>
                    /\ UNCHANGED <<sawGone, sawBack>> \/ EndWait
                    /\ PastWaves /\ (PastWaves' \/ pc' \in {"finish", "err"})
<1>1. CASE BarrierSkip
  <2>1. Quiet
    BY <1>1 DEF BarrierSkip, world, journal, phaseVars, waitVars, PastWaves, Ending
  <2> QED
    BY <2>1, Untouched, EndStep, StopStep DEF PastWaves, Ending, Recovering
<1>2. CASE BarrierPassed
  <2>1. Quiet
    BY <1>2 DEF BarrierPassed, AllGone, Waiting, Unwind, EndWait, world, journal,
       phaseVars, waitVars,
       PastWaves, Ending, Recovering, EndCallers
  <2> QED
    BY <2>1, Untouched, EndStep, StopStep DEF PastWaves, Ending, Recovering
<1>3. CASE BarrierCancelled
  <2>1. Quiet
    BY <1>3 DEF BarrierCancelled, Cancelled, Waiting, Back, Unwind, EndWait, world,
       journal, phaseVars, waitVars,
       PastWaves, Ending, Recovering, EndCallers
  <2> QED
    BY <2>1, Untouched, EndStep, StopStep DEF PastWaves, Ending, Recovering
<1>4. CASE BarrierStalled
  <2>1. Quiet
    BY <1>4 DEF BarrierStalled, GoneBut, Waiting, Recover, Return, EndWait, world,
       journal, phaseVars, waitVars,
       PastWaves, Ending, Recovering, EndCallers
  <2> QED
    BY <2>1, Untouched, EndStep, StopStep DEF PastWaves, Ending, Recovering
<1>5. CASE BarrierDefers
  <2>1. Quiet
    BY <1>5 DEF BarrierDefers, Cancelled, Stalled, Waiting, Back, GoneBut, Defer,
       EndWait, world, journal, phaseVars, waitVars,
       PastWaves, Ending, Recovering, EndCallers
  <2> QED
    BY <2>1, Untouched, EndStep, StopStep DEF PastWaves, Ending, Recovering
<1>6. CASE RedeleteGetFails
  <2>1. Quiet
    BY <1>6 DEF RedeleteGetFails, Unwind, EndWait, world, journal, phaseVars, waitVars,
       PastWaves, Ending, Recovering, EndCallers
  <2> QED
    BY <2>1, Untouched, EndStep, StopStep DEF PastWaves, Ending, Recovering
<1>7. CASE DeferYes
  <2>1. Quiet
    BY <1>7 DEF DeferYes, Unwind, EndWait, world, journal, phaseVars, waitVars,
       PastWaves, Ending, Recovering, EndCallers
  <2> QED
    BY <2>1, Untouched, EndStep, StopStep DEF PastWaves, Ending, Recovering
<1>8. CASE BarrierRecoveryFails
  <2>1. Quiet
    BY <1>8 DEF BarrierRecoveryFails, RecoveryError, Unwind, EndWait, world, journal,
       phaseVars, waitVars,
       PastWaves, Ending, Recovering, EndCallers
  <2> QED
    BY <2>1, Untouched, EndStep, StopStep DEF PastWaves, Ending, Recovering
<1>9. CASE RecoveryDefers
  <2>1. Quiet
    BY <1>9 DEF RecoveryDefers, Recovered, RecoveryError, Defer, EndWait, world,
       journal, phaseVars, waitVars,
       PastWaves, Ending, Recovering, EndCallers
  <2> QED
    BY <2>1, Untouched, EndStep, StopStep DEF PastWaves, Ending, Recovering
<1>10. ASSUME NEW r \in Resources, RedeleteGet(r) PROVE IInv'
  <2>1. Quiet
    BY <1>10 DEF RedeleteGet, world, journal, phaseVars, waitVars, PastWaves, Ending
  <2> QED
    BY <2>1, Untouched, EndStep, StopStep DEF PastWaves, Ending, Recovering
<1>11. ASSUME NEW r \in Resources, DeferRoot(r) PROVE IInv'
  <2>1. Quiet
    BY <1>11 DEF DeferRoot, world, journal, phaseVars, waitVars, PastWaves, Ending
  <2> QED
    BY <2>1, Untouched, EndStep, StopStep DEF PastWaves, Ending, Recovering
<1> QED
  BY <1>1, <1>2, <1>3, <1>4, <1>5, <1>6, <1>7, <1>8, <1>9, <1>10, <1>11

LEMMA BeforeGood ==
  ASSUME IInv, UNCHANGED live, pc \in Inner
  PROVE  GoodNext([mem EXCEPT !.completed = phase - 1])
<1>1. Kept /\ GoodNext(mem)
  BY StillWorld, RecordsGood DEF IInv
<1>2. phase \in 1..Len(Phases) /\ DeadBefore(phase)
  <2>1. pc # "off"
    BY DEF Inner, Recovering, Ending
  <2>2. phase \in 1..(Len(Phases) + 1) /\ phase <= Len(Phases) /\ DeadBefore(phase)
    BY <2>1 DEF IInv, PhaseOK
  <2> QED
    BY <2>2, PlanShape
<1>3. phase - 1 \in 0..Len(Phases) /\ (phase - 1) + 1 = phase
  BY <1>2, PlanShape
<1> QED
  BY <1>1, <1>2, <1>3, CompletedGood

LEMMA BarrierBeginsIInv == ASSUME IInv, BarrierBegins PROVE IInv'
<1> DEFINE m == [mem EXCEPT !.completed = phase - 1]
<1>1. pc = "barrier" /\ UNCHANGED <<live, sawGone, sawBack, phase, failed, del>>
  BY DEF BarrierBegins, world, phaseVars, waitVars
<1>2. Write(m, "barrier recorded", "err")
  BY DEF BarrierBegins
<1>3. GoodNext(m)
  BY <1>1, BeforeGood DEF Inner, Ending
<1> HIDE DEF m
<1>4. Sound /\ pc' \in {"barrier recorded", "err"}
  BY <1>1, <1>2, <1>3, Recorded
<1> QED
  BY <1>1, <1>4, EndStep, StopStep DEF PastWaves, Ending

LEMMA BarrierWaitsIInv == ASSUME IInv, BarrierWaits \/ RedeleteDone PROVE IInv'
<1>1. PICK who \in EndCallers : StartWait(who, BarrierTargets)
  BY DEF BarrierWaits, RedeleteDone, EndCallers
<1>2. UNCHANGED <<live, disk, mem, phase, failed, del>> /\ pc \in Ending
  BY DEF BarrierWaits, RedeleteDone, world, journal, phaseVars, Ending
<1>3. Sound
  BY <1>1, <1>2, WaitBegun
<1>4. PastWaves /\ PastWaves'
  BY <1>1, <1>2 DEF PastWaves, StartWait
<1> QED
  BY <1>2, <1>3, <1>4, EndStep

LEMMA BarrierRecreatedIInv == ASSUME IInv, BarrierRecreated PROVE IInv'
<1>1. PICK back \in Back :
        \/ RedeleteAgain(back)
        \/ pc' = "phase end" /\ Unwind
        \/ StartWait("limit", BarrierTargets \ back)
  BY DEF BarrierRecreated
<1>2. /\ UNCHANGED <<live, disk, mem, phase, failed, del>>
      /\ pc = "waiting" /\ caller \in EndCallers
  BY DEF BarrierRecreated, Back, Waiting, world, journal, phaseVars, EndCallers
<1>3. PastWaves
  BY <1>2 DEF PastWaves
<1>4. CASE RedeleteAgain(back)
  <2>1. EndWait /\ PastWaves'
    BY <1>4 DEF RedeleteAgain, Return, PastWaves, Ending
  <2> QED
    BY <1>2, <1>3, <2>1, Untouched, EndStep
<1>5. CASE pc' = "phase end" /\ Unwind
  <2>1. EndWait /\ PastWaves'
    BY <1>5 DEF Unwind, PastWaves, Ending
  <2> QED
    BY <1>2, <1>3, <2>1, Untouched, EndStep
<1>6. CASE StartWait("limit", BarrierTargets \ back)
  <2>1. Sound
    BY <1>2, <1>6, WaitBegun
  <2>2. PastWaves'
    BY <1>6 DEF StartWait, PastWaves, EndCallers
  <2> QED
    BY <1>2, <1>3, <2>1, <2>2, EndStep
<1> QED
  BY <1>1, <1>4, <1>5, <1>6

LEMMA AuthorizeIInv == ASSUME IInv, Authorize PROVE IInv'
<1> DEFINE m == [mem EXCEPT !.redelete[cur.r][cur.uid] = "Authorized"]
<1>1. pc = "authorize" /\ UNCHANGED <<live, sawGone, sawBack, phase, failed, del>>
  BY DEF Authorize, world, phaseVars, waitVars
<1>2. \/ Write(m, "redelete send", "finish")
      \/ pc' = "finish" /\ UNCHANGED <<disk, mem>>
  BY DEF Authorize, journal
<1>3. GoodNext(m)
  BY <1>1, RecordsGood
<1> HIDE DEF m
<1>4. CASE Write(m, "redelete send", "finish")
  <2>1. Sound /\ pc' \in {"redelete send", "finish"}
    BY <1>1, <1>3, <1>4, Recorded
  <2> QED
    BY <1>1, <2>1, EndStep, StopStep DEF PastWaves, Ending
<1>5. CASE pc' = "finish" /\ UNCHANGED <<disk, mem>>
  BY <1>1, <1>5, Untouched, StopStep
<1> QED
  BY <1>2, <1>4, <1>5

LEMMA RedeleteSendIInv == ASSUME IInv, RedeleteSend PROVE IInv'
<1>1. /\ pc = "redelete send" /\ pc' = "redelete record"
      /\ UNCHANGED <<disk, mem, phase, failed, del>>
  BY DEF RedeleteSend, journal, phaseVars
<1>2. \/ Become(cur.r, Marked(live[cur.r]))
      \/ UNCHANGED <<live, sawGone, sawBack>>
  BY DEF RedeleteSend, TakesEffect, Marked, world
<1>3. WorldOK' /\ Kept /\ SeenOK'
  BY <1>2, MarkOK, StillWorld DEF IInv
<1>4. Sound
  BY <1>1, <1>3, JournalStays DEF IInv, Sound
<1> QED
  BY <1>1, <1>4, EndStep DEF PastWaves, Ending

LEMMA RedeleteRecordIInv == ASSUME IInv, RedeleteRecord PROVE IInv'
<1> DEFINE m == [mem EXCEPT !.redelete[cur.r][cur.uid] = answer]
           done == IF answer \in {"Accepted", "Gone"} THEN "redelete" ELSE "finish"
<1>1. pc = "redelete record" /\ UNCHANGED <<live, sawGone, sawBack, phase, failed, del>>
  BY DEF RedeleteRecord, world, phaseVars, waitVars
<1>2. Write(m, done, "finish")
  BY DEF RedeleteRecord
<1>3. GoodNext(m)
  BY <1>1, RecordsGood
<1>4. done \in {"redelete", "finish"}
  OBVIOUS
<1> HIDE DEF m, done
<1>5. Sound /\ pc' \in {"redelete", "finish"}
  BY <1>1, <1>2, <1>3, <1>4, Recorded
<1> QED
  BY <1>1, <1>5, EndStep, StopStep DEF PastWaves, Ending

LEMMA RedeleteGoneIInv == ASSUME IInv, RedeleteGone PROVE IInv'
<1>1. /\ pc = "waiting" /\ caller = "redelete" /\ EndWait
      /\ UNCHANGED <<live, phase, failed, del>>
  BY DEF RedeleteGone, AllGone, Waiting, Unwind, world, phaseVars
<1>2. PICK x : Write([mem EXCEPT !.redelete = x], "phase end", "err")
  BY DEF RedeleteGone
<1> DEFINE m == [mem EXCEPT !.redelete = x]
<1>3. GoodNext(m)
  BY <1>1, RecordsGood
<1>4. Write(m, "phase end", "err")
  BY <1>2
<1> HIDE DEF m
<1>5. Sound /\ pc' \in {"phase end", "err"}
  BY <1>1, <1>3, <1>4, Recorded
<1> QED
  BY <1>1, <1>5, EndStep, StopStep DEF PastWaves, Ending, EndCallers

LEMMA DeferNoIInv == ASSUME IInv, DeferNo PROVE IInv'
<1>1. pc = "defer" /\ EndWait /\ UNCHANGED <<live, phase, failed, del>>
  BY DEF DeferNo, Unwind, world, phaseVars
<1>2. \/ Write(mem, "finish", "err")
      \/ pc' = "finish" /\ UNCHANGED <<disk, mem>>
  BY DEF DeferNo, journal
<1>3. GoodNext(mem)
  BY <1>1, RecordsGood
<1>4. Sound /\ pc' \in {"finish", "err"}
  BY <1>1, <1>2, <1>3, Recorded, Untouched
<1> QED
  BY <1>1, <1>4, StopStep

LEMMA BarrierStepIInv == ASSUME IInv, BarrierStep PROVE IInv'
BY EndMoves, BarrierBeginsIInv, BarrierWaitsIInv, BarrierRecreatedIInv, AuthorizeIInv,
   RedeleteSendIInv, RedeleteRecordIInv, RedeleteGoneIInv, DeferNoIInv DEF BarrierStep, BarrierWait
-----------------------------------------------------------------------------
(***************************************************************************)
(* Finalizer recovery                                                      *)
(***************************************************************************)

LEMMA RecoverQuietly ==
  ASSUME IInv, \E r \in Resources : RecoverSkip(r) \/ RecoverPaused(r)
  PROVE  IInv'
<1>1. /\ pc = "recover" /\ UNCHANGED <<live, disk, mem, pc, sawGone, sawBack>>
      /\ UNCHANGED <<phase, failed, del, caller, remaining>>
  BY DEF RecoverSkip, RecoverPaused, world, journal, phaseVars, waitVars
<1>2. Sound
  BY <1>1, Untouched
<1> QED
  BY <1>1, <1>2, RecoverStep DEF Recovering

LEMMA RecoverIntentIInv == ASSUME IInv, NEW r \in Resources, RecoverIntent(r) PROVE IInv'
<1> DEFINE m == [mem EXCEPT !.unresolved = @ \union {r}]
<1>1. /\ pc = "recover" /\ UNCHANGED <<live, sawGone, sawBack>>
      /\ UNCHANGED <<phase, failed, del, caller, remaining>>
  BY DEF RecoverIntent, world, phaseVars, waitVars
<1>2. Write(m, "patch", "recovery error")
  BY DEF RecoverIntent
<1>3. GoodNext(m)
  BY <1>1, RecordsGood
<1> HIDE DEF m
<1>4. Sound /\ pc' \in {"patch", "recovery error"}
  BY <1>1, <1>2, <1>3, Recorded
<1> QED
  BY <1>1, <1>4, RecoverStep DEF Recovering

LEMMA PatchIInv == ASSUME IInv, Patch PROVE IInv'
<1>1. /\ pc = "patch" /\ pc' = "patch record"
      /\ UNCHANGED <<disk, mem, phase, failed, del, caller, remaining>>
  BY DEF Patch, journal, phaseVars
<1>2. \/ Become(cur.r, Stripped(live[cur.r]))
      \/ UNCHANGED <<live, sawGone, sawBack>>
  BY DEF Patch, Stripped
<1>3. WorldOK' /\ Kept /\ SeenOK'
  BY <1>2, StripOK, StillWorld DEF IInv
<1>4. Sound
  BY <1>1, <1>3, JournalStays DEF IInv, Sound
<1> QED
  BY <1>1, <1>4, RecoverStep DEF Recovering

LEMMA PatchRecordIInv == ASSUME IInv, PatchRecord PROVE IInv'
<1>1. /\ pc = "patch record" /\ UNCHANGED <<live, sawGone, sawBack>>
      /\ UNCHANGED <<phase, failed, del, caller, remaining>>
  BY DEF PatchRecord, world, phaseVars, waitVars
<1>2. PICK x : Write([mem EXCEPT !.unresolved = x], "recover", "recovery error")
  BY DEF PatchRecord
<1> DEFINE m == [mem EXCEPT !.unresolved = x]
<1>3. GoodNext(m)
  BY <1>1, RecordsGood
<1>4. Write(m, "recover", "recovery error")
  BY <1>2
<1> HIDE DEF m
<1>5. Sound /\ pc' \in {"recover", "recovery error"}
  BY <1>1, <1>3, <1>4, Recorded
<1> QED
  BY <1>1, <1>5, RecoverStep DEF Recovering

LEMMA RecoveryWaitsIInv == ASSUME IInv, RecoveryWaits PROVE IInv'
<1>1. /\ pc = "recover" /\ UNCHANGED <<live, disk, mem, phase, failed, del>>
      /\ StartWait(AfterRecovery[caller], remaining)
  BY DEF RecoveryWaits, Recovered, world, journal, phaseVars
<1>2. Sound
  BY <1>1, WaitBegun
<1>3. pc' = "waiting" /\ caller' = AfterRecovery[caller] /\ targets' = remaining
  BY <1>1 DEF StartWait
<1>4. caller \in {"wave", "barrier", "redelete"}
  BY <1>1 DEF IInv, CallerOK, Recovering
<1>5. CASE caller = "wave"
  <2>1. caller' = "wave recovered"
    BY <1>3, <1>5 DEF AfterRecovery
  <2>2. pc \in Inner
    BY <1>1 DEF Inner, Recovering
  <2>3. Left' \subseteq Left
    BY <1>1, <1>2, <2>2, LeftShrinks DEF IInv, Sound
  <2>4. \A r \in Left : del[r] = "Rejected" \/ r \in remaining
    BY <1>1, <1>5 DEF IInv, LeftOK, Recovering
  <2>5. LeftOK'
    BY <1>1, <1>3, <2>1, <2>3, <2>4 DEF LeftOK, PastWaves, Recovering, Ending, EndCallers
  <2>6. DelOK' /\ CallerOK'
    BY <1>1, <1>2, <1>3, DelStays DEF IInv, Sound, CallerOK, Recovering
  <2> QED
    BY <1>1, <1>2, <2>2, <2>5, <2>6, WaveProgress
<1>6. CASE caller \in {"barrier", "redelete"}
  <2>1. caller' \in EndCallers
    <3>1. CASE caller = "barrier"
      BY <1>3, <3>1 DEF AfterRecovery, EndCallers
    <3>2. CASE caller = "redelete"
      BY <1>3, <3>2 DEF AfterRecovery, EndCallers
    <3> QED
      BY <1>6, <3>1, <3>2
  <2>2. PastWaves /\ PastWaves'
    BY <1>1, <1>3, <1>6, <2>1 DEF PastWaves, Recovering
  <2> QED
    BY <1>1, <1>2, <2>2, EndStep
<1> QED
  BY <1>4, <1>5, <1>6

LEMMA WaveRecoveryFailsIInv == ASSUME IInv, WaveRecoveryFails PROVE IInv'
<1>1. pc # "off" /\ EndWait /\ UNCHANGED <<live, phase, del>> /\ Write(mem, "finish", "err")
  BY DEF WaveRecoveryFails, RecoveryError, Recovered, Unwind, world
<1>2. GoodNext(mem)
  BY <1>1, RecordsGood
<1>3. Sound /\ pc' \in {"finish", "err"}
  BY <1>1, <1>2, Recorded
<1> QED
  BY <1>1, <1>3, StopStep

LEMMA RecoveryStepIInv == ASSUME IInv, RecoveryStep PROVE IInv'
BY EndMoves, RecoverQuietly, RecoverIntentIInv, PatchIInv, PatchRecordIInv,
   RecoveryWaitsIInv, WaveRecoveryFailsIInv DEF RecoveryStep
-----------------------------------------------------------------------------
(***************************************************************************)
(* The delete waves                                                        *)
(***************************************************************************)

\* What is left after a step that fails nothing was left before it.
LEMMA LeftAfter ==
  ASSUME IInv, Sound, pc \in Inner, UNCHANGED phase, failed \subseteq failed'
  PROVE  Left' \subseteq Left /\ Left \subseteq Resources
<1>1. Left' \subseteq Left
  BY LeftShrinks DEF IInv, Sound
<1>2. Delete \subseteq Resources
  BY PlanShape DEF IInv, PhaseOK, Delete
<1> QED
  BY <1>1, <1>2 DEF Left

LEMMA AcquireIInv == ASSUME IInv, Acquire PROVE IInv'
<1> DEFINE wave == With({"pending", "Rejected"})
<1>1. /\ pc = "acquire" /\ UNCHANGED <<live, sawGone, sawBack, disk, mem>>
      /\ UNCHANGED <<phase, failed>>
  BY DEF Acquire, world, journal, waitVars
<1>2. Sound
  BY <1>1, Untouched
<1>3. Left' \subseteq Left /\ Left \subseteq Resources
  BY <1>1, <1>2, LeftAfter DEF Inner
<1>4. \A r \in Left : r \in wave
  BY <1>1, <1>3 DEF IInv, LeftOK, With
<1>5. CASE wave = {} /\ pc' = "barrier" /\ UNCHANGED del
  <2>1. Left' = {}
    BY <1>3, <1>4, <1>5
  <2>2. LeftOK'
    BY <2>1 DEF LeftOK
  <2>3. DelOK' /\ CallerOK'
    BY <1>2, <1>5, DelStays DEF IInv, Sound, CallerOK, Recovering
  <2> QED
    BY <1>1, <1>2, <2>2, <2>3, WaveProgress DEF Inner
<1>6. CASE pc' = "deleting" /\ del' = [r \in Resources |-> IF r \in wave THEN "get" ELSE "idle"]
  <2>1. \A r \in Left' : del'[r] = "get"
    BY <1>3, <1>4, <1>6
  <2>2. LeftOK'
    BY <1>6, <2>1 DEF LeftOK, PastWaves, Recovering, Ending
  <2>3. DelOK' /\ CallerOK'
    BY <1>6 DEF DelOK, CallerOK, Recovering
  <2> QED
    BY <1>1, <1>2, <2>2, <2>3, WaveProgress DEF Inner
<1>7. CASE pc' = "finish" /\ UNCHANGED del
  BY <1>1, <1>2, <1>7, StopStep
<1> QED
  BY <1>5, <1>6, <1>7 DEF Acquire

\* One target of the wave is answered.
LEMMA AnsweredIInv ==
  ASSUME IInv, Sound, pc = "deleting", UNCHANGED <<pc, phase, failed>>,
         NEW r \in Resources, NEW told \in {"got", "Accepted", "Rejected", "AlreadyGone", "Stop"},
         told = "AlreadyGone" => live'[r].uid # 1, del' = [del EXCEPT ![r] = told]
  PROVE  IInv'
<1>1. del \in [Resources -> {"idle", "pending", "get", "got", "Accepted", "Rejected",
                            "AlreadyGone", "Stop"}]
  BY DEF IInv, DelOK
<1>2. del'[r] = told /\ \A s \in Resources : s # r => del'[s] = del[s]
  BY <1>1
<1>3. DelOK'
  <2>1. del' \in [Resources -> {"idle", "pending", "get", "got", "Accepted", "Rejected",
                               "AlreadyGone", "Stop"}]
    BY <1>1
  <2>2. \A s \in Resources : del'[s] = "AlreadyGone" => live'[s].uid # 1
    BY <1>2 DEF IInv, DelOK, Sound, Kept
  <2> QED
    BY <2>1, <2>2 DEF DelOK, Dead
<1>4. Left' \subseteq Left /\ Left' \subseteq Resources
  BY LeftAfter DEF Inner
<1>5. \A s \in Left' : del'[s] \in {"get", "got", "Accepted", "Rejected", "Stop"}
  <2>1. \A s \in Left' : live'[s].uid # 1 => FALSE
    BY DEF Left, Dead
  <2>2. \A s \in Left : del[s] \in {"get", "got", "Accepted", "Rejected", "Stop"}
    BY DEF IInv, LeftOK
  <2> QED
    BY <1>2, <1>4, <2>1, <2>2
<1>6. LeftOK' /\ CallerOK'
  BY <1>5 DEF LeftOK, CallerOK, PastWaves, Recovering, Ending
<1> QED
  BY <1>3, <1>6, WaveProgress DEF Inner

LEMMA GetIInv == ASSUME IInv, NEW r \in Resources, Get(r) PROVE IInv'
<1>1. /\ pc = "deleting" /\ UNCHANGED <<live, sawGone, sawBack, disk, mem>>
      /\ UNCHANGED <<pc, phase, failed>>
  BY DEF Get, world, journal, waitVars
<1>2. Sound
  BY <1>1, Untouched
<1>3. PICK told \in {"got", "AlreadyGone", "Stop"} :
        (told = "AlreadyGone" => ~Exists(r)) /\ del' = [del EXCEPT ![r] = told]
  BY DEF Get
<1>4. told = "AlreadyGone" => live'[r].uid # 1
  BY <1>1, <1>3 DEF Exists
<1> QED
  BY <1>1, <1>2, <1>3, <1>4, AnsweredIInv

LEMMA SendIInv == ASSUME IInv, NEW r \in Resources, Send(r) PROVE IInv'
<1>1. pc = "deleting" /\ UNCHANGED <<disk, mem, pc, phase, failed>>
  BY DEF Send, journal
<1>2. CASE /\ Become(r, Marked(live[r]))
           /\ \E told \in {"Accepted", "Stop"} : del' = [del EXCEPT ![r] = told]
  <2>1. WorldOK' /\ Kept /\ SeenOK'
    BY <1>2, MarkOK DEF IInv
  <2>2. Sound
    BY <1>1, <2>1, JournalStays DEF IInv, Sound
  <2> QED
    BY <1>1, <1>2, <2>2, AnsweredIInv
<1>3. CASE /\ UNCHANGED <<live, sawGone, sawBack>>
           /\ \E told \in {"Rejected", "AlreadyGone", "Stop"} :
                (told = "AlreadyGone" => ~Exists(r)) /\ del' = [del EXCEPT ![r] = told]
  <2>1. Sound
    BY <1>1, <1>3, Untouched
  <2>2. PICK told \in {"Rejected", "AlreadyGone", "Stop"} :
          (told = "AlreadyGone" => ~Exists(r)) /\ del' = [del EXCEPT ![r] = told]
    BY <1>3
  <2>3. told = "AlreadyGone" => live'[r].uid # 1
    BY <1>3, <2>2 DEF Exists
  <2> QED
    BY <1>1, <2>1, <2>2, <2>3, AnsweredIInv
<1> QED
  BY <1>2, <1>3 DEF Send, TakesEffect, Marked
LEMMA CheckpointIInv == ASSUME IInv, Checkpoint PROVE IInv'
<1> DEFINE m == [mem EXCEPT !.deleted = @ \union With({"Accepted"})]
<1>1. /\ pc = "deleting" /\ UNCHANGED <<live, sawGone, sawBack, phase, failed, del>>
      /\ With({"get", "got"}) = {}
  BY DEF Checkpoint, world, phaseVars, waitVars
<1>2. Write(m, "deleted", "err")
  BY DEF Checkpoint
<1>3. GoodNext(m)
  BY <1>1, RecordsGood
<1> HIDE DEF m
<1>4. Sound /\ pc' \in {"deleted", "err"}
  BY <1>1, <1>2, <1>3, Recorded
<1>5. Left' \subseteq Left /\ Left \subseteq Resources
  BY <1>1, <1>4, LeftAfter DEF Inner
<1>6. \A r \in Left : del[r] \in {"Accepted", "Rejected", "Stop"}
  BY <1>1, <1>5 DEF IInv, LeftOK, With
<1>7. LeftOK' /\ CallerOK'
  BY <1>1, <1>4, <1>5, <1>6 DEF LeftOK, CallerOK, PastWaves, Recovering, Ending
<1>8. DelOK'
  BY <1>1, <1>4, DelStays DEF IInv, Sound
<1> QED
  BY <1>1, <1>4, <1>7, <1>8, WaveProgress DEF Inner

\* A step after which the targets that are left are rejected, or waited for.
LEMMA WaveWaits ==
  ASSUME IInv, Sound, pc \in Inner, pc' \in {"waiting", "wave over"},
         UNCHANGED <<phase, failed, del>>,
         pc' = "waiting" => caller' \in WaveCallers,
         \A r \in Left' : del[r] = "Rejected" \/ (pc' = "waiting" /\ r \in targets')
  PROVE  IInv'
<1>1. LeftOK' /\ CallerOK'
  BY DEF LeftOK, CallerOK, PastWaves, Recovering, Ending, WaveCallers, EndCallers
<1>2. DelOK'
  BY DelStays DEF IInv, Sound
<1> QED
  BY <1>1, <1>2, WaveProgress

LEMMA WaveDeletedIInv == ASSUME IInv, WaveDeleted PROVE IInv'
<1>1. pc = "deleted" /\ UNCHANGED <<live, phase, del>>
  BY DEF WaveDeleted, world
<1>2. \A r \in Left : del[r] \in {"Accepted", "Rejected", "Stop"}
  BY <1>1 DEF IInv, LeftOK
<1>3. CASE Write(mem, "finish", "err") /\ UNCHANGED <<sawGone, sawBack>>
  <2>1. Sound /\ pc' \in {"finish", "err"}
    BY <1>1, <1>3, RecordsGood, Recorded
  <2> QED
    BY <1>1, <2>1, StopStep
<1>4. CASE /\ With({"Stop"}) = {} /\ StartWait("wave", With({"Accepted"}))
           /\ UNCHANGED <<failed, disk, mem>>
  <2>1. Sound
    BY <1>1, <1>4, WaitBegun
  <2>2. Left' \subseteq Left /\ Left \subseteq Resources
    BY <1>1, <1>4, <2>1, LeftAfter DEF Inner
  <2>3. pc' = "waiting" /\ caller' = "wave" /\ targets' = With({"Accepted"})
    BY <1>4 DEF StartWait
  <2>4. \A r \in Left' : del[r] = "Rejected" \/ r \in targets'
    BY <1>2, <1>4, <2>2, <2>3 DEF With
  <2> QED
    BY <1>1, <1>4, <2>1, <2>3, <2>4, WaveWaits DEF Inner, WaveCallers
<1>5. CASE /\ With({"Stop", "Accepted"}) = {} /\ pc' = "wave over"
           /\ UNCHANGED <<failed, disk, mem, sawGone, sawBack>>
  <2>1. Sound
    BY <1>1, <1>5, Untouched
  <2>2. Left' \subseteq Left /\ Left \subseteq Resources
    BY <1>1, <1>5, <2>1, LeftAfter DEF Inner
  <2>3. \A r \in Left' : del[r] = "Rejected"
    BY <1>2, <1>5, <2>2 DEF With
  <2> QED
    BY <1>1, <1>5, <2>1, <2>3, WaveWaits DEF Inner
<1> QED
  BY <1>3, <1>4, <1>5 DEF WaveDeleted, journal, waitVars

\* What a wait of the waves saw gone, or back, is not left.
LEMMA LeftOfWait ==
  ASSUME IInv, Sound, pc = "waiting", caller \in WaveCallers, UNCHANGED <<phase, failed>>
  PROVE  \A r \in Left' : /\ r \in Left
                          /\ del[r] = "Rejected" \/ r \in targets
                          /\ r \notin sawGone /\ r \notin sawBack
<1>1. Left' \subseteq Left /\ Left \subseteq Resources
  BY LeftAfter DEF Inner
<1>2. \A r \in Left : ~Dead(r)
  BY DEF Left
<1> QED
  BY <1>1, <1>2 DEF IInv, LeftOK, SeenOK

LEMMA WaveGoneIInv == ASSUME IInv, WaveGone PROVE IInv'
<1>1. /\ pc = "waiting" /\ caller \in WaveCallers /\ targets \subseteq sawGone
      /\ pc' = "wave over" /\ EndWait
      /\ UNCHANGED <<live, disk, mem, phase, failed, del>>
  BY DEF WaveGone, AllGone, Waiting, Unwind, WaveCallers, world, journal
<1>2. Sound
  BY <1>1, Untouched
<1>3. \A r \in Left' : del[r] = "Rejected"
  BY <1>1, <1>2, LeftOfWait
<1> QED
  BY <1>1, <1>2, <1>3, WaveWaits DEF Inner

LEMMA WaveRecreatedIInv == ASSUME IInv, WaveRecreated PROVE IInv'
<1>1. pc = "waiting" /\ caller \in WaveCallers /\ UNCHANGED <<live, disk, mem, phase, failed, del>>
  BY DEF WaveRecreated, Back, Waiting, WaveCallers, world, journal
<1>2. PICK back \in Back : \E gone \in GoneBut(back) :
        LET rest == targets \ (gone \union back)
        IN  IF rest = {} THEN pc' = "wave over" /\ Unwind ELSE StartWait("rewait", rest)
  BY DEF WaveRecreated
<1>3. PICK gone \in GoneBut(back) :
        LET rest == targets \ (gone \union back)
        IN  IF rest = {} THEN pc' = "wave over" /\ Unwind ELSE StartWait("rewait", rest)
  BY <1>2
<1> DEFINE rest == targets \ (gone \union back)
<1>4. back \subseteq sawBack /\ gone \subseteq sawGone
  BY <1>1 DEF Back, GoneBut, Waiting
<1>5. CASE rest = {} /\ pc' = "wave over" /\ Unwind
  <2>1. Sound
    BY <1>1, <1>5, Untouched DEF Unwind
  <2>2. \A r \in Left' : del[r] = "Rejected"
    BY <1>1, <1>4, <1>5, <2>1, LeftOfWait
  <2> QED
    BY <1>1, <1>5, <2>1, <2>2, WaveWaits DEF Inner
<1>6. CASE StartWait("rewait", rest)
  <2>1. Sound
    BY <1>1, <1>6, WaitBegun
  <2>2. pc' = "waiting" /\ caller' = "rewait" /\ targets' = rest
    BY <1>6 DEF StartWait
  <2>3. \A r \in Left' : del[r] = "Rejected" \/ r \in targets'
    BY <1>1, <1>4, <2>1, <2>2, LeftOfWait
  <2> QED
    BY <1>1, <2>1, <2>2, <2>3, WaveWaits DEF Inner, WaveCallers
<1> QED
  BY <1>3, <1>5, <1>6

LEMMA WaveStalledIInv == ASSUME IInv, WaveStalled PROVE IInv'
<1>1. /\ pc = "waiting" /\ caller = "wave" /\ pc' = "recover" /\ EndWait
      /\ UNCHANGED <<live, disk, mem, phase, failed, del, caller>>
  BY DEF WaveStalled, GoneBut, Waiting, Recover, Return, world, journal
<1>2. PICK gone \in GoneBut({}) : remaining' = targets \ gone
  BY DEF WaveStalled
<1>3. gone \subseteq sawGone
  BY <1>1 DEF GoneBut, Waiting
<1>4. Sound
  BY <1>1, Untouched
<1>5. \A r \in Left' : del'[r] = "Rejected" \/ r \in remaining'
  BY <1>1, <1>2, <1>3, <1>4, LeftOfWait DEF WaveCallers
<1>6. LeftOK' /\ CallerOK'
  BY <1>1, <1>5 DEF LeftOK, CallerOK, PastWaves, Recovering, Ending
<1>7. DelOK'
  BY <1>1, <1>4, DelStays DEF IInv, Sound
<1> QED
  BY <1>1, <1>4, <1>6, <1>7, WaveProgress DEF Inner

LEMMA WaveEndsIInv == ASSUME IInv, WaveCancelled \/ RewaitFails PROVE IInv'
<1>1. pc = "waiting" /\ EndWait /\ UNCHANGED <<live, phase, del>>
  BY DEF WaveCancelled, RewaitFails, Cancelled, Stalled, Back, Waiting, Unwind, world,
     phaseVars
<1>2. Write(mem, "finish", "err") \/ (pc' = "finish" /\ UNCHANGED <<disk, mem>>)
  BY DEF WaveCancelled, RewaitFails, journal
<1>3. GoodNext(mem)
  BY <1>1, RecordsGood
<1>4. Sound /\ pc' \in {"finish", "err"}
  BY <1>1, <1>2, <1>3, Recorded, Untouched
<1> QED
  BY <1>1, <1>4, StopStep

LEMMA WaveOverIInv == ASSUME IInv, WaveOver PROVE IInv'
<1>1. pc = "wave over" /\ UNCHANGED <<live, sawGone, sawBack, phase, del>>
  BY DEF WaveOver, world, waitVars
<1>2. CASE Write(mem, "finish", "err")
  <2>1. Sound /\ pc' \in {"finish", "err"}
    BY <1>1, <1>2, RecordsGood, Recorded
  <2> QED
    BY <1>1, <2>1, StopStep
<1>3. CASE pc' = "acquire" /\ UNCHANGED <<failed, disk, mem>>
  <2>1. Sound
    BY <1>1, <1>3, Untouched
  <2>2. Left' \subseteq Left
    BY <1>1, <1>3, <2>1, LeftAfter DEF Inner
  <2>3. LeftOK' /\ CallerOK'
    BY <1>1, <1>3, <2>2 DEF IInv, LeftOK, CallerOK, PastWaves, Recovering, Ending
  <2>4. DelOK'
    BY <1>1, <2>1, DelStays DEF IInv, Sound
  <2> QED
    BY <1>1, <1>3, <2>1, <2>3, <2>4, WaveProgress DEF Inner
<1> QED
  BY <1>2, <1>3 DEF WaveOver, journal

LEMMA WaveStepIInv == ASSUME IInv, WaveStep PROVE IInv'
BY AcquireIInv, GetIInv, SendIInv, CheckpointIInv, WaveDeletedIInv, WaveGoneIInv,
   WaveRecreatedIInv, WaveStalledIInv, WaveEndsIInv, WaveOverIInv DEF WaveStep, WaveWait
-----------------------------------------------------------------------------
(***************************************************************************)
(* The phase loop and the process                                          *)
(***************************************************************************)

LEMMA PhaseTopIInv == ASSUME IInv, PhaseTop PROVE IInv'
<1>1. /\ pc = "phase" /\ pc' \in {"finish", "entry"}
      /\ pc' = "entry" => ~(phase > Len(Phases))
      /\ UNCHANGED <<live, sawGone, sawBack, disk, mem, phase, failed, del>>
  BY DEF PhaseTop, world, journal, phaseVars, waitVars
<1>2. Sound
  BY <1>1, Untouched
<1>3. CASE pc' = "finish"
  BY <1>1, <1>2, <1>3, StopStep
<1>4. CASE pc' = "entry"
  <2>1. phase <= Len(Phases) /\ phase \in 1..(Len(Phases) + 1) /\ DeadBefore(phase)
    BY <1>1, <1>4, PlanShape DEF IInv, PhaseOK
  <2>2. DeadBefore(phase)'
    BY <1>1, <2>1 DEF DeadBefore, Dead
  <2>3. PhaseOK'
    BY <1>1, <2>1, <2>2 DEF PhaseOK
  <2>4. DelOK' /\ CallerOK' /\ LeftOK'
    BY <1>1, <1>2, <1>4, DelStays
       DEF IInv, Sound, CallerOK, LeftOK, PastWaves, Recovering, Ending
  <2> QED
    BY <1>2, <2>3, <2>4 DEF IInv, Sound
<1> QED
  BY <1>1, <1>3, <1>4

LEMMA EntryGuardIInv == ASSUME IInv, EntryGuard PROVE IInv'
<1>1. /\ pc = "entry" /\ pc' \in {"finish", "err"}
      /\ UNCHANGED <<live, sawGone, sawBack, disk, mem, phase, del>>
  BY DEF EntryGuard, world, journal, phaseVars, waitVars
<1>2. Sound
  BY <1>1, Untouched
<1> QED
  BY <1>1, <1>2, StopStep

LEMMA EnterIInv == ASSUME IInv, Enter PROVE IInv'
<1>1. /\ pc = "entry" /\ pc' = "acquire"
      /\ UNCHANGED <<live, sawGone, sawBack, disk, mem, phase>>
  BY DEF Enter, world, journal, waitVars
<1>2. PICK blocked \in SUBSET (Counted \intersect Delete) :
        /\ failed' = blocked
        /\ del' = [r \in Resources |-> IF r \in Delete \ blocked THEN "pending" ELSE "idle"]
  BY DEF Enter
<1>3. Sound
  BY <1>1, Untouched
<1>4. Delete \subseteq Resources /\ Delete' = Delete
  BY <1>1, PlanShape DEF IInv, PhaseOK, Delete, Inner
<1>5. \A r \in Left' : del'[r] = "pending"
  BY <1>2, <1>4 DEF Left
<1>6. LeftOK' /\ CallerOK'
  BY <1>1, <1>5 DEF LeftOK, CallerOK, PastWaves, Recovering, Ending
<1>7. DelOK'
  BY <1>2 DEF DelOK
<1> QED
  BY <1>1, <1>3, <1>6, <1>7, WaveProgress DEF Inner

\* The phase is completed when nothing failed and nothing is left of it.
LEMMA PhaseEndIInv == ASSUME IInv, PhaseEnd PROVE IInv'
<1>1. pc = "phase end" /\ EndWait /\ UNCHANGED <<live, failed, del>>
  BY DEF PhaseEnd, Unwind, world
<1>2. pc \in Inner
  BY <1>1 DEF Inner, Ending
<1>3. CASE Write([mem EXCEPT !.completed = phase - 1], "finish", "err") /\ UNCHANGED phase
  <2> DEFINE m == [mem EXCEPT !.completed = phase - 1]
  <2>1. GoodNext(m)
    BY <1>1, <1>2, BeforeGood
  <2>2. Write(m, "finish", "err")
    BY <1>3
  <2> HIDE DEF m
  <2>3. Sound /\ pc' \in {"finish", "err"}
    BY <1>1, <2>1, <2>2, Recorded
  <2> QED
    BY <1>1, <1>3, <2>3, StopStep
<1>4. CASE /\ failed = {} /\ phase' = phase + 1
           /\ Write([mem EXCEPT !.completed = phase], "phase", "err")
  <2>1. \A r \in Delete : Dead(r)
    BY <1>1, <1>4 DEF IInv, LeftOK, PastWaves, Left, Ending
  <2>2. phase \in 1..(Len(Phases) + 1) /\ phase <= Len(Phases) /\ DeadBefore(phase)
    BY <1>1, <1>2 DEF IInv, PhaseOK
  <2>3. phase \in 0..Len(Phases) /\ phase + 1 \in 1..(Len(Phases) + 1)
    BY <2>2, PlanShape
  <2>4. ASSUME NEW i \in 1..((phase + 1) - 1), NEW r \in Phases[i].delete PROVE Dead(r)
    <3>1. i = phase \/ i \in 1..(phase - 1)
      BY <2>2, <2>4, PlanShape
    <3> QED
      BY <2>1, <2>2, <2>4, <3>1 DEF DeadBefore, Delete
  <2>5. DeadBefore(phase + 1)
    BY <2>4 DEF DeadBefore
  <2> DEFINE m == [mem EXCEPT !.completed = phase]
  <2>6. GoodNext(m)
    BY <1>1, <2>3, <2>5, StillWorld, RecordsGood, CompletedGood DEF IInv
  <2>7. Write(m, "phase", "err")
    BY <1>4
  <2> HIDE DEF m
  <2>8. Sound /\ pc' \in {"phase", "err"}
    BY <1>1, <2>6, <2>7, Recorded
  <2>9. PhaseOK'
    BY <1>1, <1>4, <2>3, <2>5, <2>8 DEF PhaseOK, DeadBefore, Dead, Inner, Recovering, Ending
  <2>10. DelOK' /\ CallerOK' /\ LeftOK'
    BY <1>1, <2>8, DelStays DEF IInv, Sound, CallerOK, LeftOK, PastWaves, Recovering, Ending
  <2> QED
    BY <2>8, <2>9, <2>10 DEF IInv, Sound
<1> QED
  BY <1>3, <1>4 DEF PhaseEnd

\* A process begins at a phase that all before it allow.
LEMMA LaunchIInv ==
  ASSUME IInv, NEW first \in 1..(Len(Phases) + 1), DeadBefore(first),
         NEW error \in {"off", "err"}, Launch(first, error)
  PROVE  IInv'
<1> DEFINE m == [disk EXCEPT !.state = "Applying"]
<1>1. phase' = first /\ UNCHANGED <<live, sawGone, sawBack, del>>
  BY DEF Launch, world, waitVars
<1>2. Write(m, "phase", error)
  BY DEF Launch
<1>3. GoodNext(m)
  BY <1>1, RecordsGood
<1> HIDE DEF m
<1>4. Sound /\ pc' \in {"phase", error}
  BY <1>1, <1>2, <1>3, Recorded
<1>5. pc' \in {"phase", "off", "err"}
  BY <1>4
<1>6. PhaseOK'
  BY <1>1, <1>5 DEF PhaseOK, DeadBefore, Dead, Inner, Recovering, Ending
<1>7. DelOK' /\ CallerOK' /\ LeftOK'
  BY <1>1, <1>4, <1>5, DelStays
     DEF IInv, Sound, CallerOK, LeftOK, PastWaves, Recovering, Ending
<1> QED
  BY <1>4, <1>6, <1>7 DEF IInv, Sound

LEMMA StartIInv == ASSUME IInv, Start PROVE IInv'
<1>1. 1 \in 1..(Len(Phases) + 1) /\ DeadBefore(1)
  BY PlanShape DEF DeadBefore
<1> QED
  BY <1>1, LaunchIInv DEF Start

LEMMA ResumeIInv == ASSUME IInv, Resume PROVE IInv'
<1>1. PICK first \in 1..(disk.completed + 1), error \in {"off", "err"} :
        /\ \A k \in 1..(first - 1) : \A r \in PlannedIn(k) : ~Exists(r)
        /\ Launch(first, error)
  BY DEF Resume
<1>2. first \in 1..(Len(Phases) + 1)
  BY PlanShape DEF IInv, JournalOK, Good
<1>3. DeadBefore(first)
  BY <1>1 DEF DeadBefore, PlannedIn, Exists, Dead
<1> QED
  BY <1>1, <1>2, <1>3, LaunchIInv

\* Nothing of the process is left.
LEMMA EndedIInv ==
  ASSUME IInv, Ended, pc' = "off", JournalOK'
  PROVE  IInv'
<1>1. /\ UNCHANGED live /\ EndWait /\ phase' = 1
      /\ del' = [r \in Resources |-> "idle"]
  BY DEF Ended, Unwind, world
<1>2. WorldOK' /\ SeenOK'
  BY <1>1, StillWorld DEF IInv
<1>3. PhaseOK'
  BY <1>1, PlanShape DEF PhaseOK, Inner, Recovering, Ending
<1>4. DelOK' /\ CallerOK' /\ LeftOK'
  BY <1>1 DEF DelOK, CallerOK, LeftOK, PastWaves, Recovering, Ending
<1> QED
  BY <1>2, <1>3, <1>4 DEF IInv

LEMMA OverIInv == ASSUME IInv, Finish \/ MarkFailed \/ Crash PROVE IInv'
<1>1. Ended /\ UNCHANGED live
  BY DEF Finish, MarkFailed, Crash, Ended, world
<1>2. Kept /\ JournalOK
  BY <1>1, StillWorld DEF IInv
<1>3. CASE Crash
  <2>1. JournalOK'
    <3>1. GoodNext(disk) /\ mem' = disk /\ disk' = disk
      BY <1>1, <1>3, RecordsGood DEF Crash
    <3> QED
      BY <3>1 DEF JournalOK, Good, GoodNext, Dead
  <2> QED
    BY <1>1, <1>3, <2>1, EndedIInv DEF Crash
<1>4. CASE Finish \/ MarkFailed
  <2>1. PICK x : Write([mem EXCEPT !.state = x], "off", "off")
    BY <1>4 DEF Finish, MarkFailed
  <2> DEFINE m == [mem EXCEPT !.state = x]
  <2>2. GoodNext(m)
    BY <1>1, RecordsGood
  <2>3. Write(m, "off", "off")
    BY <2>1
  <2> HIDE DEF m
  <2>4. JournalOK' /\ pc' \in {"off", "off"}
    BY <1>2, <2>2, <2>3, WriteGood
  <2> QED
    BY <1>1, <2>4, EndedIInv
<1> QED
  BY <1>3, <1>4

LEMMA OutsideIInv == ASSUME IInv, Cluster \/ Interrupt \/ Drained PROVE IInv'
<1>1. CASE Cluster
  <2>1. WorldOK' /\ Kept /\ SeenOK' /\ Undisturbed
    BY <1>1, ClusterOK DEF IInv
  <2>2. UNCHANGED <<disk, mem, pc, phase, failed, del, caller, targets, remaining>>
    BY <2>1 DEF Undisturbed, journal, phaseVars
  <2>3. Sound
    BY <2>1, <2>2, JournalStays DEF IInv, Sound
  <2> QED
    BY <2>2, <2>3, OutsideStep
<1>2. CASE Interrupt \/ Drained
  <2>1. /\ UNCHANGED <<live, sawGone, sawBack, disk, mem>>
        /\ UNCHANGED <<pc, phase, failed, del, caller, targets, remaining>>
    BY <1>2 DEF Interrupt, Drained, world, journal, phaseVars, waitVars
  <2> QED
    BY <2>1, Untouched, OutsideStep
<1> QED
  BY <1>1, <1>2

LEMMA StutterIInv == ASSUME IInv, UNCHANGED vars PROVE IInv'
<1>1. /\ UNCHANGED <<live, sawGone, sawBack, disk, mem>>
      /\ UNCHANGED <<pc, phase, failed, del, caller, targets, remaining>>
  BY DEF vars, world, journal, phaseVars, waitVars
<1> QED
  BY <1>1, Untouched, OutsideStep

LEMMA NextIInv == IInv /\ [Next]_vars => IInv'
BY WaveStepIInv, BarrierStepIInv, RecoveryStepIInv, PhaseTopIInv, EntryGuardIInv,
   EnterIInv, PhaseEndIInv, StartIInv, ResumeIInv, OverIInv, OutsideIInv, StutterIInv
   DEF Next, Executor

LEMMA InitIInv == Init => IInv
<1> SUFFICES ASSUME Init PROVE IInv
  OBVIOUS
<1>1. LastUid \in Nat \ {0}
  BY ExecutionAssumption DEF ExecutionAssumption
<1>2. \A r \in Resources : Object(r, 1) \in Objects /\ Object(r, 1).last >= 1
  BY <1>1 DEF Object, Objects, Uids
<1>3. WorldOK
  BY <1>2 DEF Init, WorldOK
<1>4. JournalOK
  BY PlanShape DEF Init, JournalOK, Good, JournalFields
<1>5. PhaseOK
  BY PlanShape DEF Init, PhaseOK, Inner, Recovering, Ending
<1>6. SeenOK /\ DelOK /\ CallerOK /\ LeftOK
  BY DEF Init, SeenOK, DelOK, CallerOK, LeftOK, PastWaves, Recovering, Ending
<1> QED
  BY <1>3, <1>4, <1>5, <1>6 DEF IInv
-----------------------------------------------------------------------------
\* The invariant that carries the theorem below (executor.rs, the delete waves,
\* the barrier and the phase checkpoint).
THEOREM ExecutionInvariant == Spec => []IInv
<1>1. Init => IInv
  BY InitIInv
<1>2. IInv /\ [Next]_vars => IInv'
  BY NextIInv
<1> QED
  BY <1>1, <1>2, PTL DEF Spec

\* Whatever the plan, the cluster, the crashes and the failing writes: what the
\* journal records as completed is gone (executor.rs, the phase checkpoint).
THEOREM ExecutionCompletedIsGone == Spec => []CompletedIsGone
<1>1. IInv => CompletedIsGone
  BY DEF IInv, JournalOK, Good, CompletedIsGone
<1> QED
  BY <1>1, ExecutionInvariant, PTL
=============================================================================
