---------------------- MODULE ExecutionContract_proofs ----------------------
(***************************************************************************)
(* What a run deletes it was told to delete, and it deletes in order: the  *)
(* authority of every DELETE, and the refinement of TeardownContract, for  *)
(* any plan.  A name has re-delete authority when a wave has waited for it *)
(* and a wave waits only for what its DELETE was accepted for; a re-DELETE *)
(* is sent when its intent is on disk, and no later write takes that back. *)
(* Then what that authority is for: a pause that settles and forgets       *)
(* nothing, and a finalizer that is stripped only where the run struck.    *)
(***************************************************************************)
EXTENDS Execution_proofs

Status == {"none", "Authorized", "Accepted", "Gone", "Failed", "UnknownOutcome"}

RecordTypes(j) == j.redelete \in [Resources -> [Uids -> Status]]

Records(j) == {x \in Resources \X Uids : j.redelete[x[1]][x[2]] # "none"}

\* What is on disk is in memory while a process runs, and what was deleted
\* again is on disk.
RecordsOK ==
  /\ RecordTypes(disk) /\ RecordTypes(mem)
  /\ pc # "off" => Records(disk) \subseteq Records(mem)
  /\ \A x \in touched : x[2] # 1 => x \in Records(disk)

\* A run is complete only when no process executes it.
RunOK == pc # "off" => mem.state = "Applying" /\ disk.state # "ApplyCompleted"

\* A DELETE of this run took effect on the planned object under the name.
Mine(r) == <<r, 1>> \in touched

TouchedOK == \A x \in touched : x \in Resources \X Uids /\ x[1] \in Deletes /\ Mine(x[1])

\* What a wave deletes is the phase's, and what it has waited for is the run's.
WaveOK ==
  /\ pc \in Inner \ {"entry"} => \A r \in Resources : del[r] # "idle" => r \in Delete
  /\ \A r \in Resources : del[r] = "Accepted" => Mine(r)
  /\ \A r \in acc : Mine(r)
  /\ sawGone \union sawBack \subseteq targets
  /\ pc = "waiting" /\ caller \in WaveCallers => \A r \in targets : Mine(r)
  /\ pc \in Recovering /\ caller = "wave" => \A r \in remaining : Mine(r)

Bound == {"authorize", "redelete send", "redelete record"}

\* A re-delete is bound to an object that is not the planned one, of a name
\* that has re-delete authority, and its intent is on disk before it is sent.
RedeleteOK ==
  /\ pc \in Bound \union {"redelete"} => todo \subseteq acc
  /\ pc \in Bound => cur.r \in acc /\ cur.uid \in Uids /\ cur.uid > 1
  /\ pc = "redelete send" => <<cur.r, cur.uid>> \in Records(disk)
  /\ pc = "redelete record" => answer \in Status \ {"none"}

AInv == RecordsOK /\ RunOK /\ TouchedOK /\ WaveOK /\ RedeleteOK
-----------------------------------------------------------------------------
(***************************************************************************)
(* The parts a step leaves alone                                           *)
(***************************************************************************)

Running == mem.state = "Applying" /\ disk.state # "ApplyCompleted"

\* What the journal and the cluster show of the run is in order.
Shown == RecordsOK' /\ Running' /\ TouchedOK'

LEMMA QuietShown ==
  ASSUME AInv, pc # "off", UNCHANGED <<disk, mem, touched>>
  PROVE  Shown
BY DEF AInv, RecordsOK, RunOK, TouchedOK, Mine, RecordTypes, Records, Shown, Running

LEMMA WrittenShown ==
  ASSUME AInv, pc # "off", UNCHANGED touched, NEW m, NEW done, NEW error,
         Write(m, done, error), RecordTypes(m), Records(mem) \subseteq Records(m),
         m.state = "Applying"
  PROVE  Shown
<1>1. mem' = m /\ disk' \in {disk, m}
  BY DEF Write
<1>2. Running'
  BY <1>1 DEF AInv, RunOK, Running
<1>3. TouchedOK'
  BY DEF AInv, TouchedOK, Mine
<1>4. RecordTypes(disk)' /\ RecordTypes(mem)'
  BY <1>1 DEF AInv, RecordsOK, RecordTypes
<1>5. Records(disk) \subseteq Records(mem)
  BY DEF AInv, RecordsOK
<1>6. Records(disk') \subseteq Records(mem') /\ Records(disk) \subseteq Records(disk')
  BY <1>1, <1>5
<1>7. Records(disk)' = Records(disk') /\ Records(mem)' = Records(mem')
  BY DEF Records
<1>8. RecordsOK'
  BY <1>4, <1>6, <1>7 DEF AInv, RecordsOK
<1> QED
  BY <1>2, <1>3, <1>8 DEF Shown

\* A write of what is not a re-delete record.
LEMMA FieldKept ==
  ASSUME NEW j, DOMAIN j = JournalFields, RecordTypes(j), NEW x
  PROVE  LET c == [j EXCEPT !.completed = x]
             d == [j EXCEPT !.deleted = x]
             u == [j EXCEPT !.unresolved = x]
             s == [j EXCEPT !.state = x]
         IN  /\ RecordTypes(c) /\ Records(c) = Records(j) /\ c.state = j.state
             /\ RecordTypes(d) /\ Records(d) = Records(j) /\ d.state = j.state
             /\ RecordTypes(u) /\ Records(u) = Records(j) /\ u.state = j.state
             /\ RecordTypes(s) /\ Records(s) = Records(j) /\ s.state = x
BY DEF RecordTypes, Records, JournalFields

LEMMA FieldShown ==
  ASSUME IInv, AInv, pc # "off", UNCHANGED touched, NEW x, NEW done, NEW error,
         \/ Write(mem, done, error)
         \/ Write([mem EXCEPT !.completed = x], done, error)
         \/ Write([mem EXCEPT !.deleted = x], done, error)
         \/ Write([mem EXCEPT !.unresolved = x], done, error)
  PROVE  Shown
<1>1. DOMAIN mem = JournalFields /\ RecordTypes(mem) /\ mem.state = "Applying"
  BY DEF IInv, JournalOK, Good, AInv, RecordsOK, RunOK
<1>2. CASE Write(mem, done, error)
  BY <1>1, <1>2, WrittenShown
<1>3. CASE Write([mem EXCEPT !.completed = x], done, error)
  <2> DEFINE m == [mem EXCEPT !.completed = x]
  <2>1. RecordTypes(m) /\ Records(m) = Records(mem) /\ m.state = "Applying"
    BY <1>1, FieldKept
  <2>2. Write(m, done, error)
    BY <1>3
  <2> HIDE DEF m
  <2> QED
    BY <2>1, <2>2, WrittenShown
<1>4. CASE Write([mem EXCEPT !.deleted = x], done, error)
  <2> DEFINE m == [mem EXCEPT !.deleted = x]
  <2>1. RecordTypes(m) /\ Records(m) = Records(mem) /\ m.state = "Applying"
    BY <1>1, FieldKept
  <2>2. Write(m, done, error)
    BY <1>4
  <2> HIDE DEF m
  <2> QED
    BY <2>1, <2>2, WrittenShown
<1>5. CASE Write([mem EXCEPT !.unresolved = x], done, error)
  <2> DEFINE m == [mem EXCEPT !.unresolved = x]
  <2>1. RecordTypes(m) /\ Records(m) = Records(mem) /\ m.state = "Applying"
    BY <1>1, FieldKept
  <2>2. Write(m, done, error)
    BY <1>5
  <2> HIDE DEF m
  <2> QED
    BY <2>1, <2>2, WrittenShown
<1> QED
  BY <1>2, <1>3, <1>4, <1>5

\* A wait reports only what it was asked to wait for.
SawTargets == sawGone \union sawBack \subseteq targets

LEMMA SawStays ==
  ASSUME SawTargets
  PROVE  /\ UNCHANGED <<sawGone, sawBack, targets>> => SawTargets'
         /\ EndWait => SawTargets'
         /\ \A who, rs : StartWait(who, rs) => SawTargets'
         /\ \A r, v : Become(r, v) /\ UNCHANGED targets => SawTargets'
BY DEF SawTargets, EndWait, StartWait, Become

LEMMA WaveStops ==
  ASSUME WaveOK, UNCHANGED <<touched, del, acc>>, pc' \notin Inner, SawTargets'
  PROVE  WaveOK'
BY DEF WaveOK, SawTargets, Mine, Inner

LEMMA WaveEnds ==
  ASSUME WaveOK, UNCHANGED <<touched, phase, del, acc>>, PastWaves, PastWaves', SawTargets'
  PROVE  WaveOK'
BY DEF WaveOK, SawTargets, Mine, Inner, PastWaves, Ending, Recovering, EndCallers,
   WaveCallers, Delete

LEMMA WaveRecovers ==
  ASSUME WaveOK, UNCHANGED <<touched, phase, del, acc, caller, remaining>>,
         pc \in Recovering, pc' \in Recovering, SawTargets'
  PROVE  WaveOK'
BY DEF WaveOK, SawTargets, Mine, Inner, Recovering, Delete

LEMMA NoRedelete ==
  ASSUME pc' \notin Bound \union {"redelete"}
  PROVE  RedeleteOK'
BY DEF RedeleteOK, Bound

LEMMA Together ==
  ASSUME Shown, WaveOK', RedeleteOK'
  PROVE  AInv' /\ Running'
BY DEF Shown, AInv, RunOK, Running

\* A run that gives up, and a step of the end of a phase that does neither
\* begin a re-delete nor go on with one.
LEMMA GivesUp ==
  ASSUME AInv, Shown, UNCHANGED <<touched, del, acc>>, SawTargets', pc' \in {"finish", "err"}
  PROVE  AInv' /\ Running'
<1>1. WaveOK'
  BY WaveStops DEF AInv, Inner, Recovering, Ending
<1>2. RedeleteOK'
  BY NoRedelete DEF Bound
<1> QED
  BY <1>1, <1>2, Together

LEMMA GoesOn ==
  ASSUME AInv, Shown, UNCHANGED <<touched, phase, del, acc>>, SawTargets',
         PastWaves, PastWaves', pc' \notin Bound \union {"redelete"}
  PROVE  AInv' /\ Running'
BY WaveEnds, NoRedelete, Together DEF AInv
-----------------------------------------------------------------------------
(***************************************************************************)
(* The barrier, the re-delete loop and the deferral                        *)
(***************************************************************************)

LEMMA EndMovesAInv ==
  ASSUME IInv, AInv,
         \/ BarrierSkip \/ BarrierPassed \/ BarrierCancelled \/ BarrierStalled
         \/ BarrierDefers \/ RedeleteGetFails \/ DeferYes \/ BarrierRecoveryFails
         \/ RecoveryDefers \/ \E r \in Resources : DeferRoot(r)
  PROVE  AInv' /\ Running'
<1> DEFINE Moves == /\ pc # "off" /\ UNCHANGED <<disk, mem, touched, phase, del, acc>>
                    /\ UNCHANGED <<sawGone, sawBack, targets>> \/ EndWait
                    /\ PastWaves
                    /\ pc' \notin Bound \union {"redelete"}
                    /\ PastWaves' \/ pc' \in {"finish", "err"}
<1>1. SUFFICES Moves
  <2>1. Moves => Shown /\ SawTargets'
    BY QuietShown, SawStays DEF AInv, WaveOK, SawTargets
  <2> QED
    BY <2>1, GivesUp, GoesOn
<1>2. CASE BarrierSkip
  BY <1>2 DEF BarrierSkip, EndWait, world, journal,
     phaseVars, waitVars, PastWaves, Ending, Recovering, EndCallers, Bound
<1>3. CASE BarrierPassed
  BY <1>3 DEF BarrierPassed, AllGone, Waiting, Unwind, EndWait, world, journal,
     phaseVars, waitVars, PastWaves, Ending, Recovering, EndCallers, Bound
<1>4. CASE BarrierCancelled
  BY <1>4 DEF BarrierCancelled, Cancelled, Waiting, Back, Unwind, EndWait, world, journal,
     phaseVars, waitVars, PastWaves, Ending, Recovering, EndCallers, Bound
<1>5. CASE BarrierStalled
  BY <1>5 DEF BarrierStalled, GoneBut, Waiting, Recover, Return, EndWait, world, journal,
     phaseVars, waitVars, PastWaves, Ending, Recovering, EndCallers, Bound
<1>6. CASE BarrierDefers
  BY <1>6 DEF BarrierDefers, Cancelled, Stalled, Waiting, Back, GoneBut, Defer, EndWait, world,
     journal, phaseVars, waitVars, PastWaves, Ending, Recovering, EndCallers, Bound
<1>7. CASE RedeleteGetFails
  BY <1>7 DEF RedeleteGetFails, Unwind, EndWait, world, journal,
     phaseVars, waitVars, PastWaves, Ending, Recovering, EndCallers, Bound
<1>8. CASE DeferYes
  BY <1>8 DEF DeferYes, Unwind, EndWait, world, journal,
     phaseVars, waitVars, PastWaves, Ending, Recovering, EndCallers, Bound
<1>9. CASE BarrierRecoveryFails
  BY <1>9 DEF BarrierRecoveryFails, RecoveryError, Unwind, EndWait, world, journal,
     phaseVars, waitVars, PastWaves, Ending, Recovering, EndCallers, Bound
<1>10. CASE RecoveryDefers
  BY <1>10 DEF RecoveryDefers, Recovered, RecoveryError, Defer, EndWait, world, journal,
     phaseVars, waitVars, PastWaves, Ending, Recovering, EndCallers, Bound
<1>11. ASSUME NEW r \in Resources, DeferRoot(r) PROVE Moves
  BY <1>11 DEF DeferRoot, world, journal, phaseVars, waitVars, PastWaves, Ending, Bound
<1> QED
  BY <1>2, <1>3, <1>4, <1>5, <1>6, <1>7, <1>8, <1>9, <1>10, <1>11

LEMMA BarrierBeginsAInv == ASSUME IInv, AInv, BarrierBegins PROVE AInv' /\ Running'
<1>1. /\ pc = "barrier" /\ pc' \in {"barrier recorded", "err"}
      /\ UNCHANGED <<touched, phase, del, acc, sawGone, sawBack, targets>>
  BY DEF BarrierBegins, Write, world, phaseVars, waitVars
<1>2. Write([mem EXCEPT !.completed = phase - 1], "barrier recorded", "err")
  BY DEF BarrierBegins
<1>3. Shown
  BY <1>1, <1>2, FieldShown
<1>4. SawTargets'
  BY <1>1, SawStays DEF AInv, WaveOK, SawTargets
<1> QED
  BY <1>1, <1>3, <1>4, GoesOn, GivesUp DEF PastWaves, Ending, Bound

LEMMA BarrierWaitsAInv ==
  ASSUME IInv, AInv, BarrierWaits \/ RedeleteDone
  PROVE  AInv' /\ Running'
<1>1. PICK who \in EndCallers : StartWait(who, BarrierTargets)
  BY DEF BarrierWaits, RedeleteDone, EndCallers
<1>2. UNCHANGED <<disk, mem, touched, phase, del, acc>> /\ pc \in Ending
  BY DEF BarrierWaits, RedeleteDone, world, journal, phaseVars, Ending
<1>3. Shown
  BY <1>2, QuietShown DEF Ending
<1>4. PastWaves /\ PastWaves' /\ pc' = "waiting"
  BY <1>1, <1>2 DEF PastWaves, StartWait
<1>5. SawTargets'
  BY <1>1, SawStays DEF AInv, WaveOK, SawTargets
<1> QED
  BY <1>2, <1>3, <1>4, <1>5, GoesOn DEF Bound

LEMMA BarrierRecreatedAInv == ASSUME IInv, AInv, BarrierRecreated PROVE AInv' /\ Running'
<1>1. PICK back \in Back :
        \/ RedeleteAgain(back)
        \/ pc' = "phase end" /\ Unwind
        \/ StartWait("limit", BarrierTargets \ back)
  BY DEF BarrierRecreated
<1>2. /\ UNCHANGED <<disk, mem, touched, phase, del, acc>>
      /\ pc = "waiting" /\ caller \in EndCallers
  BY DEF BarrierRecreated, Back, Waiting, world, journal, phaseVars, EndCallers
<1>3. PastWaves /\ Shown
  BY <1>2, QuietShown DEF PastWaves
<1>4. CASE RedeleteAgain(back)
  <2>1. EndWait /\ pc' = "redelete" /\ todo' \subseteq acc
    BY <1>4 DEF RedeleteAgain, Return
  <2>2. WaveOK'
    BY <1>2, <1>3, <2>1, WaveEnds, SawStays DEF AInv, WaveOK, SawTargets, PastWaves, Ending
  <2>3. RedeleteOK'
    BY <1>2, <2>1 DEF RedeleteOK, Bound
  <2> QED
    BY <1>3, <2>2, <2>3, Together
<1>5. CASE pc' = "phase end" /\ Unwind
  <2>1. EndWait /\ PastWaves'
    BY <1>5 DEF Unwind, PastWaves, Ending
  <2> QED
    BY <1>2, <1>3, <1>5, <2>1, SawStays, GoesOn DEF AInv, WaveOK, SawTargets, Bound
<1>6. CASE StartWait("limit", BarrierTargets \ back)
  <2>1. PastWaves' /\ pc' = "waiting"
    BY <1>6 DEF StartWait, PastWaves, EndCallers
  <2> QED
    BY <1>2, <1>3, <1>6, <2>1, SawStays, GoesOn DEF AInv, WaveOK, SawTargets, Bound
<1> QED
  BY <1>1, <1>4, <1>5, <1>6

LEMMA AccIsPlanned ==
  ASSUME AInv
  PROVE  acc \subseteq Resources
BY DEF AInv, WaveOK, TouchedOK, Mine

LEMMA RedeleteGetAInv ==
  ASSUME IInv, AInv, NEW r \in Resources, RedeleteGet(r)
  PROVE  AInv' /\ Running'
<1>1. /\ pc = "redelete" /\ pc' \in {"redelete", "authorize"} /\ r \in todo
      /\ UNCHANGED <<disk, mem, touched, phase, del, acc, sawGone, sawBack, targets>>
  BY DEF RedeleteGet, world, journal, phaseVars, waitVars
<1>2. Shown
  BY <1>1, QuietShown
<1>3. WaveOK'
  BY <1>1, WaveEnds, SawStays DEF AInv, WaveOK, SawTargets, PastWaves, Ending
<1>4. todo \subseteq acc /\ todo' \subseteq todo
  BY <1>1 DEF AInv, RedeleteOK, RedeleteGet
<1>5. pc' = "authorize" => cur'.r = r /\ cur'.uid \in Uids /\ cur'.uid > 1
  <2>1. SUFFICES ASSUME pc' = "authorize"
                 PROVE  cur'.r = r /\ cur'.uid \in Uids /\ cur'.uid > 1
    OBVIOUS
  <2>2. cur' = [r |-> r, uid |-> live[r].uid] /\ live[r].uid > 1
    BY <1>1, <2>1 DEF RedeleteGet
  <2>3. live[r].uid \in Uids
    BY DEF IInv, WorldOK, Objects
  <2> QED
    BY <2>2, <2>3
<1>6. RedeleteOK'
  BY <1>1, <1>4, <1>5 DEF RedeleteOK, Bound
<1> QED
  BY <1>2, <1>3, <1>6, Together

\* What a write to one re-delete record changes.
WithRecord(r, u, s) == [mem EXCEPT !.redelete[r][u] = s]

LEMMA RecordWritten ==
  ASSUME IInv, AInv, NEW r \in Resources, NEW u \in Uids, NEW s \in Status \ {"none"}
  PROVE  /\ RecordTypes(WithRecord(r, u, s)) /\ WithRecord(r, u, s).state = mem.state
         /\ Records(mem) \subseteq Records(WithRecord(r, u, s))
         /\ <<r, u>> \in Records(WithRecord(r, u, s))
<1> DEFINE m == WithRecord(r, u, s)
<1>1. DOMAIN mem = JournalFields /\ mem.redelete \in [Resources -> [Uids -> Status]]
  BY DEF IInv, JournalOK, Good, AInv, RecordsOK, RecordTypes
<1>2. m.state = mem.state /\ m.redelete = [mem.redelete EXCEPT ![r][u] = s]
  BY <1>1 DEF WithRecord, JournalFields
<1>3. m.redelete \in [Resources -> [Uids -> Status]]
  BY <1>1, <1>2
<1>4. /\ m.redelete[r][u] = s
      /\ \A q \in Resources, v \in Uids :
           ~(q = r /\ v = u) => m.redelete[q][v] = mem.redelete[q][v]
  BY <1>1, <1>2
<1> HIDE DEF m
<1>5. RecordTypes(m)
  BY <1>3 DEF RecordTypes
<1>6. ASSUME NEW x \in Records(mem) PROVE x \in Records(m)
  BY <1>4 DEF Records
<1>7. <<r, u>> \in Records(m)
  BY <1>4 DEF Records
<1> QED
  BY <1>2, <1>5, <1>6, <1>7 DEF m

LEMMA AuthorizeAInv == ASSUME IInv, AInv, Authorize PROVE AInv' /\ Running'
<1>1. /\ pc = "authorize"
      /\ UNCHANGED <<touched, phase, del, acc, sawGone, sawBack, targets, todo, cur>>
  BY DEF Authorize, world, phaseVars, waitVars, stepVars
<1>2. /\ cur.r \in acc /\ cur.r \in Resources /\ cur.uid \in Uids /\ cur.uid > 1
      /\ todo \subseteq acc
  BY <1>1, AccIsPlanned DEF AInv, RedeleteOK, Bound
<1>3. SawTargets'
  BY <1>1, SawStays DEF AInv, WaveOK, SawTargets
<1> DEFINE m == WithRecord(cur.r, cur.uid, "Authorized")
<1>4. \/ Write(m, "redelete send", "finish")
      \/ pc' = "finish" /\ UNCHANGED <<disk, mem>>
  BY DEF Authorize, journal, WithRecord
<1>5. CASE pc' = "finish" /\ UNCHANGED <<disk, mem>>
  BY <1>1, <1>3, <1>5, QuietShown, GivesUp
<1>6. CASE Write(m, "redelete send", "finish")
  <2>1. /\ RecordTypes(m) /\ m.state = mem.state /\ Records(mem) \subseteq Records(m)
        /\ <<cur.r, cur.uid>> \in Records(m)
    BY <1>2, RecordWritten DEF Status
  <2>2. mem.state = "Applying"
    BY <1>1 DEF AInv, RunOK
  <2> HIDE DEF m
  <2>3. Shown
    BY <1>1, <1>6, <2>1, <2>2, WrittenShown
  <2>4. pc' \in {"redelete send", "finish"} /\ (pc' = "redelete send" => disk' = m)
    BY <1>6 DEF Write
  <2>5. CASE pc' = "finish"
    BY <1>1, <1>3, <2>3, <2>5, GivesUp
  <2>6. CASE pc' = "redelete send"
    <3>1. WaveOK'
      BY <1>1, <1>3, <2>6, WaveEnds DEF AInv, PastWaves, Ending
    <3>2. <<cur.r, cur.uid>>' \in Records(disk)'
      BY <1>1, <2>1, <2>4, <2>6 DEF Records
    <3>3. RedeleteOK'
      BY <1>1, <1>2, <2>6, <3>2 DEF RedeleteOK, Bound
    <3> QED
      BY <2>3, <3>1, <3>3, Together
  <2> QED
    BY <2>4, <2>5, <2>6
<1> QED
  BY <1>4, <1>5, <1>6

LEMMA RedeleteSendAInv == ASSUME IInv, AInv, RedeleteSend PROVE AInv' /\ Running'
<1>1. /\ pc = "redelete send" /\ pc' = "redelete record"
      /\ UNCHANGED <<disk, mem, phase, del, acc, targets, todo, cur>>
      /\ answer' \in Status \ {"none"}
  BY DEF RedeleteSend, journal, phaseVars, Status
<1>2. /\ cur.r \in acc /\ cur.r \in Resources /\ cur.uid \in Uids /\ cur.uid > 1
      /\ todo \subseteq acc /\ <<cur.r, cur.uid>> \in Records(disk)
  BY <1>1, AccIsPlanned DEF AInv, RedeleteOK, Bound
<1>3. \/ /\ Become(cur.r, Marked(live[cur.r]))
         /\ touched' = touched \union {<<cur.r, cur.uid>>}
      \/ UNCHANGED <<sawGone, sawBack, touched>>
  BY DEF RedeleteSend, TakesEffect, Marked, world
<1>4. touched' \subseteq touched \union {<<cur.r, cur.uid>>} /\ touched \subseteq touched'
  BY <1>3
<1>5. SawTargets'
  BY <1>1, <1>3, SawStays DEF AInv, WaveOK, SawTargets
<1>6. Mine(cur.r) /\ cur.r \in Deletes
  BY <1>2 DEF AInv, WaveOK, TouchedOK, Mine
<1>7. TouchedOK'
  <2>1. ASSUME NEW x \in touched'
        PROVE  x \in Resources \X Uids /\ x[1] \in Deletes /\ Mine(x[1])'
    <3>1. CASE x \in touched
      BY <1>4, <3>1 DEF AInv, TouchedOK, Mine
    <3>2. CASE x = <<cur.r, cur.uid>>
      BY <1>2, <1>4, <1>6, <3>2 DEF Mine
    <3> QED
      BY <1>4, <2>1, <3>1, <3>2
  <2> QED
    BY <2>1 DEF TouchedOK
<1>8. Records(disk)' = Records(disk) /\ Records(mem)' = Records(mem)
  BY <1>1 DEF Records
<1>9. RecordsOK' /\ Running'
  BY <1>1, <1>2, <1>4, <1>8 DEF AInv, RecordsOK, RecordTypes, RunOK, Running
<1>10. WaveOK'
  BY <1>1, <1>4, <1>5
     DEF AInv, WaveOK, SawTargets, Mine, Inner, Ending, Recovering, Delete
<1>11. RedeleteOK'
  BY <1>1, <1>2 DEF RedeleteOK, Bound
<1> QED
  BY <1>7, <1>9, <1>10, <1>11, Together DEF Shown

LEMMA RedeleteRecordAInv == ASSUME IInv, AInv, RedeleteRecord PROVE AInv' /\ Running'
<1>1. /\ pc = "redelete record" /\ pc' \in {"redelete", "finish"} /\ todo' \subseteq todo
      /\ UNCHANGED <<touched, phase, del, acc, sawGone, sawBack, targets>>
  BY DEF RedeleteRecord, Write, world, phaseVars, waitVars
<1>2. /\ cur.r \in Resources /\ cur.uid \in Uids /\ todo \subseteq acc
      /\ answer \in Status \ {"none"}
  BY <1>1, AccIsPlanned DEF AInv, RedeleteOK, Bound
<1>3. SawTargets'
  BY <1>1, SawStays DEF AInv, WaveOK, SawTargets
<1> DEFINE m == WithRecord(cur.r, cur.uid, answer)
<1>4. PICK done : Write(m, done, "finish")
  BY DEF RedeleteRecord, WithRecord
<1>5. RecordTypes(m) /\ m.state = mem.state /\ Records(mem) \subseteq Records(m)
  BY <1>2, RecordWritten
<1>6. mem.state = "Applying"
  BY <1>1 DEF AInv, RunOK
<1> HIDE DEF m
<1>7. Shown
  BY <1>1, <1>4, <1>5, <1>6, WrittenShown
<1>8. CASE pc' = "finish"
  BY <1>1, <1>3, <1>7, <1>8, GivesUp
<1>9. CASE pc' = "redelete"
  <2>1. WaveOK'
    BY <1>1, <1>3, <1>9, WaveEnds DEF AInv, PastWaves, Ending
  <2>2. RedeleteOK'
    BY <1>1, <1>2, <1>9 DEF RedeleteOK, Bound
  <2> QED
    BY <1>7, <2>1, <2>2, Together
<1> QED
  BY <1>1, <1>8, <1>9

\* An Accepted record becomes Gone, which is a record all the same.
LEMMA RedeleteGoneAInv == ASSUME IInv, AInv, RedeleteGone PROVE AInv' /\ Running'
<1> DEFINE settled(r, status) == IF r \in acc /\ status = "Accepted" THEN "Gone" ELSE status
           f == [r \in Resources |-> [u \in Uids |-> settled(r, mem.redelete[r][u])]]
           m == [mem EXCEPT !.redelete = f]
<1>1. /\ pc = "waiting" /\ caller = "redelete" /\ EndWait
      /\ pc' \in {"phase end", "err"} /\ UNCHANGED <<touched, phase, del, acc>>
  BY DEF RedeleteGone, AllGone, Waiting, Unwind, Write, world, phaseVars
<1>2. Write(m, "phase end", "err")
  BY DEF RedeleteGone
<1>3. /\ DOMAIN mem = JournalFields /\ mem.redelete \in [Resources -> [Uids -> Status]]
      /\ mem.state = "Applying"
  BY <1>1 DEF IInv, JournalOK, Good, AInv, RecordsOK, RecordTypes, RunOK
<1>4. m.redelete = f /\ m.state = "Applying"
  BY <1>3 DEF JournalFields
<1>5. \A r \in Resources, u \in Uids :
        /\ f[r][u] \in Status
        /\ mem.redelete[r][u] # "none" => f[r][u] # "none"
  BY <1>3 DEF Status
<1>6. f \in [Resources -> [Uids -> Status]]
  BY <1>5
<1> HIDE DEF f
<1>7. RecordTypes(m)
  BY <1>4, <1>6 DEF RecordTypes
<1>8. Records(mem) \subseteq Records(m)
  BY <1>4, <1>5 DEF Records
<1> HIDE DEF m
<1>9. Shown
  BY <1>1, <1>2, <1>4, <1>7, <1>8, WrittenShown
<1>10. SawTargets'
  BY <1>1, SawStays DEF AInv, WaveOK, SawTargets
<1> QED
  BY <1>1, <1>9, <1>10, GoesOn, GivesUp DEF PastWaves, Ending, EndCallers, Bound

LEMMA DeferNoAInv == ASSUME IInv, AInv, DeferNo PROVE AInv' /\ Running'
<1>1. /\ pc = "defer" /\ EndWait /\ UNCHANGED <<touched, del, acc>>
      /\ pc' \in {"finish", "err"}
  BY DEF DeferNo, Unwind, Write, world, phaseVars
<1>2. Write(mem, "finish", "err") \/ UNCHANGED <<disk, mem>>
  BY DEF DeferNo, journal
<1>3. Shown
  BY <1>1, <1>2, FieldShown, QuietShown
<1>4. SawTargets'
  BY <1>1, SawStays DEF AInv, WaveOK, SawTargets
<1> QED
  BY <1>1, <1>3, <1>4, GivesUp

LEMMA BarrierStepAInv == ASSUME IInv, AInv, BarrierStep PROVE AInv' /\ Running'
BY EndMovesAInv, BarrierBeginsAInv, BarrierWaitsAInv, BarrierRecreatedAInv, RedeleteGetAInv,
   AuthorizeAInv, RedeleteSendAInv, RedeleteRecordAInv, RedeleteGoneAInv, DeferNoAInv
   DEF BarrierStep, BarrierWait
-----------------------------------------------------------------------------
(***************************************************************************)
(* Finalizer recovery                                                      *)
(***************************************************************************)

LEMMA RecoversAInv ==
  ASSUME AInv, Shown, UNCHANGED <<touched, phase, del, acc, caller, remaining>>,
         pc \in Recovering, pc' \in Recovering, SawTargets'
  PROVE  AInv' /\ Running'
<1>1. WaveOK'
  BY WaveRecovers DEF AInv
<1>2. RedeleteOK'
  BY NoRedelete DEF Recovering, Bound
<1> QED
  BY <1>1, <1>2, Together

LEMMA RecoverQuietlyAInv ==
  ASSUME IInv, AInv, \E r \in Resources : RecoverSkip(r) \/ RecoverPaused(r)
  PROVE  AInv' /\ Running'
<1>1. /\ pc = "recover" /\ UNCHANGED <<disk, mem, pc, sawGone, sawBack, targets>>
      /\ UNCHANGED <<touched, phase, del, acc, caller, remaining>>
  BY DEF RecoverSkip, RecoverPaused, world, journal, phaseVars, waitVars
<1>2. Shown /\ SawTargets'
  BY <1>1, QuietShown, SawStays DEF AInv, WaveOK, SawTargets
<1> QED
  BY <1>1, <1>2, RecoversAInv DEF Recovering

LEMMA RecoverIntentAInv ==
  ASSUME IInv, AInv, NEW r \in Resources, RecoverIntent(r)
  PROVE  AInv' /\ Running'
<1>1. /\ pc = "recover" /\ pc' \in {"patch", "recovery error"}
      /\ UNCHANGED <<sawGone, sawBack, targets>>
      /\ UNCHANGED <<touched, phase, del, acc, caller, remaining>>
  BY DEF RecoverIntent, Write, world, phaseVars, waitVars
<1>2. PICK x : Write([mem EXCEPT !.unresolved = x], "patch", "recovery error")
  BY DEF RecoverIntent
<1>3. Shown /\ SawTargets'
  BY <1>1, <1>2, FieldShown, SawStays DEF AInv, WaveOK, SawTargets
<1> QED
  BY <1>1, <1>3, RecoversAInv DEF Recovering

LEMMA PatchAInv == ASSUME IInv, AInv, Patch PROVE AInv' /\ Running'
<1>1. /\ pc = "patch" /\ pc' = "patch record" /\ UNCHANGED <<disk, mem, targets>>
      /\ UNCHANGED <<touched, phase, del, acc, caller, remaining>>
  BY DEF Patch, journal, phaseVars
<1>2. \/ Become(cur.r, Stripped(live[cur.r]))
      \/ UNCHANGED <<sawGone, sawBack>>
  BY DEF Patch, Stripped
<1>3. Shown /\ SawTargets'
  BY <1>1, <1>2, QuietShown, SawStays DEF AInv, WaveOK, SawTargets
<1> QED
  BY <1>1, <1>3, RecoversAInv DEF Recovering

LEMMA PatchRecordAInv == ASSUME IInv, AInv, PatchRecord PROVE AInv' /\ Running'
<1>1. /\ pc = "patch record" /\ pc' \in {"recover", "recovery error"}
      /\ UNCHANGED <<sawGone, sawBack, targets>>
      /\ UNCHANGED <<touched, phase, del, acc, caller, remaining>>
  BY DEF PatchRecord, Write, world, phaseVars, waitVars
<1>2. PICK x : Write([mem EXCEPT !.unresolved = x], "recover", "recovery error")
  BY DEF PatchRecord
<1>3. Shown /\ SawTargets'
  BY <1>1, <1>2, FieldShown, SawStays DEF AInv, WaveOK, SawTargets
<1> QED
  BY <1>1, <1>3, RecoversAInv DEF Recovering

LEMMA RecoveryWaitsAInv == ASSUME IInv, AInv, RecoveryWaits PROVE AInv' /\ Running'
<1>1. /\ pc = "recover" /\ UNCHANGED <<disk, mem, touched, phase, del, acc>>
      /\ StartWait(AfterRecovery[caller], remaining)
  BY DEF RecoveryWaits, Recovered, world, journal, phaseVars
<1>2. Shown /\ SawTargets'
  BY <1>1, QuietShown, SawStays DEF AInv, WaveOK, SawTargets
<1>3. pc' = "waiting" /\ caller' = AfterRecovery[caller] /\ targets' = remaining
  BY <1>1 DEF StartWait
<1>4. caller \in {"wave", "barrier", "redelete"}
  BY <1>1 DEF IInv, CallerOK, Recovering
<1>5. caller' \in WaveCallers => caller = "wave"
  <2>1. CASE caller = "barrier"
    BY <1>3, <2>1 DEF AfterRecovery, WaveCallers
  <2>2. CASE caller = "redelete"
    BY <1>3, <2>2 DEF AfterRecovery, WaveCallers
  <2> QED
    BY <1>4, <2>1, <2>2
<1>6. WaveOK'
  BY <1>1, <1>2, <1>3, <1>5
     DEF AInv, WaveOK, SawTargets, Mine, Inner, Recovering, Delete
<1>7. RedeleteOK'
  BY <1>3, NoRedelete DEF Bound
<1> QED
  BY <1>2, <1>6, <1>7, Together

LEMMA WaveRecoveryFailsAInv ==
  ASSUME IInv, AInv, WaveRecoveryFails
  PROVE  AInv' /\ Running'
<1>1. /\ pc # "off" /\ EndWait /\ UNCHANGED <<touched, del, acc>> /\ Write(mem, "finish", "err")
      /\ pc' \in {"finish", "err"}
  BY DEF WaveRecoveryFails, RecoveryError, Recovered, Unwind, Write, world
<1>2. Shown /\ SawTargets'
  BY <1>1, FieldShown, SawStays DEF AInv, WaveOK, SawTargets
<1> QED
  BY <1>1, <1>2, GivesUp

LEMMA RecoveryStepAInv == ASSUME IInv, AInv, RecoveryStep PROVE AInv' /\ Running'
BY EndMovesAInv, RecoverQuietlyAInv, RecoverIntentAInv, PatchAInv, PatchRecordAInv,
   RecoveryWaitsAInv, WaveRecoveryFailsAInv DEF RecoveryStep
-----------------------------------------------------------------------------
(***************************************************************************)
(* The delete waves                                                        *)
(***************************************************************************)

LEMMA AcquireAInv == ASSUME IInv, AInv, Acquire PROVE AInv' /\ Running'
<1> DEFINE wave == With({"pending", "Rejected"})
<1>1. /\ pc = "acquire" /\ UNCHANGED <<disk, mem, touched, phase, acc>>
      /\ UNCHANGED <<sawGone, sawBack, targets>>
      /\ pc' \in {"barrier", "deleting", "finish"}
  BY DEF Acquire, world, journal, waitVars
<1>2. Shown /\ SawTargets'
  BY <1>1, QuietShown, SawStays DEF AInv, WaveOK, SawTargets
<1>3. \/ UNCHANGED del
      \/ del' = [r \in Resources |-> IF r \in wave THEN "get" ELSE "idle"]
  BY DEF Acquire
<1>4. ASSUME NEW r \in Resources
      PROVE  /\ del'[r] # "idle" => del[r] # "idle"
             /\ del'[r] = "Accepted" => del[r] = "Accepted"
  BY <1>3, <1>4 DEF With
<1>5. WaveOK'
  BY <1>1, <1>2, <1>4
     DEF AInv, WaveOK, SawTargets, Mine, Inner, Recovering, Ending, Delete
<1>6. RedeleteOK'
  BY <1>1, NoRedelete DEF Bound
<1> QED
  BY <1>2, <1>5, <1>6, Together

\* One target of the wave is answered; accepted is what took effect.
LEMMA AnsweredAInv ==
  ASSUME IInv, AInv, Shown, pc = "deleting", SawTargets', UNCHANGED <<pc, phase, acc>>,
         touched \subseteq touched', NEW r \in Resources, NEW told, r \in Delete,
         told = "Accepted" => Mine(r)', del' = [del EXCEPT ![r] = told]
  PROVE  AInv' /\ Running'
<1>1. \A s \in Resources : /\ s = r => del'[s] = told
                           /\ s # r => del'[s] = del[s]
  BY DEF IInv, DelOK
<1>2. \A s : Mine(s) => Mine(s)'
  BY DEF Mine
<1>3. WaveOK'
  <2>1. \A s \in Resources : del'[s] # "idle" => s \in Delete'
    BY <1>1 DEF AInv, WaveOK, Inner, Delete
  <2>2. \A s \in Resources : del'[s] = "Accepted" => Mine(s)'
    BY <1>1, <1>2 DEF AInv, WaveOK
  <2>3. \A s \in acc' : Mine(s)'
    BY <1>2 DEF AInv, WaveOK
  <2> QED
    BY <2>1, <2>2, <2>3 DEF WaveOK, SawTargets, Recovering
<1>4. RedeleteOK'
  BY NoRedelete DEF Bound
<1> QED
  BY <1>3, <1>4, Together

LEMMA GetAInv == ASSUME IInv, AInv, NEW r \in Resources, Get(r) PROVE AInv' /\ Running'
<1>1. /\ pc = "deleting" /\ UNCHANGED <<disk, mem, touched, pc, phase, acc>>
      /\ UNCHANGED <<sawGone, sawBack, targets>> /\ del[r] = "get"
  BY DEF Get, world, journal, waitVars
<1>2. Shown /\ SawTargets'
  BY <1>1, QuietShown, SawStays DEF AInv, WaveOK, SawTargets
<1>3. PICK told \in {"got", "AlreadyGone", "Stop"} : del' = [del EXCEPT ![r] = told]
  BY DEF Get
<1>4. r \in Delete
  BY <1>1 DEF AInv, WaveOK, Inner
<1> QED
  BY <1>1, <1>2, <1>3, <1>4, AnsweredAInv

LEMMA DeleteIsPlanned ==
  ASSUME IInv, pc \in Inner
  PROVE  Delete \subseteq Deletes /\ phase \in DOMAIN Phases
<1>1. phase \in 1..Len(Phases)
  BY PlanShape DEF IInv, PhaseOK
<1>2. Phases \in Seq(PlanPhase)
  BY ExecutionAssumption DEF ExecutionAssumption, PlanPhase
<1>3. DOMAIN Phases = 1..Len(Phases)
  BY <1>2
<1> QED
  BY <1>1, <1>3 DEF Delete, Deletes

LEMMA OneIsUid == 1 \in Uids
BY ExecutionAssumption DEF ExecutionAssumption, Uids

LEMMA SendAInv == ASSUME IInv, AInv, NEW r \in Resources, Send(r) PROVE AInv' /\ Running'
<1>1. /\ pc = "deleting" /\ UNCHANGED <<disk, mem, pc, phase, acc, targets>>
      /\ del[r] = "got"
  BY DEF Send, journal
<1>2. r \in Delete /\ r \in Deletes
  BY <1>1, DeleteIsPlanned DEF AInv, WaveOK, Inner
<1>3. CASE /\ live[r].uid = 1 /\ TakesEffect(r)
           /\ \E told \in {"Accepted", "Stop"} : del' = [del EXCEPT ![r] = told]
  <2>1. Become(r, Marked(live[r])) /\ touched' = touched \union {<<r, 1>>}
    BY <1>3 DEF TakesEffect, Marked
  <2>2. SawTargets'
    BY <1>1, <2>1, SawStays DEF AInv, WaveOK, SawTargets
  <2>3. TouchedOK'
    <3>1. ASSUME NEW x \in touched'
          PROVE  x \in Resources \X Uids /\ x[1] \in Deletes /\ Mine(x[1])'
      <4>1. CASE x \in touched
        BY <2>1, <4>1 DEF AInv, TouchedOK, Mine
      <4>2. CASE x = <<r, 1>>
        BY <1>2, <2>1, <4>2, OneIsUid DEF Mine
      <4> QED
        BY <2>1, <3>1, <4>1, <4>2
    <3> QED
      BY <3>1 DEF TouchedOK
  <2>4. Records(disk)' = Records(disk) /\ Records(mem)' = Records(mem)
    BY <1>1 DEF Records
  <2>5. RecordsOK' /\ Running'
    BY <1>1, <2>1, <2>4 DEF AInv, RecordsOK, RecordTypes, RunOK, Running
  <2>6. Shown
    BY <2>3, <2>5 DEF Shown
  <2>7. Mine(r)'
    BY <2>1 DEF Mine
  <2> QED
    BY <1>1, <1>2, <1>3, <2>1, <2>2, <2>6, <2>7, AnsweredAInv
<1>4. CASE /\ UNCHANGED <<touched, sawGone, sawBack>>
           /\ \E told \in {"Rejected", "AlreadyGone", "Stop"} : del' = [del EXCEPT ![r] = told]
  <2>1. Shown /\ SawTargets'
    BY <1>1, <1>4, QuietShown, SawStays DEF AInv, WaveOK, SawTargets
  <2> QED
    BY <1>1, <1>2, <1>4, <2>1, AnsweredAInv
<1> QED
  BY <1>3, <1>4 DEF Send

\* A step of the waves that answers no DELETE and gives authority only to what
\* was waited for.
LEMMA WavesOn ==
  ASSUME AInv, Shown, UNCHANGED <<touched, phase, del>>, SawTargets', pc \in Inner \ {"entry"},
         \A r \in acc' : Mine(r),
         pc' \notin Bound \union {"redelete"},
         pc' = "waiting" /\ caller' \in WaveCallers => \A r \in targets' : Mine(r),
         pc' \in Recovering /\ caller' = "wave" => \A r \in remaining' : Mine(r)
  PROVE  AInv' /\ Running'
<1>1. WaveOK'
  BY DEF AInv, WaveOK, SawTargets, Mine, Delete
<1>2. RedeleteOK'
  BY NoRedelete
<1> QED
  BY <1>1, <1>2, Together

LEMMA CheckpointAInv == ASSUME IInv, AInv, Checkpoint PROVE AInv' /\ Running'
<1>1. /\ pc = "deleting" /\ pc' \in {"deleted", "err"}
      /\ UNCHANGED <<touched, phase, del, acc, sawGone, sawBack, targets>>
  BY DEF Checkpoint, Write, world, phaseVars, waitVars
<1>2. PICK x : Write([mem EXCEPT !.deleted = x], "deleted", "err")
  BY DEF Checkpoint
<1>3. Shown /\ SawTargets'
  BY <1>1, <1>2, FieldShown, SawStays DEF AInv, WaveOK, SawTargets
<1> QED
  BY <1>1, <1>3, WavesOn DEF AInv, WaveOK, Inner, Bound, Recovering

LEMMA WaveDeletedAInv == ASSUME IInv, AInv, WaveDeleted PROVE AInv' /\ Running'
<1>1. pc = "deleted" /\ UNCHANGED <<touched, phase, del, acc>>
  BY DEF WaveDeleted, world
<1>2. \A r \in With({"Accepted"}) : Mine(r)
  BY DEF AInv, WaveOK, With
<1>3. CASE Write(mem, "finish", "err") /\ UNCHANGED <<sawGone, sawBack, targets>>
  <2>1. Shown /\ SawTargets' /\ pc' \in {"finish", "err"}
    BY <1>1, <1>3, FieldShown, SawStays DEF AInv, WaveOK, SawTargets, Write
  <2> QED
    BY <1>1, <2>1, GivesUp
<1>4. CASE StartWait("wave", With({"Accepted"})) /\ UNCHANGED <<disk, mem>>
  <2>1. Shown /\ SawTargets'
    BY <1>1, <1>4, QuietShown, SawStays DEF AInv, WaveOK, SawTargets
  <2>2. pc' = "waiting" /\ targets' = With({"Accepted"})
    BY <1>4 DEF StartWait
  <2> QED
    BY <1>1, <1>2, <2>1, <2>2, WavesOn DEF AInv, WaveOK, Inner, Bound, Recovering
<1>5. CASE /\ pc' = "wave over" /\ UNCHANGED <<disk, mem, sawGone, sawBack, targets>>
  <2>1. Shown /\ SawTargets'
    BY <1>1, <1>5, QuietShown, SawStays DEF AInv, WaveOK, SawTargets
  <2> QED
    BY <1>1, <1>5, <2>1, WavesOn DEF AInv, WaveOK, Inner, Bound, Recovering
<1> QED
  BY <1>3, <1>4, <1>5 DEF WaveDeleted, journal, waitVars

LEMMA WaveGoneAInv == ASSUME IInv, AInv, WaveGone PROVE AInv' /\ Running'
<1>1. /\ pc = "waiting" /\ caller \in WaveCallers /\ acc' = acc \union targets
      /\ pc' = "wave over" /\ EndWait
      /\ UNCHANGED <<disk, mem, touched, phase, del>>
  BY DEF WaveGone, AllGone, Waiting, Unwind, WaveCallers, world, journal
<1>2. Shown /\ SawTargets'
  BY <1>1, QuietShown, SawStays DEF AInv, WaveOK, SawTargets
<1> QED
  BY <1>1, <1>2, WavesOn DEF AInv, WaveOK, Inner, Bound, Recovering

LEMMA WaveRecreatedAInv == ASSUME IInv, AInv, WaveRecreated PROVE AInv' /\ Running'
<1>1. /\ pc = "waiting" /\ caller \in WaveCallers
      /\ UNCHANGED <<disk, mem, touched, phase, del>>
  BY DEF WaveRecreated, Back, Waiting, WaveCallers, world, journal
<1>2. PICK back \in Back : \E gone \in GoneBut(back) :
        LET rest == targets \ (gone \union back)
        IN  /\ acc' = acc \union gone \union back
            /\ IF rest = {} THEN pc' = "wave over" /\ Unwind ELSE StartWait("rewait", rest)
  BY DEF WaveRecreated
<1>3. PICK gone \in GoneBut(back) :
        LET rest == targets \ (gone \union back)
        IN  /\ acc' = acc \union gone \union back
            /\ IF rest = {} THEN pc' = "wave over" /\ Unwind ELSE StartWait("rewait", rest)
  BY <1>2
<1>4. back \subseteq targets /\ gone \subseteq targets /\ \A r \in targets : Mine(r)
  BY <1>1 DEF Back, GoneBut, Waiting, AInv, WaveOK
<1>5. \A r \in acc' : Mine(r)
  BY <1>3, <1>4 DEF AInv, WaveOK
<1>6. CASE pc' = "wave over" /\ Unwind
  <2>1. Shown /\ SawTargets'
    BY <1>1, <1>6, QuietShown, SawStays DEF AInv, WaveOK, SawTargets, Unwind
  <2> QED
    BY <1>1, <1>5, <1>6, <2>1, WavesOn DEF Inner, Bound, Recovering
<1>7. CASE StartWait("rewait", targets \ (gone \union back))
  <2>1. Shown /\ SawTargets'
    BY <1>1, <1>7, QuietShown, SawStays DEF AInv, WaveOK, SawTargets
  <2>2. pc' = "waiting" /\ targets' \subseteq targets
    BY <1>7 DEF StartWait
  <2> QED
    BY <1>1, <1>4, <1>5, <2>1, <2>2, WavesOn DEF Inner, Bound, Recovering
<1> QED
  BY <1>3, <1>6, <1>7

LEMMA WaveStalledAInv == ASSUME IInv, AInv, WaveStalled PROVE AInv' /\ Running'
<1>1. /\ pc = "waiting" /\ caller = "wave" /\ pc' = "recover" /\ EndWait
      /\ UNCHANGED <<disk, mem, touched, phase, del>>
  BY DEF WaveStalled, GoneBut, Waiting, Recover, Return, world, journal
<1>2. PICK gone \in GoneBut({}) : remaining' = targets \ gone /\ acc' = acc \union gone
  BY DEF WaveStalled
<1>3. gone \subseteq targets /\ \A r \in targets : Mine(r)
  BY <1>1 DEF GoneBut, Waiting, AInv, WaveOK, WaveCallers
<1>4. Shown /\ SawTargets'
  BY <1>1, QuietShown, SawStays DEF AInv, WaveOK, SawTargets
<1> QED
  BY <1>1, <1>2, <1>3, <1>4, WavesOn DEF AInv, WaveOK, Inner, Bound

LEMMA WaveEndsAInv ==
  ASSUME IInv, AInv, WaveCancelled \/ RewaitFails
  PROVE  AInv' /\ Running'
<1>1. /\ pc = "waiting" /\ EndWait /\ UNCHANGED <<touched, del, acc>>
      /\ pc' \in {"finish", "err"}
  BY DEF WaveCancelled, RewaitFails, Cancelled, Stalled, Back, Waiting, Unwind, Write,
     world, phaseVars
<1>2. Write(mem, "finish", "err") \/ UNCHANGED <<disk, mem>>
  BY DEF WaveCancelled, RewaitFails, journal
<1>3. Shown /\ SawTargets'
  BY <1>1, <1>2, FieldShown, QuietShown, SawStays DEF AInv, WaveOK, SawTargets
<1> QED
  BY <1>1, <1>3, GivesUp

LEMMA WaveOverAInv == ASSUME IInv, AInv, WaveOver PROVE AInv' /\ Running'
<1>1. /\ pc = "wave over" /\ pc' \in {"finish", "err", "acquire"}
      /\ UNCHANGED <<touched, phase, del, acc, sawGone, sawBack, targets>>
  BY DEF WaveOver, Write, world, waitVars
<1>2. Write(mem, "finish", "err") \/ UNCHANGED <<disk, mem>>
  BY DEF WaveOver, journal
<1>3. Shown /\ SawTargets'
  BY <1>1, <1>2, FieldShown, QuietShown, SawStays DEF AInv, WaveOK, SawTargets
<1> QED
  BY <1>1, <1>3, WavesOn DEF AInv, WaveOK, Inner, Bound, Recovering

LEMMA WaveStepAInv == ASSUME IInv, AInv, WaveStep PROVE AInv' /\ Running'
BY AcquireAInv, GetAInv, SendAInv, CheckpointAInv, WaveDeletedAInv, WaveGoneAInv,
   WaveRecreatedAInv, WaveStalledAInv, WaveEndsAInv, WaveOverAInv DEF WaveStep, WaveWait
-----------------------------------------------------------------------------
(***************************************************************************)
(* The phase loop and the process                                          *)
(***************************************************************************)

LEMMA PhaseTopAInv == ASSUME IInv, AInv, PhaseTop \/ EntryGuard PROVE AInv' /\ Running'
<1>1. /\ pc # "off" /\ pc' \in {"finish", "entry", "err"}
      /\ pc' = "entry" => pc = "phase"
      /\ UNCHANGED <<disk, mem, touched, phase, del, acc, sawGone, sawBack, targets>>
  BY DEF PhaseTop, EntryGuard, world, journal, phaseVars, waitVars
<1>2. Shown /\ SawTargets'
  BY <1>1, QuietShown, SawStays DEF AInv, WaveOK, SawTargets
<1>3. WaveOK'
  BY <1>1, <1>2 DEF AInv, WaveOK, SawTargets, Mine, Inner, Recovering, Ending
<1>4. RedeleteOK'
  BY <1>1, NoRedelete DEF Bound
<1> QED
  BY <1>2, <1>3, <1>4, Together

LEMMA EnterAInv == ASSUME IInv, AInv, Enter PROVE AInv' /\ Running'
<1>1. /\ pc = "entry" /\ pc' = "acquire" /\ acc' = {}
      /\ UNCHANGED <<disk, mem, touched, phase, sawGone, sawBack, targets>>
  BY DEF Enter, world, journal, waitVars
<1>2. Shown /\ SawTargets'
  BY <1>1, QuietShown, SawStays DEF AInv, WaveOK, SawTargets
<1>3. PICK blocked \in SUBSET (Counted \intersect Delete) :
        del' = [r \in Resources |-> IF r \in Delete \ blocked THEN "pending" ELSE "idle"]
  BY DEF Enter
<1>4. \A r \in Resources : del'[r] # "Accepted" /\ (del'[r] # "idle" => r \in Delete')
  BY <1>1, <1>3 DEF Delete
<1>5. WaveOK'
  BY <1>1, <1>2, <1>4 DEF WaveOK, SawTargets, Recovering
<1>6. RedeleteOK'
  BY <1>1, NoRedelete DEF Bound
<1> QED
  BY <1>2, <1>5, <1>6, Together

LEMMA PhaseEndAInv == ASSUME IInv, AInv, PhaseEnd PROVE AInv' /\ Running'
<1>1. /\ pc = "phase end" /\ EndWait /\ UNCHANGED <<touched, del, acc>>
      /\ pc' \in {"finish", "phase", "err"}
  BY DEF PhaseEnd, Unwind, Write, world
<1>2. \E x, done : Write([mem EXCEPT !.completed = x], done, "err")
  BY DEF PhaseEnd
<1>3. Shown /\ SawTargets'
  BY <1>1, <1>2, FieldShown, SawStays DEF AInv, WaveOK, SawTargets
<1>4. WaveOK'
  BY <1>1, <1>3, WaveStops DEF AInv, Inner, Recovering, Ending
<1>5. RedeleteOK'
  BY <1>1, NoRedelete DEF Bound
<1> QED
  BY <1>3, <1>4, <1>5, Together

\* A process begins with what is on disk, of a run that is not complete.
LEMMA LaunchAInv ==
  ASSUME IInv, AInv, Start \/ Resume
  PROVE  AInv' /\ Running'
<1>1. PICK first \in Int, error \in {"off", "err"} : Launch(first, error)
  BY DEF Start, Resume
<1>2. /\ pc = "off" /\ disk.state # "ApplyCompleted"
      /\ UNCHANGED <<touched, del, acc, sawGone, sawBack, targets>>
  BY <1>1 DEF Start, Resume, Launch, world, waitVars
<1> DEFINE m == [disk EXCEPT !.state = "Applying"]
<1>3. Write(m, "phase", error)
  BY <1>1 DEF Launch
<1>4. RecordTypes(m) /\ Records(m) = Records(disk) /\ m.state = "Applying"
  BY FieldKept DEF IInv, JournalOK, Good, AInv, RecordsOK
<1> HIDE DEF m
<1>5. mem' = m /\ disk' \in {disk, m} /\ pc' \in {"phase", "off", "err"}
  BY <1>3 DEF Write
<1>6. Running'
  BY <1>2, <1>4, <1>5 DEF Running
<1>7. Records(disk)' = Records(disk) /\ Records(mem)' = Records(disk)
  BY <1>4, <1>5 DEF Records
<1>8. RecordsOK'
  BY <1>2, <1>4, <1>5, <1>7 DEF AInv, RecordsOK, RecordTypes
<1>9. TouchedOK'
  BY <1>2 DEF AInv, TouchedOK, Mine
<1>10. SawTargets'
  BY <1>2, SawStays DEF AInv, WaveOK, SawTargets
<1>11. WaveOK'
  BY <1>2, <1>5, <1>10, WaveStops DEF AInv, Inner, Recovering, Ending
<1>12. RedeleteOK'
  BY <1>5, NoRedelete DEF Bound
<1> QED
  BY <1>6, <1>8, <1>9, <1>11, <1>12, Together DEF Shown

LEMMA OverAInv == ASSUME IInv, AInv, Finish \/ MarkFailed \/ Crash PROVE AInv'
<1>1. /\ pc # "off" /\ pc' = "off" /\ Ended
  BY DEF Finish, MarkFailed, Crash, Write
<1>2. /\ UNCHANGED touched /\ EndWait /\ acc' = {}
      /\ del' = [r \in Resources |-> "idle"]
  BY <1>1 DEF Ended, Unwind, world
<1>3. /\ RecordTypes(disk') /\ RecordTypes(mem') /\ Records(disk) \subseteq Records(disk')
  <2>1. CASE Crash
    BY <2>1 DEF Crash, AInv, RecordsOK
  <2>2. CASE Finish \/ MarkFailed
    <3>1. PICK x : Write([mem EXCEPT !.state = x], "off", "off")
      BY <2>2 DEF Finish, MarkFailed
    <3> DEFINE m == [mem EXCEPT !.state = x]
    <3>2. RecordTypes(m) /\ Records(m) = Records(mem)
      BY FieldKept DEF IInv, JournalOK, Good, AInv, RecordsOK
    <3>3. mem' = m /\ disk' \in {disk, m}
      BY <3>1 DEF Write
    <3> HIDE DEF m
    <3> QED
      BY <1>1, <3>2, <3>3 DEF AInv, RecordsOK
  <2> QED
    BY <2>1, <2>2
<1>4. RecordTypes(disk)' /\ RecordTypes(mem)' /\ Records(disk)' = Records(disk')
  BY <1>3 DEF RecordTypes, Records
<1>5. RecordsOK'
  BY <1>1, <1>2, <1>3, <1>4 DEF AInv, RecordsOK
<1>6. TouchedOK' /\ RunOK'
  BY <1>1, <1>2 DEF AInv, TouchedOK, Mine, RunOK
<1>7. SawTargets'
  BY <1>2, SawStays DEF AInv, WaveOK, SawTargets
<1>8. WaveOK'
  BY <1>1, <1>2, <1>7 DEF WaveOK, SawTargets, Inner, Recovering, Ending
<1>9. RedeleteOK'
  BY <1>1, NoRedelete DEF Bound
<1> QED
  BY <1>5, <1>6, <1>8, <1>9 DEF AInv

LEMMA OutsideAInv ==
  ASSUME IInv, AInv, Cluster \/ Interrupt \/ Drained \/ UNCHANGED vars
  PROVE  AInv'
<1>1. /\ UNCHANGED <<disk, mem, touched, pc, phase, del, acc, caller, targets, remaining>>
      /\ UNCHANGED <<todo, cur, answer>>
  <2>1. CASE Cluster
    BY <2>1 DEF Cluster, Cascade, DropFinalizer, Vanish, Recreate, Adopt, Undisturbed, journal,
       phaseVars, stepVars
  <2>2. CASE Interrupt \/ Drained \/ UNCHANGED vars
    BY <2>2 DEF Interrupt, Drained, vars, world, journal, phaseVars, waitVars, stepVars
  <2> QED
    BY <2>1, <2>2
<1>2. \/ UNCHANGED <<sawGone, sawBack>>
      \/ \E r, v : Become(r, v)
  BY DEF Cluster, Cascade, DropFinalizer, Vanish, Recreate, Adopt, Interrupt, Drained, vars,
     waitVars
<1>3. SawTargets'
  BY <1>1, <1>2, SawStays DEF AInv, WaveOK, SawTargets
<1>4. RecordsOK' /\ RunOK' /\ TouchedOK'
  BY <1>1 DEF AInv, RecordsOK, RecordTypes, Records, RunOK, TouchedOK, Mine
<1>5. WaveOK'
  BY <1>1, <1>3 DEF AInv, WaveOK, SawTargets, Mine, Delete
<1>6. RedeleteOK'
  BY <1>1 DEF AInv, RedeleteOK, Records
<1> QED
  BY <1>4, <1>5, <1>6 DEF AInv

LEMMA NextAInv == IInv /\ AInv /\ [Next]_vars => AInv'
BY WaveStepAInv, BarrierStepAInv, RecoveryStepAInv, PhaseTopAInv, EnterAInv, PhaseEndAInv,
   LaunchAInv, OverAInv, OutsideAInv DEF Next, Executor

LEMMA InitAInv == Init => AInv
<1> SUFFICES ASSUME Init PROVE AInv
  OBVIOUS
<1>1. RecordTypes(disk) /\ mem = disk
  BY DEF Init, RecordTypes, NoRecords, Status
<1>2. RecordsOK
  BY <1>1 DEF Init, RecordsOK, RecordTypes
<1>3. RunOK /\ TouchedOK
  BY DEF Init, RunOK, TouchedOK
<1>4. WaveOK
  BY DEF Init, WaveOK, Inner, Ending, Recovering
<1>5. RedeleteOK
  BY DEF Init, RedeleteOK, Bound
<1> QED
  BY <1>2, <1>3, <1>4, <1>5 DEF AInv

\* The invariant that carries the two theorems below.
THEOREM ExecutionAuthority == Spec => [](IInv /\ AInv)
<1>1. IInv /\ AInv /\ [Next]_vars => IInv' /\ AInv'
  BY NextIInv, NextAInv
<1> QED
  BY <1>1, InitIInv, InitAInv, PTL DEF Spec
-----------------------------------------------------------------------------
\* Whatever the plan, the cluster and the faults: a DELETE takes effect only on
\* what the plan deletes, and on a recreated object only after the planned one
\* was deleted by this run and with the intent on disk (executor.rs,
\* attempt_single_redelete).
THEOREM ExecutionTouchedIsAuthorized == Spec => []TouchedIsAuthorized
<1>1. IInv /\ AInv => TouchedIsAuthorized
  <2> SUFFICES ASSUME AInv, NEW t \in touched
               PROVE  /\ t[1] \in Deletes
                      /\ t[2] # 1 => /\ <<t[1], 1>> \in touched
                                     /\ disk.redelete[t[1]][t[2]] # "none"
    BY DEF TouchedIsAuthorized
  <2>1. t[1] \in Deletes /\ <<t[1], 1>> \in touched
    BY DEF AInv, TouchedOK, Mine
  <2>2. t[2] # 1 => t \in Records(disk)
    BY DEF AInv, RecordsOK
  <2> QED
    BY <2>1, <2>2 DEF Records
<1> QED
  BY <1>1, ExecutionAuthority, PTL
-----------------------------------------------------------------------------
(***************************************************************************)
(* The execution implements TeardownContract, step by step                 *)
(***************************************************************************)

Requested == {r \in Deletes : <<r, 1>> \in touched}
Gone == {r \in Deletes : Dead(r)}
Complete == disk.state = "ApplyCompleted"

ContractStep == [Contract!ContractNext]_(Contract!contractVars)

LEMMA Invisible ==
  ASSUME UNCHANGED <<Requested, Gone, Complete>>
  PROVE  ContractStep
BY DEF ContractStep, Contract!contractVars, Requested, Gone, Complete

LEMMA Goes ==
  ASSUME NEW r \in Deletes, r \notin Gone, Gone' = Gone \union {r},
         UNCHANGED <<Requested, Complete>>
  PROVE  ContractStep
BY DEF ContractStep, Contract!ContractNext, Contract!Go, Requested, Gone, Complete

LEMMA IsRequested ==
  ASSUME NEW r \in Deletes, r \notin Requested, Requested' = Requested \union {r},
         \A s \in Deletes : PhaseOf[s] < PhaseOf[r] => s \in Gone,
         UNCHANGED <<Gone, Complete>>
  PROVE  ContractStep
BY DEF ContractStep, Contract!ContractNext, Contract!Request, Requested, Gone, Complete

LEMMA IsReported ==
  ASSUME Gone = Deletes, Complete', UNCHANGED <<Requested, Gone>>
  PROVE  ContractStep
BY DEF ContractStep, Contract!ContractNext, Contract!Report, Requested, Gone, Complete

LEMMA DeletesArePlanned ==
  /\ Deletes \subseteq Resources
  /\ \A r \in Deletes : /\ PhaseOf[r] \in 1..Len(Phases)
                        /\ r \in Phases[PhaseOf[r]].delete
  /\ \A i \in 1..Len(Phases) : \A r \in Phases[i].delete : r \in Deletes /\ PhaseOf[r] = i
<1>1. /\ DOMAIN Phases = 1..Len(Phases)
      /\ \A i \in 1..Len(Phases) : Phases[i].delete \subseteq Resources
  BY PlanShape, ExecutionAssumption DEF ExecutionAssumption
<1>2. ASSUME NEW r \in Deletes
      PROVE  PhaseOf[r] \in 1..Len(Phases) /\ r \in Phases[PhaseOf[r]].delete
  <2>1. \E i \in 1..Len(Phases) : r \in Phases[i].delete
    BY <1>1 DEF Deletes
  <2>2. PhaseOf[r] = CHOOSE i \in 1..Len(Phases) : r \in Phases[i].delete
    BY <1>1 DEF PhaseOf
  <2> QED
    BY <2>1, <2>2
<1>3. ASSUME NEW i \in 1..Len(Phases), NEW r \in Phases[i].delete
      PROVE  r \in Deletes /\ PhaseOf[r] = i
  <2>1. r \in Deletes
    BY <1>1 DEF Deletes
  <2>2. PhaseOf[r] \in 1..Len(Phases) /\ r \in Phases[PhaseOf[r]].delete
    BY <1>2, <2>1
  <2>3. \A j \in 1..Len(Phases) : i # j => PlannedIn(i) \intersect PlannedIn(j) = {}
    BY <1>1, ExecutionAssumption DEF ExecutionAssumption
  <2> QED
    BY <2>1, <2>2, <2>3 DEF PlannedIn
<1>4. Deletes \subseteq Resources
  BY <1>1 DEF Deletes
<1> QED
  BY <1>2, <1>3, <1>4

\* One name changes hands: its planned object goes, or nothing is seen.
LEMMA OneNameContract ==
  ASSUME WorldOK, Kept, NEW r, NEW v, live' = [live EXCEPT ![r] = v],
         UNCHANGED <<Requested, Complete>>
  PROVE  ContractStep
<1>1. \A s \in Resources : s # r => live'[s] = live[s]
  BY DEF WorldOK
<1>2. \A s \in Deletes : s # r => (Dead(s) <=> Dead(s)')
  BY <1>1, DeletesArePlanned DEF Dead
<1>3. \A s \in Deletes : Dead(s) => Dead(s)'
  BY DeletesArePlanned DEF Kept, Dead
<1>4. Gone' = {s \in Deletes : Dead(s)'}
  BY DEF Gone
<1>5. CASE r \in Deletes /\ ~Dead(r) /\ Dead(r)'
  <2>1. Gone' = Gone \union {r} /\ r \notin Gone
    BY <1>2, <1>4, <1>5 DEF Gone
  <2> QED
    BY <1>5, <2>1, Goes
<1>6. CASE ~(r \in Deletes /\ ~Dead(r) /\ Dead(r)')
  <2>1. Gone' = Gone
    BY <1>2, <1>3, <1>4, <1>6 DEF Gone
  <2> QED
    BY <2>1, Invisible
<1> QED
  BY <1>5, <1>6

\* A step that leaves the world alone is not seen unless it completes the run.
LEMMA QuietContract ==
  ASSUME UNCHANGED <<live, touched, Complete>>
  PROVE  ContractStep
<1>1. UNCHANGED <<Requested, Gone>>
  BY DEF Requested, Gone, Dead
<1> QED
  BY <1>1, Invisible

\* A DELETE of a phase's object finds the phases before it gone.
LEMMA SendContract ==
  ASSUME IInv, AInv, NEW r \in Resources, Send(r), AInv', Running'
  PROVE  ContractStep
<1>1. pc = "deleting" /\ del[r] = "got" /\ UNCHANGED disk
  BY DEF Send, journal
<1>2. UNCHANGED Complete
  BY <1>1 DEF Complete
<1>3. CASE live[r].uid = 1 /\ TakesEffect(r)
  <2>1. /\ live' = [live EXCEPT ![r] = Marked(live[r])]
        /\ touched' = touched \union {<<r, 1>>}
    BY <1>3 DEF TakesEffect, Become, Marked
  <2>2. Kept
    BY <1>3, MarkOK DEF IInv, TakesEffect, Marked
  <2>3. r \in Delete /\ phase \in 1..Len(Phases) /\ DeadBefore(phase)
    <3>1. phase \in 1..(Len(Phases) + 1) /\ phase <= Len(Phases) /\ DeadBefore(phase)
      BY <1>1 DEF IInv, PhaseOK, Inner
    <3>2. r \in Delete
      BY <1>1 DEF AInv, WaveOK, Inner
    <3> QED
      BY <3>1, <3>2, PlanShape
  <2>4. r \in Deletes /\ PhaseOf[r] = phase
    BY <2>3, DeletesArePlanned DEF Delete
  <2>5. Requested' = Requested \union {r}
    BY <2>1, <2>4 DEF Requested
  <2>6. CASE r \in Requested
    BY <1>2, <2>1, <2>2, <2>5, <2>6, OneNameContract DEF IInv
  <2>7. CASE r \notin Requested
    <3>1. \A s \in Deletes : PhaseOf[s] < PhaseOf[r] => s \in Gone
      <4> SUFFICES ASSUME NEW s \in Deletes, PhaseOf[s] < phase PROVE Dead(s)
        BY <2>4 DEF Gone
      <4>1. PhaseOf[s] \in 1..Len(Phases) /\ s \in Phases[PhaseOf[s]].delete
        BY DeletesArePlanned
      <4>2. PhaseOf[s] \in 1..(phase - 1)
        BY <2>3, <4>1, PlanShape
      <4> QED
        BY <2>3, <4>1, <4>2 DEF DeadBefore
    <3>2. \A s \in Resources : live'[s].uid = live[s].uid
      BY <2>1, ObjectUpdates DEF IInv, WorldOK, Marked
    <3>3. UNCHANGED Gone
      BY <3>2, DeletesArePlanned DEF Gone, Dead
    <3> QED
      BY <1>2, <2>4, <2>5, <2>7, <3>1, <3>3, IsRequested
  <2> QED
    BY <2>6, <2>7
<1>4. CASE UNCHANGED <<live, touched>>
  BY <1>2, <1>4, QuietContract
<1> QED
  BY <1>3, <1>4 DEF Send

\* A re-delete is of another object.
LEMMA RedeleteSendContract ==
  ASSUME IInv, AInv, RedeleteSend
  PROVE  ContractStep
<1>1. pc = "redelete send" /\ UNCHANGED disk
  BY DEF RedeleteSend, journal
<1>2. UNCHANGED Complete
  BY <1>1 DEF Complete
<1>3. CASE live[cur.r].uid = cur.uid /\ TakesEffect(cur.r)
  <2>1. cur.uid \in Uids /\ cur.uid > 1
    BY <1>1 DEF AInv, RedeleteOK, Bound
  <2>2. touched' = touched \union {<<cur.r, cur.uid>>} /\ cur.uid # 1
    BY <1>3, <2>1 DEF TakesEffect, Uids
  <2>3. UNCHANGED Requested
    BY <2>2 DEF Requested
  <2>4. Kept /\ live' = [live EXCEPT ![cur.r] = Marked(live[cur.r])]
    BY <1>3, MarkOK DEF IInv, TakesEffect, Become, Marked
  <2> QED
    BY <1>2, <2>3, <2>4, OneNameContract DEF IInv
<1>4. CASE UNCHANGED world
  BY <1>2, <1>4, QuietContract DEF world
<1> QED
  BY <1>3, <1>4 DEF RedeleteSend

LEMMA PatchContract == ASSUME IInv, Patch PROVE ContractStep
<1>1. UNCHANGED <<disk, touched>>
  BY DEF Patch, journal
<1>2. UNCHANGED <<Complete, Requested>>
  BY <1>1 DEF Complete, Requested
<1>3. CASE Become(cur.r, Stripped(live[cur.r]))
  <2>1. Kept /\ live' = [live EXCEPT ![cur.r] = Stripped(live[cur.r])]
    BY <1>3, StripOK DEF IInv, Become
  <2> QED
    BY <1>2, <2>1, OneNameContract DEF IInv
<1>4. CASE UNCHANGED live
  BY <1>1, <1>2, <1>4, QuietContract
<1> QED
  BY <1>3, <1>4 DEF Patch, Stripped

\* What a controller, the garbage collector or the API server does.
LEMMA ClusterContract == ASSUME IInv, Cluster PROVE ContractStep
<1>1. Kept /\ Undisturbed
  BY ClusterOK DEF IInv
<1>2. UNCHANGED <<Complete, Requested>>
  BY <1>1 DEF Undisturbed, journal, Complete, Requested
<1>3. UNCHANGED <<live, touched>> \/ \E r, v : live' = [live EXCEPT ![r] = v]
  BY <1>1 DEF Cluster, Cascade, DropFinalizer, Vanish, Recreate, Adopt, Become, Undisturbed
<1> QED
  BY <1>1, <1>2, <1>3, OneNameContract, QuietContract DEF IInv

\* A run is reported complete past the last phase only.
LEMMA FinishContract ==
  ASSUME IInv, AInv, Finish \/ MarkFailed \/ Crash
  PROVE  ContractStep
<1>1. /\ pc # "off" /\ UNCHANGED world
  BY DEF Finish, MarkFailed, Crash, Ended, world
<1>2. ~Complete
  BY <1>1 DEF AInv, RunOK, Complete
<1>3. CASE ~Complete'
  <2>1. UNCHANGED Complete
    BY <1>2, <1>3 DEF Complete
  <2> QED
    BY <1>1, <2>1, QuietContract DEF world
<1>4. CASE Complete'
  <2>1. DOMAIN mem = JournalFields
    BY DEF IInv, JournalOK, Good
  <2>2. \A x : [mem EXCEPT !.state = x].state = x
    BY <2>1 DEF JournalFields
  <2>3. Finish /\ FinalState = "ApplyCompleted"
    BY <1>2, <1>4, <2>2 DEF Finish, MarkFailed, Crash, Write, Complete
  <2>4. phase > Len(Phases) /\ phase \in 1..(Len(Phases) + 1) /\ DeadBefore(phase)
    BY <1>1, <2>3 DEF FinalState, IInv, PhaseOK
  <2>5. phase = Len(Phases) + 1
    BY <2>4, PlanShape
  <2>6. ASSUME NEW s \in Deletes PROVE Dead(s)
    <3>1. PhaseOf[s] \in 1..(phase - 1) /\ s \in Phases[PhaseOf[s]].delete
      BY <2>5, DeletesArePlanned, PlanShape
    <3> QED
      BY <2>4, <3>1 DEF DeadBefore
  <2>7. Gone = Deletes /\ UNCHANGED <<Requested, Gone>>
    BY <1>1, <2>6 DEF Gone, Requested, Dead, world
  <2> QED
    BY <1>4, <2>7, IsReported
<1> QED
  BY <1>3, <1>4

\* The other steps of a process leave the world alone, and the run incomplete.
LEMMA InsideContract ==
  ASSUME IInv, AInv, Running', pc # "off" \/ disk.state # "ApplyCompleted", UNCHANGED world
  PROVE  ContractStep
<1>1. UNCHANGED Complete
  BY DEF AInv, RunOK, Running, Complete
<1> QED
  BY <1>1, QuietContract DEF world

LEMMA WaveStepWorld ==
  ASSUME WaveStep
  PROVE  pc # "off" /\ (UNCHANGED world \/ \E r \in Resources : Send(r))
BY DEF WaveStep, WaveWait, Acquire, Checkpoint, WaveDeleted, WaveGone, WaveRecreated, WaveStalled,
   WaveCancelled, RewaitFails, WaveOver, Get, AllGone, Cancelled, Stalled, Waiting, Back,
   GoneBut, world, Send

LEMMA BarrierStepWorld ==
  ASSUME BarrierStep
  PROVE  pc # "off" /\ (UNCHANGED world \/ RedeleteSend)
BY DEF BarrierStep, BarrierWait, BarrierSkip, BarrierBegins, BarrierWaits, BarrierPassed,
   BarrierCancelled,
   BarrierStalled, BarrierDefers, BarrierRecreated, RedeleteGetFails, Authorize, RedeleteSend,
   RedeleteRecord, RedeleteDone, RedeleteGone, DeferYes, DeferNo, RedeleteGet, DeferRoot,
   AllGone, Cancelled, Stalled, Waiting, Back, GoneBut, world

LEMMA RecoveryStepWorld ==
  ASSUME RecoveryStep
  PROVE  pc # "off" /\ (UNCHANGED world \/ Patch)
BY DEF RecoveryStep, Patch, PatchRecord, RecoveryWaits, WaveRecoveryFails, BarrierRecoveryFails,
   RecoveryDefers, Recovered, RecoveryError, RecoverSkip, RecoverIntent, RecoverPaused, world

LEMMA NextContract == IInv /\ AInv /\ [Next]_vars => ContractStep
<1> SUFFICES ASSUME IInv, AInv, [Next]_vars PROVE ContractStep
  OBVIOUS
<1>1. CASE WaveStep
  BY <1>1, WaveStepWorld, WaveStepAInv, SendContract, InsideContract
<1>2. CASE BarrierStep
  BY <1>2, BarrierStepWorld, BarrierStepAInv, RedeleteSendContract, InsideContract
<1>3. CASE RecoveryStep
  BY <1>3, RecoveryStepWorld, RecoveryStepAInv, PatchContract, InsideContract
<1>4. CASE PhaseTop \/ EntryGuard \/ Enter \/ PhaseEnd
  <2>1. pc # "off" /\ UNCHANGED world
    BY <1>4 DEF PhaseTop, EntryGuard, Enter, PhaseEnd, world
  <2> QED
    BY <1>4, <2>1, PhaseTopAInv, EnterAInv, PhaseEndAInv, InsideContract
<1>5. CASE Start \/ Resume
  <2>1. disk.state # "ApplyCompleted" /\ UNCHANGED world
    BY <1>5 DEF Start, Resume, Launch, world
  <2> QED
    BY <1>5, <2>1, LaunchAInv, InsideContract
<1>6. CASE Interrupt \/ Drained \/ UNCHANGED vars
  <2>1. UNCHANGED <<world, Complete>>
    BY <1>6 DEF Interrupt, Drained, vars, journal, Complete
  <2> QED
    BY <2>1, QuietContract DEF world
<1> QED
  BY <1>1, <1>2, <1>3, <1>4, <1>5, <1>6, FinishContract, ClusterContract DEF Next, Executor

LEMMA InitContract == Init => Contract!ContractInit
BY DEF Init, Contract!ContractInit

\* Seen from outside, the execution is a teardown in phases: a DELETE of a phase
\* takes effect when what the phases before it delete is gone, and the run is
\* complete when all is (executor.rs, the phase loop and the barrier).
THEOREM ExecutionImplementsContract == Spec => ImplementsContract
<1>1. IInv /\ AInv /\ [Next]_vars => [Contract!ContractNext]_(Contract!contractVars)
  BY NextContract DEF ContractStep
<1> QED
  BY <1>1, InitContract, ExecutionAuthority, PTL
     DEF Spec, ImplementsContract, Contract!ContractSpec
-----------------------------------------------------------------------------
(***************************************************************************)
(* The pause                                                               *)
(***************************************************************************)

\* What changes the cluster holds a permit, and a pause ends without one.
PermitOK ==
  /\ pc \in {"deleting", "redelete send", "patch"} => permit
  /\ gate = "paused" => ~permit

LEMMA WaveStepPermit == ASSUME PermitOK, WaveStep PROVE PermitOK'
<1>1. CASE Acquire
  <2>1. UNCHANGED gate
    BY <1>1 DEF Acquire
  <2>2. CASE gate = "running" /\ permit' = TRUE
    <3>1. permit' /\ gate' = "running"
      BY <2>1, <2>2, Zenon
    <3>2. gate' # "paused"
      BY <3>1
    <3> QED
      BY <3>1, <3>2, Zenon DEF PermitOK
  <2>3. CASE UNCHANGED permit /\ pc' \in {"barrier", "finish"}
    BY <2>1, <2>3 DEF PermitOK
  <2> QED
    BY <1>1, <2>2, <2>3 DEF Acquire
<1>2. CASE Checkpoint
  <2>1. UNCHANGED <<gate, permit>> /\ pc' \in {"deleted", "err"}
    BY <1>2 DEF Checkpoint, Write, control
  <2> QED
    BY <2>1 DEF PermitOK
<1>3. CASE WaveDeleted
  <2>1. UNCHANGED gate /\ permit' = FALSE
    BY <1>3, Zenon DEF WaveDeleted
  <2>2. pc' \in {"finish", "err", "waiting", "wave over"}
    BY <1>3 DEF WaveDeleted, Write, StartWait
  <2> QED
    BY <2>1, <2>2 DEF PermitOK
<1>4. CASE WaveGone
  BY <1>4 DEF WaveGone, AllGone, control, Waiting, PermitOK
<1>5. CASE WaveRecreated
  BY <1>5 DEF WaveRecreated, Back, GoneBut, StartWait, control, Waiting, PermitOK
<1>6. CASE WaveStalled
  BY <1>6 DEF WaveStalled, GoneBut, Recover, control, Waiting, Return, PermitOK
<1>7. CASE WaveCancelled
  <2>1. UNCHANGED <<gate, permit>> /\ pc' \in {"finish", "err"}
    BY <1>7 DEF WaveCancelled, Write, control
  <2> QED
    BY <2>1 DEF PermitOK
<1>8. CASE RewaitFails
  <2>1. UNCHANGED <<gate, permit>> /\ pc' \in {"finish", "err"}
    BY <1>8 DEF RewaitFails, Write, control
  <2> QED
    BY <2>1 DEF PermitOK
<1>9. CASE WaveOver
  <2>1. UNCHANGED <<gate, permit>> /\ pc' \in {"finish", "err", "acquire"}
    BY <1>9 DEF WaveOver, Write, control
  <2> QED
    BY <2>1 DEF PermitOK
<1>10. ASSUME NEW r \in Resources, Get(r) PROVE PermitOK'
  BY <1>10 DEF Get, control, PermitOK
<1>11. ASSUME NEW r \in Resources, Send(r) PROVE PermitOK'
  BY <1>11 DEF Send, control, PermitOK
<1> QED
  BY <1>1, <1>2, <1>3, <1>4, <1>5, <1>6, <1>7, <1>8, <1>9, <1>10, <1>11 DEF WaveStep, WaveWait

LEMMA BarrierStepPermit == ASSUME PermitOK, BarrierStep PROVE PermitOK'
<1>1. CASE BarrierSkip
  BY <1>1 DEF BarrierSkip, control, PermitOK
<1>2. CASE BarrierBegins
  <2>1. UNCHANGED <<gate, permit>> /\ pc' \in {"barrier recorded", "err"}
    BY <1>2 DEF BarrierBegins, Write, control
  <2> QED
    BY <2>1 DEF PermitOK
<1>3. CASE BarrierWaits
  BY <1>3 DEF BarrierWaits, StartWait, control, PermitOK
<1>4. CASE BarrierPassed
  BY <1>4 DEF BarrierPassed, AllGone, control, Waiting, PermitOK
<1>5. CASE BarrierCancelled
  BY <1>5 DEF BarrierCancelled, Cancelled, Back, control, Waiting, PermitOK
<1>6. CASE BarrierStalled
  BY <1>6 DEF BarrierStalled, GoneBut, Recover, control, Waiting, Return, PermitOK
<1>7. CASE BarrierDefers
  BY <1>7 DEF BarrierDefers, Cancelled, Stalled, Back, Defer, GoneBut, control, Waiting,
     PermitOK
<1>8. CASE BarrierRecreated
  BY <1>8 DEF BarrierRecreated, Back, RedeleteAgain, StartWait, control, Waiting, Return,
     PermitOK
<1>9. CASE RedeleteGetFails
  BY <1>9 DEF RedeleteGetFails, control, PermitOK
<1>10. CASE Authorize
  <2>1. UNCHANGED gate
    BY <1>10, Zenon DEF Authorize
  <2>2. pc' \in {"redelete send", "finish"}
    BY <1>10 DEF Authorize, Write
  <2>3. CASE gate = "running" /\ permit' = (pc' = "redelete send")
    BY <2>1, <2>2, <2>3 DEF PermitOK
  <2>4. CASE pc' = "finish" /\ UNCHANGED permit
    BY <2>1, <2>4 DEF PermitOK
  <2> QED
    BY <1>10, <2>3, <2>4, Zenon DEF Authorize
<1>11. CASE RedeleteSend
  BY <1>11 DEF RedeleteSend, control, PermitOK
<1>12. CASE RedeleteRecord
  <2>1. UNCHANGED gate /\ ~permit' /\ pc' \in {"redelete", "finish"}
    BY <1>12 DEF RedeleteRecord, Write, control
  <2> QED
    BY <2>1 DEF PermitOK
<1>13. CASE RedeleteDone
  BY <1>13 DEF RedeleteDone, StartWait, control, PermitOK
<1>14. CASE RedeleteGone
  <2>1. UNCHANGED <<gate, permit>> /\ pc' \in {"phase end", "err"}
    BY <1>14 DEF RedeleteGone, Write, control
  <2> QED
    BY <2>1 DEF PermitOK
<1>15. CASE DeferYes
  BY <1>15 DEF DeferYes, control, PermitOK
<1>16. CASE DeferNo
  <2>1. UNCHANGED <<gate, permit>> /\ pc' \in {"finish", "err"}
    BY <1>16 DEF DeferNo, Write, control
  <2> QED
    BY <2>1 DEF PermitOK
<1>17. ASSUME NEW r \in Resources, RedeleteGet(r) PROVE PermitOK'
  BY <1>17 DEF RedeleteGet, control, PermitOK
<1>18. ASSUME NEW r \in Resources, DeferRoot(r) PROVE PermitOK'
  BY <1>18 DEF DeferRoot, control, PermitOK
<1> QED
  BY <1>1, <1>2, <1>3, <1>4, <1>5, <1>6, <1>7, <1>8, <1>9, <1>10, <1>11, <1>12, <1>13, <1>14,
     <1>15, <1>16, <1>17, <1>18 DEF BarrierStep, BarrierWait

LEMMA RecoveryStepPermit == ASSUME PermitOK, RecoveryStep PROVE PermitOK'
<1>1. CASE Patch
  BY <1>1 DEF Patch, control, PermitOK
<1>2. CASE PatchRecord
  <2>1. UNCHANGED gate /\ ~permit' /\ pc' \in {"recover", "recovery error"}
    BY <1>2 DEF PatchRecord, Write, control
  <2> QED
    BY <2>1 DEF PermitOK
<1>3. CASE RecoveryWaits
  BY <1>3 DEF RecoveryWaits, Recovered, StartWait, control, PermitOK
<1>4. CASE WaveRecoveryFails
  <2>1. UNCHANGED <<gate, permit>> /\ pc' \in {"finish", "err"}
    BY <1>4 DEF WaveRecoveryFails, Write, control
  <2> QED
    BY <2>1 DEF PermitOK
<1>5. CASE BarrierRecoveryFails
  BY <1>5 DEF BarrierRecoveryFails, RecoveryError, control, PermitOK
<1>6. CASE RecoveryDefers
  BY <1>6 DEF RecoveryDefers, Recovered, RecoveryError, Defer, control, PermitOK
<1>7. ASSUME NEW r \in Resources, RecoverSkip(r) PROVE PermitOK'
  BY <1>7 DEF RecoverSkip, control, PermitOK
<1>8. ASSUME NEW r \in Resources, RecoverIntent(r) PROVE PermitOK'
  <2>1. UNCHANGED gate /\ gate = "running" /\ pc' \in {"patch", "recovery error"}
        /\ (pc' = "patch" => permit')
    BY <1>8 DEF RecoverIntent, Write, control
  <2> QED
    BY <2>1 DEF PermitOK
<1>9. ASSUME NEW r \in Resources, RecoverPaused(r) PROVE PermitOK'
  BY <1>9 DEF RecoverPaused, control, PermitOK
<1> QED
  BY <1>1, <1>2, <1>3, <1>4, <1>5, <1>6, <1>7, <1>8, <1>9 DEF RecoveryStep

LEMMA NextPermit == PermitOK /\ [Next]_vars => PermitOK'
<1> SUFFICES ASSUME PermitOK, [Next]_vars PROVE PermitOK'
  OBVIOUS
<1>1. CASE PhaseTop \/ EntryGuard \/ Enter
  <2>1. UNCHANGED <<gate, permit>> /\ pc' \in {"finish", "entry", "err", "acquire"}
    BY <1>1 DEF PhaseTop, EntryGuard, Enter, control
  <2> QED
    BY <2>1 DEF PermitOK
<1>2. CASE PhaseEnd
  <2>1. UNCHANGED <<gate, permit>> /\ pc' \in {"finish", "phase", "err"}
    BY <1>2 DEF PhaseEnd, Write, control
  <2> QED
    BY <2>1 DEF PermitOK
<1>3. CASE Finish \/ MarkFailed \/ Crash
  <2>1. gate' = "running" /\ pc' = "off"
    BY <1>3 DEF Finish, MarkFailed, Crash, Ended, Write
  <2> QED
    BY <2>1 DEF PermitOK
<1>4. CASE Start \/ Resume
  <2>1. UNCHANGED <<gate, permit>> /\ pc' \in {"phase", "err", "off"}
    BY <1>4 DEF Start, Resume, Launch, Write
  <2> QED
    BY <2>1 DEF PermitOK
<1>5. CASE Cluster \/ UNCHANGED vars
  <2>1. UNCHANGED <<gate, permit, pc>>
    BY <1>5 DEF Cluster, Cascade, DropFinalizer, Vanish, Recreate, Adopt, Undisturbed, vars, control
  <2> QED
    BY <2>1 DEF PermitOK
<1>6. CASE Interrupt \/ Drained
  <2>1. UNCHANGED <<pc, permit>> /\ (gate' = "pausing" \/ ~permit)
    BY <1>6, Zenon DEF Interrupt, Drained
  <2> QED
    BY <2>1 DEF PermitOK
<1> QED
  BY <1>1, <1>2, <1>3, <1>4, <1>5, <1>6, WaveStepPermit, BarrierStepPermit, RecoveryStepPermit
     DEF Next, Executor

\* Once the pause is complete no step of the executor changes the cluster: what
\* does holds a permit, and the pause is complete when none is held (permit.rs,
\* close_and_drain).
THEOREM ExecutionSettledAfterPause == Spec => SettledAfterPause
<1>1. Init => PermitOK
  BY DEF Init, PermitOK
<1>2. PermitOK /\ [Next]_vars => [gate = "paused" => UNCHANGED world \/ Cluster]_vars
  <2> SUFFICES ASSUME PermitOK, Next, gate = "paused"
               PROVE  UNCHANGED world \/ Cluster
    BY DEF vars
  <2>1. ~permit /\ pc \notin {"deleting", "redelete send", "patch"}
    BY DEF PermitOK
  <2>2. ~RedeleteSend /\ ~Patch /\ \A r \in Resources : ~Send(r)
    BY <2>1 DEF RedeleteSend, Patch, Send
  <2>3. CASE PhaseTop \/ EntryGuard \/ Enter \/ PhaseEnd \/ Finish \/ MarkFailed \/ Crash
    BY <2>3 DEF PhaseTop, EntryGuard, Enter, PhaseEnd, Finish, MarkFailed, Crash, Ended
  <2>4. CASE Interrupt \/ Drained \/ Start \/ Resume
    BY <2>4 DEF Interrupt, Drained, Start, Resume, Launch
  <2> QED
    BY <2>2, <2>3, <2>4, WaveStepWorld, BarrierStepWorld, RecoveryStepWorld DEF Next, Executor
<1> QED
  BY <1>1, <1>2, NextPermit, PTL DEF Spec, SettledAfterPause
-----------------------------------------------------------------------------
(***************************************************************************)
(* What a step of the executor writes                                      *)
(***************************************************************************)

\* Every write is of one field, and goes from the memory to the disk.
JournalMove ==
  /\ disk' \in {disk, mem'}
  /\ \/ mem'.deleted = mem.deleted
     \/ Checkpoint /\ mem'.deleted = mem.deleted \union With({"Accepted"})
  /\ mem'.unresolved \subseteq mem.unresolved \union Resources
  /\ mem'.redelete = mem.redelete \/ Authorize \/ RedeleteRecord \/ RedeleteGone

LEMMA NotWritten ==
  ASSUME UNCHANGED <<disk, mem>>
  PROVE  JournalMove
BY DEF JournalMove

LEMMA FieldMoves ==
  ASSUME IInv, NEW x, NEW done, NEW error,
         Write(mem, done, error) \/ Write([mem EXCEPT !.completed = x], done, error)
  PROVE  JournalMove
<1>1. DOMAIN mem = JournalFields
  BY DEF IInv, JournalOK, Good
<1>2. PICK m : /\ m = mem \/ m = [mem EXCEPT !.completed = x]
               /\ mem' = m /\ disk' \in {disk, m}
  BY DEF Write
<1>3. m.deleted = mem.deleted /\ m.unresolved = mem.unresolved /\ m.redelete = mem.redelete
  BY <1>1, <1>2 DEF JournalFields
<1> QED
  BY <1>2, <1>3 DEF JournalMove

LEMMA CheckpointMoves == ASSUME IInv, Checkpoint PROVE JournalMove
<1>1. DOMAIN mem = JournalFields
  BY DEF IInv, JournalOK, Good
<1>2. PICK x : x = mem.deleted \union With({"Accepted"})
  OBVIOUS
<1>3. mem' = [mem EXCEPT !.deleted = x] /\ disk' \in {disk, mem'}
  BY <1>2 DEF Checkpoint, Write
<1>4. /\ mem'.deleted = x /\ mem'.unresolved = mem.unresolved
      /\ mem'.redelete = mem.redelete
  BY <1>1, <1>3 DEF JournalFields
<1> QED
  BY <1>2, <1>3, <1>4 DEF JournalMove

LEMMA UnresolvedMoves ==
  ASSUME IInv, \/ PatchRecord
               \/ \E r \in Resources : RecoverIntent(r)
  PROVE  JournalMove
<1>1. DOMAIN mem = JournalFields
  BY DEF IInv, JournalOK, Good
<1>2. PICK x : /\ x \subseteq mem.unresolved \union Resources
               /\ mem' = [mem EXCEPT !.unresolved = x] /\ disk' \in {disk, mem'}
  <2>1. ASSUME PatchRecord PROVE \E x : /\ x \subseteq mem.unresolved \union Resources
                                       /\ mem' = [mem EXCEPT !.unresolved = x]
                                       /\ disk' \in {disk, mem'}
    <3>1. PICK x : x = IF answer = "PatchRequested" THEN mem.unresolved
                       ELSE mem.unresolved \ {cur.r}
      OBVIOUS
    <3>2. mem' = [mem EXCEPT !.unresolved = x] /\ disk' \in {disk, mem'}
      BY <2>1, <3>1 DEF PatchRecord, Write
    <3> QED
      BY <3>1, <3>2
  <2>2. ASSUME NEW r \in Resources, RecoverIntent(r)
        PROVE  \E x : /\ x \subseteq mem.unresolved \union Resources
                      /\ mem' = [mem EXCEPT !.unresolved = x]
                      /\ disk' \in {disk, mem'}
    <3>1. PICK x : x = mem.unresolved \union {r}
      OBVIOUS
    <3>2. mem' = [mem EXCEPT !.unresolved = x] /\ disk' \in {disk, mem'}
      BY <2>2, <3>1 DEF RecoverIntent, Write
    <3> QED
      BY <3>1, <3>2
  <2> QED
    BY <2>1, <2>2
<1>3. /\ mem'.deleted = mem.deleted /\ mem'.unresolved = x
      /\ mem'.redelete = mem.redelete
  BY <1>1, <1>2 DEF JournalFields
<1> QED
  BY <1>2, <1>3 DEF JournalMove

LEMMA RecordMoves ==
  ASSUME IInv, Authorize \/ RedeleteRecord \/ RedeleteGone
  PROVE  JournalMove
<1>1. DOMAIN mem = JournalFields
  BY DEF IInv, JournalOK, Good
<1>2. CASE UNCHANGED <<disk, mem>>
  BY <1>2, NotWritten
<1>3. CASE ~UNCHANGED <<disk, mem>>
  <2>1. PICK x : mem' = [mem EXCEPT !.redelete = x] /\ disk' \in {disk, mem'}
    <3>1. CASE Authorize
      <4>1. PICK x : x = [mem.redelete EXCEPT ![cur.r][cur.uid] = "Authorized"]
        OBVIOUS
      <4>2. mem' = [mem EXCEPT !.redelete = x] /\ disk' \in {disk, mem'}
        BY <1>3, <3>1, <4>1 DEF Authorize, Write, journal
      <4> QED
        BY <4>2
    <3>2. CASE RedeleteRecord
      <4>1. PICK x : x = [mem.redelete EXCEPT ![cur.r][cur.uid] = answer]
        OBVIOUS
      <4>2. mem' = [mem EXCEPT !.redelete = x] /\ disk' \in {disk, mem'}
        BY <3>2, <4>1 DEF RedeleteRecord, Write
      <4> QED
        BY <4>2
    <3>3. CASE RedeleteGone
      BY <3>3 DEF RedeleteGone, Write
    <3> QED
      BY <3>1, <3>2, <3>3
  <2>2. mem'.deleted = mem.deleted /\ mem'.unresolved = mem.unresolved
    BY <1>1, <2>1 DEF JournalFields
  <2> QED
    BY <2>1, <2>2 DEF JournalMove
<1> QED
  BY <1>2, <1>3

LEMMA WaveStepMoves == ASSUME IInv, WaveStep PROVE JournalMove
<1>1. \/ UNCHANGED <<disk, mem>> \/ Checkpoint
      \/ \E done, error : Write(mem, done, error)
  BY Zenon DEF WaveStep, WaveWait, Acquire, WaveDeleted, WaveGone, WaveRecreated, WaveStalled,
     WaveCancelled,
     RewaitFails, WaveOver, Get, Send, journal
<1> QED
  BY <1>1, NotWritten, CheckpointMoves, FieldMoves

LEMMA BarrierStepMoves == ASSUME IInv, BarrierStep PROVE JournalMove
<1>1. \/ UNCHANGED <<disk, mem>> \/ Authorize \/ RedeleteRecord \/ RedeleteGone
      \/ \E done, error : Write(mem, done, error)
      \/ \E x, done, error : Write([mem EXCEPT !.completed = x], done, error)
  BY Zenon DEF BarrierStep, BarrierWait, BarrierSkip, BarrierBegins, BarrierWaits, BarrierPassed,
     BarrierCancelled, BarrierStalled, BarrierDefers, BarrierRecreated, RedeleteGetFails,
     RedeleteSend, RedeleteDone, DeferYes, DeferNo, RedeleteGet, DeferRoot, journal
<1> QED
  BY <1>1, NotWritten, RecordMoves, FieldMoves

LEMMA RecoveryStepMoves == ASSUME IInv, RecoveryStep PROVE JournalMove
<1>1. \/ UNCHANGED <<disk, mem>> \/ PatchRecord \/ \E r \in Resources : RecoverIntent(r)
      \/ \E done, error : Write(mem, done, error)
  BY Zenon DEF RecoveryStep, Patch, RecoveryWaits, WaveRecoveryFails, BarrierRecoveryFails,
     RecoveryDefers, RecoverSkip, RecoverPaused, journal
<1> QED
  BY <1>1, NotWritten, UnresolvedMoves, FieldMoves

LEMMA PhaseStepMoves ==
  ASSUME IInv, PhaseTop \/ EntryGuard \/ Enter \/ PhaseEnd
  PROVE  JournalMove
<1>1. \/ UNCHANGED <<disk, mem>>
      \/ \E x, done, error : Write([mem EXCEPT !.completed = x], done, error)
  BY Zenon DEF PhaseTop, EntryGuard, Enter, PhaseEnd, journal
<1> QED
  BY <1>1, NotWritten, FieldMoves
-----------------------------------------------------------------------------
(***************************************************************************)
(* A pause forgets nothing                                                 *)
(***************************************************************************)

\* What a wave has had accepted is in the journal before the wave goes on, so
\* a journal that says "Paused" is that of a process that has nothing to add.
DurableOK ==
  /\ pc = "off" => acc = {} /\ With({"Accepted"}) = {}
  /\ disk.state = "Paused" => pc \in {"off", "err"} /\ acc = {} /\ With({"Accepted"}) = {}
  /\ acc \subseteq mem.deleted
  /\ pc # "deleting" => With({"Accepted"}) \subseteq mem.deleted
  /\ pc = "waiting" /\ caller \in WaveCallers => targets \subseteq mem.deleted
  /\ pc \in Recovering /\ caller = "wave" => remaining \subseteq mem.deleted

\* A step that neither answers a DELETE nor begins a wait of a wave.
Aside ==
  /\ UNCHANGED <<acc, del>>
  /\ pc \notin {"off", "err", "deleting"} /\ pc' \notin {"off", "deleting"}
  /\ pc' = "waiting" => caller' \notin WaveCallers
                          \/ (pc \in Recovering /\ caller = "wave" /\ targets' = remaining)
  /\ pc' \in Recovering /\ caller' = "wave" =>
       pc \in Recovering /\ caller = "wave" /\ UNCHANGED remaining

\* What is in memory stays there, and a process that runs is not paused.
LEMMA DeletedStays ==
  ASSUME DurableOK, JournalMove, Running', pc \notin {"off", "err"}
  PROVE  mem.deleted \subseteq mem'.deleted /\ disk'.state # "Paused"
BY DEF DurableOK, JournalMove, Running

LEMMA AsideDurable ==
  ASSUME DurableOK, JournalMove, Running', Aside
  PROVE  DurableOK'
<1>1. mem.deleted \subseteq mem'.deleted /\ disk'.state # "Paused"
  BY DeletedStays DEF Aside
<1> QED
  BY <1>1 DEF DurableOK, Aside, With

LEMMA BarrierStepAside == ASSUME BarrierStep PROVE Aside
<1>1. CASE BarrierSkip
  BY <1>1 DEF BarrierSkip, world, control, journal, phaseVars, waitVars, stepVars, Aside,
     WaveCallers, Recovering
<1>2. CASE BarrierBegins
  BY <1>2 DEF BarrierBegins, world, control, phaseVars, waitVars, stepVars, Write, Aside,
     WaveCallers, Recovering
<1>3. CASE BarrierWaits
  BY <1>3 DEF BarrierWaits, StartWait, world, control, journal, phaseVars, stepVars, Aside,
     WaveCallers, Recovering
<1>4. CASE BarrierPassed
  BY <1>4 DEF BarrierPassed, AllGone, Unwind, world, control, journal, phaseVars, Waiting,
     EndWait, Aside, WaveCallers, Recovering
<1>5. CASE BarrierCancelled
  BY <1>5 DEF BarrierCancelled, Cancelled, Back, Unwind, world, control, journal, phaseVars,
     Waiting, EndWait, Aside, WaveCallers, Recovering
<1>6. CASE BarrierStalled
  BY <1>6 DEF BarrierStalled, GoneBut, Recover, world, control, journal, phaseVars, Waiting,
     Return, EndWait, Aside, WaveCallers, Recovering
<1>7. CASE BarrierDefers
  BY <1>7 DEF BarrierDefers, Cancelled, Stalled, Back, Defer, GoneBut, world, control, journal,
     phaseVars, Waiting, EndWait, Aside, WaveCallers, Recovering
<1>8. CASE BarrierRecreated
  BY <1>8 DEF BarrierRecreated, Back, RedeleteAgain, Unwind, StartWait, stepVars, world,
     control, journal, phaseVars, Waiting, Return, EndWait, Aside, WaveCallers, Recovering
<1>9. CASE RedeleteGetFails
  BY <1>9 DEF RedeleteGetFails, Unwind, world, control, journal, phaseVars, EndWait, Aside,
     WaveCallers, Recovering
<1>10. CASE Authorize
  BY <1>10 DEF Authorize, journal, world, phaseVars, waitVars, stepVars, Write, Aside,
     WaveCallers, Recovering
<1>11. CASE RedeleteSend
  BY <1>11 DEF RedeleteSend, world, control, journal, phaseVars, Aside, WaveCallers, Recovering
<1>12. CASE RedeleteRecord
  BY <1>12 DEF RedeleteRecord, world, phaseVars, waitVars, Write, Aside, WaveCallers, Recovering
<1>13. CASE RedeleteDone
  BY <1>13 DEF RedeleteDone, StartWait, world, control, journal, phaseVars, stepVars, Aside,
     WaveCallers, Recovering
<1>14. CASE RedeleteGone
  BY <1>14 DEF RedeleteGone, AllGone, Unwind, world, control, phaseVars, Waiting, EndWait,
     Write, Aside, WaveCallers, Recovering
<1>15. CASE DeferYes
  BY <1>15 DEF DeferYes, Unwind, world, control, journal, phaseVars, EndWait, Aside,
     WaveCallers, Recovering
<1>16. CASE DeferNo
  BY <1>16 DEF DeferNo, journal, Unwind, world, control, phaseVars, EndWait, Write, Aside,
     WaveCallers, Recovering
<1>17. ASSUME NEW r \in Resources, RedeleteGet(r) PROVE Aside
  BY <1>17 DEF RedeleteGet, world, control, journal, phaseVars, waitVars, Aside, WaveCallers,
     Recovering
<1>18. ASSUME NEW r \in Resources, DeferRoot(r) PROVE Aside
  BY <1>18 DEF DeferRoot, world, control, journal, phaseVars, waitVars, Aside, WaveCallers,
     Recovering
<1> QED
  BY <1>1, <1>2, <1>3, <1>4, <1>5, <1>6, <1>7, <1>8, <1>9, <1>10, <1>11, <1>12, <1>13, <1>14,
     <1>15, <1>16, <1>17, <1>18 DEF BarrierStep, BarrierWait

LEMMA RecoveryStepAside == ASSUME IInv, RecoveryStep PROVE Aside
<1>1. CASE Patch
  BY <1>1 DEF Patch, control, journal, phaseVars, Aside, WaveCallers, Recovering
<1>2. CASE PatchRecord
  BY <1>2 DEF PatchRecord, RecoveryOver, world, phaseVars, waitVars, Write, Aside, WaveCallers,
     Recovering
<1>3. CASE RecoveryWaits
  <2>1. /\ pc = "recover" /\ pc' = "waiting" /\ UNCHANGED <<acc, del>>
        /\ targets' = remaining /\ caller' = AfterRecovery[caller]
    BY <1>3 DEF RecoveryWaits, Recovered, StartWait, phaseVars
  <2>2. caller \in {"wave", "barrier", "redelete"}
    BY <2>1 DEF IInv, CallerOK, Recovering
  <2>3. caller # "wave" => caller' \notin WaveCallers
    <3>1. /\ AfterRecovery["barrier"] = "barrier recovered"
          /\ AfterRecovery["redelete"] = "redelete recovered"
      BY DEF AfterRecovery
    <3> QED
      BY <2>1, <2>2, <3>1 DEF WaveCallers
  <2> QED
    BY <2>1, <2>2, <2>3 DEF Aside, WaveCallers, Recovering
<1>4. CASE WaveRecoveryFails
  BY <1>4 DEF WaveRecoveryFails, RecoveryError, Recovered, Unwind, world, control, EndWait,
     Write, Aside, WaveCallers, Recovering
<1>5. CASE BarrierRecoveryFails
  BY <1>5 DEF BarrierRecoveryFails, RecoveryError, Unwind, world, control, journal, phaseVars,
     EndWait, Aside, WaveCallers, Recovering
<1>6. CASE RecoveryDefers
  BY <1>6 DEF RecoveryDefers, Recovered, RecoveryError, Defer, world, control, journal,
     phaseVars, EndWait, Aside, WaveCallers, Recovering
<1>7. ASSUME NEW r \in Resources, RecoverSkip(r) PROVE Aside
  BY <1>7 DEF RecoverSkip, world, control, journal, phaseVars, waitVars, Aside, WaveCallers,
     Recovering
<1>8. ASSUME NEW r \in Resources, RecoverIntent(r) PROVE Aside
  BY <1>8 DEF RecoverIntent, RecoveryOver, world, phaseVars, waitVars, Write, Aside,
     WaveCallers, Recovering
<1>9. ASSUME NEW r \in Resources, RecoverPaused(r) PROVE Aside
  BY <1>9 DEF RecoverPaused, world, control, journal, phaseVars, waitVars, Aside, WaveCallers,
     Recovering
<1> QED
  BY <1>1, <1>2, <1>3, <1>4, <1>5, <1>6, <1>7, <1>8, <1>9 DEF RecoveryStep

\* A wave does not end the process.
LEMMA WaveStepEnds == ASSUME WaveStep PROVE pc' # "off"
BY DEF WaveStep, WaveWait, Acquire, Checkpoint, WaveDeleted, WaveGone, WaveRecreated, WaveStalled,
   WaveCancelled, RewaitFails, WaveOver, Get, Send, AllGone, Cancelled, Stalled, Waiting, Back,
   GoneBut, Write, StartWait, Recover, Return

LEMMA WaveStepDurable ==
  ASSUME IInv, AInv, DurableOK, WaveStep, Running'
  PROVE  DurableOK'
<1>1. JournalMove
  BY WaveStepMoves
<1>2. CASE WaveCancelled \/ RewaitFails \/ WaveOver
  <2>1. Aside
    <3>1. CASE WaveCancelled
      BY <3>1 DEF WaveCancelled, Cancelled, Waiting, Write, phaseVars, Aside, Recovering
    <3>2. CASE RewaitFails
      BY <3>2 DEF RewaitFails, Cancelled, Stalled, Back, Waiting, Write, Aside, Recovering
    <3>3. CASE WaveOver
      BY <3>3 DEF WaveOver, Write, Aside, Recovering
    <3> QED
      BY <1>2, <3>1, <3>2, <3>3
  <2> QED
    BY <1>1, <2>1, AsideDurable
<1>3. CASE Acquire
  <2>1. pc = "acquire" /\ pc' \in {"barrier", "deleting", "finish"} /\ UNCHANGED acc
    BY <1>3 DEF Acquire
  <2>2. UNCHANGED del \/ \A r \in Resources : del'[r] # "Accepted"
    BY <1>3 DEF Acquire
  <2>3. mem.deleted \subseteq mem'.deleted /\ disk'.state # "Paused"
    BY <1>1, <2>1, DeletedStays
  <2>4. With({"Accepted"})' \subseteq With({"Accepted"})
    BY <2>2 DEF With
  <2> QED
    BY <2>1, <2>3, <2>4 DEF DurableOK, Recovering
<1>4. ASSUME NEW r \in Resources, Get(r) \/ Send(r) PROVE DurableOK'
  <2>1. pc = "deleting" /\ pc' = "deleting" /\ UNCHANGED acc
    BY <1>4 DEF Get, Send
  <2>2. mem.deleted \subseteq mem'.deleted /\ disk'.state # "Paused"
    BY <1>1, <2>1, DeletedStays
  <2> QED
    BY <2>1, <2>2 DEF DurableOK, Recovering
<1>5. CASE Checkpoint
  <2>1. /\ pc = "deleting" /\ pc' \in {"deleted", "err"} /\ UNCHANGED <<acc, del>>
    BY <1>5 DEF Checkpoint, Write, phaseVars
  <2>2. mem'.deleted = mem.deleted \union With({"Accepted"})
    <3>1. DOMAIN mem = JournalFields
      BY DEF IInv, JournalOK, Good
    <3>2. PICK x : x = mem.deleted \union With({"Accepted"})
      OBVIOUS
    <3>3. mem' = [mem EXCEPT !.deleted = x]
      BY <1>5, <3>2 DEF Checkpoint, Write
    <3> QED
      BY <3>1, <3>2, <3>3 DEF JournalFields
  <2>3. disk'.state # "Paused"
    BY <1>1, <2>1, DeletedStays
  <2> QED
    BY <2>1, <2>2, <2>3 DEF DurableOK, Recovering, With
<1>6. CASE WaveDeleted
  <2>1. /\ pc = "deleted" /\ UNCHANGED <<acc, del>>
        /\ pc' \in {"finish", "err", "waiting", "wave over"}
    BY <1>6 DEF WaveDeleted, Write, StartWait
  <2>2. pc' = "waiting" => targets' = With({"Accepted"})
    BY <1>6 DEF WaveDeleted, Write, StartWait
  <2>3. mem.deleted \subseteq mem'.deleted /\ disk'.state # "Paused"
    BY <1>1, <2>1, DeletedStays
  <2> QED
    BY <2>1, <2>2, <2>3 DEF DurableOK, Recovering, With
<1>7. CASE WaveGone
  <2>1. /\ pc = "waiting" /\ caller \in WaveCallers /\ pc' = "wave over" /\ UNCHANGED del
        /\ acc' = acc \union targets
    BY <1>7 DEF WaveGone, AllGone, Waiting, WaveCallers
  <2>2. mem.deleted \subseteq mem'.deleted /\ disk'.state # "Paused"
    BY <1>1, <2>1, DeletedStays
  <2> QED
    BY <2>1, <2>2 DEF DurableOK, Recovering, With
<1>8. CASE WaveRecreated
  <2>1. /\ pc = "waiting" /\ caller \in WaveCallers /\ UNCHANGED del
        /\ acc' \subseteq acc \union targets
        /\ pc' = "wave over" \/ (pc' = "waiting" /\ targets' \subseteq targets)
    <3>1. PICK back \in Back : \E gone \in GoneBut(back) :
            /\ acc' = acc \union gone \union back
            /\ pc' = "wave over" \/ StartWait("rewait", targets \ (gone \union back))
      BY <1>8 DEF WaveRecreated
    <3>5. PICK gone \in GoneBut(back) :
            /\ acc' = acc \union gone \union back
            /\ pc' = "wave over" \/ StartWait("rewait", targets \ (gone \union back))
      BY <3>1
    <3>2. pc = "waiting" /\ caller \in WaveCallers /\ UNCHANGED del
      BY <1>8, <3>1 DEF WaveRecreated, Back, Waiting, WaveCallers
    <3>3. back \subseteq sawBack /\ gone \subseteq sawGone
      BY <3>1, <3>2, <3>5 DEF Back, GoneBut, Waiting
    <3>4. sawGone \union sawBack \subseteq targets
      BY DEF AInv, WaveOK
    <3> QED
      BY <3>2, <3>3, <3>4, <3>5 DEF StartWait
  <2>2. mem.deleted \subseteq mem'.deleted /\ disk'.state # "Paused"
    BY <1>1, <2>1, DeletedStays
  <2> QED
    BY <2>1, <2>2 DEF DurableOK, Recovering, With
<1>9. CASE WaveStalled
  <2>1. /\ pc = "waiting" /\ caller \in WaveCallers /\ pc' = "recover" /\ UNCHANGED del
        /\ acc' \subseteq acc \union targets /\ remaining' \subseteq targets
    <3>1. PICK gone \in GoneBut({}) :
            acc' = acc \union gone /\ remaining' = targets \ gone /\ Recover(targets \ gone)
      BY <1>9 DEF WaveStalled
    <3>2. pc = "waiting"
      BY <3>1 DEF GoneBut, Waiting
    <3>3. caller \in WaveCallers /\ UNCHANGED del
      BY <1>9 DEF WaveStalled, WaveCallers
    <3>4. gone \subseteq targets
      BY <3>1, <3>2 DEF GoneBut, Waiting, AInv, WaveOK
    <3> QED
      BY <3>1, <3>2, <3>3, <3>4 DEF Recover, Return
  <2>2. mem.deleted \subseteq mem'.deleted /\ disk'.state # "Paused"
    BY <1>1, <2>1, DeletedStays
  <2> QED
    BY <2>1, <2>2 DEF DurableOK, Recovering, With
<1> QED
  BY <1>2, <1>3, <1>4, <1>5, <1>6, <1>7, <1>8, <1>9 DEF WaveStep, WaveWait

LEMMA PhaseStepDurable ==
  ASSUME IInv, DurableOK, PhaseTop \/ EntryGuard \/ Enter \/ PhaseEnd, Running'
  PROVE  DurableOK'
<1>1. JournalMove
  BY PhaseStepMoves
<1>2. CASE PhaseTop \/ EntryGuard \/ PhaseEnd
  <2>1. Aside
    BY <1>2 DEF PhaseTop, EntryGuard, PhaseEnd, Write, phaseVars, Aside, Recovering
  <2> QED
    BY <1>1, <2>1, AsideDurable
<1>3. CASE Enter
  <2>1. /\ pc = "entry" /\ pc' = "acquire" /\ acc' = {}
        /\ \A r \in Resources : del'[r] # "Accepted"
    BY <1>3 DEF Enter
  <2>2. mem.deleted \subseteq mem'.deleted /\ disk'.state # "Paused"
    BY <1>1, <2>1, DeletedStays
  <2> QED
    BY <2>1, <2>2 DEF DurableOK, Recovering, With
<1> QED
  BY <1>2, <1>3

LEMMA OverDurable ==
  ASSUME Finish \/ MarkFailed \/ Crash
  PROVE  DurableOK'
<1>1. pc' = "off" /\ acc' = {} /\ \A r \in Resources : del'[r] = "idle"
  BY DEF Finish, MarkFailed, Crash, Ended, Write
<1> QED
  BY <1>1 DEF DurableOK, With, Recovering

LEMMA LaunchDurable ==
  ASSUME IInv, DurableOK, Start \/ Resume
  PROVE  DurableOK'
<1>1. /\ pc = "off" /\ pc' \in {"phase", "err", "off"} /\ UNCHANGED <<acc, del>>
      /\ mem' = [disk EXCEPT !.state = "Applying"] /\ disk' \in {disk, mem'}
      /\ pc' = "phase" => disk' = mem'
  BY DEF Start, Resume, Launch, Write
<1>2. mem'.state = "Applying"
  BY <1>1 DEF IInv, JournalOK, Good, JournalFields
<1>3. acc = {} /\ With({"Accepted"}) = {} /\ With({"Accepted"})' = {}
  BY <1>1 DEF DurableOK, With
<1>4. acc' = {}
  BY <1>1, <1>3
<1> QED
  BY <1>1, <1>2, <1>3, <1>4 DEF DurableOK, Recovering

LEMMA NextDurable == IInv /\ AInv /\ DurableOK /\ [Next]_vars => DurableOK'
<1> SUFFICES ASSUME IInv, AInv, DurableOK, [Next]_vars PROVE DurableOK'
  OBVIOUS
<1>1. CASE BarrierStep
  BY <1>1, BarrierStepAInv, BarrierStepMoves, BarrierStepAside, AsideDurable
<1>2. CASE RecoveryStep
  BY <1>2, RecoveryStepAInv, RecoveryStepMoves, RecoveryStepAside, AsideDurable
<1>3. CASE PhaseTop \/ EntryGuard \/ Enter \/ PhaseEnd
  BY <1>3, PhaseTopAInv, EnterAInv, PhaseEndAInv, PhaseStepDurable
<1>4. CASE Cluster \/ Interrupt \/ Drained \/ UNCHANGED vars
  <2>1. UNCHANGED <<disk, mem, pc, acc, del, caller, targets, remaining>>
    BY <1>4 DEF Cluster, Cascade, DropFinalizer, Vanish, Recreate, Adopt, Undisturbed,
       Interrupt, Drained,
       vars, journal, phaseVars, waitVars
  <2> QED
    BY <2>1 DEF DurableOK, With
<1> QED
  BY <1>1, <1>2, <1>3, <1>4, WaveStepAInv, WaveStepDurable, OverDurable, LaunchDurable
     DEF Next, Executor

\* A run that pauses has on disk every accepted DELETE of its phase: each is
\* recorded before its wave is waited for, and only Finish writes "Paused"
\* (executor.rs, execute_delete_waves).
THEOREM ExecutionPausedIsDurable == Spec => PausedIsDurable
<1>1. Init => DurableOK
  BY DEF Init, DurableOK, With, Recovering
<1>2. DurableOK /\ IInv /\ [Next]_vars =>
        [pc # "off" /\ pc' = "off" /\ disk'.state = "Paused" =>
           acc \union With({"Accepted"}) \subseteq disk'.deleted]_vars
  <2> SUFFICES ASSUME DurableOK, IInv, pc # "off", pc' = "off", disk'.state = "Paused", Next
               PROVE  acc \union With({"Accepted"}) \subseteq disk'.deleted
    BY DEF vars
  <2>1. CASE disk' = disk
    BY <2>1 DEF DurableOK
  <2>2. CASE Finish
    <3>1. pc = "finish" /\ disk' \in {disk, [mem EXCEPT !.state = FinalState]}
      BY <2>2 DEF Finish, Write
    <3>2. \A x : [mem EXCEPT !.state = x].deleted = mem.deleted
      BY DEF IInv, JournalOK, Good, JournalFields
    <3> QED
      BY <2>1, <3>1, <3>2 DEF DurableOK
  <2>3. CASE MarkFailed
    <3>1. disk' \in {disk, [mem EXCEPT !.state = "Failed"]}
      BY <2>3 DEF MarkFailed, Write
    <3>2. [mem EXCEPT !.state = "Failed"].state = "Failed"
      BY DEF IInv, JournalOK, Good, JournalFields
    <3> QED
      BY <2>1, <3>1, <3>2
  <2>4. CASE Crash
    BY <2>1, <2>4 DEF Crash
  <2>5. ~Executor \/ Finish \/ MarkFailed
    <3>1. ~WaveStep
      BY WaveStepEnds
    <3>2. ~BarrierStep /\ ~RecoveryStep
      BY BarrierStepAside, RecoveryStepAside DEF Aside
    <3>3. ~PhaseTop /\ ~EntryGuard /\ ~Enter /\ ~PhaseEnd
      BY DEF PhaseTop, EntryGuard, Enter, PhaseEnd, Write
    <3> QED
      BY <3>1, <3>2, <3>3 DEF Executor
  <2>6. ~Start /\ ~Resume /\ ~Cluster /\ ~Interrupt /\ ~Drained
    BY DEF Start, Resume, Cluster, Cascade, DropFinalizer, Vanish, Recreate, Adopt, Undisturbed,
       Interrupt, Drained
  <2> QED
    BY <2>2, <2>3, <2>4, <2>5, <2>6 DEF Next
<1> QED
  BY <1>1, <1>2, NextDurable, ExecutionAuthority, PTL DEF Spec, PausedIsDurable
-----------------------------------------------------------------------------
(***************************************************************************)
(* What is stripped was struck                                             *)
(***************************************************************************)

\* A name has its last object, or none.
LifeOK == \A r \in Resources : live[r].uid \in {0, live[r].last}

\* The object <<r, u>> is no more, and a uid is not used twice.
Past(r, u) == u <= live[r].last /\ live[r].uid # u

\* A re-delete that is recorded as accepted took effect; one that is recorded as
\* gone did, or found its object gone.
RecordsTrue(j) ==
  \A r \in Resources, u \in Uids :
    /\ j.redelete[r][u] = "Accepted" => <<r, u>> \in touched
    /\ u > 0 /\ j.redelete[r][u] = "Gone" => <<r, u>> \in touched \/ Past(r, u)

\* What the journal calls deleted is the run's, also when another process of it
\* reads the journal.
DeletedOK == \A r \in mem.deleted \union disk.deleted : Mine(r)

\* An ownerReference names an object that there is, or was.
RefOK ==
  /\ ref \in [DOMAIN Owners -> [r : Resources, uid : Uids]]
  /\ \A e \in DOMAIN Owners : ref[e].uid >= 1 /\ ref[e].uid <= live[ref[e].r].last

BoundOK ==
  /\ pc \in Bound => cur.uid <= live[cur.r].last
  /\ pc = "redelete record" /\ answer = "Accepted" => <<cur.r, cur.uid>> \in touched
  /\ pc = "redelete record" /\ answer = "Gone" => Past(cur.r, cur.uid)

\* A recovery is for what a wave has had accepted or what a barrier waits for.
TodoOK ==
  /\ pc = "waiting" /\ caller \in {"barrier", "redelete"} => targets \subseteq BarrierTargets
  /\ pc \in Recovering /\ caller \in {"barrier", "redelete"} => todo \subseteq BarrierTargets
  /\ pc \in Recovering /\ caller = "wave" => todo \subseteq remaining

\* The owner o, which is gone, was the run's, or the run found it gone when it
\* came to delete it again.
Bereft(o) ==
  /\ o.r \in Resources /\ o.uid \in Uids /\ o.uid > 0
  /\ Past(o.r, o.uid) /\ Mine(o.r)
  /\ <<o.r, o.uid>> \in touched \/ disk.redelete[o.r][o.uid] = "Gone"

\* What may be stripped: what the run deleted, or what was read to belong to
\* what it deleted.
Struck(c) ==
  \/ <<c.r, c.uid>> \in touched
  \/ c.r \in Expect /\ c.r \in DOMAIN Owners /\ Bereft(c.ref)

PatchOK ==
  pc = "patch" =>
    /\ cur.r \in Resources /\ cur.uid \in Uids /\ cur.uid > 0
    /\ cur.uid <= live[cur.r].last
    /\ live[cur.r].uid = cur.uid => live[cur.r].deleting /\ Struck(cur)

SInv ==
  /\ LifeOK /\ RefOK /\ DeletedOK /\ RecordsTrue(disk) /\ RecordsTrue(mem)
  /\ BoundOK /\ TodoOK /\ PatchOK

\* An object does not come back, and is not taken out of deletion.
Aged ==
  \A r \in Resources :
    /\ live[r].last <= live'[r].last
    /\ live'[r].uid = live[r].uid \/ live'[r].uid = 0 \/ live'[r].uid > live[r].last
    /\ live'[r].uid = live[r].uid /\ live[r].uid # 0 /\ live[r].deleting => live'[r].deleting

LEMMA BecomeAges ==
  ASSUME WorldOK, LifeOK, NEW r \in Resources, NEW v \in Objects, Become(r, v),
         live[r].last <= v.last, v.uid \in {0, v.last},
         v.uid = live[r].uid \/ v.uid = 0 \/ v.uid > live[r].last,
         v.uid = live[r].uid /\ v.uid # 0 /\ live[r].deleting => v.deleting
  PROVE  LifeOK' /\ Aged
<1>1. /\ live'[r] = v
      /\ \A s \in Resources : s # r => live'[s] = live[s]
  BY DEF Become, WorldOK
<1>2. \A s \in Resources : live[s].last \in Int
  BY DEF WorldOK, Objects, Uids
<1> QED
  BY <1>1, <1>2 DEF LifeOK, Aged

LEMMA StillAges == ASSUME WorldOK, LifeOK, UNCHANGED live PROVE LifeOK' /\ Aged
<1>1. \A s \in Resources : live[s].last \in Int
  BY DEF WorldOK, Objects, Uids
<1> QED
  BY <1>1 DEF LifeOK, Aged

LEMMA UpdateAges ==
  ASSUME WorldOK, LifeOK, NEW r,
         Become(r, Marked(live[r])) \/ Become(r, Stripped(live[r]))
  PROVE  LifeOK' /\ Aged
<1>1. CASE r \notin Resources
  BY <1>1, StillAges DEF Become, WorldOK
<1>2. CASE r \in Resources
  <2>1. live[r] \in Objects /\ live[r].uid \in {0, live[r].last} /\ live[r].last \in Int
    BY <1>2 DEF WorldOK, LifeOK, Objects, Uids
  <2>2. Marked(live[r]).deleting = TRUE /\ Stripped(live[r]).deleting = live[r].deleting
    BY <2>1 DEF Objects, Marked, Stripped
  <2>3. PICK v \in Objects : /\ Become(r, v) /\ v.uid = live[r].uid /\ v.last = live[r].last
                             /\ live[r].deleting => v.deleting
    BY <2>1, <2>2, ObjectUpdates
  <2> QED
    BY <1>2, <2>1, <2>3, BecomeAges
<1> QED
  BY <1>1, <1>2

LEMMA ClusterAges == ASSUME WorldOK, LifeOK, Cluster PROVE LifeOK' /\ Aged
<1>1. PICK r \in Resources :
        Cascade(r) \/ DropFinalizer(r) \/ Vanish(r) \/ Recreate(r) \/ Adopt(r)
  BY DEF Cluster
<1>2. live[r] \in Objects /\ live[r].last >= 1 /\ LastUid \in Nat \ {0}
  BY ExecutionAssumption DEF WorldOK, ExecutionAssumption
<1>3. CASE Cascade(r) \/ DropFinalizer(r)
  BY <1>3, UpdateAges DEF Cascade, DropFinalizer, Marked, Stripped
<1>4. CASE Vanish(r)
  <2>1. PICK v : v = Absent(live[r].last)
    OBVIOUS
  <2>2. v \in Objects /\ v.uid = 0 /\ v.last = live[r].last /\ v.last \in Int
    BY <1>2, <2>1 DEF Absent, Objects, Uids
  <2>3. Become(r, v)
    BY <1>4, <2>1 DEF Vanish
  <2> QED
    BY <2>2, <2>3, BecomeAges
<1>5. CASE Recreate(r)
  <2>1. live[r].last + 1 \in Uids /\ live[r].last \in Int
    BY <1>2, <1>5 DEF Recreate, Objects, Uids
  <2>2. PICK u \in Uids : u = live[r].last + 1
    BY <2>1
  <2>3. PICK v : v = Object(r, u)
    OBVIOUS
  <2>4. v \in Objects /\ v.uid = u /\ v.last = u /\ u > live[r].last /\ live[r].last <= u
    BY <2>1, <2>2, <2>3 DEF Object, Objects
  <2>5. Become(r, v)
    BY <1>5, <2>2, <2>3 DEF Recreate
  <2>6. u # live[r].uid
    BY <1>2, <2>1, <2>2 DEF LifeOK
  <2> QED
    BY <2>4, <2>5, <2>6, BecomeAges
<1>6. CASE Adopt(r)
  BY <1>6, StillAges DEF Adopt
<1> QED
  BY <1>1, <1>3, <1>4, <1>5, <1>6

\* What was deleted stays deleted.
Grows == LifeOK' /\ Aged /\ touched \subseteq touched'

LEMMA NextGrows ==
  ASSUME IInv, LifeOK, [Next]_vars
  PROVE  Grows
<1>1. CASE UNCHANGED world
  BY <1>1, StillAges DEF world, Grows, IInv
<1>2. CASE Cluster
  <2>1. UNCHANGED touched
    BY <1>2, ClusterOK DEF Undisturbed, IInv
  <2> QED
    BY <1>2, <2>1, ClusterAges DEF Grows, IInv
<1>3. CASE Patch
  BY <1>3, UpdateAges, StillAges DEF Patch, Grows, IInv, Stripped
<1>4. CASE RedeleteSend
  BY <1>4, UpdateAges, StillAges DEF RedeleteSend, TakesEffect, world, Grows, IInv, Marked
<1>5. ASSUME NEW r \in Resources, Send(r) PROVE Grows
  BY <1>5, UpdateAges, StillAges DEF Send, TakesEffect, Grows, IInv, Marked
<1>6. CASE PhaseTop \/ EntryGuard \/ Enter \/ PhaseEnd \/ Finish \/ MarkFailed \/ Crash
  BY <1>1, <1>6 DEF PhaseTop, EntryGuard, Enter, PhaseEnd, Finish, MarkFailed, Crash, Ended
<1>7. CASE Interrupt \/ Drained \/ Start \/ Resume \/ UNCHANGED vars
  BY <1>1, <1>7 DEF Interrupt, Drained, Start, Resume, Launch, vars, world
<1> QED
  BY <1>1, <1>2, <1>3, <1>4, <1>5, <1>6, <1>7, WaveStepWorld, BarrierStepWorld, RecoveryStepWorld
     DEF Next, Executor

LEMMA PastStays ==
  ASSUME WorldOK, WorldOK', Grows, NEW r \in Resources, NEW u \in Uids, u > 0, Past(r, u)
  PROVE  u <= live'[r].last /\ live'[r].uid # u
<1>1. /\ live[r].last \in Int /\ live'[r].last \in Int /\ u \in Int
      /\ live[r].uid \in Int /\ live'[r].uid \in Int
  BY DEF WorldOK, Objects, Uids
<1>2. u <= live[r].last /\ live[r].uid # u
  BY DEF Past
<1>3. /\ live[r].last <= live'[r].last
      /\ live'[r].uid = live[r].uid \/ live'[r].uid = 0 \/ live'[r].uid > live[r].last
  BY DEF Grows, Aged
<1> QED
  BY <1>1, <1>2, <1>3

LEMMA BereftStays ==
  ASSUME WorldOK, WorldOK', Grows, UNCHANGED disk, NEW o, Bereft(o)
  PROVE  Bereft(o)'
<1>1. /\ o.r \in Resources /\ o.uid \in Uids /\ o.uid > 0
      /\ Past(o.r, o.uid) /\ Mine(o.r)
      /\ <<o.r, o.uid>> \in touched \/ disk.redelete[o.r][o.uid] = "Gone"
  BY DEF Bereft
<1>2. o.uid <= live'[o.r].last /\ live'[o.r].uid # o.uid
  BY <1>1, PastStays
<1>3. touched \subseteq touched'
  BY DEF Grows
<1> QED
  BY <1>1, <1>2, <1>3 DEF Bereft, Past, Mine

\* Only the cluster gives a dependent to another owner.
LEMMA RefMoves ==
  ASSUME [Next]_vars
  PROVE  UNCHANGED ref \/ \E r \in Resources : Adopt(r)
<1>1. CASE Cluster
  BY <1>1 DEF Cluster, Cascade, DropFinalizer, Vanish, Recreate, Become
<1>2. CASE Patch \/ RedeleteSend \/ \E r \in Resources : Send(r)
  BY <1>2 DEF Patch, RedeleteSend, Send, TakesEffect, Become, world
<1>3. CASE PhaseTop \/ EntryGuard \/ Enter \/ PhaseEnd \/ Finish \/ MarkFailed \/ Crash
  BY <1>3 DEF PhaseTop, EntryGuard, Enter, PhaseEnd, Finish, MarkFailed, Crash, Ended, world
<1>4. CASE Interrupt \/ Drained \/ Start \/ Resume \/ UNCHANGED vars
  BY <1>4 DEF Interrupt, Drained, Start, Resume, Launch, vars, world
<1> QED
  BY <1>1, <1>2, <1>3, <1>4, WaveStepWorld, BarrierStepWorld, RecoveryStepWorld
     DEF Next, Executor, world

LEMMA RefNext ==
  ASSUME IInv, IInv', LifeOK, RefOK, Grows, [Next]_vars
  PROVE  RefOK'
<1>1. CASE UNCHANGED ref
  <2> SUFFICES ASSUME NEW e \in DOMAIN Owners PROVE ref[e].uid <= live'[ref[e].r].last
    BY <1>1 DEF RefOK
  <2>1. ref[e].r \in Resources /\ ref[e].uid \in Uids /\ ref[e].uid <= live[ref[e].r].last
    BY DEF RefOK
  <2>2. live[ref[e].r].last <= live'[ref[e].r].last
    BY <2>1 DEF Grows, Aged
  <2>3. /\ live[ref[e].r].last \in Int /\ live'[ref[e].r].last \in Int
        /\ ref[e].uid \in Int
    BY <2>1 DEF IInv, WorldOK, Objects, Uids
  <2> QED
    BY <2>1, <2>2, <2>3
<1>2. ASSUME NEW r \in Resources, Adopt(r) PROVE RefOK'
  <2>1. /\ r \in DOMAIN Owners /\ ref[r] \in [r : Resources, uid : Uids]
        /\ ref' = [ref EXCEPT ![r].uid = live[ref[r].r].uid] /\ UNCHANGED live
        /\ live[ref[r].r].uid # 0
    BY <1>2 DEF Adopt, Orphan, Exists, RefOK
  <2>2. PICK u \in Uids : u = live[ref[r].r].uid /\ u >= 1 /\ u <= live[ref[r].r].last
    BY <2>1 DEF IInv, WorldOK, Objects, LifeOK, Uids
  <2>3. PICK o : o = [ref[r] EXCEPT !.uid = u]
    OBVIOUS
  <2>4. o \in [r : Resources, uid : Uids] /\ o.r = ref[r].r /\ o.uid = u
    BY <2>1, <2>2, <2>3
  <2>5. ref' = [ref EXCEPT ![r] = o]
    BY <2>1, <2>2, <2>3
  <2>6. \A e \in DOMAIN Owners : (e = r /\ ref'[e] = o) \/ ref'[e] = ref[e]
    BY <2>5 DEF RefOK
  <2>7. ref' \in [DOMAIN Owners -> [r : Resources, uid : Uids]]
    BY <2>5, <2>4 DEF RefOK
  <2> QED
    BY <2>1, <2>2, <2>6, <2>7, <2>4 DEF RefOK
<1> QED
  BY <1>1, <1>2, RefMoves

\* RecordsTrue, of a journal that is written, in the world after the step.
TrueNext(j) ==
  \A r \in Resources, u \in Uids :
    /\ j.redelete[r][u] = "Accepted" => <<r, u>> \in touched'
    /\ u > 0 /\ j.redelete[r][u] = "Gone" =>
         <<r, u>> \in touched' \/ (u <= live'[r].last /\ live'[r].uid # u)

LEMMA StillTrue ==
  ASSUME WorldOK, WorldOK', Grows, NEW j, RecordsTrue(j)
  PROVE  TrueNext(j)
<1>1. \A r \in Resources, u \in Uids : j.redelete[r][u] = "Accepted" => <<r, u>> \in touched'
  BY DEF RecordsTrue, Grows
<1>2. ASSUME NEW r \in Resources, NEW u \in Uids, u > 0, j.redelete[r][u] = "Gone"
      PROVE  <<r, u>> \in touched' \/ (u <= live'[r].last /\ live'[r].uid # u)
  <2>1. <<r, u>> \in touched \/ Past(r, u)
    BY <1>2 DEF RecordsTrue
  <2> QED
    BY <1>2, <2>1, PastStays DEF Grows
<1> QED
  BY <1>1, <1>2 DEF TrueNext

LEMMA AuthorizeTrue ==
  ASSUME IInv, AInv, SInv, Authorize \/ RedeleteRecord \/ RedeleteGone,
         Grows, TrueNext(mem), WorldOK'
  PROVE  TrueNext(mem')
<1>1. DOMAIN mem = JournalFields /\ mem.redelete \in [Resources -> [Uids -> Status]]
  BY DEF IInv, JournalOK, Good, AInv, RecordsOK, RecordTypes
<1>2. CASE UNCHANGED mem
  BY <1>2
<1>3. CASE RedeleteGone
  <2> DEFINE settled(r, status) == IF r \in acc /\ status = "Accepted" THEN "Gone" ELSE status
             f == [r \in Resources |-> [u \in Uids |-> settled(r, mem.redelete[r][u])]]
  <2>1. mem' = [mem EXCEPT !.redelete = f]
    BY <1>3 DEF RedeleteGone, Write
  <2>2. mem'.redelete = f
    BY <1>1, <2>1 DEF JournalFields
  <2>3. \A r \in Resources, u \in Uids :
          /\ f[r][u] = "Accepted" => mem.redelete[r][u] = "Accepted"
          /\ f[r][u] = "Gone" => mem.redelete[r][u] \in {"Accepted", "Gone"}
    OBVIOUS
  <2> HIDE DEF f
  <2> QED
    BY <2>2, <2>3 DEF TrueNext
<1>4. ASSUME NEW a, mem' = [mem EXCEPT !.redelete[cur.r][cur.uid] = a],
             a = "Accepted" => <<cur.r, cur.uid>> \in touched',
             a = "Gone" => cur.uid <= live'[cur.r].last /\ live'[cur.r].uid # cur.uid
      PROVE  TrueNext(mem')
  <2>1. mem'.redelete = [mem.redelete EXCEPT ![cur.r][cur.uid] = a]
    BY <1>1, <1>4 DEF JournalFields
  <2>2. \A r \in Resources, u \in Uids :
          \/ mem'.redelete[r][u] = mem.redelete[r][u]
          \/ r = cur.r /\ u = cur.uid /\ mem'.redelete[r][u] = a
    BY <1>1, <2>1
  <2> SUFFICES ASSUME NEW r \in Resources, NEW u \in Uids
               PROVE  /\ mem'.redelete[r][u] = "Accepted" => <<r, u>> \in touched'
                      /\ u > 0 /\ mem'.redelete[r][u] = "Gone" =>
                           <<r, u>> \in touched' \/ (u <= live'[r].last /\ live'[r].uid # u)
    BY DEF TrueNext
  <2>3. CASE mem'.redelete[r][u] = mem.redelete[r][u]
    BY <2>3 DEF TrueNext
  <2>4. CASE r = cur.r /\ u = cur.uid /\ mem'.redelete[r][u] = a
    BY <1>4, <2>4
  <2> QED
    BY <2>2, <2>3, <2>4
<1>5. CASE Authorize /\ ~UNCHANGED mem
  <2>1. mem' = [mem EXCEPT !.redelete[cur.r][cur.uid] = "Authorized"]
    BY <1>5 DEF Authorize, Write, journal
  <2> QED
    BY <1>4, <2>1
<1>6. CASE RedeleteRecord
  <2>1. /\ pc = "redelete record" /\ UNCHANGED <<live, touched>>
        /\ mem' = [mem EXCEPT !.redelete[cur.r][cur.uid] = answer]
    BY <1>6 DEF RedeleteRecord, Write, world
  <2>2. /\ answer = "Accepted" => <<cur.r, cur.uid>> \in touched'
        /\ answer = "Gone" => cur.uid <= live'[cur.r].last /\ live'[cur.r].uid # cur.uid
    BY <2>1 DEF SInv, BoundOK, Past
  <2> QED
    BY <1>4, <2>1, <2>2
<1> QED
  BY <1>2, <1>3, <1>5, <1>6

LEMMA RecordsTrueNext ==
  ASSUME IInv, IInv', AInv, SInv, Grows, JournalMove
  PROVE  RecordsTrue(disk)' /\ RecordsTrue(mem)'
<1>1. TrueNext(disk) /\ TrueNext(mem)
  BY StillTrue DEF SInv, IInv
<1>2. TrueNext(mem')
  <2>1. CASE mem'.redelete = mem.redelete
    BY <1>1, <2>1 DEF TrueNext
  <2>2. CASE Authorize \/ RedeleteRecord \/ RedeleteGone
    BY <1>1, <2>2, AuthorizeTrue DEF IInv
  <2> QED
    BY <2>1, <2>2 DEF JournalMove
<1>3. TrueNext(disk')
  BY <1>1, <1>2 DEF JournalMove
<1> QED
  BY <1>2, <1>3 DEF TrueNext, RecordsTrue, Past
-----------------------------------------------------------------------------
\* How a step comes to a re-delete, to a patch, and what it has to do.
Bent ==
  /\ pc' \in Bound => Authorize \/ RedeleteSend \/ \E r \in Resources : RedeleteGet(r)
  /\ pc' = "patch" => \E r \in Resources : RecoverIntent(r)
  /\ TodoOK'

LEMMA TargetsStay == ASSUME UNCHANGED <<acc, phase>> PROVE BarrierTargets' = BarrierTargets
BY DEF BarrierTargets, Expect

LEMMA WaveStepBent == ASSUME IInv, TodoOK, WaveStep PROVE Bent
<1>1. CASE Acquire
  BY <1>1 DEF Acquire, waitVars, stepVars, Bent, TodoOK, Bound, Recovering
<1>2. CASE Checkpoint
  BY <1>2 DEF Checkpoint, phaseVars, waitVars, stepVars, Write, Bent, TodoOK, Bound, Recovering
<1>3. CASE WaveDeleted
  BY <1>3 DEF WaveDeleted, waitVars, StartWait, stepVars, Write, Bent, TodoOK, Bound, Recovering
<1>4. CASE WaveGone
  BY <1>4 DEF WaveGone, AllGone, Unwind, Waiting, EndWait, Bent, TodoOK, Bound, Recovering
<1>5. CASE WaveRecreated
  BY <1>5 DEF WaveRecreated, Back, GoneBut, Unwind, StartWait, stepVars, Waiting, EndWait, Bent,
     TodoOK, Bound, Recovering
<1>6. CASE WaveStalled
  BY <1>6 DEF WaveStalled, GoneBut, Recover, Waiting, Return, EndWait, Bent, TodoOK, Bound,
     Recovering
<1>7. CASE WaveCancelled
  BY <1>7 DEF WaveCancelled, Cancelled, Unwind, phaseVars, Waiting, EndWait, Write, Bent,
     TodoOK, Bound, Recovering
<1>8. CASE RewaitFails
  BY <1>8 DEF RewaitFails, Cancelled, Stalled, Back, Unwind, Waiting, EndWait, Write, Bent,
     TodoOK, Bound, Recovering
<1>9. CASE WaveOver
  BY <1>9 DEF WaveOver, waitVars, stepVars, Write, Bent, TodoOK, Bound, Recovering
<1>10. ASSUME NEW r \in Resources, Get(r) PROVE Bent
  BY <1>10 DEF Get, waitVars, stepVars, Bent, TodoOK, Bound, Recovering
<1>11. ASSUME NEW r \in Resources, Send(r) PROVE Bent
  BY <1>11 DEF Send, stepVars, Bent, TodoOK, Bound, Recovering
<1> QED
  BY <1>1, <1>2, <1>3, <1>4, <1>5, <1>6, <1>7, <1>8, <1>9, <1>10, <1>11 DEF WaveStep, WaveWait

LEMMA BarrierStepBent == ASSUME IInv, TodoOK, BarrierStep PROVE Bent
<1>1. CASE BarrierSkip
  BY <1>1 DEF BarrierSkip, BarrierTargets, phaseVars, waitVars, stepVars, Expect, Bent, TodoOK,
     Bound, Recovering
<1>2. CASE BarrierBegins
  BY <1>2 DEF BarrierBegins, BarrierTargets, phaseVars, waitVars, stepVars, Expect, Write, Bent,
     TodoOK, Bound, Recovering
<1>3. CASE BarrierWaits
  BY <1>3 DEF BarrierWaits, StartWait, BarrierTargets, phaseVars, stepVars, Expect, Bent,
     TodoOK, Bound, Recovering
<1>4. CASE BarrierPassed
  BY <1>4 DEF BarrierPassed, AllGone, Unwind, phaseVars, Waiting, EndWait, Bent, TodoOK, Bound,
     Recovering
<1>5. CASE BarrierCancelled
  BY <1>5 DEF BarrierCancelled, Cancelled, Back, Unwind, phaseVars, Waiting, EndWait, Bent,
     TodoOK, Bound, Recovering
<1>6. CASE BarrierStalled
  <2>1. /\ pc = "waiting" /\ pc' = "recover" /\ caller \in {"barrier", "redelete"}
        /\ UNCHANGED <<caller, acc, phase>> /\ todo' \subseteq targets
    BY <1>6 DEF BarrierStalled, GoneBut, Recover, Return, Waiting, phaseVars
  <2> QED
    BY <2>1, TargetsStay DEF Bent, TodoOK, Bound, Recovering
<1>7. CASE BarrierDefers
  BY <1>7 DEF BarrierDefers, Cancelled, Stalled, Back, Defer, GoneBut, phaseVars, Waiting,
     Delete, EndWait, Bent, TodoOK, Bound, Recovering
<1>8. CASE BarrierRecreated
  BY <1>8 DEF BarrierRecreated, Back, BarrierTargets, RedeleteAgain, Unwind, StartWait,
     stepVars, phaseVars, Waiting, Expect, Return, EndWait, Bent, TodoOK, Bound, Recovering
<1>9. CASE RedeleteGetFails
  BY <1>9 DEF RedeleteGetFails, Unwind, phaseVars, EndWait, Bent, TodoOK, Bound, Recovering
<1>10. CASE Authorize
  BY <1>10 DEF Authorize, phaseVars, waitVars, stepVars, Write, Bent, TodoOK, Bound, Recovering
<1>11. CASE RedeleteSend
  BY <1>11 DEF RedeleteSend, phaseVars, Bent, TodoOK, Bound, Recovering
<1>12. CASE RedeleteRecord
  BY <1>12 DEF RedeleteRecord, phaseVars, waitVars, Write, Bent, TodoOK, Bound, Recovering
<1>13. CASE RedeleteDone
  BY <1>13 DEF RedeleteDone, StartWait, BarrierTargets, phaseVars, stepVars, Expect, Bent,
     TodoOK, Bound, Recovering
<1>14. CASE RedeleteGone
  BY <1>14 DEF RedeleteGone, AllGone, Unwind, phaseVars, Waiting, EndWait, Write, Bent, TodoOK,
     Bound, Recovering
<1>15. CASE DeferYes
  BY <1>15 DEF DeferYes, Unwind, phaseVars, EndWait, Bent, TodoOK, Bound, Recovering
<1>16. CASE DeferNo
  BY <1>16 DEF DeferNo, Unwind, phaseVars, EndWait, Write, Bent, TodoOK, Bound, Recovering
<1>17. ASSUME NEW r \in Resources, RedeleteGet(r) PROVE Bent
  BY <1>17 DEF RedeleteGet, phaseVars, waitVars, Bent, TodoOK, Bound, Recovering
<1>18. ASSUME NEW r \in Resources, DeferRoot(r) PROVE Bent
  BY <1>18 DEF DeferRoot, phaseVars, waitVars, Bent, TodoOK, Bound, Recovering
<1> QED
  BY <1>1, <1>2, <1>3, <1>4, <1>5, <1>6, <1>7, <1>8, <1>9, <1>10, <1>11, <1>12, <1>13, <1>14,
     <1>15, <1>16, <1>17, <1>18 DEF BarrierStep, BarrierWait

LEMMA RecoveryStepBent == ASSUME IInv, TodoOK, RecoveryStep PROVE Bent
<1>1. CASE Patch
  BY <1>1, TargetsStay DEF Patch, phaseVars, Bent, TodoOK, Bound, Recovering
<1>2. CASE PatchRecord
  <2>1. /\ pc = "patch record" /\ pc' \in {"recover", "recovery error"} /\ todo' \subseteq todo
        /\ UNCHANGED <<caller, remaining, acc, phase>>
    BY <1>2 DEF PatchRecord, RecoveryOver, phaseVars, waitVars, Write
  <2> QED
    BY <2>1, TargetsStay DEF Bent, TodoOK, Bound, Recovering
<1>3. CASE RecoveryWaits
  <2>1. /\ pc = "recover" /\ pc' = "waiting" /\ caller' = AfterRecovery[caller]
    BY <1>3 DEF RecoveryWaits, Recovered, StartWait
  <2>2. caller \in {"wave", "barrier", "redelete"}
    BY <2>1 DEF IInv, CallerOK, Recovering
  <2>3. caller' \notin {"barrier", "redelete"}
    <3>1. /\ AfterRecovery["wave"] = "wave recovered"
          /\ AfterRecovery["barrier"] = "barrier recovered"
          /\ AfterRecovery["redelete"] = "redelete recovered"
      BY DEF AfterRecovery
    <3> QED
      BY <2>1, <2>2, <3>1
  <2> QED
    BY <2>1, <2>3 DEF Bent, TodoOK, Bound, Recovering
<1>4. CASE WaveRecoveryFails
  BY <1>4 DEF WaveRecoveryFails, RecoveryError, Recovered, Unwind, EndWait, Write, Bent, TodoOK,
     Bound, Recovering
<1>5. CASE BarrierRecoveryFails
  BY <1>5 DEF BarrierRecoveryFails, RecoveryError, Unwind, phaseVars, EndWait, Bent, TodoOK,
     Bound, Recovering
<1>6. CASE RecoveryDefers
  BY <1>6 DEF RecoveryDefers, Recovered, RecoveryError, Defer, phaseVars, Delete, EndWait, Bent,
     TodoOK, Bound, Recovering
<1>7. ASSUME NEW r \in Resources, RecoverSkip(r) PROVE Bent
  <2>1. /\ pc = "recover" /\ pc' = "recover" /\ todo' \subseteq todo
        /\ UNCHANGED <<caller, remaining, acc, phase>>
    BY <1>7 DEF RecoverSkip, phaseVars, waitVars
  <2> QED
    BY <2>1, TargetsStay DEF Bent, TodoOK, Bound, Recovering
<1>8. ASSUME NEW r \in Resources, RecoverIntent(r) PROVE Bent
  <2>1. /\ pc = "recover" /\ pc' \in {"patch", "recovery error"} /\ todo' \subseteq todo
        /\ UNCHANGED <<caller, remaining, acc, phase>>
    BY <1>8 DEF RecoverIntent, RecoveryOver, phaseVars, waitVars, Write
  <2> QED
    BY <1>8, <2>1, TargetsStay DEF Bent, TodoOK, Bound, Recovering
<1>9. ASSUME NEW r \in Resources, RecoverPaused(r) PROVE Bent
  BY <1>9 DEF RecoverPaused, phaseVars, waitVars, Delete, Expect, Bent, TodoOK, Bound,
     Recovering
<1> QED
  BY <1>1, <1>2, <1>3, <1>4, <1>5, <1>6, <1>7, <1>8, <1>9 DEF RecoveryStep

LEMMA PhaseStepBent ==
  ASSUME PhaseTop \/ EntryGuard \/ Enter \/ PhaseEnd \/ Finish \/ MarkFailed \/ Crash
         \/ Start \/ Resume
  PROVE  Bent
<1>1. pc' \in {"finish", "entry", "err", "acquire", "phase", "off"}
  BY DEF PhaseTop, EntryGuard, Enter, PhaseEnd, Finish, MarkFailed, Crash, Start, Resume, Launch,
     Write
<1> QED
  BY <1>1 DEF Bent, TodoOK, Bound, Recovering

LEMMA StepBent == ASSUME IInv, TodoOK, Executor \/ Start \/ Resume \/ Crash PROVE Bent
BY WaveStepBent, BarrierStepBent, RecoveryStepBent, PhaseStepBent DEF Executor

LEMMA BoundNext ==
  ASSUME IInv, AInv, SInv, Executor \/ Start \/ Resume \/ Crash, Grows, IInv'
  PROVE  BoundOK'
<1>1. CASE pc' \notin Bound
  BY <1>1 DEF BoundOK, Bound
<1>2. ASSUME NEW r \in Resources, RedeleteGet(r), pc' \in Bound PROVE BoundOK'
  <2>1. /\ pc' = "authorize" /\ cur' = [r |-> r, uid |-> live[r].uid] /\ live[r].uid > 1
        /\ UNCHANGED live
    BY <1>2 DEF RedeleteGet, Bound, world
  <2>2. live[r].uid = live[r].last /\ live[r].last \in Int
    BY <2>1 DEF SInv, LifeOK, IInv, WorldOK, Objects, Uids
  <2> QED
    BY <2>1, <2>2 DEF BoundOK
<1>3. CASE Authorize
  BY <1>3 DEF Authorize, world, stepVars, SInv, BoundOK, Bound, Write
<1>4. CASE RedeleteSend
  <2>1. pc = "redelete send" /\ pc' = "redelete record" /\ UNCHANGED cur
    BY <1>4 DEF RedeleteSend
  <2>2. /\ cur.r \in Resources /\ cur.uid \in Uids /\ cur.uid > 1
        /\ cur.uid <= live[cur.r].last
    BY <2>1, AccIsPlanned DEF AInv, RedeleteOK, Bound, SInv, BoundOK
  <2>3. live[cur.r].last \in Int /\ live'[cur.r].last \in Int /\ cur.uid \in Int
    BY <2>2 DEF IInv, WorldOK, Objects, Uids
  <2>4. cur'.uid <= live'[cur'.r].last
    <3>1. live[cur.r].last <= live'[cur.r].last
      BY <2>2 DEF Grows, Aged
    <3>2. cur.uid <= live'[cur.r].last
      BY <2>2, <2>3, <3>1
    <3>3. cur' = cur
      BY <2>1
    <3> QED
      BY <3>2, <3>3, Zenon
  <2>5. answer' = "Accepted" => <<cur'.r, cur'.uid>> \in touched'
    BY <1>4, <2>1 DEF RedeleteSend, TakesEffect
  <2>6. ASSUME answer' = "Gone" PROVE live'[cur'.r].uid # cur'.uid
    <3>1. ~Exists(cur.r) /\ UNCHANGED live
      BY <1>4, <2>6 DEF RedeleteSend, world
    <3>2. live'[cur.r].uid # cur.uid
      BY <2>2, <2>3, <3>1 DEF Exists
    <3>3. cur' = cur
      BY <2>1
    <3> QED
      BY <3>2, <3>3, Zenon
  <2> QED
    BY <2>1, <2>4, <2>5, <2>6 DEF BoundOK, Past
<1> QED
  BY <1>1, <1>2, <1>3, <1>4, StepBent DEF Bent, SInv

\* What the journal calls deleted after a step was deleted before or accepted.
LEMMA DeletedNext ==
  ASSUME AInv, DeletedOK, Grows, JournalMove
  PROVE  DeletedOK'
<1>1. With({"Accepted"}) \subseteq {r \in Resources : Mine(r)}
  BY DEF With, AInv, WaveOK
<1>2. mem'.deleted \union disk'.deleted \subseteq
        mem.deleted \union disk.deleted \union With({"Accepted"})
  BY DEF JournalMove
<1> QED
  BY <1>1, <1>2 DEF DeletedOK, Mine, Grows

\* An owner that the journal has authority for was the run's, or the run found
\* it gone.
LEMMA AuthorityBereft ==
  ASSUME IInv, AInv, SInv, NEW r \in Expect, r \in DOMAIN Owners,
         Authority(ref[r]), Orphan(r)
  PROVE  LET o == ref[r]
         IN  /\ o.r \in Resources /\ o.uid \in Uids /\ o.uid > 0
             /\ Past(o.r, o.uid) /\ Mine(o.r)
             /\ <<o.r, o.uid>> \in touched \/ mem.redelete[o.r][o.uid] = "Gone"
<1>1. PICK o \in [r : Resources, uid : Uids] : o = ref[r] /\ o.uid >= 1 /\ o.uid <= live[o.r].last
  BY DEF SInv, RefOK
<1>2. Past(o.r, o.uid)
  BY <1>1 DEF Orphan, Past
<1>3. o.r \in mem.deleted /\ (o.uid = 1 \/ mem.redelete[o.r][o.uid] \in {"Accepted", "Gone"})
  BY <1>1 DEF Authority, Redeleted
<1>4. Mine(o.r)
  BY <1>3 DEF SInv, DeletedOK
<1>5. <<o.r, o.uid>> \in touched \/ mem.redelete[o.r][o.uid] = "Gone"
  BY <1>1, <1>3, <1>4 DEF Mine, SInv, RecordsTrue
<1>6. o.r \in Resources /\ o.uid \in Uids /\ o.uid > 0
  BY <1>1 DEF Uids
<1> QED
  BY <1>1, <1>2, <1>4, <1>5, <1>6

\* A patch is bound to an object that the run may strip.
LEMMA IntentStruck ==
  ASSUME IInv, AInv, SInv, NEW r \in Resources, RecoverIntent(r), pc' = "patch"
  PROVE  /\ live[r].uid \in Uids /\ live[r].uid > 0
         /\ Struck(cur)'
<1>1. /\ pc = "recover" /\ r \in todo /\ Eligible(r)
      /\ cur' = Read(r) /\ cur'.r = r /\ cur'.uid = live[r].uid
      /\ UNCHANGED <<live, touched, phase>>
      /\ disk' = mem'
  BY DEF RecoverIntent, Read, Write, world, phaseVars
<1>2. caller \in {"wave", "barrier", "redelete"} /\ phase \in 1..Len(Phases)
  BY <1>1, PlanShape DEF IInv, CallerOK, PhaseOK, Recovering, Inner
<1>3. live[r].uid \in Uids /\ live[r].uid > 0
  BY <1>1 DEF IInv, WorldOK, Objects, Eligible, Redeleted
<1>4. CASE r \in Expect /\ live[r].uid = 1 /\ Authority(ref[r]) /\ Orphan(r)
  <2>1. r \in DOMAIN Owners
    BY <1>4 DEF Orphan
  <2>2. cur'.ref = ref[r]
    BY <1>1, <1>4 DEF Read
  <2>3. PICK o : /\ o = ref[r] /\ o.r \in Resources /\ o.uid \in Uids /\ o.uid > 0
                 /\ Past(o.r, o.uid) /\ Mine(o.r)
                 /\ <<o.r, o.uid>> \in touched \/ mem.redelete[o.r][o.uid] = "Gone"
    BY <1>4, <2>1, AuthorityBereft
  <2>4. disk'.redelete = mem.redelete
    BY <1>1 DEF RecoverIntent, Write, IInv, JournalOK, Good, JournalFields
  <2>5. Bereft(o)'
    BY <1>1, <2>3, <2>4 DEF Bereft, Past, Mine
  <2>6. r \in Expect'
    BY <1>1, <1>4 DEF Expect
  <2> QED
    BY <1>1, <1>3, <2>1, <2>2, <2>3, <2>5, <2>6 DEF Struck
<1>5. CASE r \in Delete /\ live[r].uid = 1
  <2>1. Mine(r)
    <3>1. CASE caller = "wave"
      <4>1. r \in remaining
        BY <1>1, <3>1 DEF SInv, TodoOK, Recovering
      <4> QED
        BY <1>1, <3>1, <4>1 DEF AInv, WaveOK, Recovering
    <3>2. CASE caller # "wave"
      <4>1. r \in acc \union Expect
        BY <1>1, <1>2, <3>2 DEF SInv, TodoOK, Recovering, BarrierTargets
      <4>2. r \notin Expect
        BY <1>2, <1>5, PlanShape, ExecutionAssumption DEF ExecutionAssumption, Delete, Expect
      <4> QED
        BY <4>1, <4>2 DEF AInv, WaveOK
    <3> QED
      BY <3>1, <3>2
  <2> QED
    BY <1>1, <1>3, <1>5, <2>1 DEF Struck, Mine
<1>6. CASE r \in Delete /\ Redeleted(r, live[r].uid)
  <2>1. <<r, live[r].uid>> \in touched
    BY <1>3, <1>6 DEF SInv, RecordsTrue, Redeleted, Past
  <2> QED
    BY <1>1, <1>3, <2>1 DEF Struck
<1> QED
  BY <1>1, <1>4, <1>5, <1>6 DEF Eligible

LEMMA PatchNext ==
  ASSUME IInv, AInv, SInv, Executor \/ Start \/ Resume \/ Crash, IInv'
  PROVE  PatchOK'
<1>1. SUFFICES ASSUME pc' = "patch" PROVE PatchOK'
  BY DEF PatchOK
<1>2. PICK r \in Resources : RecoverIntent(r)
  BY <1>1, StepBent DEF Bent, SInv
<1>3. /\ cur'.r = r /\ cur'.uid = live[r].uid /\ UNCHANGED live
      /\ live[r].deleting
  BY <1>1, <1>2 DEF RecoverIntent, Read, world, Eligible, Write
<1>4. live[r].uid \in Uids /\ live[r].uid > 0 /\ Struck(cur)'
  BY <1>1, <1>2, IntentStruck
<1>5. live[r].uid = live[r].last
  BY <1>4 DEF SInv, LifeOK, Uids
<1>6. live[r].uid <= live[r].last
  BY <1>4, <1>5 DEF Uids
<1> QED
  BY <1>3, <1>4, <1>6 DEF PatchOK

LEMMA OverTrue ==
  ASSUME IInv, IInv', SInv, Grows, Finish \/ MarkFailed \/ Crash \/ Start \/ Resume
  PROVE  RecordsTrue(disk)' /\ RecordsTrue(mem)' /\ DeletedOK'
<1>1. TrueNext(disk) /\ TrueNext(mem)
  BY StillTrue DEF SInv, IInv
<1>2. PICK x : disk' \in {disk, mem'} /\ mem' \in {disk, [mem EXCEPT !.state = x],
                                                   [disk EXCEPT !.state = x]}
  BY DEF Finish, MarkFailed, Crash, Start, Resume, Launch, Write
<1>3. /\ [mem EXCEPT !.state = x].redelete = mem.redelete
      /\ [disk EXCEPT !.state = x].redelete = disk.redelete
      /\ [mem EXCEPT !.state = x].deleted = mem.deleted
      /\ [disk EXCEPT !.state = x].deleted = disk.deleted
  BY DEF IInv, JournalOK, Good, JournalFields
<1>4. mem'.redelete = mem.redelete \/ mem'.redelete = disk.redelete
  BY <1>2, <1>3
<1>5. TrueNext(mem')
  BY <1>1, <1>4 DEF TrueNext
<1>6. TrueNext(disk')
  BY <1>1, <1>2, <1>5
<1>7. mem'.deleted \union disk'.deleted \subseteq mem.deleted \union disk.deleted
  BY <1>2, <1>3
<1>8. DeletedOK'
  BY <1>7 DEF SInv, DeletedOK, Mine, Grows
<1> QED
  BY <1>5, <1>6, <1>8 DEF TrueNext, RecordsTrue, Past

\* Neither the cluster nor a pause takes back what a step is bound to.
LEMMA OutsideSInv ==
  ASSUME IInv, IInv', AInv, SInv, Grows, Cluster \/ Interrupt \/ Drained \/ UNCHANGED vars
  PROVE  SInv'
<1>1. UNCHANGED <<disk, mem, pc, phase, acc, caller, targets, remaining, todo, cur, answer>>
  <2>1. CASE Cluster
    BY <2>1 DEF Cluster, Cascade, DropFinalizer, Vanish, Recreate, Adopt, Undisturbed, journal,
       phaseVars, stepVars
  <2>2. CASE Interrupt \/ Drained \/ UNCHANGED vars
    BY <2>2 DEF Interrupt, Drained, vars, journal, phaseVars, waitVars, stepVars
  <2> QED
    BY <2>1, <2>2
<1>2. RecordsTrue(disk)' /\ RecordsTrue(mem)' /\ DeletedOK' /\ RefOK'
  <2>1. TrueNext(disk) /\ TrueNext(mem)
    BY StillTrue DEF SInv, IInv
  <2>2. DeletedOK'
    BY <1>1 DEF SInv, DeletedOK, Mine, Grows
  <2>3. RefOK'
    BY RefNext DEF SInv, Next
  <2> QED
    BY <1>1, <2>1, <2>2, <2>3 DEF TrueNext, RecordsTrue, Past
<1>3. TodoOK'
  BY <1>1, TargetsStay DEF SInv, TodoOK
<1>4. ASSUME NEW c, c = cur, c.r \in Resources, c.uid \in Uids, c.uid > 0,
             c.uid <= live[c.r].last
      PROVE  c.uid <= live'[c.r].last
  <2>1. live[c.r].last <= live'[c.r].last
    BY <1>4 DEF Grows, Aged
  <2>2. live[c.r].last \in Int /\ live'[c.r].last \in Int /\ c.uid \in Int
    BY <1>4 DEF IInv, WorldOK, Objects, Uids
  <2> QED
    BY <1>4, <2>1, <2>2
<1>5. BoundOK'
  <2>1. SUFFICES ASSUME pc \in Bound PROVE BoundOK'
    BY <1>1 DEF BoundOK, Bound
  <2>2. /\ cur.r \in Resources /\ cur.uid \in Uids /\ cur.uid > 1
        /\ cur.uid <= live[cur.r].last
    BY <2>1, AccIsPlanned DEF AInv, RedeleteOK, SInv, BoundOK
  <2>3. cur.uid <= live'[cur.r].last
    BY <1>4, <2>2 DEF Uids
  <2>4. Past(cur.r, cur.uid) => live'[cur.r].uid # cur.uid
    BY <2>2, PastStays DEF IInv, Uids
  <2>5. touched \subseteq touched'
    BY DEF Grows
  <2> QED
    BY <1>1, <2>3, <2>4, <2>5 DEF SInv, BoundOK, Past
<1>6. PatchOK'
  <2>1. SUFFICES ASSUME pc = "patch" PROVE PatchOK'
    BY <1>1 DEF PatchOK
  <2>2. /\ cur.r \in Resources /\ cur.uid \in Uids /\ cur.uid > 0
        /\ cur.uid <= live[cur.r].last
        /\ live[cur.r].uid = cur.uid => live[cur.r].deleting /\ Struck(cur)
    BY <2>1 DEF SInv, PatchOK
  <2>3. cur.uid <= live'[cur.r].last
    BY <1>4, <2>2
  <2>4. ASSUME live'[cur.r].uid = cur.uid
        PROVE  live'[cur.r].deleting /\ Struck(cur)'
    <3>1. live[cur.r].uid = cur.uid
      BY <2>2, <2>4, PastStays DEF Past, IInv
    <3>2. live'[cur.r].deleting
      BY <2>2, <2>4, <3>1 DEF Grows, Aged, Uids
    <3>3. Struck(cur)'
      <4>1. CASE <<cur.r, cur.uid>> \in touched
        BY <1>1, <4>1 DEF Struck, Grows
      <4>2. CASE cur.r \in Expect /\ cur.r \in DOMAIN Owners /\ Bereft(cur.ref)
        <5>1. Bereft(cur.ref)'
          BY <1>1, <4>2, BereftStays DEF IInv, Bereft
        <5>2. Expect' = Expect
          BY <1>1 DEF Expect
        <5> QED
          BY <1>1, <4>2, <5>1, <5>2 DEF Struck
      <4> QED
        BY <2>2, <3>1, <4>1, <4>2 DEF Struck
    <3> QED
      BY <3>2, <3>3
  <2> QED
    BY <1>1, <2>2, <2>3, <2>4 DEF PatchOK
<1> QED
  BY <1>2, <1>3, <1>5, <1>6 DEF SInv, Grows

LEMMA NextSInv == IInv /\ AInv /\ SInv /\ [Next]_vars => SInv'
<1> SUFFICES ASSUME IInv, AInv, SInv, [Next]_vars PROVE SInv'
  OBVIOUS
<1>1. IInv' /\ Grows
  BY NextIInv, NextGrows DEF SInv
<1>2. CASE Executor \/ Start \/ Resume \/ Crash
  <2>1. RecordsTrue(disk)' /\ RecordsTrue(mem)' /\ DeletedOK'
    <3>1. CASE Finish \/ MarkFailed \/ Crash \/ Start \/ Resume
      BY <1>1, <3>1, OverTrue
    <3>2. CASE JournalMove
      BY <1>1, <3>2, RecordsTrueNext, DeletedNext DEF SInv
    <3> QED
      BY <1>2, <3>1, <3>2, WaveStepMoves, BarrierStepMoves, RecoveryStepMoves, PhaseStepMoves
         DEF Executor
  <2>2. TodoOK'
    BY <1>2, StepBent DEF Bent, SInv
  <2> QED
    BY <1>1, <1>2, <2>1, <2>2, RefNext, BoundNext, PatchNext DEF SInv, Grows
<1>3. CASE Cluster \/ Interrupt \/ Drained \/ UNCHANGED vars
  BY <1>1, <1>3, OutsideSInv
<1> QED
  BY <1>2, <1>3 DEF Next

LEMMA InitSInv == Init => SInv
<1> SUFFICES ASSUME Init PROVE SInv
  OBVIOUS
<1>1. LifeOK
  BY DEF Init, LifeOK, Object
<1>2. RecordsTrue(disk) /\ RecordsTrue(mem)
  BY DEF Init, RecordsTrue, NoRecords
<1>3. BoundOK /\ TodoOK /\ PatchOK /\ DeletedOK
  BY DEF Init, BoundOK, Bound, TodoOK, PatchOK, Recovering, DeletedOK
<1>4. RefOK
  <2>1. 1 \in Uids
    BY ExecutionAssumption DEF ExecutionAssumption, Uids
  <2>2. ref \in [DOMAIN Owners -> [r : Resources, uid : {1}]]
    BY DEF Init
  <2>3. ASSUME NEW e \in DOMAIN Owners
        PROVE  /\ ref[e] \in [r : Resources, uid : Uids]
               /\ ref[e].uid >= 1 /\ ref[e].uid <= live[ref[e].r].last
    <3>1. ref[e] \in [r : Resources, uid : {1}]
      BY <2>2
    <3>2. live[ref[e].r].last = 1
      BY <3>1 DEF Init, Object
    <3> QED
      BY <2>1, <3>1, <3>2
  <2> QED
    BY <2>2, <2>3 DEF RefOK
<1> QED
  BY <1>1, <1>2, <1>3, <1>4 DEF SInv

\* A finalizer is stripped only from an object in deletion that this run
\* deleted, or that belongs at that moment to one it deleted, in this process or
\* an earlier one, or found gone when it came to delete it again, and that is
\* gone: what was true when the patch was decided is true when it takes effect,
\* because the patch tests the uid and the ownerReference, and a uid is not used
\* twice (executor.rs, attempt_finalizer_recovery).
THEOREM ExecutionStripIsSafe == Spec => StripIsSafe
<1>1. SInv /\ [Next]_vars =>
        [pc = "patch" /\ pc' # pc /\ live[cur.r].fin # live'[cur.r].fin =>
           /\ live[cur.r].deleting
           /\ \/ <<cur.r, live[cur.r].uid>> \in touched
              \/ LET o == ref[cur.r]
                 IN  /\ Orphan(cur.r) /\ <<o.r, 1>> \in touched
                     /\ <<o.r, o.uid>> \in touched
                          \/ disk.redelete[o.r][o.uid] = "Gone"]_vars
  <2> SUFFICES ASSUME SInv, Next, pc = "patch", pc' # pc, live[cur.r].fin # live'[cur.r].fin
               PROVE  /\ live[cur.r].deleting
                      /\ \/ <<cur.r, live[cur.r].uid>> \in touched
                         \/ LET o == ref[cur.r]
                            IN  /\ Orphan(cur.r) /\ <<o.r, 1>> \in touched
                                /\ <<o.r, o.uid>> \in touched
                                     \/ disk.redelete[o.r][o.uid] = "Gone"
    BY DEF vars
  <2>1. UNCHANGED live \/ Patch
    <3>1. ~Cluster /\ ~Interrupt /\ ~Drained /\ ~Start /\ ~Resume
      BY DEF Cluster, Cascade, DropFinalizer, Vanish, Recreate, Adopt, Undisturbed, Interrupt,
         Drained, Start, Resume
    <3>2. ~RedeleteSend /\ \A r \in Resources : ~Send(r)
      BY DEF RedeleteSend, Send
    <3>3. CASE PhaseTop \/ EntryGuard \/ Enter \/ PhaseEnd \/ Finish \/ MarkFailed \/ Crash
      BY <3>3 DEF PhaseTop, EntryGuard, Enter, PhaseEnd, Finish, MarkFailed, Crash, Ended, world
    <3> QED
      BY <3>1, <3>2, <3>3, WaveStepWorld, BarrierStepWorld, RecoveryStepWorld
         DEF Next, Executor, world
  <2>2. PatchApplies
    BY <2>1 DEF Patch
  <2>3. live[cur.r].uid = cur.uid /\ (cur.r \in Expect => ref[cur.r] = cur.ref)
    BY <2>2 DEF PatchApplies
  <2>4. live[cur.r].deleting /\ Struck(cur)
    BY <2>3 DEF SInv, PatchOK
  <2>5. CASE cur.r \in Expect /\ cur.r \in DOMAIN Owners /\ Bereft(cur.ref)
    BY <2>3, <2>4, <2>5 DEF Bereft, Past, Mine, Orphan
  <2> QED
    BY <2>3, <2>4, <2>5 DEF Struck
<1> QED
  BY <1>1, InitSInv, NextSInv, ExecutionAuthority, PTL DEF Spec, StripIsSafe
-----------------------------------------------------------------------------
(***************************************************************************)
(* The types                                                               *)
(***************************************************************************)

States == {"Prepared", "Applying", "Paused", "Failed", "ApplyCompleted"}

JournalTypes(j) ==
  j.state \in States /\ j.deleted \subseteq Deletes /\ j.unresolved \subseteq Resources

SetTypes ==
  /\ targets \subseteq Resources /\ remaining \subseteq Resources /\ todo \subseteq Resources
  /\ failed \subseteq Deletes
  /\ cur = None \/ (cur.r \in Resources /\ cur.uid \in Uids)

CountTypes ==
  /\ faults \in 0..MaxFaults /\ starts \in 0..MaxStarts /\ iter \in 0..MaxRedeleteIterations
  /\ gate \in {"running", "pausing", "paused"}

FlagTypes == permit \in BOOLEAN /\ recovered \in BOOLEAN

TInv == JournalTypes(disk) /\ JournalTypes(mem) /\ SetTypes /\ CountTypes /\ FlagTypes

\* What the phase under execution is about.
Plan ==
  /\ Deletes \subseteq Resources /\ acc \subseteq Resources
  /\ pc \in Inner => /\ Delete \subseteq Deletes /\ Delete \subseteq Resources
                     /\ Expect \subseteq Resources
  /\ pc \in Inner \ {"entry"} => \A r \in Resources : del[r] # "idle" => r \in Deletes
  /\ pc = "waiting" /\ caller \in WaveCallers => targets \subseteq Deletes
  /\ pc \in Recovering /\ caller = "wave" => remaining \subseteq Deletes

LEMMA PlanHolds == ASSUME IInv, AInv PROVE Plan
<1>1. Deletes \subseteq Resources /\ \A i \in 1..Len(Phases) : Phases[i].delete \subseteq Deletes
  BY PlanShape, ExecutionAssumption DEF ExecutionAssumption, Deletes
<1>2. \A i \in 1..Len(Phases) : Phases[i].expect \subseteq Resources
  <2>1. Phases \in Seq(PlanPhase)
    BY ExecutionAssumption DEF ExecutionAssumption, PlanPhase
  <2>2. \A i \in 1..Len(Phases) : Phases[i] \in PlanPhase
    BY <2>1, ElementOf
  <2> QED
    BY <2>2 DEF PlanPhase
<1>3. pc \in Inner => phase \in 1..Len(Phases)
  BY PlanShape DEF IInv, PhaseOK
<1>4. \A r : Mine(r) => r \in Deletes
  BY DEF AInv, TouchedOK, Mine
<1>5. pc \in Inner => /\ Delete \subseteq Deletes /\ Delete \subseteq Resources
                      /\ Expect \subseteq Resources
  BY <1>1, <1>2, <1>3 DEF Delete, Expect
<1>6. acc \subseteq Resources
  BY AccIsPlanned
<1> QED
  BY <1>1, <1>4, <1>5, <1>6 DEF Plan, AInv, WaveOK

\* The counters and sets after a step of the executor that does not end it.
FitNext ==
  /\ SetTypes' /\ UNCHANGED <<gate, starts>>
  /\ UNCHANGED faults \/ (faults < MaxFaults /\ faults' = faults + 1)
  /\ iter' \in {0, iter} \/ (iter < MaxRedeleteIterations /\ iter' = iter + 1)

LEMMA WaveStepFit == ASSUME SetTypes, Plan, SawTargets, WaveStep PROVE FitNext
<1>1. CASE Acquire
  BY <1>1 DEF Acquire, With, journal, waitVars, stepVars, FitNext, Plan, SetTypes
<1>2. CASE Checkpoint
  BY <1>2 DEF Checkpoint, With, control, phaseVars, waitVars, stepVars, Write, FitNext, Plan,
     SetTypes
<1>3. CASE WaveDeleted
  BY <1>3 DEF WaveDeleted, With, waitVars, StartWait, journal, stepVars, Write, FitNext, Plan,
     SetTypes, Inner, Ending, Recovering, WaveCallers
<1>4. CASE WaveGone
  BY <1>4 DEF WaveGone, AllGone, Unwind, control, journal, Waiting, EndWait, FitNext, Plan,
     SetTypes
<1>5. CASE WaveRecreated
  BY <1>5 DEF WaveRecreated, Back, GoneBut, Unwind, StartWait, stepVars, control, journal,
     Waiting, EndWait, FitNext, Plan, SetTypes
<1>6. CASE WaveStalled
  BY <1>6 DEF WaveStalled, GoneBut, Recover, control, journal, Waiting, Return, EndWait,
     FitNext, Plan, SetTypes
<1>7. CASE WaveCancelled
  BY <1>7 DEF WaveCancelled, Cancelled, Unwind, control, phaseVars, Waiting, EndWait, Write,
     FitNext, Plan, SetTypes
<1>8. CASE RewaitFails
  BY <1>8 DEF RewaitFails, Cancelled, Stalled, journal, Back, With, Unwind, control, Waiting,
     EndWait, Write, FitNext, Plan, SetTypes, Inner, Ending, Recovering, WaveCallers
<1>9. CASE WaveOver
  BY <1>9 DEF WaveOver, With, journal, control, waitVars, stepVars, Write, FitNext, Plan,
     SetTypes, Inner, Ending, Recovering, WaveCallers
<1>10. ASSUME NEW r \in Resources, Get(r) PROVE FitNext
  BY <1>10 DEF Get, control, journal, waitVars, stepVars, FitNext, Plan, SetTypes
<1>11. ASSUME NEW r \in Resources, Send(r) PROVE FitNext
  BY <1>11 DEF Send, control, journal, stepVars, FitNext, Plan, SetTypes
<1> QED
  BY <1>1, <1>2, <1>3, <1>4, <1>5, <1>6, <1>7, <1>8, <1>9, <1>10, <1>11 DEF WaveStep, WaveWait

LEMMA BarrierStepFit == ASSUME WorldOK, SetTypes, Plan, BarrierStep PROVE FitNext
<1>1. CASE BarrierSkip
  BY <1>1 DEF BarrierSkip, BarrierTargets, control, journal, phaseVars, waitVars, stepVars,
     FitNext, Plan, SetTypes
<1>2. CASE BarrierBegins
  BY <1>2 DEF BarrierBegins, BarrierTargets, control, phaseVars, waitVars, stepVars, Write,
     FitNext, Plan, SetTypes
<1>3. CASE BarrierWaits
  BY <1>3 DEF BarrierWaits, StartWait, BarrierTargets, control, journal, phaseVars, stepVars,
     FitNext, Plan, SetTypes, Inner, Ending, Recovering, WaveCallers
<1>4. CASE BarrierPassed
  BY <1>4 DEF BarrierPassed, AllGone, Unwind, control, journal, phaseVars, Waiting, EndWait,
     FitNext, Plan, SetTypes
<1>5. CASE BarrierCancelled
  BY <1>5 DEF BarrierCancelled, Cancelled, Back, Unwind, control, journal, phaseVars, Waiting,
     EndWait, FitNext, Plan, SetTypes
<1>6. CASE BarrierStalled
  BY <1>6 DEF BarrierStalled, GoneBut, Recover, control, journal, phaseVars, Waiting, Return,
     EndWait, FitNext, Plan, SetTypes
<1>7. CASE BarrierDefers
  BY <1>7 DEF BarrierDefers, Cancelled, Stalled, Back, Defer, GoneBut, control, journal,
     phaseVars, Waiting, EndWait, FitNext, Plan, SetTypes, Inner, Ending, Recovering,
     WaveCallers
<1>8. CASE BarrierRecreated
  BY <1>8 DEF BarrierRecreated, Back, BarrierTargets, RedeleteAgain, Unwind, StartWait,
     stepVars, control, journal, phaseVars, Waiting, Return, EndWait, FitNext, Plan, SetTypes,
     Inner, Ending, Recovering, WaveCallers
<1>9. CASE RedeleteGetFails
  BY <1>9 DEF RedeleteGetFails, Unwind, control, journal, phaseVars, EndWait, FitNext, Plan,
     SetTypes
<1>10. CASE Authorize
  BY <1>10 DEF Authorize, journal, phaseVars, waitVars, stepVars, Write, FitNext, Plan, SetTypes
<1>11. CASE RedeleteSend
  BY <1>11 DEF RedeleteSend, control, journal, phaseVars, FitNext, Plan, SetTypes
<1>12. CASE RedeleteRecord
  BY <1>12 DEF RedeleteRecord, phaseVars, waitVars, Write, FitNext, Plan, SetTypes
<1>13. CASE RedeleteDone
  BY <1>13 DEF RedeleteDone, StartWait, BarrierTargets, control, journal, phaseVars, stepVars,
     FitNext, Plan, SetTypes, Inner, Ending, Recovering, WaveCallers
<1>14. CASE RedeleteGone
  BY <1>14 DEF RedeleteGone, AllGone, Unwind, control, phaseVars, Waiting, EndWait, Write,
     FitNext, Plan, SetTypes
<1>15. CASE DeferYes
  BY <1>15 DEF DeferYes, Unwind, control, journal, phaseVars, EndWait, FitNext, Plan, SetTypes
<1>16. CASE DeferNo
  BY <1>16 DEF DeferNo, journal, Unwind, control, phaseVars, EndWait, Write, FitNext, Plan,
     SetTypes
<1>17. ASSUME NEW r \in Resources, RedeleteGet(r) PROVE FitNext
  BY <1>17 DEF RedeleteGet, control, journal, phaseVars, waitVars, FitNext, Plan, SetTypes,
     WorldOK, Objects
<1>18. ASSUME NEW r \in Resources, DeferRoot(r) PROVE FitNext
  BY <1>18 DEF DeferRoot, control, journal, phaseVars, waitVars, FitNext, Plan, SetTypes
<1> QED
  BY <1>1, <1>2, <1>3, <1>4, <1>5, <1>6, <1>7, <1>8, <1>9, <1>10, <1>11, <1>12, <1>13, <1>14,
     <1>15, <1>16, <1>17, <1>18 DEF BarrierStep, BarrierWait

LEMMA RecoveryStepFit == ASSUME WorldOK, SetTypes, Plan, RecoveryStep PROVE FitNext
<1>1. CASE Patch
  BY <1>1 DEF Patch, control, journal, phaseVars, FitNext, Plan, SetTypes
<1>2. CASE PatchRecord
  BY <1>2 DEF PatchRecord, RecoveryOver, phaseVars, waitVars, Write, FitNext, Plan, SetTypes
<1>3. CASE RecoveryWaits
  BY <1>3 DEF RecoveryWaits, Recovered, StartWait, control, journal, phaseVars, stepVars,
     FitNext, Plan, SetTypes
<1>4. CASE WaveRecoveryFails
  BY <1>4 DEF WaveRecoveryFails, RecoveryError, Recovered, With, Unwind, control, EndWait,
     Write, FitNext, Plan, SetTypes, Inner, Ending, Recovering, WaveCallers
<1>5. CASE BarrierRecoveryFails
  BY <1>5 DEF BarrierRecoveryFails, RecoveryError, Unwind, control, journal, phaseVars, EndWait,
     FitNext, Plan, SetTypes
<1>6. CASE RecoveryDefers
  BY <1>6 DEF RecoveryDefers, Recovered, RecoveryError, Defer, control, journal, phaseVars,
     EndWait, FitNext, Plan, SetTypes, Inner, Ending, Recovering, WaveCallers
<1>7. ASSUME NEW r \in Resources, RecoverSkip(r) PROVE FitNext
  BY <1>7 DEF RecoverSkip, control, journal, phaseVars, waitVars, FitNext, Plan, SetTypes
<1>8. ASSUME NEW r \in Resources, RecoverIntent(r) PROVE FitNext
  <2>1. /\ todo' \subseteq todo /\ UNCHANGED <<targets, remaining, failed, gate, starts, iter>>
        /\ cur' = Read(r) \/ UNCHANGED cur
    BY <1>8 DEF RecoverIntent, RecoveryOver, phaseVars, waitVars
  <2>2. UNCHANGED faults \/ (faults < MaxFaults /\ faults' = faults + 1)
    BY <1>8 DEF RecoverIntent, Write
  <2>3. live[r].uid \in Uids
    BY DEF WorldOK, Objects
  <2>4. Read(r).r = r /\ Read(r).uid = live[r].uid
    BY DEF Read
  <2>5. SetTypes'
    BY <2>1, <2>3, <2>4 DEF SetTypes
  <2> QED
    BY <2>1, <2>2, <2>5 DEF FitNext
<1>9. ASSUME NEW r \in Resources, RecoverPaused(r) PROVE FitNext
  BY <1>9 DEF RecoverPaused, control, journal, phaseVars, waitVars, FitNext, Plan, SetTypes
<1> QED
  BY <1>1, <1>2, <1>3, <1>4, <1>5, <1>6, <1>7, <1>8, <1>9 DEF RecoveryStep

LEMMA PhaseStepFit ==
  ASSUME SetTypes, Plan, PhaseTop \/ EntryGuard \/ Enter \/ PhaseEnd
  PROVE  FitNext
<1>1. CASE PhaseTop \/ EntryGuard
  BY <1>1 DEF PhaseTop, EntryGuard, control, journal, phaseVars, waitVars, stepVars, FitNext,
     SetTypes
<1>2. CASE Enter
  BY <1>2 DEF Enter, control, journal, waitVars, stepVars, FitNext, SetTypes, Plan, Inner
<1>3. CASE PhaseEnd
  BY <1>3 DEF PhaseEnd, Write, Unwind, EndWait, control, FitNext, SetTypes
<1> QED
  BY <1>1, <1>2, <1>3

\* The flags are assigned truth values, or left alone.
LEMMA FlagStep == ASSUME FlagTypes, Executor \/ Crash PROVE FlagTypes'
<1> DEFINE P == UNCHANGED permit \/ permit' = TRUE \/ permit' = FALSE
                  \/ permit' = (pc' = "redelete send")
           Q == UNCHANGED recovered \/ recovered' = FALSE
                  \/ recovered' = (recovered \/ answer \in {"Stripped", "Gone"})
<1>1. P /\ Q => FlagTypes'
  BY DEF FlagTypes
<1>2. WaveStep => P /\ Q
  BY Zenon DEF WaveStep, WaveWait, Acquire, Checkpoint, WaveDeleted, WaveGone, WaveRecreated,
     WaveStalled,
     WaveCancelled, RewaitFails, WaveOver, Get, Send, Unwind, Recover, control, stepVars
<1>3. BarrierStep => P /\ Q
  BY Zenon DEF BarrierStep, BarrierWait, BarrierSkip, BarrierBegins, BarrierWaits, BarrierPassed,
     BarrierCancelled, BarrierStalled, BarrierDefers, BarrierRecreated, RedeleteGetFails,
     Authorize, RedeleteSend, RedeleteRecord, RedeleteDone, RedeleteGone, DeferYes, DeferNo,
     RedeleteGet, DeferRoot, Unwind, Recover, Defer, control, stepVars
<1>4. RecoveryStep => P /\ Q
  BY Zenon DEF RecoveryStep, Patch, PatchRecord, RecoveryWaits, WaveRecoveryFails,
     BarrierRecoveryFails, RecoveryDefers, RecoverSkip, RecoverIntent, RecoverPaused,
     RecoveryOver, Unwind, Defer, control, stepVars
<1>5. PhaseTop \/ EntryGuard \/ Enter \/ PhaseEnd \/ Finish \/ MarkFailed \/ Crash => P /\ Q
  BY Zenon DEF PhaseTop, EntryGuard, Enter, PhaseEnd, Finish, MarkFailed, Crash, Ended, Unwind,
     control, stepVars
<1> QED
  BY <1>1, <1>2, <1>3, <1>4, <1>5, Zenon DEF Executor

LEMMA JournalTypesNext ==
  ASSUME TInv, Plan, JournalMove, Running'
  PROVE  JournalTypes(disk)' /\ JournalTypes(mem)'
<1>1. mem'.state \in States
  BY DEF Running, States
<1>2. mem'.deleted \subseteq Deletes
  <2>1. Checkpoint => With({"Accepted"}) \subseteq Deletes
    BY DEF Checkpoint, With, Plan, Inner
  <2> QED
    BY <2>1 DEF JournalMove, TInv, JournalTypes
<1>3. mem'.unresolved \subseteq Resources
  BY DEF JournalMove, TInv, JournalTypes
<1>4. disk' \in {disk, mem'}
  BY DEF JournalMove
<1> QED
  BY <1>1, <1>2, <1>3, <1>4 DEF TInv, JournalTypes

LEMMA FitTypes ==
  ASSUME TInv, FitNext
  PROVE  SetTypes' /\ CountTypes'
<1>1. MaxFaults \in Nat /\ MaxStarts \in Nat
  BY ExecutionAssumption DEF ExecutionAssumption
<1> QED
  BY <1>1 DEF TInv, FitNext, CountTypes, MaxRedeleteIterations

\* A process that ends, or begins, writes the state of the run.
LEMMA StateTypes ==
  ASSUME IInv, TInv, NEW j \in {disk, mem}, NEW x \in States,
         \/ Write([j EXCEPT !.state = x], "off", "off")
         \/ \E error : Write([j EXCEPT !.state = x], "phase", error)
  PROVE  JournalTypes(disk)' /\ JournalTypes(mem)'
<1>1. mem' = [j EXCEPT !.state = x] /\ disk' \in {disk, mem'}
  BY DEF Write
<1>2. DOMAIN j = JournalFields
  BY DEF IInv, JournalOK, Good
<1>3. mem'.state = x /\ mem'.deleted = j.deleted /\ mem'.unresolved = j.unresolved
  BY <1>1, <1>2 DEF JournalFields
<1> QED
  BY <1>1, <1>3 DEF TInv, JournalTypes

LEMMA OverTypes == ASSUME IInv, TInv, Finish \/ MarkFailed \/ Crash PROVE TInv'
<1>1. JournalTypes(disk)' /\ JournalTypes(mem)'
  <2>1. CASE Crash
    BY <2>1 DEF Crash, TInv, JournalTypes
  <2>2. CASE Finish \/ MarkFailed
    <3>1. PICK x \in States : Write([mem EXCEPT !.state = x], "off", "off")
      BY <2>2 DEF Finish, MarkFailed, FinalState, States
    <3> QED
      BY <3>1, StateTypes
  <2> QED
    BY <2>1, <2>2
<1>2. Ended
  BY DEF Finish, MarkFailed, Crash
<1>3. SetTypes'
  BY <1>2 DEF Ended, Unwind, EndWait, SetTypes
<1>4. UNCHANGED faults \/ (faults < MaxFaults /\ faults' = faults + 1)
  BY DEF Finish, MarkFailed, Crash, Write
<1>5. CountTypes'
  <2>1. MaxFaults \in Nat /\ MaxStarts \in Nat
    BY ExecutionAssumption DEF ExecutionAssumption
  <2> QED
    BY <1>2, <1>4, <2>1 DEF Ended, Unwind, TInv, CountTypes, MaxRedeleteIterations
<1>6. FlagTypes'
  BY FlagStep DEF TInv, Executor
<1> QED
  BY <1>1, <1>3, <1>5, <1>6 DEF TInv

LEMMA LaunchTypes == ASSUME IInv, TInv, Start \/ Resume PROVE TInv'
<1>1. PICK first, error : Launch(first, error)
  BY DEF Start, Resume
<1>2. JournalTypes(disk)' /\ JournalTypes(mem)'
  BY <1>1, StateTypes DEF Launch, States
<1>3. /\ UNCHANGED <<gate, permit, failed, targets, remaining, iter, todo, cur, recovered>>
      /\ starts < MaxStarts /\ starts' = starts + 1
      /\ UNCHANGED faults \/ (faults < MaxFaults /\ faults' = faults + 1)
  BY <1>1 DEF Launch, Write, waitVars, stepVars
<1>4. MaxFaults \in Nat /\ MaxStarts \in Nat
  BY ExecutionAssumption DEF ExecutionAssumption
<1>5. SetTypes'
  BY <1>3 DEF TInv, SetTypes
<1>6. FlagTypes'
  BY <1>3, Zenon DEF TInv, FlagTypes
<1>7. CountTypes'
  BY <1>3, <1>4 DEF TInv, CountTypes
<1> QED
  BY <1>2, <1>5, <1>6, <1>7 DEF TInv

LEMMA NextTypes == IInv /\ AInv /\ TInv /\ [Next]_vars => TInv'
<1> SUFFICES ASSUME IInv, AInv, TInv, [Next]_vars PROVE TInv'
  OBVIOUS
<1>1. Plan /\ WorldOK /\ SetTypes /\ SawTargets
  BY PlanHolds DEF IInv, TInv, AInv, WaveOK, SawTargets
<1>2. CASE WaveStep \/ BarrierStep \/ RecoveryStep
            \/ PhaseTop \/ EntryGuard \/ Enter \/ PhaseEnd
  <2>1. FitNext
    BY <1>1, <1>2, WaveStepFit, BarrierStepFit, RecoveryStepFit, PhaseStepFit
  <2>2. JournalMove
    BY <1>2, WaveStepMoves, BarrierStepMoves, RecoveryStepMoves, PhaseStepMoves
  <2>3. Running'
    BY <1>2, WaveStepAInv, BarrierStepAInv, RecoveryStepAInv, PhaseTopAInv, EnterAInv,
       PhaseEndAInv
  <2>4. FlagTypes'
    BY <1>2, FlagStep DEF TInv, Executor
  <2> QED
    BY <1>1, <2>1, <2>2, <2>3, <2>4, FitTypes, JournalTypesNext DEF TInv
<1>3. CASE Cluster \/ Interrupt \/ Drained \/ UNCHANGED vars
  <2>1. /\ UNCHANGED <<disk, mem, faults, starts, failed, targets, remaining>>
        /\ UNCHANGED <<iter, todo, cur, permit, recovered>>
        /\ gate' \in {gate, "pausing", "paused"}
    BY <1>3 DEF Cluster, Cascade, DropFinalizer, Vanish, Recreate, Adopt, Undisturbed,
       Interrupt, Drained,
       vars, control, journal, phaseVars, waitVars, stepVars
  <2>2. FlagTypes'
    BY <2>1, Zenon DEF TInv, FlagTypes
  <2> QED
    BY <2>1, <2>2 DEF TInv, JournalTypes, SetTypes, CountTypes
<1> QED
  BY <1>2, <1>3, OverTypes, LaunchTypes DEF Next, Executor

LEMMA InitTypes == Init => TInv
<1> SUFFICES ASSUME Init PROVE TInv
  OBVIOUS
<1>1. MaxFaults \in Nat /\ MaxStarts \in Nat
  BY ExecutionAssumption DEF ExecutionAssumption
<1>2. JournalTypes(disk) /\ JournalTypes(mem)
  BY DEF Init, JournalTypes, States
<1>3. SetTypes /\ FlagTypes
  BY DEF Init, SetTypes, FlagTypes
<1>4. CountTypes
  BY <1>1 DEF Init, CountTypes, MaxRedeleteIterations
<1> QED
  BY <1>2, <1>3, <1>4 DEF TInv

\* The variables keep their types, the journal its vocabulary, and the
\* counters their bounds: three re-delete iterations at most (executor.rs,
\* MAX_REDELETE_ITERATIONS), and names of the plan only.
THEOREM ExecutionTypes == Spec => []TypeOK
<1>1. IInv /\ AInv /\ SInv /\ TInv => TypeOK
  <2> SUFFICES ASSUME IInv, AInv, SInv, TInv PROVE TypeOK
    OBVIOUS
  <2>1. live \in [Resources -> [uid : Uids, last : Uids, deleting : BOOLEAN, fin : BOOLEAN]]
    BY DEF IInv, WorldOK, Objects
  <2>10. ref \in [DOMAIN Owners -> [r : Resources, uid : Uids]]
    BY DEF SInv, RefOK
  <2>2. touched \subseteq Uid
    BY DEF AInv, TouchedOK, Uid
  <2>3. gate \in {"running", "pausing", "paused"} /\ permit \in BOOLEAN
    BY DEF TInv, CountTypes, FlagTypes
  <2>4. ASSUME NEW j \in {disk, mem}
        PROVE  /\ j.state \in States /\ j.completed \in 0..Len(Phases)
               /\ j.deleted \subseteq Deletes /\ j.unresolved \subseteq Resources
               /\ j.redelete \in [Resources -> [Uids -> Status]]
    BY DEF TInv, JournalTypes, IInv, JournalOK, Good, AInv, RecordsOK, RecordTypes
  <2>5. /\ faults \in 0..MaxFaults /\ starts \in 0..MaxStarts
        /\ phase \in 1..(Len(Phases) + 1) /\ iter \in 0..MaxRedeleteIterations
    BY DEF TInv, CountTypes, IInv, PhaseOK
  <2>6. failed \subseteq Deletes /\ acc \subseteq Deletes
    BY DEF TInv, SetTypes, AInv, WaveOK, TouchedOK, Mine
  <2>7. sawGone \union sawBack \subseteq targets /\ targets \union remaining \subseteq Resources
    BY DEF TInv, SetTypes, AInv, WaveOK
  <2>8. todo \subseteq Resources /\ recovered \in BOOLEAN
    BY DEF TInv, SetTypes, FlagTypes
  <2>9. cur = None \/ (cur.r \in Resources /\ cur.uid \in Uids)
    BY DEF TInv, SetTypes
  <2> QED
    BY <2>1, <2>2, <2>3, <2>4, <2>5, <2>6, <2>7, <2>8, <2>9, <2>10 DEF TypeOK, States, Status
<1> QED
  BY <1>1, InitTypes, NextTypes, InitSInv, NextSInv, ExecutionAuthority, PTL DEF Spec
=============================================================================
