------------------------- MODULE ClusterRead_proofs -------------------------
(***************************************************************************)
(* The safety of the readers of the cluster, for any consumers, queries,   *)
(* types, objects, owners and permits.  First the scan and the walks of    *)
(* NamespaceScan: what they miss is reported, what they index does not     *)
(* depend on who answers first, and a walk leaves no gap.  Then the audit  *)
(* of ResidualAudit: what it reports was there, and it reports what        *)
(* stayed.  Last the commands of ClusterRead, where a step of one reader   *)
(* leaves the others alone, so that each keeps its own invariant.          *)
(***************************************************************************)
EXTENDS ClusterRead, QueryPlanner_proofs, WellFoundedInduction

Sightings == [uid : Uids, owner : Uids \union {NoOwner}]
Walks == [pc : {"off", "ready", "walking", "fetching", "climbing", "over"},
          at : Objects \union Uids \union {NoOwner},
          visited : SUBSET Uids, warned : BOOLEAN]
Places == {"waiting", "queued", "listing", "sleeping", "done"}

ScanTypes ==
  /\ reader \in {"index", "snapshot", "parents"}
  /\ limited \in BOOLEAN
  /\ gen \in [Objects -> Nat] /\ ownerGen \in [Objects -> Nat]
  /\ free \in Nat
  /\ line \in Seq(Targets)
  /\ target \in [Targets -> Places]
  /\ attempt \in [Targets -> 0..MaxRetries]
  /\ result \in [Targets -> [ok : BOOLEAN, seen : SUBSET Sightings]]
  /\ reported \in Seq(Targets)
  /\ collected \in Seq(Targets)
  /\ walk \in Walks
  /\ Known \subseteq Uids

\* Who waits for a permit waits once, and only if there is a semaphore.
LineIsQueued ==
  /\ limited \/ line = <<>>
  /\ \A n \in DOMAIN line : target[line[n]] = "queued"
  /\ \A m, n \in DOMAIN line : line[m] = line[n] => m = n

\* A permit is in the semaphore or with a type that is read or sleeps.
WithPermit == {i \in Targets : target[i] \in {"listing", "sleeping"}}
ScanPermitsAreKept ==
  free + (IF limited THEN Cardinality(WithPermit) ELSE 0) = ScanPermits

SleepersMayTryAgain ==
  \A i \in Targets : target[i] = "sleeping" => attempt[i] < MaxRetries

\* The types that failed are those that were reported, each once.
Missing == {i \in Targets : ~Answered(i)}
FailuresAreReported ==
  /\ \A i \in Missing : target[i] = "done"
  /\ \A i \in Targets : i \in Missing <=> \E n \in DOMAIN reported : reported[n] = i
  /\ Len(reported) = Cardinality(Missing)

\* What was yielded are the first types, in their order, and they are done.
CollectedInOrder ==
  /\ Len(collected) <= Len(Found)
  /\ \A j \in DOMAIN collected : collected[j] = j /\ target[j] = "done"

\* Whatever its incarnation, an object names the owner that OwnerOf gives it.
OwnedAsNamed(u, owner) ==
  IF OwnerOf[u.name] = NoOwner THEN owner = NoOwner
  ELSE owner \in Uids /\ owner.name = OwnerOf[u.name]
ReadAsNamed ==
  /\ \A i \in Targets : \A s \in result[i].seen : OwnedAsNamed(s.uid, s.owner)
  /\ \A u \in Known : OwnedAsNamed(u, index[u].owner)

\* Nothing is indexed before everything was yielded; then each object is under
\* the last type that lists it, the first one in a snapshot, unless it was
\* fetched again.
StableType(u) == IF reader = "index" THEN Max(ListedBy(u)) ELSE Min(ListedBy(u))
IndexIsStable ==
  Lists =>
    IF walk.pc = "off" THEN index = <<>>
    ELSE /\ Len(collected) = Len(Found)
         /\ \A u \in ReadUids : u \in Known /\ index[u].type \in {0, StableType(u)}

\* The owner of what was visited was visited, or is what the walk is about to
\* visit or to fetch.
Followed(u) ==
  \/ OwnerOf[u.name] = NoOwner
  \/ \E v \in walk.visited : v.name = OwnerOf[u.name]
  \/ walk.pc = "walking" /\ walk.at.name = OwnerOf[u.name]
  \/ walk.pc = "fetching" /\ walk.at = u
  \/ walk.pc = "climbing" /\ walk.at = OwnerOf[u.name]
WalkIsWhole ==
  /\ walk.pc \in {"walking", "fetching"} => walk.at \in Known
  /\ walk.pc = "fetching" => index[walk.at].owner # NoOwner
  /\ walk.pc = "climbing" => reader = "parents" /\ walk.at \in Objects
  /\ walk.visited \subseteq Known
  /\ walk.warned \/ \A u \in walk.visited : Followed(u)

ScanInv ==
  /\ ScanTypes /\ LineIsQueued /\ ScanPermitsAreKept /\ SleepersMayTryAgain
  /\ FailuresAreReported /\ CollectedInOrder /\ ReadAsNamed /\ IndexIsStable
  /\ WalkIsWhole
-----------------------------------------------------------------------------
(***************************************************************************)
(* What one look at the cluster, and one step of the walk, make            *)
(***************************************************************************)

\* The types that are listed are finitely many.
LEMMA TargetsAreFinite ==
  /\ Len(Found) \in Nat
  /\ IsFiniteSet(Targets)
  /\ \A i \in Targets : i \in Nat /\ Found[i] \subseteq Objects
<1>1. Len(Found) \in Nat /\ DOMAIN Found = 1..Len(Found)
       /\ \A i \in 1..Len(Found) : Found[i] \in SUBSET Objects
  BY ScanAssumption
<1>2. IsFiniteSet(1..Len(Found))
  BY <1>1, FS_Interval
<1> QED BY <1>1, <1>2 DEF Targets

\* An object that is read is read under its name, with the owner it names.
LEMMA SeenAsNamed ==
  ASSUME ScanTypes, NEW o \in Objects
  PROVE  /\ Seen(o) \in Sightings
         /\ Seen(o).uid.name = o
         /\ OwnedAsNamed(Seen(o).uid, Seen(o).owner)
<1>1. gen[o] \in Nat /\ OwnerOf[o] \in Objects \union {NoOwner} /\ ownerGen[o] \in Nat
  BY ScanAssumption DEF ScanTypes
<1>2. Uid(o, gen[o]) \in Uids /\ Uid(o, gen[o]).name = o
  BY <1>1 DEF Uid, Uids
<1>3. OwnerOf[o] # NoOwner =>
        Uid(OwnerOf[o], ownerGen[o]) \in Uids /\ Uid(OwnerOf[o], ownerGen[o]).name = OwnerOf[o]
  BY <1>1 DEF Uid, Uids
<1> QED BY <1>2, <1>3 DEF Seen, Sightings, OwnedAsNamed

\* Whether an object that was read has an owner depends on its name only.
LEMMA OwnerByName ==
  ASSUME NEW u \in Uids, NEW owner, OwnedAsNamed(u, owner)
  PROVE  /\ owner = NoOwner <=> OwnerOf[u.name] = NoOwner
         /\ owner # NoOwner => owner \in Uids /\ owner.name = OwnerOf[u.name]
                                 /\ owner.name \in Objects
<1>1. NoOwner \notin Uids /\ u.name \in Objects
       /\ OwnerOf[u.name] \in Objects \union {NoOwner}
  BY ScanAssumption DEF Uids
<1> QED BY <1>1 DEF OwnedAsNamed

\* A walk that visits, or that gives up.
LEMMA WalkVisits ==
  ASSUME ScanTypes, walk.at \in Uids
  PROVE  /\ Visit \in Walks
         /\ Visit.pc = walk.pc /\ Visit.at = walk.at /\ Visit.warned = walk.warned
         /\ Visit.visited = walk.visited \union {walk.at}
BY DEF ScanTypes, Walks, Visit

LEMMA WalkWarns ==
  ASSUME NEW w \in Walks
  PROVE  /\ [w EXCEPT !.pc = "over", !.warned = TRUE] \in Walks
         /\ [w EXCEPT !.pc = "over", !.warned = TRUE].pc = "over"
         /\ [w EXCEPT !.pc = "over", !.warned = TRUE].warned
         /\ [w EXCEPT !.pc = "over", !.warned = TRUE].visited = w.visited
BY DEF Walks
-----------------------------------------------------------------------------
(***************************************************************************)
(* The types: permits, attempts and failures                               *)
(***************************************************************************)

\* What the futures of the types leave alone, and what the rest does.
LEMMA TargetFrame ==
  ASSUME NEW i \in Targets, TargetStep(i)
  PROVE  UNCHANGED <<reader, limited, gen, ownerGen, collected, index, walk>>
<1> USE DEF TargetStep
<1>1. CASE Start(i)
  BY <1>1 DEF Start
<1>2. CASE TakePermit(i)
  BY <1>2 DEF TakePermit
<1>3. CASE ListArrives(i)
  BY <1>3 DEF ListArrives
<1>4. CASE ListSleeps(i)
  BY <1>4 DEF ListSleeps
<1>5. CASE Wake(i)
  BY <1>5 DEF Wake
<1>6. CASE ListFails(i)
  BY <1>6 DEF ListFails
<1> QED BY <1>1, <1>2, <1>3, <1>4, <1>5, <1>6

LEMMA WalkFrame ==
  ASSUME WalkStep \/ \E o \in Objects : Recreate(o)
  PROVE  UNCHANGED <<reader, limited, free, line, target, attempt, result, reported>>
BY DEF WalkStep, Collect, Assemble, BeginWalk, WalkOn, Fetched, NotFetched,
       BeginClimb, Climb, ClimbFails, Recreate

\* What a step of one future does to it and to the semaphore.
Queues(i) ==
  /\ target'[i] = (IF limited THEN "queued" ELSE "listing")
  /\ line' = (IF limited THEN Append(line, i) ELSE line)
Begins(i) ==
  /\ target[i] = "waiting" /\ Queues(i)
  /\ UNCHANGED <<free, attempt, result, reported>>
IsAdmitted(i) ==
  /\ target[i] = "queued" /\ target'[i] = "listing" /\ limited
  /\ line # <<>> /\ i = Head(line) /\ line' = Tail(line)
  /\ free > 0 /\ free' = free - 1
  /\ UNCHANGED <<attempt, result, reported>>
Returns(i) ==
  /\ target[i] = "listing" /\ target'[i] = "done" /\ Release
  /\ \/ /\ result' = [result EXCEPT ![i] = Got({Seen(o) : o \in Found[i]})]
        /\ UNCHANGED reported
     \/ /\ result' = [result EXCEPT ![i] = Failed]
        /\ reported' = Append(reported, i)
  /\ UNCHANGED <<line, attempt>>
FallsAsleep(i) ==
  /\ target[i] = "listing" /\ target'[i] = "sleeping" /\ attempt[i] < MaxRetries
  /\ UNCHANGED <<line, free, attempt, result, reported>>
GoesOn(i) ==
  /\ target[i] = "sleeping" /\ Queues(i) /\ Release
  /\ attempt[i] < MaxRetries /\ attempt' = [attempt EXCEPT ![i] = @ + 1]
  /\ UNCHANGED <<result, reported>>

LEMMA TargetEffect ==
  ASSUME ScanTypes, LineIsQueued, SleepersMayTryAgain, NEW i \in Targets, TargetStep(i)
  PROVE  Begins(i) \/ IsAdmitted(i) \/ Returns(i) \/ FallsAsleep(i) \/ GoesOn(i)
<1>0. DOMAIN target = Targets /\ target = [j \in Targets |-> target[j]]
  BY DEF ScanTypes
<1>1. CASE Start(i)
  BY <1>0, <1>1, Zenon DEF Start, Ask, Begins, Queues
<1>2. CASE TakePermit(i)
  <2>1. line # <<>> /\ i = Head(line) /\ limited
    BY <1>2, Zenon DEF TakePermit, LineIsQueued
  <2>2. 1 \in DOMAIN line /\ line[1] = i
    BY <2>1 DEF ScanTypes
  <2>3. target[i] = "queued"
    BY <2>2 DEF LineIsQueued
  <2> QED BY <1>0, <1>2, <2>1, <2>3, Zenon DEF TakePermit, IsAdmitted
<1>3. CASE ListArrives(i)
  BY <1>0, <1>3, Zenon DEF ListArrives, Returns
<1>4. CASE ListSleeps(i)
  BY <1>0, <1>4, Zenon DEF ListSleeps, FallsAsleep
<1>5. CASE Wake(i)
  <2>1. attempt[i] < MaxRetries
    BY <1>5 DEF Wake, SleepersMayTryAgain
  <2> QED BY <1>0, <1>5, <2>1, Zenon DEF Wake, Ask, GoesOn, Queues
<1>6. CASE ListFails(i)
  BY <1>0, <1>6, Zenon DEF ListFails, Returns
<1> QED BY <1>1, <1>2, <1>3, <1>4, <1>5, <1>6 DEF TargetStep

\* The others stay where they are.
LEMMA OnlyOneMoves ==
  ASSUME ScanTypes, NEW i \in Targets, TargetStep(i)
  PROVE  /\ \A j \in Targets \ {i} : target'[j] = target[j]
         /\ target' = [target EXCEPT ![i] = target'[i]]
<1>0. target = [j \in Targets |-> target[j]]
  BY DEF ScanTypes
<1>1. \E place : target' = [target EXCEPT ![i] = place]
  BY DEF TargetStep, Start, TakePermit, ListArrives, ListSleeps, Wake, ListFails, Ask
<1> QED BY <1>0, <1>1

LEMMA ScanTypesStep ==
  ASSUME ScanTypes, LineIsQueued, SleepersMayTryAgain, NEW i \in Targets, TargetStep(i)
  PROVE  ScanTypes'
<1>0. /\ target \in [Targets -> Places] /\ attempt \in [Targets -> 0..MaxRetries]
      /\ free \in Nat /\ line \in Seq(Targets) /\ reported \in Seq(Targets)
      /\ result \in [Targets -> [ok : BOOLEAN, seen : SUBSET Sightings]]
  BY DEF ScanTypes
<1>1. target'[i] \in Places /\ target' \in [Targets -> Places]
  <2>1. target'[i] \in {"queued", "listing", "sleeping", "done"}
    BY TargetEffect, Zenon DEF Begins, IsAdmitted, Returns, FallsAsleep, GoesOn, Queues
  <2>2. target' = [target EXCEPT ![i] = target'[i]]
    BY OnlyOneMoves
  <2> HIDE DEF TargetStep
  <2> QED BY <1>0, <2>1, <2>2 DEF Places
<1>2. MaxRetries \in Nat /\ attempt' \in [Targets -> 0..MaxRetries]
  <2>1. attempt' = attempt \/ (attempt[i] < MaxRetries /\ attempt' = [attempt EXCEPT ![i] = @ + 1])
    BY TargetEffect, Zenon DEF Begins, IsAdmitted, Returns, FallsAsleep, GoesOn, Queues
  <2>2. CASE attempt' = attempt
    BY <1>0, <2>2, RetriesAssumption
  <2>3. CASE attempt[i] < MaxRetries /\ attempt' = [attempt EXCEPT ![i] = @ + 1]
    <3>1. MaxRetries \in Nat /\ attempt[i] + 1 \in 0..MaxRetries
      BY <1>0, <2>3, RetriesAssumption
    <3>2. attempt' = [attempt EXCEPT ![i] = attempt[i] + 1]
      BY <2>3, Zenon
    <3> QED BY <1>0, <3>1, <3>2
  <2> QED BY <2>1, <2>2, <2>3
<1>3. free' \in Nat
  <2>1. free' = free \/ Release \/ (free > 0 /\ free' = free - 1)
    BY TargetEffect, Zenon DEF Begins, IsAdmitted, Returns, FallsAsleep, GoesOn, Queues
  <2> QED BY <1>0, <2>1 DEF Release
<1>4. line' \in Seq(Targets)
  <2>1. line' = line \/ line' = Append(line, i) \/ (line # <<>> /\ line' = Tail(line))
    BY TargetEffect, Zenon DEF Begins, IsAdmitted, Returns, FallsAsleep, GoesOn, Queues
  <2>2. Append(line, i) \in Seq(Targets) /\ (line # <<>> => Tail(line) \in Seq(Targets))
    BY <1>0, AppendProperties, HeadTailProperties
  <2> QED BY <1>0, <2>1, <2>2, Zenon
<1>5. result' \in [Targets -> [ok : BOOLEAN, seen : SUBSET Sightings]]
  <2>1. \/ result' = result \/ result' = [result EXCEPT ![i] = Failed]
        \/ result' = [result EXCEPT ![i] = Got({Seen(o) : o \in Found[i]})]
    BY TargetEffect, Zenon DEF Begins, IsAdmitted, Returns, FallsAsleep, GoesOn, Queues
  <2>2. Failed \in [ok : BOOLEAN, seen : SUBSET Sightings]
    BY DEF Failed
  <2>3. {Seen(o) : o \in Found[i]} \subseteq Sightings
    BY SeenAsNamed, TargetsAreFinite
  <2>4. Got({Seen(o) : o \in Found[i]}) \in [ok : BOOLEAN, seen : SUBSET Sightings]
    BY <2>3 DEF Got
  <2> QED BY <1>0, <2>1, <2>2, <2>4
<1>6. reported' \in Seq(Targets)
  <2>1. reported' = reported \/ reported' = Append(reported, i)
    BY TargetEffect, Zenon DEF Begins, IsAdmitted, Returns, FallsAsleep, GoesOn, Queues
  <2>2. Append(reported, i) \in Seq(Targets)
    BY <1>0, AppendProperties
  <2> QED BY <1>0, <2>1, <2>2, Zenon
<1> QED BY <1>1, <1>2, <1>3, <1>4, <1>5, <1>6, TargetFrame DEF ScanTypes, Known

\* Who queues is last in the line, who is admitted was first in it.
LEMMA LineStep ==
  ASSUME ScanTypes, LineIsQueued, SleepersMayTryAgain, NEW i \in Targets, TargetStep(i)
  PROVE  LineIsQueued'
<1>0. line \in Seq(Targets) /\ DOMAIN line = 1..Len(line) /\ Len(line) \in Nat
  BY DEF ScanTypes
<1>1. limited' = limited /\ \A j \in Targets \ {i} : target'[j] = target[j]
  BY TargetFrame, OnlyOneMoves
<1>2. \A n \in DOMAIN line : line[n] \in Targets /\ target[line[n]] = "queued"
  BY <1>0 DEF LineIsQueued
<1>3. \A m, n \in DOMAIN line : line[m] = line[n] => m = n
  BY DEF LineIsQueued
<1>4. CASE line' = line /\ target[i] # "queued"
  <2>1. \A n \in DOMAIN line : target'[line[n]] = "queued"
    BY <1>1, <1>2, <1>4
  <2> QED BY <1>1, <1>3, <1>4, <2>1 DEF LineIsQueued
<1>5. CASE line' = Append(line, i) /\ limited /\ target[i] # "queued" /\ target'[i] = "queued"
  <2>1. /\ DOMAIN line' = 1..(Len(line) + 1) /\ line'[Len(line) + 1] = i
        /\ \A n \in DOMAIN line : line'[n] = line[n]
    BY <1>0, <1>5, AppendProperties
  <2>2. \A n \in DOMAIN line' : n \in DOMAIN line \/ n = Len(line) + 1
    BY <1>0, <2>1
  <2>3. \A n \in DOMAIN line : line[n] # i
    BY <1>2, <1>5
  <2>4. \A n \in DOMAIN line' : target'[line'[n]] = "queued"
    BY <1>1, <1>2, <1>5, <2>1, <2>2, <2>3
  <2>5. \A m, n \in DOMAIN line' : line'[m] = line'[n] => m = n
    BY <1>3, <2>1, <2>2, <2>3
  <2> QED BY <1>1, <1>5, <2>4, <2>5 DEF LineIsQueued
<1>6. CASE line # <<>> /\ i = Head(line) /\ line' = Tail(line) /\ limited
  <2>1. /\ DOMAIN line' = 1..(Len(line) - 1) /\ i = line[1]
        /\ \A n \in DOMAIN line' : line'[n] = line[n + 1]
    BY <1>0, <1>6, HeadTailProperties
  <2>2. \A n \in DOMAIN line' : n + 1 \in DOMAIN line /\ 1 \in DOMAIN line /\ n + 1 # 1
    BY <1>0, <2>1
  <2>3. \A n \in DOMAIN line' : line[n + 1] # i
    BY <1>3, <2>1, <2>2
  <2>4. \A n \in DOMAIN line' : target'[line'[n]] = "queued"
    BY <1>1, <1>2, <2>1, <2>2, <2>3
  <2>5. \A m, n \in DOMAIN line' : line'[m] = line'[n] => m = n
    <3> SUFFICES ASSUME NEW m \in DOMAIN line', NEW n \in DOMAIN line', line'[m] = line'[n]
                 PROVE  m = n
      BY Zenon
    <3>1. m + 1 = n + 1
      BY <1>3, <2>1, <2>2
    <3> QED BY <3>1, <2>1
  <2> QED BY <1>1, <1>6, <2>4, <2>5 DEF LineIsQueued
<1> QED BY <1>4, <1>5, <1>6, TargetEffect, Zenon
        DEF Begins, IsAdmitted, Returns, FallsAsleep, GoesOn, Queues

LEMMA WithPermitIsFinite ==
  /\ IsFiniteSet(WithPermit) /\ Cardinality(WithPermit) \in Nat
<1>1. IsFiniteSet(WithPermit)
  BY TargetsAreFinite, FS_Subset DEF WithPermit
<1> QED BY <1>1, FS_CardinalityType

\* A permit is taken by who goes to the API server, kept through the sleep and
\* given back with the answer or before the next attempt.
LEMMA ScanPermitsStep ==
  ASSUME ScanTypes, LineIsQueued, SleepersMayTryAgain, ScanPermitsAreKept,
         NEW i \in Targets, TargetStep(i)
  PROVE  ScanPermitsAreKept'
<1>0. limited' = limited /\ (\A j \in Targets \ {i} : target'[j] = target[j]) /\ free \in Nat
  BY TargetFrame, OnlyOneMoves DEF ScanTypes
<1>c. IsFiniteSet(WithPermit) /\ Cardinality(WithPermit) \in Nat
  BY WithPermitIsFinite
<1>1. CASE ~limited
  <2>1. free' = free
    BY <1>1, TargetEffect, Zenon
       DEF Begins, IsAdmitted, Returns, FallsAsleep, GoesOn, Release
  <2> QED BY <1>0, <1>1, <2>1 DEF ScanPermitsAreKept
<1>2. CASE limited
  <2>0. free + Cardinality(WithPermit) = ScanPermits
    BY <1>2 DEF ScanPermitsAreKept
  <2>1. CASE free' = free /\ (i \in WithPermit <=> target'[i] \in {"listing", "sleeping"})
    <3>1. WithPermit' = WithPermit
      BY <1>0, <2>1 DEF WithPermit
    <3> QED BY <1>0, <1>2, <2>0, <2>1, <3>1 DEF ScanPermitsAreKept
  <2>2. CASE free > 0 /\ free' = free - 1 /\ i \notin WithPermit /\ target'[i] = "listing"
    <3>1. WithPermit' = WithPermit \union {i}
      BY <1>0, <2>2 DEF WithPermit
    <3>2. Cardinality(WithPermit') = Cardinality(WithPermit) + 1
      BY <1>c, <2>2, <3>1, FS_AddElement
    <3>3. free' + Cardinality(WithPermit') = ScanPermits
      BY <1>0, <1>c, <2>0, <2>2, <3>2
    <3> QED BY <1>0, <1>2, <3>3 DEF ScanPermitsAreKept
  <2>3. CASE /\ free' = free + 1 /\ i \in WithPermit
             /\ target'[i] \notin {"listing", "sleeping"}
    <3>1. WithPermit' = WithPermit \ {i}
      BY <1>0, <2>3 DEF WithPermit
    <3>2. Cardinality(WithPermit') = Cardinality(WithPermit) - 1
      BY <1>c, <2>3, <3>1, FS_RemoveElement
    <3>3. free' + Cardinality(WithPermit') = ScanPermits
      BY <1>0, <1>c, <2>0, <2>3, <3>2
    <3> QED BY <1>0, <1>2, <3>3 DEF ScanPermitsAreKept
  <2>4. CASE Begins(i)
    BY <1>2, <2>1, <2>4 DEF Begins, Queues, WithPermit
  <2>5. CASE IsAdmitted(i)
    BY <2>2, <2>5 DEF IsAdmitted, WithPermit
  <2>6. CASE Returns(i)
    BY <1>2, <2>3, <2>6 DEF Returns, WithPermit, Release
  <2>7. CASE FallsAsleep(i)
    BY <2>1, <2>7 DEF FallsAsleep, WithPermit
  <2>8. CASE GoesOn(i)
    BY <1>2, <2>3, <2>8 DEF GoesOn, Queues, WithPermit, Release
  <2> QED BY <2>4, <2>5, <2>6, <2>7, <2>8, TargetEffect
<1> QED BY <1>1, <1>2

\* Only who has an attempt left sleeps.
LEMMA SleepersStep ==
  ASSUME ScanTypes, LineIsQueued, SleepersMayTryAgain, NEW i \in Targets, TargetStep(i)
  PROVE  SleepersMayTryAgain'
<1>0. \A j \in Targets \ {i} : target'[j] = target[j]
  BY OnlyOneMoves
<1>1. attempt \in [Targets -> 0..MaxRetries]
  BY DEF ScanTypes
<1>2. \A j \in Targets \ {i} : attempt'[j] = attempt[j]
  <2>1. attempt' = attempt \/ attempt' = [attempt EXCEPT ![i] = @ + 1]
    BY TargetEffect, Zenon DEF Begins, IsAdmitted, Returns, FallsAsleep, GoesOn
  <2> QED BY <1>1, <2>1, Zenon
<1>3. target'[i] = "sleeping" => attempt' = attempt /\ attempt[i] < MaxRetries
  BY TargetEffect DEF Begins, IsAdmitted, Returns, FallsAsleep, GoesOn, Queues
<1> QED BY <1>0, <1>2, <1>3 DEF SleepersMayTryAgain

\* A type that fails is done, and was not reported before.
LEMMA FailuresStep ==
  ASSUME ScanTypes, LineIsQueued, SleepersMayTryAgain, FailuresAreReported,
         NEW i \in Targets, TargetStep(i)
  PROVE  FailuresAreReported'
<1>0. /\ \A j \in Targets \ {i} : target'[j] = target[j]
      /\ reported \in Seq(Targets) /\ Len(reported) \in Nat
      /\ DOMAIN reported = 1..Len(reported)
      /\ result = [j \in Targets |-> result[j]]
  BY OnlyOneMoves DEF ScanTypes
<1>c. IsFiniteSet(Missing)
  BY TargetsAreFinite, FS_Subset DEF Missing
<1>1. target[i] # "done"
  BY TargetEffect, Zenon DEF Begins, IsAdmitted, Returns, FallsAsleep, GoesOn
<1>2. i \notin Missing
  BY <1>1 DEF FailuresAreReported
<1>3. \A j \in Missing : target'[j] = "done"
  BY <1>0, <1>2 DEF FailuresAreReported, Missing
<1>4. CASE Missing' = Missing /\ reported' = reported
  BY <1>3, <1>4 DEF FailuresAreReported
<1>5. CASE result' = [result EXCEPT ![i] = Failed] /\ reported' = Append(reported, i)
           /\ target'[i] = "done"
  <2>1. Missing' = Missing \union {i}
    BY <1>0, <1>5 DEF Missing, Answered, Failed
  <2>2. Cardinality(Missing') = Cardinality(Missing) + 1
    BY <1>c, <1>2, <2>1, FS_AddElement
  <2>3. /\ Len(reported') = Len(reported) + 1 /\ reported'[Len(reported) + 1] = i
        /\ DOMAIN reported' = 1..(Len(reported) + 1)
        /\ \A n \in DOMAIN reported : reported'[n] = reported[n]
    BY <1>0, <1>5, AppendProperties
  <2>4. \A j \in Targets : j \in Missing' <=> \E n \in DOMAIN reported' : reported'[n] = j
    <3> SUFFICES ASSUME NEW j \in Targets
                 PROVE  j \in Missing' <=> \E n \in DOMAIN reported' : reported'[n] = j
      OBVIOUS
    <3>1. j \in Missing <=> \E n \in DOMAIN reported : reported[n] = j
      BY DEF FailuresAreReported
    <3>2. \A n \in 1..(Len(reported) + 1) : n \in DOMAIN reported \/ n = Len(reported) + 1
      BY <1>0
    <3>3. (\E n \in DOMAIN reported' : reported'[n] = j) <=>
             j = i \/ \E n \in DOMAIN reported : reported[n] = j
      BY <1>0, <2>3, <3>2
    <3> QED BY <2>1, <3>1, <3>3
  <2>5. Len(reported') = Cardinality(Missing')
    BY <2>2, <2>3 DEF FailuresAreReported
  <2>6. \A j \in Missing' : target'[j] = "done"
    BY <1>3, <1>5, <2>1
  <2> QED BY <2>4, <2>5, <2>6 DEF FailuresAreReported
<1>6. CASE Returns(i)
  <2>1. CASE result' = [result EXCEPT ![i] = Got({Seen(o) : o \in Found[i]})]
             /\ reported' = reported
    <3>1. Missing' = Missing
      BY <1>0, <1>2, <2>1 DEF Missing, Answered, Got
    <3> QED BY <1>4, <2>1, <3>1
  <2> QED BY <1>5, <1>6, <2>1, Zenon DEF Returns
<1>7. CASE result' = result /\ reported' = reported
  BY <1>4, <1>7 DEF Missing, Answered
<1> QED BY <1>6, <1>7, TargetEffect, Zenon DEF Begins, IsAdmitted, FallsAsleep, GoesOn

\* Nothing that was yielded or read before is touched by a type under way.
LEMMA CollectedStep ==
  ASSUME ScanTypes, LineIsQueued, SleepersMayTryAgain, CollectedInOrder,
         NEW i \in Targets, TargetStep(i)
  PROVE  CollectedInOrder' /\ i \notin DOMAIN collected
<1>1. target[i] # "done"
  BY TargetEffect, Zenon DEF Begins, IsAdmitted, Returns, FallsAsleep, GoesOn
<1>2. i \notin DOMAIN collected
  BY <1>1 DEF CollectedInOrder
<1>3. DOMAIN collected = 1..Len(collected) /\ Len(collected) \in Nat /\ Len(Found) \in Nat
  BY TargetsAreFinite DEF ScanTypes
<1>4. \A j \in DOMAIN collected : j \in Targets \ {i}
  BY <1>2, <1>3 DEF CollectedInOrder, Targets
<1>5. collected' = collected /\ \A j \in Targets \ {i} : target'[j] = target[j]
  BY TargetFrame, OnlyOneMoves
<1> QED BY <1>2, <1>4, <1>5 DEF CollectedInOrder

\* A type that arrives shows its objects with the owners they name.
LEMMA ReadStep ==
  ASSUME ScanTypes, LineIsQueued, SleepersMayTryAgain, ReadAsNamed,
         NEW i \in Targets, TargetStep(i)
  PROVE  ReadAsNamed'
<1>0. /\ index' = index
      /\ result = [j \in Targets |-> result[j]]
  BY TargetFrame DEF ScanTypes
<1>1. \A s \in {Seen(o) : o \in Found[i]} : OwnedAsNamed(s.uid, s.owner)
  BY SeenAsNamed, TargetsAreFinite
<1>2. \A j \in Targets : \A s \in result[j].seen : OwnedAsNamed(s.uid, s.owner)
  BY DEF ReadAsNamed
<1>3. \/ result' = result \/ result' = [result EXCEPT ![i] = Failed]
      \/ result' = [result EXCEPT ![i] = Got({Seen(o) : o \in Found[i]})]
  BY TargetEffect, Zenon DEF Begins, IsAdmitted, Returns, FallsAsleep, GoesOn
<1>4. ASSUME NEW j \in Targets
      PROVE  result'[j].seen \in {result[j].seen, {}, {Seen(o) : o \in Found[i]}}
  BY <1>0, <1>3 DEF Failed, Got
<1>5. \A j \in Targets : \A s \in result'[j].seen : OwnedAsNamed(s.uid, s.owner)
  BY <1>1, <1>2, <1>4, Zenon DEF OwnedAsNamed
<1>6. \A u \in Known' : OwnedAsNamed(u, index'[u].owner)
  BY <1>0 DEF ReadAsNamed, Known
<1> QED BY <1>5, <1>6 DEF ReadAsNamed, OwnedAsNamed

\* When there is an index, no type is under way.
LEMMA IndexStandsStill ==
  ASSUME ScanTypes, LineIsQueued, SleepersMayTryAgain, CollectedInOrder, IndexIsStable,
         NEW i \in Targets, TargetStep(i)
  PROVE  IndexIsStable'
<1>0. UNCHANGED <<reader, collected, index, walk>>
  BY TargetFrame
<1>1. Lists => walk.pc = "off"
  <2> SUFFICES ASSUME Lists, walk.pc # "off" PROVE FALSE
    OBVIOUS
  <2>1. Len(collected) = Len(Found)
    BY DEF IndexIsStable
  <2>2. i \in DOMAIN collected
    BY <2>1 DEF Targets, ScanTypes
  <2> QED BY <2>2, CollectedStep
<1>2. Lists' = Lists
  BY <1>0 DEF Lists
<1> QED BY <1>0, <1>1, <1>2 DEF IndexIsStable

LEMMA ScanTargetStep ==
  ASSUME ScanInv, NEW i \in Targets, TargetStep(i)
  PROVE  ScanInv'
<1> USE DEF ScanInv
<1>1. ScanTypes' /\ LineIsQueued' /\ ScanPermitsAreKept' /\ SleepersMayTryAgain'
  BY ScanTypesStep, LineStep, ScanPermitsStep, SleepersStep
<1>2. FailuresAreReported' /\ CollectedInOrder' /\ ReadAsNamed' /\ IndexIsStable'
  BY FailuresStep, CollectedStep, ReadStep, IndexStandsStill
<1>3. WalkIsWhole'
  <2>1. UNCHANGED <<reader, index, walk>>
    BY TargetFrame
  <2> QED BY <2>1 DEF WalkIsWhole, Followed, Known
<1> QED BY <1>1, <1>2, <1>3
-----------------------------------------------------------------------------
(***************************************************************************)
(* Putting the results together                                            *)
(***************************************************************************)

\* A nonempty set of natural numbers has a least element, and one that is
\* bounded a greatest.
Below == {p \in Nat \X Nat : p[1] < p[2]}
LEMMA LeastOf ==
  ASSUME NEW S \in SUBSET Nat, S # {}
  PROVE  \E m \in S : \A n \in S : m <= n
<1>1. IsWellFoundedOn(Below, Nat)
  BY NatLessThanWellFounded DEF OpToRel, Below
<1>2. \E m \in S : \A n \in S : ~(<<n, m>> \in Below)
  BY <1>1, WFMin
<1>3. \A m, n \in Nat : <<n, m>> \in Below \/ m <= n
  BY DEF Below
<1> QED BY <1>2, <1>3

LEMMA GreatestOf ==
  ASSUME NEW b \in Nat, NEW S \in SUBSET (0..b), S # {}
  PROVE  \E m \in S : \A n \in S : n <= m
<1> DEFINE T == {n \in Nat : b - n \in S}
<1>1. \A n \in S : n \in 0..b /\ b - n \in Nat /\ b - (b - n) = n
  OBVIOUS
<1>2. \A n \in S : b - n \in T
  BY <1>1
<1>3. T \in SUBSET Nat /\ T # {}
  BY <1>2, Zenon
<1>4. PICK m \in T : \A n \in T : m <= n
  BY <1>3, LeastOf
<1>5. b - m \in S /\ m \in Nat
  BY <1>4
<1>6. ASSUME NEW n \in S PROVE n <= b - m
  <2>1. m <= b - n
    BY <1>2, <1>4
  <2> QED BY <1>1, <1>5, <2>1
<1> QED BY <1>5, <1>6

\* When all types were yielded, each is at its own place.
LEMMA EachAtItsPlace ==
  ASSUME ScanTypes, CollectedInOrder, Len(collected) = Len(Found), NEW i \in Targets
  PROVE  Position(i) = i /\ target[i] = "done"
<1>1. DOMAIN collected = Targets
  BY DEF ScanTypes, Targets
<1>2. \A j \in Targets : collected[j] = i <=> j = i
  BY <1>1 DEF CollectedInOrder
<1> QED BY <1>1, <1>2 DEF Position, CollectedInOrder

\* An object that was read is listed by a first and by a last type.
LEMMA ListedByFirstAndLast ==
  ASSUME NEW u \in ReadUids
  PROVE  /\ Max(ListedBy(u)) \in ListedBy(u)
         /\ \A j \in ListedBy(u) : j <= Max(ListedBy(u))
         /\ Min(ListedBy(u)) \in ListedBy(u)
         /\ \A j \in ListedBy(u) : j >= Min(ListedBy(u))
         /\ ListedBy(u) \subseteq Targets /\ Targets \subseteq Nat
<1>1. ListedBy(u) # {} /\ ListedBy(u) \subseteq Targets
  BY DEF ReadUids, ListedBy
<1>2. Len(Found) \in Nat /\ Targets \subseteq Nat /\ Targets \subseteq 0..Len(Found)
  BY TargetsAreFinite DEF Targets
<1>3. ListedBy(u) \in SUBSET Nat /\ ListedBy(u) \in SUBSET (0..Len(Found))
  BY <1>1, <1>2
<1>4. \E m \in ListedBy(u) : \A n \in ListedBy(u) : m <= n
  BY <1>1, <1>3, LeastOf
<1>5. \E m \in ListedBy(u) : \A n \in ListedBy(u) : m >= n
  BY <1>1, <1>2, <1>3, GreatestOf
<1>6. Max(ListedBy(u)) \in ListedBy(u) /\ \A j \in ListedBy(u) : Max(ListedBy(u)) >= j
  BY <1>5, Zenon DEF Max
<1>7. Min(ListedBy(u)) \in ListedBy(u) /\ \A j \in ListedBy(u) : Min(ListedBy(u)) <= j
  BY <1>4, Zenon DEF Min
<1> QED BY <1>1, <1>2, <1>3, <1>6, <1>7

\* What an entry of the index holds when the results are put together.
LEMMA EntriesAreStable ==
  ASSUME ScanTypes, CollectedInOrder, ReadAsNamed, Len(collected) = Len(Found),
         NEW u \in ReadUids
  PROVE  /\ IndexEntry(u).type = Max(ListedBy(u))
         /\ SnapshotEntry(u).type = Min(ListedBy(u))
         /\ OwnedAsNamed(u, IndexEntry(u).owner)
         /\ OwnedAsNamed(u, SnapshotEntry(u).owner)
<1> DEFINE S == ListedBy(u)
<1>0. S \subseteq Targets /\ Targets \subseteq Nat /\ \A i \in S : Position(i) = i
  BY ListedByFirstAndLast, EachAtItsPlace
<1> DEFINE last == CHOOSE i \in S : \A j \in S : Position(j) <= Position(i)
           first == CHOOSE i \in S : \A j \in S : Position(i) <= Position(j)
<1>1. last = Max(S)
  <2>1. \A j \in S : Position(j) <= Position(Max(S))
    BY <1>0, ListedByFirstAndLast
  <2>2. last \in S /\ \A j \in S : Position(j) <= Position(last)
    BY <2>1, ListedByFirstAndLast, Zenon
  <2>3. last \in S /\ Max(S) \in S /\ Max(S) <= last /\ last <= Max(S)
    BY <1>0, <2>2, ListedByFirstAndLast
  <2>4. \A m, n \in Nat : m <= n /\ n <= m => m = n
    OBVIOUS
  <2>5. last \in Nat /\ Max(S) \in Nat
    BY <1>0, <2>3
  <2> QED BY <2>3, <2>4, <2>5, Zenon
<1>2. first = Min(S)
  <2>1. \A j \in S : Position(Min(S)) <= Position(j)
    BY <1>0, ListedByFirstAndLast
  <2>2. first \in S /\ \A j \in S : Position(first) <= Position(j)
    BY <2>1, ListedByFirstAndLast, Zenon
  <2>3. first \in S /\ Min(S) \in S /\ Min(S) <= first /\ first <= Min(S)
    BY <1>0, <2>2, ListedByFirstAndLast
  <2>4. \A m, n \in Nat : m <= n /\ n <= m => m = n
    OBVIOUS
  <2>5. first \in Nat /\ Min(S) \in Nat
    BY <1>0, <2>3
  <2> QED BY <2>3, <2>4, <2>5, Zenon
<1>3. ASSUME NEW i \in S
      PROVE  OwnedAsNamed(u, (CHOOSE s \in result[i].seen : s.uid = u).owner)
  <2>1. \E s \in result[i].seen : s.uid = u
    BY DEF ListedBy
  <2> DEFINE s == CHOOSE s \in result[i].seen : s.uid = u
  <2>2. s \in result[i].seen /\ s.uid = u
    BY <2>1
  <2>3. i \in Targets
    BY <1>0
  <2> QED BY <2>2, <2>3 DEF ReadAsNamed
<1>4. last \in S /\ first \in S
  BY <1>1, <1>2, ListedByFirstAndLast
<1>5. IndexEntry(u) = [type |-> last, owner |-> (CHOOSE s \in result[last].seen : s.uid = u).owner]
  BY DEF IndexEntry
<1>6. SnapshotEntry(u) = [type |-> first, owner |-> (CHOOSE s \in result[first].seen : s.uid = u).owner]
  BY DEF SnapshotEntry
<1>7. /\ IndexEntry(u).type = last
      /\ IndexEntry(u).owner = (CHOOSE s \in result[last].seen : s.uid = u).owner
      /\ SnapshotEntry(u).type = first
      /\ SnapshotEntry(u).owner = (CHOOSE s \in result[first].seen : s.uid = u).owner
  <2> HIDE DEF last, first
  <2> QED BY <1>5, <1>6
<1>8. OwnedAsNamed(u, IndexEntry(u).owner) /\ OwnedAsNamed(u, SnapshotEntry(u).owner)
  BY <1>3, <1>4, <1>7, Zenon
<1> QED BY <1>1, <1>2, <1>7, <1>8, Zenon
-----------------------------------------------------------------------------
(***************************************************************************)
(* The collection, the walk, and the cluster                               *)
(***************************************************************************)

\* What they leave alone stays true.
LEMMA ScanFrame ==
  ASSUME ScanInv, WalkStep \/ \E o \in Objects : Recreate(o)
  PROVE  /\ LineIsQueued' /\ ScanPermitsAreKept' /\ SleepersMayTryAgain'
         /\ FailuresAreReported'
<1>1. UNCHANGED <<reader, limited, free, line, target, attempt, result, reported>>
  BY WalkFrame
<1>2. LineIsQueued' /\ ScanPermitsAreKept' /\ SleepersMayTryAgain'
  BY <1>1 DEF ScanInv, LineIsQueued, ScanPermitsAreKept, WithPermit, SleepersMayTryAgain
<1>3. FailuresAreReported'
  BY <1>1 DEF ScanInv, FailuresAreReported, Missing, Answered
<1> QED BY <1>2, <1>3

\* The objects that were read, and the types that listed them, are known from
\* the results alone.
LEMMA ResultsTell ==
  ASSUME UNCHANGED <<reader, result>>
  PROVE  /\ Lists' = Lists /\ ReadUids' = ReadUids
         /\ \A u : StableType(u)' = StableType(u)
BY DEF Lists, ReadUids, StableType, ListedBy

\* A recreation is read only later.
LEMMA ScanRecreateStep ==
  ASSUME ScanInv, NEW o \in Objects, Recreate(o)
  PROVE  ScanInv'
<1>1. UNCHANGED <<reader, limited, free, line, target, attempt, result, reported,
                  collected, index, walk>>
  BY DEF Recreate
<1>2. gen' \in [Objects -> Nat]
  <2>1. gen \in [Objects -> Nat] /\ gen' = [gen EXCEPT ![o] = gen[o] + 1]
    BY DEF Recreate, ScanInv, ScanTypes
  <2>2. gen[o] + 1 \in Nat
    BY <2>1
  <2> QED BY <2>1, <2>2
<1>3. ownerGen' \in [Objects -> Nat]
  <2>1. /\ ownerGen \in [Objects -> Nat]
        /\ ownerGen' = [ownerGen EXCEPT ![o] = IF OwnerOf[o] = NoOwner THEN ownerGen[o]
                                               ELSE gen'[OwnerOf[o]]]
    BY DEF Recreate, ScanInv, ScanTypes
  <2>2. OwnerOf[o] # NoOwner => gen'[OwnerOf[o]] \in Nat
    BY <1>2, ScanAssumption
  <2>3. (IF OwnerOf[o] = NoOwner THEN ownerGen[o] ELSE gen'[OwnerOf[o]]) \in Nat
    BY <2>1, <2>2
  <2> QED BY <2>1, <2>3
<1>4. ScanTypes'
  BY <1>1, <1>2, <1>3 DEF ScanInv, ScanTypes, Known
<1>5. LineIsQueued' /\ ScanPermitsAreKept' /\ SleepersMayTryAgain' /\ FailuresAreReported'
  BY ScanFrame
<1>6. CollectedInOrder' /\ ReadAsNamed'
  BY <1>1 DEF ScanInv, CollectedInOrder, ReadAsNamed, OwnedAsNamed, Known
<1>7. IndexIsStable'
  BY <1>1, ResultsTell DEF ScanInv, IndexIsStable, Known
<1>8. WalkIsWhole'
  BY <1>1 DEF ScanInv, WalkIsWhole, Followed, Known
<1> QED BY <1>4, <1>5, <1>6, <1>7, <1>8 DEF ScanInv

\* The next type to be yielded takes the next place.
LEMMA ScanCollectStep ==
  ASSUME ScanInv, NEW i \in Targets, Collect(i)
  PROVE  ScanInv'
<1>0. WalkStep
  BY DEF WalkStep
<1>1. UNCHANGED <<reader, limited, gen, ownerGen, free, line, target, attempt, result,
                  reported, index, walk>>
  BY DEF Collect
<1>2. /\ collected \in Seq(Targets) /\ Len(collected) \in Nat
      /\ DOMAIN collected = 1..Len(collected)
      /\ collected' = Append(collected, i) /\ i = Len(collected) + 1 /\ target[i] = "done"
  BY DEF Collect, ScanInv, ScanTypes
<1>3. /\ collected' \in Seq(Targets) /\ Len(collected') = Len(collected) + 1
      /\ collected'[Len(collected) + 1] = i
      /\ \A j \in 1..Len(collected) : collected'[j] = collected[j]
      /\ DOMAIN collected' = 1..(Len(collected) + 1)
  BY <1>2, AppendProperties
<1>4. ScanTypes'
  BY <1>1, <1>3 DEF ScanInv, ScanTypes, Known
<1>5. LineIsQueued' /\ ScanPermitsAreKept' /\ SleepersMayTryAgain' /\ FailuresAreReported'
  BY <1>0, ScanFrame
<1>6. CollectedInOrder'
  <2>1. \A j \in DOMAIN collected : collected[j] = j /\ target[j] = "done"
    BY DEF ScanInv, CollectedInOrder
  <2>2. \A j \in DOMAIN collected' : j \in DOMAIN collected \/ j = i
    BY <1>2, <1>3
  <2>3. \A j \in DOMAIN collected' : collected'[j] = j /\ target'[j] = "done"
    BY <1>1, <1>2, <1>3, <2>1, <2>2
  <2>4. Len(collected') <= Len(Found)
    BY <1>2, <1>3 DEF Targets
  <2> QED BY <2>3, <2>4 DEF CollectedInOrder
<1>7. ReadAsNamed'
  BY <1>1 DEF ScanInv, ReadAsNamed, OwnedAsNamed, Known
<1>8. IndexIsStable'
  <2>1. Len(collected) # Len(Found)
    BY <1>2 DEF Targets
  <2> QED BY <1>1, <2>1, ResultsTell DEF ScanInv, IndexIsStable, Known
<1>9. WalkIsWhole'
  BY <1>1 DEF ScanInv, WalkIsWhole, Followed, Known
<1> QED BY <1>4, <1>5, <1>6, <1>7, <1>8, <1>9 DEF ScanInv

\* A step of the walk that only adds to the index, under type 0, keeps what
\* the scan has put together; what is left to show is about the walk.
LEMMA WalkKeeps ==
  ASSUME ScanInv, WalkStep, UNCHANGED <<gen, ownerGen, collected>>,
         walk' \in Walks, walk'.pc # "off", Lists => walk.pc # "off",
         Known \subseteq Known', Known' \subseteq Uids,
         \A u \in Known : index'[u].type = 0 \/ index'[u] = index[u],
         \A u \in Known' : OwnedAsNamed(u, index'[u].owner),
         WalkIsWhole'
  PROVE  ScanInv'
<1>1. UNCHANGED <<reader, limited, free, line, target, attempt, result, reported>>
  BY WalkFrame
<1>2. ScanTypes'
  BY <1>1 DEF ScanInv, ScanTypes
<1>3. LineIsQueued' /\ ScanPermitsAreKept' /\ SleepersMayTryAgain' /\ FailuresAreReported'
  BY ScanFrame
<1>4. CollectedInOrder'
  BY <1>1 DEF ScanInv, CollectedInOrder
<1>5. ReadAsNamed'
  BY <1>1 DEF ScanInv, ReadAsNamed, OwnedAsNamed
<1>6. IndexIsStable'
  BY <1>1, ResultsTell DEF ScanInv, IndexIsStable
<1> QED BY <1>2, <1>3, <1>4, <1>5, <1>6 DEF ScanInv

\* All types were yielded: every object that was read gets its entry.
LEMMA ScanAssembleStep ==
  ASSUME ScanInv, Assemble
  PROVE  ScanInv'
<1>0. WalkStep
  BY DEF WalkStep
<1>1. UNCHANGED <<reader, limited, gen, ownerGen, free, line, target, attempt, result,
                  reported, collected>>
  BY DEF Assemble
<1>2. /\ ScanTypes /\ CollectedInOrder /\ ReadAsNamed /\ WalkIsWhole
      /\ Lists /\ Len(collected) = Len(Found)
  BY DEF ScanInv, Assemble
<1>3. index' = [u \in ReadUids |-> IF reader = "index" THEN IndexEntry(u)
                                   ELSE SnapshotEntry(u)]
  BY DEF Assemble
<1>4. Known' = ReadUids /\ \A u \in ReadUids :
        /\ index'[u].type = StableType(u)
        /\ OwnedAsNamed(u, index'[u].owner)
  BY <1>2, <1>3, EntriesAreStable DEF Known, StableType
<1>5. walk.pc = "off" /\ index = <<>>
  BY DEF Assemble
<1>6. /\ walk' \in Walks /\ walk'.pc \in {"ready", "over"}
      /\ walk'.visited = walk.visited /\ walk'.warned = walk.warned
  <2> DEFINE next == IF reader = "index" THEN "ready" ELSE "over"
  <2>1. walk \in Walks /\ next \in {"ready", "over"}
    BY <1>2 DEF ScanTypes
  <2>2. walk' = [walk EXCEPT !.pc = next]
    BY DEF Assemble
  <2> HIDE DEF next
  <2> QED BY <2>1, <2>2 DEF Walks
<1>7. walk.visited = {}
  <2>1. DOMAIN index = {}
    BY <1>5
  <2> QED BY <1>2, <2>1 DEF WalkIsWhole, Known
<1>8. ReadUids \subseteq Uids
  <2>1. result \in [Targets -> [ok : BOOLEAN, seen : SUBSET Sightings]]
    BY <1>2 DEF ScanTypes
  <2>2. \A i \in Targets : \A s \in result[i].seen : s.uid \in Uids
    BY <2>1 DEF Sightings
  <2> QED BY <2>2 DEF ReadUids
<1>9. ScanTypes'
  BY <1>1, <1>2, <1>4, <1>6, <1>8 DEF ScanTypes
<1>10. LineIsQueued' /\ ScanPermitsAreKept' /\ SleepersMayTryAgain' /\ FailuresAreReported'
  BY <1>0, ScanFrame
<1>11. CollectedInOrder'
  BY <1>1, <1>2 DEF CollectedInOrder
<1>12. ReadAsNamed'
  BY <1>1, <1>2, <1>4 DEF ReadAsNamed, OwnedAsNamed
<1>13. IndexIsStable'
  BY <1>1, <1>2, <1>4, <1>6, ResultsTell DEF IndexIsStable
<1>14. WalkIsWhole'
  BY <1>6, <1>7 DEF WalkIsWhole
<1> QED BY <1>9, <1>10, <1>11, <1>12, <1>13, <1>14 DEF ScanInv

\* From the index to an object of it.
LEMMA ScanBeginStep ==
  ASSUME ScanInv, NEW u \in Known, BeginWalk(u)
  PROVE  ScanInv'
<1>0. WalkStep
  BY DEF WalkStep
<1>1. /\ UNCHANGED <<gen, ownerGen, collected, index>> /\ Known' = Known
      /\ walk.pc = "ready" /\ walk' = [walk EXCEPT !.pc = "walking", !.at = u]
  BY DEF BeginWalk, Known
<1>2. walk \in Walks /\ walk.visited \in SUBSET Uids /\ Known \subseteq Uids
  BY DEF ScanInv, ScanTypes, Walks
<1>3. /\ walk' \in Walks /\ walk'.pc = "walking" /\ walk'.at = u
      /\ walk'.visited = walk.visited /\ walk'.warned = walk.warned
  <2>1. u \in Uids /\ walk \in Walks /\ walk' = [walk EXCEPT !.pc = "walking", !.at = u]
    BY <1>1, <1>2
  <2> QED BY <2>1 DEF Walks
<1>4. WalkIsWhole'
  BY <1>1, <1>3 DEF ScanInv, WalkIsWhole, Followed
<1>5. \A v \in Known : OwnedAsNamed(v, index[v].owner)
  BY DEF ScanInv, ReadAsNamed
<1> QED BY <1>0, <1>1, <1>2, <1>3, <1>4, <1>5, WalkKeeps

\* What was visited stays followed when the walk leaves where it was, provided
\* that it goes on from, or has visited, the owner it was about to go to.
LEMMA FollowedStays ==
  ASSUME NEW v, Followed(v), walk.visited \subseteq walk'.visited,
         walk.pc \in {"walking", "fetching", "climbing"},
         walk.pc = "walking" => walk.at \in walk'.visited,
         walk.pc = "fetching" =>
           walk'.pc = "walking" /\ walk'.at.name = OwnerOf[walk.at.name],
         walk.pc = "climbing" => \E x \in walk'.visited : x.name = walk.at
  PROVE  Followed(v)'
BY DEF Followed

\* The walk visits where it is, and goes to the owner or has it fetched.
LEMMA ScanWalkOnStep ==
  ASSUME ScanInv, WalkOn
  PROVE  ScanInv'
<1> DEFINE at == walk.at
           owner == index[at].owner
<1>0. WalkStep
  BY DEF WalkStep
<1>1. UNCHANGED <<gen, ownerGen, collected, index>> /\ Known' = Known /\ walk.pc = "walking"
  BY DEF WalkOn, Known
<1>2. walk \in Walks /\ Known \subseteq Uids /\ ScanTypes
  BY DEF ScanInv, ScanTypes
<1>3. at \in Known /\ at \in Uids /\ walk.visited \subseteq Known
  BY <1>1, <1>2 DEF ScanInv, WalkIsWhole
<1>4. \A v \in Known : OwnedAsNamed(v, index[v].owner)
  BY DEF ScanInv, ReadAsNamed
<1>5. /\ owner = NoOwner <=> OwnerOf[at.name] = NoOwner
      /\ owner # NoOwner => owner \in Uids /\ owner.name = OwnerOf[at.name]
  BY <1>3, <1>4, OwnerByName
<1>6. /\ Visit \in Walks /\ Visit.at = at /\ Visit.warned = walk.warned
      /\ Visit.visited = walk.visited \union {at} /\ Visit.visited \in SUBSET Uids
  BY <1>2, <1>3, WalkVisits DEF Walks
<1>7. \/ at \in walk.visited /\ walk' = [Visit EXCEPT !.pc = "over"]
      \/ owner = NoOwner /\ walk' = [Visit EXCEPT !.pc = "over"]
      \/ owner # NoOwner /\ owner \in Known /\ walk' = [Visit EXCEPT !.at = owner]
      \/ owner # NoOwner /\ walk' = [Visit EXCEPT !.pc = "fetching"]
  BY <1>3, Zenon DEF WalkOn
<1> HIDE DEF at, owner
<1>8. /\ walk' \in Walks /\ walk'.pc # "off"
      /\ walk'.visited = walk.visited \union {at} /\ walk'.warned = walk.warned
      /\ \/ at \in walk.visited /\ walk'.pc = "over"
         \/ owner = NoOwner /\ walk'.pc = "over"
         \/ /\ owner # NoOwner /\ owner \in Known
            /\ walk'.pc = "walking" /\ walk'.at = owner
         \/ /\ owner # NoOwner
            /\ walk'.pc = "fetching" /\ walk'.at = at
  <2>1. CASE walk' = [Visit EXCEPT !.pc = "over"]
    <3>1. /\ walk' \in Walks /\ walk'.pc = "over" /\ walk'.visited = Visit.visited
          /\ walk'.warned = Visit.warned
      BY <1>6, <2>1 DEF Walks
    <3>2. at \in walk.visited \/ owner = NoOwner
      <4>1. walk'.pc # "fetching" /\ (walk'.pc = "walking" => FALSE)
        BY <3>1
      <4>2. [Visit EXCEPT !.pc = "fetching"].pc = "fetching"
        BY <1>6 DEF Walks
      <4>3. owner \in Known => [Visit EXCEPT !.at = owner].pc = "walking"
        BY <1>1, <1>2, <1>3, <1>6, WalkVisits DEF Walks, at
      <4> QED BY <1>7, <4>1, <4>2, <4>3, Zenon
    <3> QED BY <1>6, <3>1, <3>2
  <2>2. CASE owner # NoOwner /\ owner \in Known /\ walk' = [Visit EXCEPT !.at = owner]
    <3>1. Visit.pc = "walking" /\ owner \in Uids
      BY <1>1, <1>2, <1>3, <2>2, WalkVisits DEF at
    <3>2. /\ walk' \in Walks /\ walk'.at = owner /\ walk'.pc = Visit.pc
          /\ walk'.visited = Visit.visited /\ walk'.warned = Visit.warned
      BY <1>6, <2>2, <3>1 DEF Walks
    <3> QED BY <1>6, <2>2, <3>1, <3>2
  <2>3. CASE owner # NoOwner /\ walk' = [Visit EXCEPT !.pc = "fetching"]
    <3>1. /\ walk' \in Walks /\ walk'.pc = "fetching" /\ walk'.visited = Visit.visited
          /\ walk'.warned = Visit.warned /\ walk'.at = Visit.at
      BY <1>6, <2>3 DEF Walks
    <3> QED BY <1>6, <2>3, <3>1
  <2> QED BY <1>7, <2>1, <2>2, <2>3
<1>9. WalkIsWhole'
  <2>1. ASSUME ~walk.warned, NEW v \in walk'.visited
        PROVE  Followed(v)'
    <3>1. CASE v \in walk.visited
      <4>1. Followed(v)
        BY <2>1, <3>1 DEF ScanInv, WalkIsWhole
      <4> QED BY <1>1, <1>8, <4>1, FollowedStays DEF at
    <3>2. CASE v = at /\ at \notin walk.visited
      BY <1>5, <1>8, <3>2 DEF Followed
    <3> QED BY <1>8, <3>1, <3>2
  <2>2. walk'.pc \in {"walking", "fetching"} => walk'.at \in Known'
    BY <1>1, <1>3, <1>8
  <2>3. walk'.pc = "fetching" => index'[walk'.at].owner # NoOwner
    BY <1>1, <1>8 DEF owner
  <2>4. walk'.visited \subseteq Known' /\ walk'.pc # "climbing"
    BY <1>1, <1>3, <1>8
  <2> QED BY <1>8, <2>1, <2>2, <2>3, <2>4 DEF WalkIsWhole
<1> QED BY <1>0, <1>1, <1>2, <1>4, <1>8, <1>9, WalkKeeps

\* The owner is read under its name, and the walk goes on from what was read.
LEMMA ScanFetchedStep ==
  ASSUME ScanInv, Fetched
  PROVE  ScanInv'
<1> DEFINE name == index[walk.at].owner.name
           seen == Seen(name)
<1>0. WalkStep
  BY DEF WalkStep
<1>1. UNCHANGED <<gen, ownerGen, collected>> /\ walk.pc = "fetching"
  BY DEF Fetched
<1>2. walk \in Walks /\ Known \subseteq Uids /\ ScanTypes /\ walk.visited \in SUBSET Uids
  BY DEF ScanInv, ScanTypes, Walks
<1>3. /\ walk.at \in Known /\ walk.at \in Uids /\ walk.visited \subseteq Known
      /\ index[walk.at].owner # NoOwner
  BY <1>1, <1>2 DEF ScanInv, WalkIsWhole
<1>4. \A v \in Known : OwnedAsNamed(v, index[v].owner)
  BY DEF ScanInv, ReadAsNamed
<1>5. name \in Objects /\ name = OwnerOf[walk.at.name]
  BY <1>3, <1>4, OwnerByName
<1>6. seen.uid \in Uids /\ seen.uid.name = name /\ OwnedAsNamed(seen.uid, seen.owner)
  BY <1>2, <1>5, SeenAsNamed DEF Sightings
<1>7. /\ index' = [u \in Known \union {seen.uid} |->
                     IF u = seen.uid THEN [type |-> 0, owner |-> seen.owner] ELSE index[u]]
      /\ walk' = [walk EXCEPT !.pc = "walking", !.at = seen.uid]
  BY DEF Fetched
<1> HIDE DEF name, seen
<1>8. /\ walk' \in Walks /\ walk'.pc = "walking" /\ walk'.at = seen.uid
      /\ walk'.visited = walk.visited /\ walk'.warned = walk.warned
  <2>1. /\ walk \in Walks /\ walk' = [walk EXCEPT !.pc = "walking", !.at = seen.uid]
        /\ seen.uid \in Uids
    BY <1>2, <1>6, <1>7
  <2> QED BY <2>1 DEF Walks
<1>9. /\ Known' = Known \union {seen.uid}
      /\ index'[seen.uid].type = 0 /\ index'[seen.uid].owner = seen.owner
      /\ \A u \in Known \ {seen.uid} : index'[u] = index[u]
  BY <1>7 DEF Known
<1>10. \A u \in Known' : OwnedAsNamed(u, index'[u].owner)
  BY <1>4, <1>6, <1>9, Zenon
<1>11. WalkIsWhole'
  <2>1. ASSUME ~walk.warned, NEW v \in walk.visited
        PROVE  Followed(v)'
    <3>1. Followed(v)
      BY <2>1 DEF ScanInv, WalkIsWhole
    <3> QED BY <1>1, <1>5, <1>6, <1>8, <3>1, FollowedStays
  <2> QED BY <1>3, <1>8, <1>9, <2>1 DEF WalkIsWhole
<1> QED BY <1>0, <1>1, <1>2, <1>6, <1>8, <1>9, <1>10, <1>11, WalkKeeps

\* A walk that gives up has warned; one that begins by name has visited nothing.
LEMMA ScanGivesUpStep ==
  ASSUME ScanInv, NotFetched \/ ClimbFails
  PROVE  ScanInv'
<1>0. WalkStep
  BY DEF WalkStep
<1>1. /\ UNCHANGED <<gen, ownerGen, collected, index>> /\ Known' = Known
      /\ walk.pc # "off" /\ walk' = [walk EXCEPT !.pc = "over", !.warned = TRUE]
  BY DEF NotFetched, ClimbFails, Known
<1>2. walk \in Walks /\ Known \subseteq Uids
  BY DEF ScanInv, ScanTypes
<1>3. walk' \in Walks /\ walk'.pc = "over" /\ walk'.warned /\ walk'.visited = walk.visited
  BY <1>1, <1>2, WalkWarns
<1>4. \A v \in Known : OwnedAsNamed(v, index[v].owner)
  BY DEF ScanInv, ReadAsNamed
<1>5. WalkIsWhole'
  BY <1>1, <1>3 DEF ScanInv, WalkIsWhole
<1> QED BY <1>0, <1>1, <1>2, <1>3, <1>4, <1>5, WalkKeeps

LEMMA ScanBeginClimbStep ==
  ASSUME ScanInv, NEW o \in Objects, BeginClimb(o)
  PROVE  ScanInv'
<1>0. WalkStep
  BY DEF WalkStep
<1>1. /\ UNCHANGED <<reader, gen, ownerGen, collected, index>> /\ Known' = Known
      /\ reader = "parents" /\ ~Lists
      /\ walk.pc = "off" /\ walk' = [walk EXCEPT !.pc = "climbing", !.at = o]
  BY DEF BeginClimb, Known, Lists
<1>2. walk \in Walks /\ Known \subseteq Uids /\ walk.visited \in SUBSET Uids
  BY DEF ScanInv, ScanTypes, Walks
<1>3. /\ walk' \in Walks /\ walk'.pc = "climbing" /\ walk'.at = o
      /\ walk'.visited = walk.visited /\ walk'.warned = walk.warned
  <2>1. walk \in Walks /\ walk' = [walk EXCEPT !.pc = "climbing", !.at = o]
    BY <1>1, <1>2
  <2> QED BY <2>1 DEF Walks
<1>4. \A v \in Known : OwnedAsNamed(v, index[v].owner)
  BY DEF ScanInv, ReadAsNamed
<1>5. WalkIsWhole'
  BY <1>1, <1>3 DEF ScanInv, WalkIsWhole, Followed
<1> QED BY <1>0, <1>1, <1>2, <1>3, <1>4, <1>5, WalkKeeps

\* By names: what is read is visited, unless it was before.
LEMMA ScanClimbStep ==
  ASSUME ScanInv, Climb
  PROVE  ScanInv'
<1> DEFINE seen == Seen(walk.at)
<1>0. WalkStep
  BY DEF WalkStep
<1>1. UNCHANGED <<reader, gen, ownerGen, collected>> /\ walk.pc = "climbing"
  BY DEF Climb
<1>2. walk \in Walks /\ Known \subseteq Uids /\ ScanTypes /\ walk.visited \in SUBSET Uids
       /\ walk.visited \subseteq Known
  BY DEF ScanInv, ScanTypes, Walks, WalkIsWhole
<1>3. walk.at \in Objects /\ reader = "parents"
  BY <1>1 DEF ScanInv, WalkIsWhole
<1>4. \A v \in Known : OwnedAsNamed(v, index[v].owner)
  BY DEF ScanInv, ReadAsNamed
<1>5. /\ seen.uid \in Uids /\ seen.uid.name = walk.at
      /\ OwnedAsNamed(seen.uid, seen.owner)
      /\ seen.owner = NoOwner <=> OwnerOf[walk.at] = NoOwner
      /\ seen.owner # NoOwner => seen.owner.name \in Objects
                                   /\ seen.owner.name = OwnerOf[walk.at]
  <2>1. seen \in Sightings /\ seen.uid.name = walk.at /\ OwnedAsNamed(seen.uid, seen.owner)
    BY <1>2, <1>3, SeenAsNamed
  <2> HIDE DEF seen
  <2>2. seen.uid \in Uids
    BY <2>1 DEF Sightings
  <2> QED BY <2>1, <2>2, OwnerByName
<1>6. CASE seen.uid \in walk.visited
  <2>1. walk' = [walk EXCEPT !.pc = "over"] /\ index' = index
    BY <1>6 DEF Climb
  <2>2. /\ walk' \in Walks /\ walk'.pc = "over"
        /\ walk'.visited = walk.visited /\ walk'.warned = walk.warned
    BY <1>2, <2>1 DEF Walks
  <2>3. Known' = Known
    BY <2>1 DEF Known
  <2>4. ASSUME ~walk.warned, NEW v \in walk.visited
        PROVE  Followed(v)'
    <3>1. Followed(v)
      BY <2>4 DEF ScanInv, WalkIsWhole
    <3> HIDE DEF seen
    <3> QED BY <1>1, <1>5, <1>6, <2>2, <3>1, FollowedStays
  <2>5. WalkIsWhole'
    BY <1>2, <2>2, <2>3, <2>4 DEF WalkIsWhole
  <2> QED BY <1>0, <1>1, <1>2, <1>4, <2>1, <2>2, <2>3, <2>5, WalkKeeps
<1>7. CASE seen.uid \notin walk.visited
  <2> DEFINE place == IF seen.owner = NoOwner THEN "over" ELSE "climbing"
             at == IF seen.owner = NoOwner THEN walk.at ELSE seen.owner.name
             visited == walk.visited \union {seen.uid}
  <2>1. index' = [u \in Known \union {seen.uid} |->
                    IF u = seen.uid THEN [type |-> 0, owner |-> seen.owner] ELSE index[u]]
    BY <1>7 DEF Climb
  <2>2. walk' = [walk EXCEPT !.visited = visited, !.pc = place, !.at = at]
    BY <1>7 DEF Climb
  <2>3. place \in {"over", "climbing"} /\ at \in Objects /\ visited \in SUBSET Uids
    BY <1>2, <1>3, <1>5
  <2>4. (place = "climbing" => at = OwnerOf[walk.at]) /\ (place = "over" => OwnerOf[walk.at] = NoOwner)
    BY <1>5
  <2> HIDE DEF place, at, seen
  <2>5. /\ walk' \in Walks /\ walk'.pc = place /\ walk'.at = at
        /\ walk'.visited = visited /\ walk'.warned = walk.warned
    <3> HIDE DEF visited
    <3> QED BY <1>2, <2>2, <2>3 DEF Walks
  <2>6. /\ Known' = Known \union {seen.uid}
        /\ index'[seen.uid].type = 0 /\ index'[seen.uid].owner = seen.owner
        /\ \A u \in Known \ {seen.uid} : index'[u] = index[u]
    BY <2>1 DEF Known
  <2>7. \A u \in Known' : OwnedAsNamed(u, index'[u].owner)
    BY <1>4, <1>5, <2>6, Zenon
  <2>8. ASSUME ~walk.warned, NEW v \in walk'.visited
        PROVE  Followed(v)'
    <3>1. CASE v \in walk.visited
      <4>1. Followed(v)
        BY <2>8, <3>1 DEF ScanInv, WalkIsWhole
      <4>2. seen.uid \in walk'.visited
        BY <2>5
      <4> QED BY <1>1, <1>5, <2>5, <4>1, <4>2, FollowedStays
    <3>2. CASE v = seen.uid
      BY <1>5, <2>3, <2>4, <2>5, <3>2 DEF Followed
    <3> QED BY <2>5, <3>1, <3>2
  <2>9. WalkIsWhole'
    BY <1>1, <1>2, <1>3, <2>3, <2>5, <2>6, <2>8 DEF WalkIsWhole
  <2> QED BY <1>0, <1>1, <1>2, <1>5, <2>3, <2>5, <2>6, <2>7, <2>9, WalkKeeps
<1> QED BY <1>6, <1>7
-----------------------------------------------------------------------------
(***************************************************************************)
(* The invariant of the scan, and what follows from it                     *)
(***************************************************************************)

LEMMA ScanInitInv ==
  ASSUME ScanInit
  PROVE  ScanInv
<1> USE ScanAssumption, RetriesAssumption DEF ScanInit
<1>1. ScanTypes
  <2>1. line \in Seq(Targets) /\ reported \in Seq(Targets) /\ collected \in Seq(Targets)
    BY EmptySeq
  <2>2. Got({}) \in [ok : BOOLEAN, seen : SUBSET Sightings]
    BY DEF Got
  <2>3. walk \in Walks
    BY DEF NotWalking, Walks
  <2>4. result \in [Targets -> [ok : BOOLEAN, seen : SUBSET Sightings]]
    BY <2>2
  <2>5. Known \subseteq Uids
    BY DEF Known
  <2>6. target \in [Targets -> Places] /\ attempt \in [Targets -> 0..MaxRetries]
    BY DEF Places
  <2>7. gen \in [Objects -> Nat] /\ ownerGen \in [Objects -> Nat] /\ free \in Nat
    OBVIOUS
  <2> QED BY <2>1, <2>3, <2>4, <2>5, <2>6, <2>7 DEF ScanTypes
<1>2. LineIsQueued
  BY DEF LineIsQueued
<1>3. ScanPermitsAreKept
  <2>1. WithPermit = {}
    BY DEF WithPermit
  <2>2. Cardinality(WithPermit) = 0
    BY <2>1, FS_EmptySet
  <2> QED BY <2>2 DEF ScanPermitsAreKept
<1>4. SleepersMayTryAgain
  BY DEF SleepersMayTryAgain
<1>5. FailuresAreReported
  <2>1. Missing = {}
    BY DEF Missing, Answered, Got
  <2>2. Cardinality(Missing) = 0
    BY <2>1, FS_EmptySet
  <2> QED BY <2>1, <2>2 DEF FailuresAreReported
<1>6. CollectedInOrder
  BY TargetsAreFinite DEF CollectedInOrder
<1>7. ReadAsNamed
  BY DEF ReadAsNamed, Got, Known
<1>8. IndexIsStable
  BY DEF IndexIsStable, NotWalking
<1>9. WalkIsWhole
  BY DEF WalkIsWhole, NotWalking
<1> QED BY <1>1, <1>2, <1>3, <1>4, <1>5, <1>6, <1>7, <1>8, <1>9 DEF ScanInv

LEMMA ScanNextInv ==
  ASSUME ScanInv, [ScanNext]_scanVars
  PROVE  ScanInv'
<1>1. ASSUME NEW i \in Targets, TargetStep(i) PROVE ScanInv'
  BY <1>1, ScanTargetStep
<1>2. CASE WalkStep
  BY <1>2, ScanCollectStep, ScanAssembleStep, ScanBeginStep, ScanWalkOnStep,
     ScanFetchedStep, ScanGivesUpStep, ScanBeginClimbStep, ScanClimbStep DEF WalkStep
<1>3. ASSUME NEW o \in Objects, Recreate(o) PROVE ScanInv'
  BY <1>3, ScanRecreateStep
<1>4. CASE UNCHANGED scanVars
  <2>1. LineIsQueued' /\ ScanPermitsAreKept' /\ SleepersMayTryAgain' /\ FailuresAreReported'
    BY <1>4
    DEF scanVars, ScanInv, LineIsQueued, ScanPermitsAreKept, WithPermit,
        SleepersMayTryAgain, FailuresAreReported, Missing, Answered
  <2>2. ScanTypes' /\ CollectedInOrder' /\ ReadAsNamed' /\ WalkIsWhole'
    BY <1>4
    DEF scanVars, ScanInv, ScanTypes, CollectedInOrder, ReadAsNamed, OwnedAsNamed,
        WalkIsWhole, Followed, Known
  <2>3. IndexIsStable'
    BY <1>4, ResultsTell DEF scanVars, ScanInv, IndexIsStable, Known
  <2> QED BY <2>1, <2>2, <2>3 DEF ScanInv
<1> QED BY <1>1, <1>2, <1>3, <1>4 DEF ScanNext

\* Permits that are kept are never more than there were.
LEMMA ScanTypesFollow ==
  ASSUME ScanInv
  PROVE  ScanTypeOK
<1>1. free \in Nat /\ Cardinality(WithPermit) \in Nat
  BY WithPermitIsFinite DEF ScanInv, ScanTypes
<1>2. ScanPermits \in Nat /\ free <= ScanPermits
  BY <1>1, ScanAssumption DEF ScanInv, ScanPermitsAreKept
<1>3. walk.pc \in {"off", "ready", "walking", "fetching", "climbing", "over"}
  BY DEF ScanInv, ScanTypes, Walks
<1> QED BY <1>1, <1>2, <1>3 DEF ScanInv, ScanTypes, ScanTypeOK, Places

LEMMA StabilityFollows ==
  ASSUME ScanInv
  PROVE  AliasesAreStable
BY DEF ScanInv, IndexIsStable, AliasesAreStable, StableType

LEMMA NothingIsMissed ==
  ASSUME ScanInv
  PROVE  NothingMissingSilently
BY DEF ScanInv, FailuresAreReported, NothingMissingSilently, Missing

\* Where a walk that is over has been, it has followed every owner.
LEMMA NoGapIsLeft ==
  ASSUME ScanInv
  PROVE  WalkLeavesNoGap
<1> SUFFICES ASSUME walk.pc = "over", ~walk.warned, NEW u \in walk.visited
             PROVE  /\ u \in Known
                    /\ index[u].owner = NoOwner
                         \/ \E v \in walk.visited : v.name = index[u].owner.name
  BY Zenon DEF WalkLeavesNoGap
<1>1. u \in Known /\ u \in Uids /\ OwnedAsNamed(u, index[u].owner)
  BY DEF ScanInv, ScanTypes, WalkIsWhole, ReadAsNamed
<1>2. OwnerOf[u.name] = NoOwner \/ \E v \in walk.visited : v.name = OwnerOf[u.name]
  BY DEF ScanInv, WalkIsWhole, Followed
<1> QED BY <1>1, <1>2, OwnerByName
-----------------------------------------------------------------------------
(***************************************************************************)
(* The audit                                                               *)
(***************************************************************************)

\* What the audit reads.
Lives  == 1..LastLife
Ids    == [res : Resources, uid : Lives]
Refs   == [owner : Ids, controller : BOOLEAN]
Things == [id : Ids, refs : SUBSET Refs]
Incarnations == [uid : Lives, there : BOOLEAN, refs : SUBSET Refs]

AuditTypes ==
  /\ plan \in Plans
  /\ live \in [Resources -> Incarnations]
  /\ begun \in [Resources -> Incarnations]
  /\ todo \subseteq Resources \union ToSet(Kinds)
  /\ probed \in [Resources -> [is : {"none", "404", "gone", "failed", "present"},
                               uid : 0..LastLife]]
  /\ listed \in [ToSet(Kinds) -> [is : {"none", "ok", "failed"}, items : SUBSET Things]]
  /\ attempts \in 0..MaxAttempts
  /\ stage \in {"idle", "reading", "settled", "unsettled", "unavailable"}
  /\ stage = "idle" => attempts < MaxAttempts

\* An object does not come back as the incarnation it was.
Since ==
  \A r \in Resources :
    /\ begun[r].uid <= live[r].uid
    /\ begun[r].uid = live[r].uid /\ live[r].there => begun[r].there

\* What was read is true of some moment since the observation began, and of an
\* object that was there all the time it is true still.
Probes ==
  \A r \in Resources :
    /\ probed[r].is = "present" => WasThere(Id(r, probed[r].uid))
    /\ probed[r].is \in {"404", "gone"} => ~Stayed(r)

\* What was listed, too, and nothing was passed over.
Listings ==
  \A k \in ToSet(Kinds) :
    /\ \A e \in listed[k].items :
         /\ KindOf[e.id.res] = k /\ WasThere(e.id)
         /\ e.id.uid = live[e.id.res].uid => e.refs = live[e.id.res].refs
    /\ \A e, f \in listed[k].items : e.id.res = f.id.res => e = f
    /\ listed[k].is # "ok" => listed[k].items = {}
    /\ listed[k].is = "ok" =>
         \A r \in Resources : KindOf[r] = k /\ Stayed(r) => Served(r) \in listed[k].items

Sighted == Probes /\ Listings

\* While it reads: what is not read yet is still to be read, and no kind is
\* listed before all that is to be had one by one.
Owed ==
  stage = "reading" =>
    /\ \A r \in Resources : Planned(r) \/ RelatedOnly(r) =>
         r \in todo \/ probed[r].is \in {"gone", "failed", "present"}
    /\ \A k \in ToSet(Kinds) : Exists(k) =>
         k \in todo \/ listed[k].is # "none" \/ (k = "Root" /\ Pruned)
    /\ \A k \in ToSet(Kinds) : Exists(k) /\ k \notin todo => todo \intersect Resources = {}

\* What it reported names what it has seen.
Told == ReportedIds \subseteq Ids /\ AuditTellsWhatIsThere

AuditInv == AuditTypes /\ Since /\ Sighted /\ Owed /\ Told
-----------------------------------------------------------------------------
LEMMA KindsAre ==
  /\ ToSet(Kinds) = Workloads \union Related \union {"Pod", "ReplicaSet"}
  /\ DOMAIN Kinds = 1..8
<1>1. DOMAIN Kinds = 1..8
  BY DEF Kinds
<1> QED BY <1>1 DEF ToSet, Kinds, Workloads, Related

LEMMA PlaceIsThere ==
  ASSUME NEW s, NEW x \in ToSet(s)
  PROVE  Place(x, s) \in DOMAIN s
<1>1. \E i \in DOMAIN s : s[i] = x
  BY DEF ToSet
<1> QED BY <1>1 DEF Place

LEMMA ListsComeLast ==
  ASSUME AuditTypes, NEW k \in ToSet(Kinds), AtRead(k)
  PROVE  todo \intersect Resources = {}
<1> SUFFICES ASSUME NEW r \in todo \intersect Resources PROVE FALSE
  OBVIOUS
<1> DEFINE n == Len(PlanSeq)
<1>1. n \in Nat /\ DOMAIN PlanSeq = 1..n /\ r \in ToSet(PlanSeq) /\ r \notin ToSet(Kinds)
  BY AuditAssumption
<1>2. Place(r, PlanSeq) \in 1..n
  BY <1>1, PlaceIsThere, Zenon
<1>3. Place(k, Kinds) \in 1..8
  BY PlaceIsThere, KindsAre
<1>4. Rank(k) = 2 * n + Place(k, Kinds)
  BY DEF Rank
<1>5. Rank(r) = (IF Planned(r) THEN 0 ELSE n) + Place(r, PlanSeq)
  BY <1>1 DEF Rank
<1>6. Rank(k) <= Rank(r)
  BY DEF AtRead
<1> HIDE DEF n
<1> QED BY <1>1, <1>2, <1>3, <1>4, <1>5, <1>6
-----------------------------------------------------------------------------
\* What the cluster does to an object: its uid grows, and as the incarnation it
\* was it does not come back.
Grows ==
  \A r \in Resources :
    /\ live[r].uid <= live'[r].uid
    /\ live'[r].uid = live[r].uid =>
         live'[r].refs = live[r].refs /\ (live'[r].there => live[r].there)

LEMMA LivesAreNumbers == \A n \in Lives : n \in Nat /\ n > 0
BY AuditAssumption DEF Lives

LEMMA VanishGrows ==
  ASSUME AuditTypes, NEW r \in Resources, Vanish(r)
  PROVE  live' \in [Resources -> Incarnations] /\ Grows
<1>1. live[r] \in Incarnations
  BY DEF AuditTypes
<1>2. live' = [live EXCEPT ![r] = [live[r] EXCEPT !.there = FALSE]]
  BY DEF Vanish
<1> DEFINE v == [live[r] EXCEPT !.there = FALSE]
<1>3. v \in Incarnations /\ v.uid = live[r].uid /\ v.refs = live[r].refs /\ v.there = FALSE
  BY <1>1 DEF Incarnations
<1> HIDE DEF v
<1>4. \A x \in Resources : live'[x] = IF x = r THEN v ELSE live[x]
  BY <1>2 DEF AuditTypes, v
<1>5. live' \in [Resources -> Incarnations]
  BY <1>2, <1>3 DEF AuditTypes, v
<1>6. \A x \in Resources : live[x].uid \in Lives
  BY DEF AuditTypes, Incarnations
<1>7. \A x \in Resources : live[x].uid <= live[x].uid
  BY <1>6, LivesAreNumbers
<1> QED BY <1>3, <1>4, <1>5, <1>7 DEF Grows

LEMMA RemakeGrows ==
  ASSUME AuditTypes, NEW r \in Resources, Remake(r)
  PROVE  live' \in [Resources -> Incarnations] /\ Grows
<1> DEFINE refs == {[owner |-> Id(ref.owner, live[ref.owner].uid),
                     controller |-> ref.controller] : ref \in RefsOf[r]}
           v == [uid |-> live[r].uid + 1, there |-> TRUE, refs |-> refs]
<1>1. \A x \in Resources : live[x] \in Incarnations /\ live[x].uid \in Lives
  BY DEF AuditTypes, Incarnations
<1>2. refs \in SUBSET Refs
  <2> SUFFICES ASSUME NEW ref \in RefsOf[r]
               PROVE  [owner |-> Id(ref.owner, live[ref.owner].uid),
                       controller |-> ref.controller] \in Refs
    OBVIOUS
  <2>1. ref.owner \in Resources /\ ref.controller \in BOOLEAN
    BY AuditAssumption
  <2> QED BY <1>1, <2>1 DEF Refs, Ids, Id
<1>3. live[r].uid + 1 \in Lives
  BY <1>1, AuditAssumption DEF Remake, Lives
<1>4. live' = [live EXCEPT ![r] = v]
  BY DEF Remake
<1>5. v \in Incarnations /\ v.uid = live[r].uid + 1
  BY <1>2, <1>3 DEF Incarnations
<1> HIDE DEF v, refs
<1>6. \A x \in Resources : live'[x] = IF x = r THEN v ELSE live[x]
  BY <1>4 DEF AuditTypes
<1>7. live' \in [Resources -> Incarnations]
  BY <1>4, <1>5 DEF AuditTypes
<1>8. \A x \in Resources : live[x].uid \in Nat
  BY <1>1, LivesAreNumbers
<1> QED BY <1>5, <1>6, <1>7, <1>8 DEF Grows

LEMMA TimeGoesOn ==
  ASSUME AuditTypes, Since, live' \in [Resources -> Incarnations], Grows, UNCHANGED begun
  PROVE  /\ \A id \in [res : Resources, uid : 0..LastLife] : WasThere(id) => WasThere(id)'
         /\ \A r \in Resources : Stayed(r)' => Stayed(r) /\ Served(r)' = Served(r)
         /\ Since'
<1>1. \A r \in Resources :
        live[r].uid \in Nat /\ live'[r].uid \in Nat /\ begun[r].uid \in Nat
  BY LivesAreNumbers DEF AuditTypes, Incarnations
<1>2. ASSUME NEW id \in [res : Resources, uid : 0..LastLife], WasThere(id)
      PROVE  WasThere(id)'
  <2>1. id.res \in Resources /\ id.uid \in Nat
    BY AuditAssumption
  <2>2. live[id.res].uid <= live'[id.res].uid
    BY <2>1 DEF Grows
  <2>3. id.uid <= live[id.res].uid
    BY <1>2 DEF WasThere
  <2>4. id.uid <= live'[id.res].uid
    BY <1>1, <2>1, <2>2, <2>3
  <2> QED BY <1>2, <2>4 DEF WasThere
<1>3. ASSUME NEW r \in Resources
      PROVE  /\ begun[r].uid <= live'[r].uid
             /\ begun[r].uid = live'[r].uid /\ live'[r].there => begun[r].there
  BY <1>1 DEF Since, Grows
<1>4. ASSUME NEW r \in Resources, Stayed(r)'
      PROVE  Stayed(r) /\ Served(r)' = Served(r)
  BY <1>1, <1>4 DEF Stayed, IsThere, Id, Since, Grows, Served
<1>5. Since'
  BY <1>3 DEF Since
<1> QED BY <1>2, <1>4, <1>5

LEMMA SightsStay ==
  ASSUME AuditTypes, Since, Sighted, live' \in [Resources -> Incarnations], Grows,
         UNCHANGED <<begun, probed, listed>>
  PROVE  Sighted'
<1>1. ASSUME NEW r \in Resources
      PROVE  /\ probed[r].is = "present" => WasThere(Id(r, probed[r].uid))'
             /\ probed[r].is \in {"404", "gone"} => ~Stayed(r)'
  <2>1. Id(r, probed[r].uid) \in [res : Resources, uid : 0..LastLife]
    BY DEF AuditTypes, Id
  <2>2. probed[r].is = "present" => WasThere(Id(r, probed[r].uid))
    BY DEF Sighted, Probes, Listings
  <2>3. WasThere(Id(r, probed[r].uid)) => WasThere(Id(r, probed[r].uid))'
    <3> DEFINE id == Id(r, probed[r].uid)
    <3>1. WasThere(id) => live[id.res].uid <= live'[id.res].uid
      BY <2>1 DEF Grows
    <3>2. id' = id
      OBVIOUS
    <3>3. id.uid \in Nat /\ live[id.res].uid \in Nat /\ live'[id.res].uid \in Nat
      BY <2>1, AuditAssumption, LivesAreNumbers DEF AuditTypes, Incarnations
    <3> HIDE DEF id
    <3>4. WasThere(id) => WasThere(id)'
      BY <3>1, <3>2, <3>3 DEF WasThere
    <3> QED BY <3>4 DEF id
  <2>4. Stayed(r)' => Stayed(r)
    BY TimeGoesOn
  <2>5. probed[r].is \in {"404", "gone"} => ~Stayed(r)
    BY DEF Sighted, Probes, Listings
  <2> QED BY <2>2, <2>3, <2>4, <2>5
<1>2. ASSUME NEW k \in ToSet(Kinds), NEW e \in listed[k].items
      PROVE  /\ KindOf[e.id.res] = k /\ WasThere(e.id)'
             /\ e.id.uid = live'[e.id.res].uid => e.refs = live'[e.id.res].refs
  <2>1. e \in Things /\ e.id \in Ids
    BY DEF AuditTypes, Things
  <2>2. e.id \in [res : Resources, uid : 0..LastLife] /\ e.id.res \in Resources
    BY <2>1 DEF Ids, Lives
  <2>3. /\ KindOf[e.id.res] = k /\ WasThere(e.id)
        /\ e.id.uid = live[e.id.res].uid => e.refs = live[e.id.res].refs
    BY DEF Sighted, Probes, Listings
  <2>4. WasThere(e.id)'
    BY <2>2, <2>3, TimeGoesOn
  <2>5. e.id.uid <= live[e.id.res].uid /\ live[e.id.res].uid <= live'[e.id.res].uid
    BY <2>2, <2>3 DEF WasThere, Grows
  <2>6. /\ e.id.uid \in Nat /\ live[e.id.res].uid \in Nat /\ live'[e.id.res].uid \in Nat
    BY <2>2, LivesAreNumbers, AuditAssumption DEF AuditTypes, Incarnations
  <2>7. ASSUME e.id.uid = live'[e.id.res].uid PROVE e.refs = live'[e.id.res].refs
    <3>1. live'[e.id.res].uid = live[e.id.res].uid
      BY <2>5, <2>6, <2>7
    <3> QED BY <2>2, <2>3, <2>7, <3>1 DEF Grows
  <2> QED BY <2>3, <2>4, <2>7
<1>3. ASSUME NEW k \in ToSet(Kinds), listed[k].is = "ok", NEW r \in Resources,
             KindOf[r] = k, Stayed(r)'
      PROVE  Served(r)' \in listed[k].items
  <2>1. Stayed(r) /\ Served(r)' = Served(r)
    BY <1>3, TimeGoesOn
  <2> QED BY <1>3, <2>1 DEF Sighted, Probes, Listings
<1>4. ASSUME NEW k \in ToSet(Kinds)
      PROVE  /\ \A e, f \in listed[k].items : e.id.res = f.id.res => e = f
             /\ listed[k].is # "ok" => listed[k].items = {}
  BY DEF Sighted, Probes, Listings
<1> QED BY <1>1, <1>2, <1>3, <1>4 DEF Sighted, Probes, Listings

LEMMA AccountStands ==
  ASSUME AuditTypes, Since, Told, live' \in [Resources -> Incarnations], Grows,
         UNCHANGED <<plan, begun, attempts, report, stage>>
  PROVE  Told'
<1>1. ReportedIds' = ReportedIds /\ ReportedIds \subseteq Ids
  BY DEF Told, ReportedIds
<1>2. Ids \subseteq [res : Resources, uid : 0..LastLife]
  BY DEF Ids, Lives
<1>3. ASSUME NEW id \in Ids, WasThere(id) PROVE WasThere(id)'
  BY <1>2, <1>3, TimeGoesOn
<1>4. ASSUME NEW r \in Resources, Stayed(r)', Accounted(r)
      PROVE  Accounted(r)'
  <2>1. Stayed(r) /\ Served(r)' = Served(r) /\ live'[r].refs = live[r].refs
    BY <1>4, TimeGoesOn DEF Served
  <2>2. /\ Positive(Served(r))' <=> Positive(Served(r))
        /\ Reported(r)' <=> Reported(r)
        /\ OwnersOf(r)' = OwnersOf(r)
        /\ Planned(r)' <=> Planned(r)
        /\ RelatedOnly(r)' <=> RelatedOnly(r)
    BY <1>1, <2>1
       DEF Positive, Evidence, TargetIds, Planned, RelatedOnly, Reported, OwnersOf, SoleOwner
  <2>3. OwnersOf(r) \subseteq Ids
    <3>1. live[r].refs \subseteq Refs
      BY DEF AuditTypes, Incarnations
    <3> QED BY <3>1 DEF OwnersOf, SoleOwner, Refs
  <2>4. ASSUME NEW id \in OwnersOf(r), Stayed(id.res)'
        PROVE  /\ Stayed(id.res) /\ live'[id.res].refs = live[id.res].refs
               /\ live'[id.res].uid = live[id.res].uid
               /\ IsThere(id)' => IsThere(id)
               /\ Positive(Served(id.res))' <=> Positive(Served(id.res))
    <3>1. id.res \in Resources
      BY <2>3 DEF Ids
    <3>2. Stayed(id.res) /\ Served(id.res)' = Served(id.res)
      BY <2>4, <3>1, TimeGoesOn
    <3>3. live'[id.res].refs = live[id.res].refs /\ live'[id.res].uid = live[id.res].uid
      BY <3>2 DEF Served, Id
    <3>4. IsThere(id)' => IsThere(id)
      BY <3>1, <3>3 DEF IsThere, Grows
    <3> QED
      BY <3>2, <3>3, <3>4 DEF Positive, Evidence, TargetIds, Planned
  <2> QED BY <1>1, <1>3, <1>4, <2>1, <2>2, <2>3, <2>4 DEF Accounted
<1>5. /\ report.errors = {} /\ attempts > 0 /\ stage \in {"idle", "settled", "unsettled"}
        => \A r \in Resources : Stayed(r)' => Accounted(r)'
  BY <1>4, TimeGoesOn DEF Told, AuditTellsWhatIsThere
<1>6. attempts > 0 /\ stage \in {"idle", "settled", "unsettled"}
        => \A id \in ReportedIds : WasThere(id)'
  BY <1>1, <1>3 DEF Told, AuditTellsWhatIsThere
<1> QED BY <1>1, <1>5, <1>6 DEF Told, AuditTellsWhatIsThere

LEMMA ClusterMovesKeeps ==
  ASSUME AuditInv, ClusterMoves
  PROVE  AuditInv'
<1>1. live' \in [Resources -> Incarnations] /\ Grows
  BY VanishGrows, RemakeGrows DEF AuditInv, ClusterMoves
<1>2. UNCHANGED <<plan, begun, todo, probed, listed, attempts, report, stage>>
  BY DEF ClusterMoves
<1>3. AuditTypes'
  BY <1>1, <1>2 DEF AuditInv, AuditTypes
<1>4. Since'
  BY <1>1, <1>2, TimeGoesOn DEF AuditInv
<1>5. Sighted'
  BY <1>1, <1>2, SightsStay DEF AuditInv
<1>6. Owed'
  BY <1>2 DEF AuditInv, Owed, Planned, RelatedOnly, Exists, Pruned
<1>7. Told'
  BY <1>1, <1>2, AccountStands DEF AuditInv
<1> QED BY <1>3, <1>4, <1>5, <1>6, <1>7 DEF AuditInv
-----------------------------------------------------------------------------
\* What a GET may come to.
ProbeAnswers == {"none", "404", "gone", "failed", "present"}

LEMMA ProbeStep ==
  ASSUME AuditTypes, Probes, NEW r \in Resources, NEW a \in ProbeAnswers, NEW u \in 0..LastLife,
         Learn(r, a, u), UNCHANGED <<live, begun>>,
         a = "present" => WasThere(Id(r, u)),
         a \in {"404", "gone"} => ~Stayed(r)
  PROVE  /\ probed' \in [Resources -> [is : ProbeAnswers, uid : 0..LastLife]]
         /\ \A x \in Resources : probed'[x] = IF x = r THEN [is |-> a, uid |-> u] ELSE probed[x]
         /\ Probes'
<1>1. probed \in [Resources -> [is : ProbeAnswers, uid : 0..LastLife]]
  BY DEF AuditTypes, ProbeAnswers
<1>2. probed' \in [Resources -> [is : ProbeAnswers, uid : 0..LastLife]]
  BY <1>1 DEF Learn
<1>3. \A x \in Resources : probed'[x] = IF x = r THEN [is |-> a, uid |-> u] ELSE probed[x]
  BY <1>1 DEF Learn
<1>4. ASSUME NEW x \in Resources
      PROVE  /\ probed'[x].is = "present" => WasThere(Id(x, probed[x].uid))'
             /\ probed'[x].is \in {"404", "gone"} => ~Stayed(x)'
  <2>1. CASE x = r
    BY <1>3, <2>1 DEF WasThere, Stayed, IsThere, Id
  <2>2. CASE x # r
    BY <1>3, <2>2 DEF Probes, WasThere, Stayed, IsThere, Id
  <2> QED BY <2>1, <2>2
<1> QED BY <1>2, <1>3, <1>4 DEF Probes

LEMMA SeenNow ==
  ASSUME AuditTypes, Since, NEW r \in Resources, live[r].there
  PROVE  WasThere(Id(r, live[r].uid))
<1>1. live[r].uid \in Nat /\ begun[r].uid \in Nat
  BY LivesAreNumbers DEF AuditTypes, Incarnations
<1> QED BY <1>1 DEF Since, WasThere, Id

LEMMA ListStep ==
  ASSUME AuditTypes, Since, Listings, NEW k \in ToSet(Kinds), NEW a \in Answers(k),
         listed' = [listed EXCEPT ![k] = a], UNCHANGED <<live, begun>>
  PROVE  /\ listed' \in [ToSet(Kinds) -> [is : {"none", "ok", "failed"}, items : SUBSET Things]]
         /\ listed'[k].is # "none"
         /\ \A x \in ToSet(Kinds) : x # k => listed'[x] = listed[x]
         /\ Listings'
<1> DEFINE Sets == [is : {"none", "ok", "failed"}, items : SUBSET Things]
<1>1. listed \in [ToSet(Kinds) -> Sets] /\ listed[k] \in Sets
  BY DEF AuditTypes
<1>2. listed[k].is = "none" => listed[k] = Unlisted
  BY <1>1 DEF Listings, Unlisted
<1>3. CASE listed[k] # Unlisted
  <2>1. a = listed[k] /\ listed' = listed
    BY <1>1, <1>3 DEF Answers
  <2>2. Listings'
    BY <2>1 DEF Listings, WasThere, Stayed, IsThere, Id, Served
  <2> QED BY <1>1, <1>2, <1>3, <2>1, <2>2
<1>4. CASE a = FailedList
  <2>1. a.is = "failed" /\ a.items = {} /\ a \in Sets
    BY <1>4 DEF FailedList
  <2>2. \A x \in ToSet(Kinds) : listed'[x] = IF x = k THEN a ELSE listed[x]
    BY <1>1
  <2>3. listed' \in [ToSet(Kinds) -> Sets]
    BY <1>1, <2>1
  <2>4. Listings'
    BY <2>1, <2>2 DEF Listings, WasThere, Stayed, IsThere, Id, Served
  <2> QED BY <2>1, <2>2, <2>3, <2>4
<1>5. CASE a = OkList(Serving(k))
  <2>1. a.is = "ok" /\ a.items = Serving(k)
    BY <1>5 DEF OkList
  <2>2. \A r \in Resources : /\ live[r].uid \in Lives /\ live[r].refs \in SUBSET Refs
                             /\ live[r].there \in BOOLEAN
    BY DEF AuditTypes, Incarnations
  <2>3. \A r \in Resources : Served(r) \in Things /\ Served(r).id = Id(r, live[r].uid)
                             /\ Served(r).id.res = r /\ Served(r).id.uid = live[r].uid
                             /\ Served(r).refs = live[r].refs
    BY <2>2 DEF Served, Things, Id, Ids
  <2>4. Serving(k) \subseteq Things
    BY <2>3 DEF Serving
  <2>5. a \in Sets
    BY <1>5, <2>4 DEF OkList
  <2>6. \A x \in ToSet(Kinds) : listed'[x] = IF x = k THEN a ELSE listed[x]
    BY <1>1
  <2>7. listed' \in [ToSet(Kinds) -> Sets]
    BY <1>1, <2>5
  <2>8. ASSUME NEW e \in Serving(k)
        PROVE  /\ KindOf[e.id.res] = k /\ WasThere(e.id)
               /\ e.refs = live[e.id.res].refs
               /\ \A f \in Serving(k) : e.id.res = f.id.res => e = f
    BY <2>3, SeenNow DEF Serving
  <2>9. ASSUME NEW r \in Resources, KindOf[r] = k, Stayed(r)
        PROVE  Served(r) \in Serving(k)
    BY <2>9 DEF Stayed, IsThere, Id, Serving
  <2>10. ASSUME NEW x \in ToSet(Kinds)
         PROVE  /\ \A e \in listed'[x].items :
                     /\ KindOf[e.id.res] = x /\ WasThere(e.id)
                     /\ e.id.uid = live[e.id.res].uid => e.refs = live[e.id.res].refs
                /\ \A e, f \in listed'[x].items : e.id.res = f.id.res => e = f
                /\ listed'[x].is # "ok" => listed'[x].items = {}
                /\ listed'[x].is = "ok" =>
                     \A r \in Resources :
                       KindOf[r] = x /\ Stayed(r) => Served(r) \in listed'[x].items
    <3>1. CASE x = k
      BY <2>1, <2>6, <2>8, <2>9, <3>1
    <3>2. CASE x # k
      BY <2>6, <3>2 DEF Listings
    <3> QED BY <3>1, <3>2
  <2>11. Listings'
    BY <2>10 DEF Listings, WasThere, Stayed, IsThere, Id, Served
  <2> QED BY <2>1, <2>6, <2>7, <2>11
<1> QED BY <1>3, <1>4, <1>5 DEF Answers

LEMMA GetOwed ==
  ASSUME AuditTypes, Owed, NEW r \in Resources, AtRead(r),
         \A x \in Resources : x # r => probed'[x] = probed[x],
         todo' = todo \/ (todo' = todo \ {r} /\ probed'[r].is \in {"gone", "failed", "present"}),
         UNCHANGED <<plan, stage>>
  PROVE  Owed'
<1>1. r \in todo /\ stage = "reading"
  BY DEF AtRead
<1>2. r \notin ToSet(Kinds)
  BY AuditAssumption
<1>3. \A k \in ToSet(Kinds) : Exists(k) => k \in todo'
  BY <1>1, <1>2 DEF Owed
<1>4. \A x \in Resources : Planned(x) \/ RelatedOnly(x) =>
        x \in todo' \/ probed'[x].is \in {"gone", "failed", "present"}
  BY <1>1 DEF Owed
<1> QED BY <1>3, <1>4 DEF Owed, Planned, RelatedOnly, Exists

\* A read leaves the cluster, the plan and the report alone.
LEMMA ReadKeeps ==
  ASSUME AuditInv, Reads, stage = "reading",
         todo' \subseteq todo,
         probed' \in [Resources -> [is : ProbeAnswers, uid : 0..LastLife]],
         listed' \in [ToSet(Kinds) -> [is : {"none", "ok", "failed"}, items : SUBSET Things]],
         Probes', Listings', Owed'
  PROVE  AuditInv'
<1>1. AuditTypes'
  BY DEF AuditInv, AuditTypes, Reads, ProbeAnswers
<1>2. Since'
  BY DEF AuditInv, Since, Reads
<1>3. Told'
  BY DEF AuditInv, Told, AuditTellsWhatIsThere, Reads, ReportedIds
<1> QED BY <1>1, <1>2, <1>3 DEF AuditInv, Sighted

LEMMA ListsStand ==
  ASSUME AuditInv, UNCHANGED <<live, begun, listed>>
  PROVE  /\ listed' \in [ToSet(Kinds) -> [is : {"none", "ok", "failed"}, items : SUBSET Things]]
         /\ Listings'
<1>1. Listings'
  BY DEF AuditInv, Sighted, Listings, WasThere, Stayed, IsThere, Id, Served
<1> QED BY <1>1 DEF AuditInv, AuditTypes

LEMMA GetKeeps ==
  ASSUME AuditInv, NEW r \in Resources, GetFinds(r) \/ GetFails(r) \/ GetFindsNothing(r)
  PROVE  AuditInv'
<1>1. AtRead(r) /\ stage = "reading" /\ Reads /\ UNCHANGED listed
  BY DEF GetFinds, GetFails, GetFindsNothing, AtRead
<1>2. UNCHANGED <<plan, stage, live, begun, listed>>
  BY <1>1 DEF Reads
<1>3. AuditTypes /\ Since /\ Probes /\ Owed
  BY DEF AuditInv, Sighted
<1>4. live[r].uid \in Lives
  BY <1>3 DEF AuditTypes, Incarnations
<1>5. live[r].uid \in 0..LastLife /\ 0 \in 0..LastLife
  BY <1>4, AuditAssumption DEF Lives
<1>6. Listings' /\ listed' \in [ToSet(Kinds) ->
                   [is : {"none", "ok", "failed"}, items : SUBSET Things]]
  BY <1>2, ListsStand
<1>7. CASE GetFinds(r)
  <2>1. Learn(r, "present", live[r].uid) /\ todo' = todo \ {r}
    BY <1>7 DEF GetFinds
  <2>2. WasThere(Id(r, live[r].uid))
    BY <1>3, <1>7, SeenNow DEF GetFinds
  <2>3. /\ probed' \in [Resources -> [is : ProbeAnswers, uid : 0..LastLife]]
        /\ \A x \in Resources :
             probed'[x] = IF x = r THEN [is |-> "present", uid |-> live[r].uid] ELSE probed[x]
        /\ Probes'
    BY <1>2, <1>3, <1>5, <2>1, <2>2, ProbeStep DEF ProbeAnswers
  <2>4. Owed'
    BY <1>1, <1>2, <1>3, <2>1, <2>3, GetOwed
  <2> QED BY <1>1, <1>6, <2>1, <2>3, <2>4, ReadKeeps
<1>8. CASE GetFails(r)
  <2>1. Learn(r, "failed", 0) /\ todo' = todo \ {r}
    BY <1>8 DEF GetFails
  <2>2. /\ probed' \in [Resources -> [is : ProbeAnswers, uid : 0..LastLife]]
        /\ \A x \in Resources :
             probed'[x] = IF x = r THEN [is |-> "failed", uid |-> 0] ELSE probed[x]
        /\ Probes'
    BY <1>2, <1>3, <1>5, <2>1, ProbeStep DEF ProbeAnswers
  <2>3. Owed'
    BY <1>1, <1>2, <1>3, <2>1, <2>2, GetOwed
  <2> QED BY <1>1, <1>6, <2>1, <2>2, <2>3, ReadKeeps
<1>9. CASE GetFindsNothing(r)
  <2>1. Learn(r, "404", 0) /\ todo' = todo /\ ~Stayed(r)
    BY <1>9 DEF GetFindsNothing, Stayed, IsThere, Id
  <2>2. /\ probed' \in [Resources -> [is : ProbeAnswers, uid : 0..LastLife]]
        /\ \A x \in Resources :
             probed'[x] = IF x = r THEN [is |-> "404", uid |-> 0] ELSE probed[x]
        /\ Probes'
    BY <1>2, <1>3, <1>5, <2>1, ProbeStep DEF ProbeAnswers
  <2>3. Owed'
    BY <1>1, <1>2, <1>3, <2>1, <2>2, GetOwed
  <2> QED BY <1>1, <1>6, <2>1, <2>2, <2>3, ReadKeeps
<1> QED BY <1>7, <1>8, <1>9

LEMMA VerifyKeeps ==
  ASSUME AuditInv, NEW r \in Resources, Verify(r)
  PROVE  AuditInv'
<1> DEFINE k == KindOf[r]
           a == IF k \in ToSet(Kinds) /\ listed'[k].is = "failed" THEN "failed" ELSE "gone"
<1>1. AtRead(r) /\ stage = "reading" /\ Reads /\ Learn(r, a, 0) /\ todo' = todo \ {r}
  BY DEF Verify, AtRead
<1>2. UNCHANGED <<plan, stage, live, begun>>
  BY <1>1 DEF Reads
<1>3. AuditTypes /\ Since /\ Probes /\ Listings /\ Owed
  BY DEF AuditInv, Sighted
<1>4. Listings' /\ listed' \in [ToSet(Kinds) ->
                   [is : {"none", "ok", "failed"}, items : SUBSET Things]]
  <2>1. CASE k \in ToSet(Kinds)
    <3>1. PICK b \in Answers(k) : listed' = [listed EXCEPT ![k] = b]
      BY <2>1 DEF Verify
    <3> QED BY <1>2, <1>3, <2>1, <3>1, ListStep
  <2>2. CASE k \notin ToSet(Kinds)
    <3>1. UNCHANGED listed
      BY <2>2 DEF Verify
    <3> QED BY <1>2, <3>1, ListsStand
  <2> QED BY <2>1, <2>2
<1>5. a \in {"failed", "gone"} /\ 0 \in 0..LastLife
  BY AuditAssumption
<1>6. ~Stayed(r)
  BY <1>3 DEF Verify, Probes
<1> HIDE DEF a
<1>7. /\ probed' \in [Resources -> [is : ProbeAnswers, uid : 0..LastLife]]
      /\ \A x \in Resources :
           probed'[x] = IF x = r THEN [is |-> a, uid |-> 0] ELSE probed[x]
      /\ Probes'
  BY <1>1, <1>2, <1>3, <1>5, <1>6, ProbeStep DEF ProbeAnswers
<1>8. Owed'
  BY <1>1, <1>2, <1>3, <1>5, <1>7, GetOwed
<1> QED BY <1>1, <1>4, <1>7, <1>8, ReadKeeps

LEMMA ListKeeps ==
  ASSUME AuditInv, NEW k \in ToSet(Kinds), List(k)
  PROVE  AuditInv'
<1>1. AtRead(k) /\ stage = "reading" /\ Reads /\ todo' = todo \ {k} /\ UNCHANGED probed
  BY DEF List, AtRead
<1>2. UNCHANGED <<plan, stage, live, begun>>
  BY <1>1 DEF Reads
<1>3. AuditTypes /\ Since /\ Probes /\ Listings /\ Owed
  BY DEF AuditInv, Sighted
<1>4. Probes' /\ probed' \in [Resources -> [is : ProbeAnswers, uid : 0..LastLife]]
  BY <1>1, <1>2, <1>3 DEF AuditTypes, ProbeAnswers, Probes, WasThere, Stayed, IsThere, Id
<1>5. /\ Listings'
      /\ listed' \in [ToSet(Kinds) -> [is : {"none", "ok", "failed"}, items : SUBSET Things]]
      /\ \A x \in ToSet(Kinds) : x # k => listed'[x] = listed[x]
      /\ listed'[k].is # "none" \/ (k = "Root" /\ Pruned)
  <2>1. CASE k = "Root" /\ Pruned
    <3>1. UNCHANGED listed
      BY <2>1 DEF List
    <3> QED BY <1>2, <2>1, <3>1, ListsStand
  <2>2. CASE ~(k = "Root" /\ Pruned)
    <3>1. PICK b \in Answers(k) : listed' = [listed EXCEPT ![k] = b]
      BY <2>2 DEF List
    <3> QED BY <1>2, <1>3, <3>1, ListStep
  <2> QED BY <2>1, <2>2
<1>6. todo \intersect Resources = {}
  BY <1>1, <1>3, ListsComeLast
<1>7. \A r \in Resources : Planned(r) \/ RelatedOnly(r) =>
        probed[r].is \in {"gone", "failed", "present"}
  BY <1>1, <1>3, <1>6 DEF Owed
<1>8. \A x \in ToSet(Kinds) : Exists(x) =>
        x \in todo' \/ listed'[x].is # "none" \/ (x = "Root" /\ Pruned)
  BY <1>1, <1>3, <1>5 DEF Owed
<1>9. Owed'
  BY <1>1, <1>2, <1>6, <1>7, <1>8 DEF Owed, Planned, RelatedOnly, Exists, Pruned
<1> QED BY <1>1, <1>4, <1>5, <1>9, ReadKeeps

LEMMA ObserveKeeps ==
  ASSUME AuditInv, Observe
  PROVE  AuditInv'
<1>1. AuditTypes
  BY DEF AuditInv
<1>2. AuditTypes'
  BY <1>1, AuditAssumption
     DEF AuditTypes, Observe, Unprobed, Unlisted
<1>3. Since'
  <2>1. \A r \in Resources : live[r].uid \in Nat
    BY <1>1, LivesAreNumbers DEF AuditTypes, Incarnations
  <2> QED BY <2>1 DEF Observe, Since
<1>4. Sighted'
  BY DEF Observe, Sighted, Probes, Listings, Unprobed, Unlisted
<1>5. Owed'
  BY DEF Observe, Owed, Planned, RelatedOnly, Exists
<1>6. Told'
  BY DEF Observe, Told, AuditTellsWhatIsThere, ReportedIds, NoReport
<1> QED BY <1>2, <1>3, <1>4, <1>5, <1>6 DEF AuditInv

LEMMA OperatorIsBackKeeps ==
  ASSUME AuditInv, OperatorIsBack
  PROVE  AuditInv'
<1>1. AuditTypes'
  BY AuditAssumption DEF AuditInv, AuditTypes, OperatorIsBack
<1>2. Since' /\ Sighted'
  BY DEF AuditInv, OperatorIsBack, Since, Sighted, Probes, Listings, WasThere, Stayed, IsThere,
         Id, Served
<1>3. Owed'
  BY DEF OperatorIsBack, Owed
<1>4. Told'
  BY DEF OperatorIsBack, Told, AuditTellsWhatIsThere, ReportedIds, NoReport
<1> QED BY <1>1, <1>2, <1>3, <1>4 DEF AuditInv

LEMMA AuditInitInv == AuditInit => AuditInv
<1> SUFFICES ASSUME AuditInit PROVE AuditInv
  OBVIOUS
<1>1. 1 \in Lives /\ 0 \in 0..MaxAttempts /\ 0 < MaxAttempts /\ 0 \in 0..LastLife
  BY AuditAssumption DEF Lives
<1> DEFINE refs(r) == {[owner |-> Id(ref.owner, 1), controller |-> ref.controller] :
                         ref \in RefsOf[r]}
<1>2. ASSUME NEW r \in Resources PROVE refs(r) \in SUBSET Refs
  <2> SUFFICES ASSUME NEW ref \in RefsOf[r]
               PROVE  [owner |-> Id(ref.owner, 1), controller |-> ref.controller] \in Refs
    OBVIOUS
  <2>1. ref.owner \in Resources /\ ref.controller \in BOOLEAN
    BY AuditAssumption
  <2> QED BY <1>1, <2>1 DEF Refs, Ids, Id
<1>3. live = [r \in Resources |-> [uid |-> 1, there |-> TRUE, refs |-> refs(r)]]
  BY DEF AuditInit
<1> HIDE DEF refs
<1>4. live \in [Resources -> Incarnations]
  BY <1>1, <1>2, <1>3 DEF Incarnations
<1>5. AuditTypes
  BY <1>1, <1>4 DEF AuditInit, AuditTypes, Unprobed, Unlisted
<1>6. Since
  BY <1>3 DEF AuditInit, Since
<1>7. Sighted
  BY DEF AuditInit, Sighted, Probes, Listings, Unprobed, Unlisted
<1>8. Owed /\ Told
  BY DEF AuditInit, Owed, Told, AuditTellsWhatIsThere, ReportedIds, NoReport
<1> QED BY <1>5, <1>6, <1>7, <1>8 DEF AuditInv
-----------------------------------------------------------------------------
\* What a report names.
Names(r) == r.planned \union r.likely \union r.unattributed \union r.preserved
WasSeen(id) == id \in Ids /\ WasThere(id)

LEMMA ListedIsSeen ==
  ASSUME AuditInv, NEW k \in ToSet(Kinds), NEW e \in listed[k].items
  PROVE  e \in Things /\ WasSeen(e.id) /\ KindOf[e.id.res] = k
BY DEF AuditInv, AuditTypes, Sighted, Listings, Things, WasSeen

LEMMA ScannedIsSeen ==
  ASSUME AuditInv, NEW k \in ToSet(Kinds), NEW e \in Scanned(k)
  PROVE  e \in Things /\ WasSeen(e.id) /\ KindOf[e.id.res] = k
BY ListedIsSeen DEF Scanned

LEMMA NativeIsSeen ==
  ASSUME AuditInv, NEW e \in Native
  PROVE  e \in Things /\ WasSeen(e.id) /\ KindOf[e.id.res] \in Workloads \union {"ReplicaSet"}
<1>1. Workloads \union {"ReplicaSet"} \subseteq ToSet(Kinds)
  BY KindsAre
<1>2. CASE e \in listed["ReplicaSet"].items
  BY <1>1, <1>2, ListedIsSeen
<1>3. CASE \E k \in Workloads : e \in Scanned(k)
  BY <1>1, <1>3, ScannedIsSeen
<1> QED BY <1>2, <1>3 DEF Native

LEMMA SoleIsOne ==
  ASSUME NEW refs, NEW a \in SoleOwner(refs), NEW b \in SoleOwner(refs)
  PROVE  a = b
BY DEF SoleOwner

LEMMA LookedUp ==
  ASSUME NEW id, NEW other, other.is # "resolved", LookUp(id, other).is = "resolved"
  PROVE  LookUp(id, other).id = id /\ \E e \in Native : e.id = id
BY DEF LookUp, Resolved, Incomplete, Named

LEMMA TopOwnerIsNative ==
  ASSUME NEW id, TopOwner(id).is = "resolved"
  PROVE  /\ \E e \in Native : e.id = id
         /\ \E e \in Native : e.id = TopOwner(id).id
<1> DEFINE kind == KindOf[id.res]
           whenMissing == Incomplete(IF kind = "ReplicaSet" THEN NoId ELSE id)
           found == LookUp(id, whenMissing)
           refs == UNION {e.refs : e \in Named(id.res)}
           up == (CHOOSE ref \in SoleOwner(refs) : TRUE).owner
<1>1. whenMissing.is = "incomplete" /\ Incomplete(up).is = "incomplete"
        /\ Incomplete(NoId).is = "incomplete" /\ Foreign.is = "foreign"
  BY DEF Incomplete, Foreign
<1>2. TopOwner(id) \in {found, LookUp(up, Incomplete(up))} /\ found.is = "resolved"
  <2>1. TopOwner(id) =
          IF kind \notin {"ReplicaSet", "DaemonSet", "Job"} THEN Foreign
          ELSE IF found.is # "resolved" \/ kind = "DaemonSet" \/ refs = {} THEN found
          ELSE IF SoleOwner(refs) = {} THEN Incomplete(NoId)
          ELSE IF KindOf[up.res] # Above(kind)
               THEN IF kind = "Job" THEN Foreign ELSE Incomplete(NoId)
          ELSE LookUp(up, Incomplete(up))
    BY DEF TopOwner
  <2> HIDE DEF found, refs, up, kind
  <2> QED BY <1>1, <2>1
<1>3. \E e \in Native : e.id = id
  BY <1>1, <1>2, LookedUp
<1>4. \E e \in Native : e.id = TopOwner(id).id
  BY <1>1, <1>2, LookedUp
<1> QED BY <1>3, <1>4

LEMMA PodOwnerIsNative ==
  ASSUME NEW p, OwnerOfPod(p).is = "resolved"
  PROVE  /\ \E e \in Native : e.id = OwnerOfPod(p).id
         /\ \E ref \in SoleOwner(p.refs) : \E e \in Native : e.id = ref.owner
<1>1. SoleOwner(p.refs) # {}
  BY DEF OwnerOfPod, Incomplete
<1> DEFINE ref == CHOOSE x \in SoleOwner(p.refs) : TRUE
<1>2. ref \in SoleOwner(p.refs)
  BY <1>1
<1>3. OwnerOfPod(p) = TopOwner(ref.owner)
  BY <1>1 DEF OwnerOfPod
<1> QED BY <1>2, <1>3, TopOwnerIsNative

LEMMA JobOwnerIsNative ==
  ASSUME NEW j, OwnerOfJob(j).is = "resolved"
  PROVE  /\ \E e \in Native : e.id = OwnerOfJob(j).id
         /\ \E ref \in SoleOwner(j.refs) : OwnerOfJob(j).id = ref.owner
<1> DEFINE up == (CHOOSE ref \in SoleOwner(j.refs) : TRUE).owner
<1>1. SoleOwner(j.refs) # {} /\ OwnerOfJob(j) = LookUp(up, Incomplete(up))
  BY DEF OwnerOfJob, Incomplete
<1>2. Incomplete(up).is # "resolved"
  BY DEF Incomplete
<1>3. OwnerOfJob(j).id = up /\ \E e \in Native : e.id = up
  BY <1>1, <1>2, LookedUp
<1> QED BY <1>1, <1>3

LEMMA OwnersAreSettled ==
  /\ \A p : OwnerOfPod(p).is \in {"resolved", "foreign", "incomplete"}
  /\ \A j : OwnerOfJob(j).is \in {"resolved", "incomplete"}
<1>1. \A id, x : LookUp(id, Incomplete(x)).is \in {"resolved", "incomplete"}
  BY DEF LookUp, Resolved, Incomplete
<1>2. \A id : TopOwner(id).is \in {"resolved", "foreign", "incomplete"}
  BY <1>1 DEF TopOwner, Foreign, Incomplete
<1> QED BY <1>1, <1>2 DEF OwnerOfPod, OwnerOfJob, Incomplete

LEMMA ReportIsTrue ==
  ASSUME AuditInv
  PROVE  \A id \in Names(Judgement) : WasSeen(id)
<1>1. ASSUME NEW rs \in SUBSET Resources, NEW id \in ProbedPresent(rs) PROVE WasSeen(id)
  <2>1. PICK r \in rs : probed[r].is = "present" /\ id = Id(r, probed[r].uid)
    BY DEF ProbedPresent
  <2>2. WasThere(id)
    BY <2>1 DEF AuditInv, Sighted, Probes
  <2>3. probed[r].uid \in 0..LastLife /\ begun[r].uid \in Lives
    BY DEF AuditInv, AuditTypes, Incarnations
  <2>4. id.res = r /\ id.uid = probed[r].uid /\ id.uid > 0
    BY <2>1, <2>2, <2>3, LivesAreNumbers, AuditAssumption DEF Id, WasThere
  <2>5. id \in Ids
    BY <2>1, <2>3, <2>4, AuditAssumption DEF Id, Ids, Lives
  <2> QED BY <2>2, <2>5 DEF WasSeen
<1>2. \A e \in Native : WasSeen(e.id)
  BY NativeIsSeen
<1>3. \A id \in OfLists : WasSeen(id)
  BY <1>2 DEF OfLists, IdsOf, Direct
<1>4. \A id \in OfJobs : WasSeen(id)
  BY <1>2, JobOwnerIsNative DEF OfJobs, CronJobsOfJobs, JobsWhose
<1>5. \A p \in Scanned("Pod") : WasSeen(p.id)
  BY ScannedIsSeen, KindsAre
<1>6. \A id \in OfPods : WasSeen(id)
  BY <1>2, <1>5, PodOwnerIsNative DEF OfPods, OwnersOfPods, PodsWhose, IdsOf, LonePods
<1>7. \A e \in OfRelated : WasSeen(e.id)
  BY ScannedIsSeen, KindsAre DEF OfRelated
<1> DEFINE planned == ProbedPresent({r \in Resources : Planned(r)})
           related == ProbedPresent({r \in Resources : RelatedOnly(r)})
<1>8. \A id \in planned \union related : WasSeen(id)
  BY <1>1
<1> HIDE DEF planned, related
<1>9. Names(Judgement) \subseteq
        planned \union related \union OfLists \union OfJobs \union OfPods
          \union IdsOf(OfRelated)
  BY DEF Names, Judgement, planned, related, IdsOf
<1>10. \A id \in IdsOf(OfRelated) : WasSeen(id)
  BY <1>7 DEF IdsOf
<1> QED BY <1>3, <1>4, <1>6, <1>8, <1>9, <1>10

\* The places of a report in which a workload is told of.
LEMMA WorkloadsAreReported ==
  /\ OfLists \union OfJobs \union OfPods \subseteq Names(Judgement)
  /\ IdsOf(OfRelated) \subseteq Names(Judgement)
  /\ ProbedPresent({r \in Resources : Planned(r)}) \subseteq Names(Judgement)
  /\ ProbedPresent({r \in Resources : RelatedOnly(r)}) \subseteq Names(Judgement)
<1> DEFINE planned == ProbedPresent({r \in Resources : Planned(r)})
           related == ProbedPresent({r \in Resources : RelatedOnly(r)})
<1>1. /\ planned \subseteq Judgement.planned
      /\ related \subseteq Judgement.unattributed
      /\ OfPods \subseteq Judgement.likely
      /\ \A id \in OfLists : IF ~Kept(id) THEN id \in Judgement.likely
                             ELSE IF Unchanged(id) THEN id \in Judgement.preserved
                             ELSE id \in Judgement.unattributed
      /\ \A id \in OfJobs : IF Kept(id) /\ Unchanged(id) THEN id \in Judgement.preserved
                            ELSE id \in Judgement.unattributed
      /\ IdsOf({e \in OfRelated : ~NoConfidence(e)}) \subseteq Judgement.likely
      /\ IdsOf({e \in OfRelated : NoConfidence(e)}) \subseteq Judgement.unattributed
  BY DEF Judgement
<1>2. IdsOf(OfRelated) \subseteq IdsOf({e \in OfRelated : ~NoConfidence(e)})
                                   \union IdsOf({e \in OfRelated : NoConfidence(e)})
  BY DEF IdsOf
<1> QED BY <1>1, <1>2 DEF Names

\* A report without errors: all was read, and every owner told apart.
LEMMA NothingWrong ==
  ASSUME AuditInv, stage = "reading", todo = {}, Judgement.errors = {}
  PROVE  /\ ~Pruned
         /\ \A r \in Resources : probed[r].is # "failed"
         /\ \A k \in ToSet(Kinds) : Exists(k) => listed[k].is = "ok"
         /\ \A j \in Jobs : OwnerOfJob(j).is = "resolved"
         /\ \A p \in Dependents :
              /\ Positive(p) => OwnerOfPod(p).is = "resolved"
<1>1. Failures = {} /\ JobErrors = {} /\ PodErrors = {}
  BY DEF Judgement
<1>2. /\ ~Pruned
      /\ \A r \in Resources : probed[r].is # "failed"
      /\ \A k \in ToSet(Kinds) : listed[k].is # "failed"
  BY <1>1 DEF Failures, When
<1>3. \A k \in ToSet(Kinds) : Exists(k) => listed[k].is = "ok"
  <2> SUFFICES ASSUME NEW k \in ToSet(Kinds), Exists(k) PROVE listed[k].is = "ok"
    OBVIOUS
  <2>1. listed[k].is \in {"none", "ok", "failed"}
    BY DEF AuditInv, AuditTypes
  <2>2. listed[k].is # "none"
    BY <1>2 DEF AuditInv, Owed
  <2> QED BY <1>2, <2>1, <2>2
<1>4. \A j \in Jobs : OwnerOfJob(j).is = "resolved"
  <2>1. JobsWhose("incomplete") = {}
    BY <1>1 DEF JobErrors
  <2> QED BY <2>1, OwnersAreSettled DEF JobsWhose
<1>5. \A p \in Dependents : Positive(p) => OwnerOfPod(p).is = "resolved"
  <2>1. \A p \in PodsWhose("foreign") : ~Positive(p)
    BY <1>1 DEF PodErrors
  <2>2. \A p \in PodsWhose("incomplete") : ~Positive(p)
    BY <1>1 DEF PodErrors
  <2> QED BY <2>1, <2>2, OwnersAreSettled DEF PodsWhose
<1> QED BY <1>2, <1>3, <1>4, <1>5

LEMMA WhatStayedWasListed ==
  ASSUME AuditInv, stage = "reading", todo = {}, Judgement.errors = {},
         NEW r \in Resources, Stayed(r), KindOf[r] \in ToSet(Kinds)
  PROVE  Served(r) \in listed[KindOf[r]].items
<1>1. Exists(KindOf[r])
  BY DEF Exists
<1>2. listed[KindOf[r]].is = "ok"
  BY <1>1, NothingWrong
<1> QED BY <1>2 DEF AuditInv, Sighted, Listings

LEMMA PlannedIsReported ==
  ASSUME AuditInv, stage = "reading", todo = {}, Judgement.errors = {},
         NEW r \in Resources, Stayed(r), Planned(r) \/ RelatedOnly(r)
  PROVE  Served(r).id \in Names(Judgement)
<1>1. probed[r].is = "present"
  <2>1. probed[r].is \in {"gone", "failed", "present"}
    BY DEF AuditInv, Owed
  <2>2. probed[r].is # "gone"
    BY DEF AuditInv, Sighted, Probes
  <2> QED BY <2>1, <2>2, NothingWrong
<1>2. WasThere(Id(r, probed[r].uid))
  BY <1>1 DEF AuditInv, Sighted, Probes
<1>3. probed[r].uid = live[r].uid
  <2>1. probed[r].uid \in Nat /\ live[r].uid \in Nat /\ begun[r].uid \in Nat
    BY LivesAreNumbers, AuditAssumption DEF AuditInv, AuditTypes, Incarnations
  <2> QED BY <1>2, <2>1 DEF WasThere, Stayed, IsThere, Id
<1>4. Served(r).id = Id(r, probed[r].uid)
  BY <1>3 DEF Served
<1>5. Served(r).id \in ProbedPresent({x \in Resources : Planned(x)})
        \/ Served(r).id \in ProbedPresent({x \in Resources : RelatedOnly(x)})
  BY <1>1, <1>4 DEF ProbedPresent
<1> QED BY <1>5, WorkloadsAreReported

LEMMA EvidentIsReported ==
  ASSUME AuditInv, stage = "reading", todo = {}, Judgement.errors = {},
         NEW r \in Resources, Stayed(r), Positive(Served(r)),
         KindOf[r] \in {"Deployment", "DaemonSet", "CronJob", "Service", "Root"}
  PROVE  Served(r).id \in Names(Judgement)
<1> DEFINE e == Served(r)
<1>1. CASE Planned(r)
  BY <1>1, PlannedIsReported
<1>2. CASE ~Planned(r)
  <2>1. KindOf[r] \in ToSet(Kinds) /\ e.id.res = r
    BY KindsAre DEF Workloads, Related, Served, Id
  <2>2. e \in Scanned(KindOf[r])
    BY <1>2, <2>1, WhatStayedWasListed DEF Scanned
  <2>3. CASE KindOf[r] \in {"Service", "Root"}
    <3>1. e \in OfRelated
      BY <2>2, <2>3, NothingWrong DEF OfRelated, Related
    <3> QED BY <3>1, WorkloadsAreReported DEF IdsOf
  <2>4. CASE KindOf[r] \in {"Deployment", "DaemonSet", "CronJob"}
    <3>1. e \in Native
      BY <2>2, <2>4 DEF Native, Workloads
    <3>2. e \in Direct \ Jobs
      BY <2>1, <2>4, <3>1 DEF Direct, Jobs, Owned
    <3>3. e.id \in OfLists
      BY <3>2 DEF OfLists, IdsOf
    <3> QED BY <3>3, WorkloadsAreReported
  <2> QED BY <2>3, <2>4
<1> QED BY <1>1, <1>2

LEMMA JobIsReported ==
  ASSUME AuditInv, stage = "reading", todo = {}, Judgement.errors = {},
         NEW r \in Resources, Stayed(r), Positive(Served(r)), KindOf[r] = "Job", ~Planned(r)
  PROVE  IF live[r].refs = {} THEN Served(r).id \in Names(Judgement)
         ELSE OwnersOf(r) \intersect Names(Judgement) # {}
<1> DEFINE e == Served(r)
<1>1. e.id.res = r /\ e.refs = live[r].refs
  BY DEF Served, Id
<1>2. e \in Scanned("Job")
  BY <1>1, WhatStayedWasListed, KindsAre DEF Scanned, Workloads
<1>3. e \in Direct
  BY <1>1, <1>2 DEF Direct, Native, Workloads
<1>4. CASE live[r].refs = {}
  <2>1. e.id \in OfLists
    BY <1>1, <1>3, <1>4 DEF OfLists, IdsOf, Jobs, Owned
  <2> QED BY <1>4, <2>1, WorkloadsAreReported
<1>5. CASE live[r].refs # {}
  <2>1. e \in Jobs
    BY <1>1, <1>3, <1>5 DEF Jobs, Owned
  <2>2. OwnerOfJob(e).is = "resolved"
    BY <2>1, NothingWrong
  <2>3. OwnerOfJob(e).id \in CronJobsOfJobs
    BY <2>1, <2>2 DEF CronJobsOfJobs, JobsWhose
  <2>4. OwnerOfJob(e).id \in Names(Judgement)
    BY <2>3, WorkloadsAreReported DEF OfJobs
  <2>5. OwnerOfJob(e).id \in OwnersOf(r)
    BY <1>1, <2>2, JobOwnerIsNative DEF OwnersOf
  <2> QED BY <1>5, <2>4, <2>5
<1> QED BY <1>4, <1>5

LEMMA PodIsReported ==
  ASSUME AuditInv, stage = "reading", todo = {}, Judgement.errors = {},
         NEW r \in Resources, Stayed(r), Positive(Served(r)), KindOf[r] = "Pod", ~Planned(r)
  PROVE  IF live[r].refs = {} THEN Served(r).id \in Names(Judgement)
         ELSE \E id \in OwnersOf(r) : WasThere(id)
<1> DEFINE e == Served(r)
<1>1. e.id.res = r /\ e.refs = live[r].refs
  BY DEF Served, Id
<1>2. e \in Scanned("Pod")
  BY <1>1, WhatStayedWasListed, KindsAre DEF Scanned
<1>3. CASE live[r].refs = {}
  <2>1. e.id \in IdsOf(LonePods)
    BY <1>1, <1>2, <1>3 DEF LonePods, IdsOf
  <2>2. e.id \in OfLists \union OfJobs \union OfPods
    BY <2>1 DEF OfPods
  <2> QED BY <1>3, <2>2, WorkloadsAreReported
<1>4. CASE live[r].refs # {}
  <2>1. OwnerOfPod(e).is = "resolved"
    BY <1>1, <1>2, <1>4, NothingWrong DEF Dependents
  <2>2. PICK ref \in SoleOwner(e.refs) : \E n \in Native : n.id = ref.owner
    BY <2>1, PodOwnerIsNative
  <2>3. WasThere(ref.owner)
    BY <2>2, NativeIsSeen DEF WasSeen
  <2> QED BY <1>1, <1>4, <2>3 DEF OwnersOf
<1> QED BY <1>3, <1>4

\* A ReplicaSet without owner and with evidence is told of when a pod is its.
LEMMA OwnerOfPodIsReported ==
  ASSUME AuditInv, stage = "reading", todo = {}, Judgement.errors = {},
         NEW r \in Resources, Stayed(r), KindOf[r] = "Pod", ~Planned(r),
         NEW id \in OwnersOf(r), KindOf[id.res] = "ReplicaSet", IsThere(id), Stayed(id.res),
         live[id.res].refs = {}, Positive(Served(id.res))
  PROVE  id \in Names(Judgement)
<1> DEFINE e == Served(r)
           set == Served(id.res)
<1>1. e.id.res = r /\ e.refs = live[r].refs
  BY DEF Served, Id
<1>2. live[r].refs \subseteq Refs /\ id \in Ids /\ id.res \in Resources
  <2>1. live[r].refs \subseteq Refs
    BY DEF AuditInv, AuditTypes, Incarnations
  <2>2. id \in Ids
    BY <2>1 DEF OwnersOf, SoleOwner, Refs
  <2> QED BY <2>1, <2>2 DEF Ids
<1>3. set.id = id /\ set.refs = {} /\ set.id.res = id.res
  BY <1>2 DEF IsThere, Served, Id, Ids
<1>4. e \in Scanned("Pod") /\ e \in Dependents
  <2>1. e \in Scanned("Pod")
    BY <1>1, WhatStayedWasListed, KindsAre DEF Scanned
  <2>2. e.refs # {}
    BY <1>1 DEF OwnersOf, SoleOwner
  <2> QED BY <2>1, <2>2 DEF Dependents
<1>5. set \in listed["ReplicaSet"].items /\ set \in Native
  <2>1. KindOf[id.res] \in ToSet(Kinds)
    BY KindsAre
  <2>2. set \in listed[KindOf[id.res]].items
    BY <1>2, <2>1, WhatStayedWasListed
  <2> QED BY <2>2 DEF Native
<1>6. Named(id.res) = {set}
  <2> SUFFICES ASSUME NEW n \in Native, n.id.res = id.res PROVE n = set
    BY <1>3, <1>5 DEF Named
  <2>1. n \in listed["ReplicaSet"].items
    <3> SUFFICES ASSUME NEW k \in Workloads, n \in Scanned(k) PROVE FALSE
      BY DEF Native
    <3>1. KindOf[n.id.res] = k
      BY ScannedIsSeen, KindsAre
    <3> QED BY <3>1 DEF Workloads
  <2> QED BY <1>3, <1>5, <2>1, KindsAre DEF AuditInv, Sighted, Listings
<1>7. TopOwner(id) = Resolved(id)
  <2>1. \A x : LookUp(id, x) = Resolved(id)
    BY <1>3, <1>6 DEF LookUp
  <2>2. UNION {n.refs : n \in Named(id.res)} = {}
    BY <1>3, <1>6
  <2> QED BY <2>1, <2>2 DEF TopOwner
<1>8. OwnerOfPod(e) = Resolved(id)
  <2>1. PICK ref \in SoleOwner(e.refs) : id = ref.owner
    BY <1>1 DEF OwnersOf
  <2>2. (CHOOSE x \in SoleOwner(e.refs) : TRUE) = ref
    BY <2>1, SoleIsOne
  <2> QED BY <1>7, <2>1, <2>2 DEF OwnerOfPod
<1>9. id \in OwnersOfPods
  BY <1>4, <1>8 DEF OwnersOfPods, PodsWhose, Resolved
<1>10. \E n \in Named(id.res) : Positive(n)
  BY <1>6
<1>11. id \in OfLists \union OfJobs \union OfPods
  BY <1>9, <1>10 DEF OfPods
<1> QED BY <1>11, WorkloadsAreReported

LEMMA ReportIsWhole ==
  ASSUME AuditInv, stage = "reading", todo = {}, report' = Judgement, report'.errors = {},
         UNCHANGED <<plan, live, begun>>, NEW r \in Resources, Stayed(r)
  PROVE  Accounted(r)'
<1>1. ReportedIds' = Names(Judgement) /\ Judgement.errors = {}
  BY DEF ReportedIds, Names
<1>2. /\ Positive(Served(r))' <=> Positive(Served(r))
      /\ Planned(r)' <=> Planned(r)
      /\ RelatedOnly(r)' <=> RelatedOnly(r)
      /\ OwnersOf(r)' = OwnersOf(r)
      /\ Served(r)' = Served(r)
  BY DEF Positive, Evidence, TargetIds, Planned, RelatedOnly, OwnersOf, SoleOwner, Served
<1>3. Reported(r)' <=> Served(r).id \in Names(Judgement)
  BY <1>1, <1>2 DEF Reported
<1>4. \A id : /\ WasThere(id)' <=> WasThere(id)
              /\ IsThere(id)' <=> IsThere(id)
              /\ Stayed(id.res)' <=> Stayed(id.res)
              /\ Positive(Served(id.res))' <=> Positive(Served(id.res))
  BY DEF WasThere, IsThere, Stayed, Positive, Evidence, TargetIds, Planned, Served
<1>5. Planned(r) \/ RelatedOnly(r) => Reported(r)'
  BY <1>1, <1>3, PlannedIsReported
<1>6. KindOf[r] \in {"Deployment", "DaemonSet", "CronJob", "Service", "Root"}
        /\ Positive(Served(r)) => Reported(r)'
  BY <1>1, <1>3, EvidentIsReported
<1>7. KindOf[r] = "Job" /\ Positive(Served(r)) /\ ~Planned(r) =>
        IF live[r].refs = {} THEN Reported(r)'
        ELSE OwnersOf(r) \intersect Names(Judgement) # {}
  BY <1>1, <1>3, JobIsReported
<1>8. KindOf[r] = "Pod" /\ Positive(Served(r)) /\ ~Planned(r) =>
        IF live[r].refs = {} THEN Reported(r)' ELSE \E id \in OwnersOf(r) : WasThere(id)
  BY <1>1, <1>3, PodIsReported
<1>9. KindOf[r] = "Pod" /\ ~Planned(r) =>
        \A id \in OwnersOf(r) :
          /\ KindOf[id.res] = "ReplicaSet" /\ IsThere(id) /\ Stayed(id.res)
          /\ live[id.res].refs = {} /\ Positive(Served(id.res))
          => id \in Names(Judgement)
  BY <1>1, OwnerOfPodIsReported
<1> QED
  BY <1>1, <1>2, <1>4, <1>5, <1>6, <1>7, <1>8, <1>9 DEF Accounted

LEMMA ConcludeKeeps ==
  ASSUME AuditInv, Conclude
  PROVE  AuditInv'
<1>1. /\ stage = "reading" /\ todo = {} /\ report' = Judgement
      /\ UNCHANGED <<plan, live, begun, todo, probed, listed, attempts>>
      /\ stage' \in {"idle", "settled", "unsettled"}
      /\ stage' = "idle" => attempts < MaxAttempts
  BY DEF Conclude
<1>2. AuditTypes'
  BY <1>1 DEF AuditInv, AuditTypes
<1>3. Since' /\ Sighted'
  BY <1>1 DEF AuditInv, Since, Sighted, Probes, Listings, WasThere, Stayed, IsThere, Id, Served
<1>4. Owed'
  BY <1>1 DEF Owed
<1>5. ReportedIds' = Names(Judgement)
  BY <1>1 DEF ReportedIds, Names
<1>6. ReportedIds' \subseteq Ids /\ \A id \in ReportedIds' : WasThere(id)'
  <2>1. \A id : WasThere(id)' <=> WasThere(id)
    BY <1>1 DEF WasThere
  <2> QED BY <1>5, <2>1, ReportIsTrue DEF WasSeen
<1>7. report'.errors = {} => \A r \in Resources : Stayed(r)' => Accounted(r)'
  <2>1. \A r \in Resources : Stayed(r)' <=> Stayed(r)
    BY <1>1 DEF Stayed, IsThere
  <2> QED BY <1>1, <2>1, ReportIsWhole
<1>8. Told'
  BY <1>6, <1>7 DEF Told, AuditTellsWhatIsThere, Ids
<1> QED BY <1>2, <1>3, <1>4, <1>8 DEF AuditInv

LEMMA AuditStands ==
  ASSUME AuditInv, UNCHANGED auditVars
  PROVE  AuditInv'
<1>1. UNCHANGED <<plan, live, begun, todo, probed, listed, attempts, report, stage>>
  BY DEF auditVars
<1>2. AuditTypes'
  BY <1>1 DEF AuditInv, AuditTypes
<1>3. Since' /\ Sighted'
  BY <1>1 DEF AuditInv, Since, Sighted, Probes, Listings, WasThere, Stayed, IsThere, Id, Served
<1>4. Owed'
  BY <1>1 DEF AuditInv, Owed, Planned, RelatedOnly, Exists, Pruned
<1>5. live' \in [Resources -> Incarnations] /\ Grows
  <2>1. \A r \in Resources : live[r].uid \in Nat
    BY LivesAreNumbers DEF AuditInv, AuditTypes, Incarnations
  <2> QED BY <1>1, <2>1 DEF AuditInv, AuditTypes, Grows
<1>6. Told'
  BY <1>1, <1>5, AccountStands DEF AuditInv
<1> QED BY <1>2, <1>3, <1>4, <1>6 DEF AuditInv

LEMMA AuditNextInv ==
  ASSUME AuditInv, [AuditNext]_auditVars
  PROVE  AuditInv'
BY ObserveKeeps, OperatorIsBackKeeps, ConcludeKeeps, GetKeeps, VerifyKeeps, ListKeeps,
   ClusterMovesKeeps, AuditStands
   DEF AuditNext, AuditStep

LEMMA AuditTypesFollow == AuditInv => AuditTypeOK
<1> SUFFICES ASSUME AuditInv PROVE AuditTypeOK
  OBVIOUS
<1>1. \A r \in Resources : live[r].uid \in 1..LastLife /\ live[r].there \in BOOLEAN
  BY DEF AuditInv, AuditTypes, Incarnations, Lives
<1>2. \A r \in Resources : probed[r].is \in {"none", "404", "gone", "failed", "present"}
  BY DEF AuditInv, AuditTypes
<1>3. \A k \in ToSet(Kinds) : listed[k].is \in {"none", "ok", "failed"}
  BY DEF AuditInv, AuditTypes
<1> QED BY <1>1, <1>2, <1>3 DEF AuditInv, AuditTypes, AuditTypeOK
-----------------------------------------------------------------------------
(***************************************************************************)
(* The commands that read                                                  *)
(***************************************************************************)

\* A step of one reader is a stutter of the others.
LEMMA ReadersAreApart ==
  [Next]_vars => [PlannerNext]_plannerVars /\ [ScanNext]_scanVars /\ [AuditNext]_auditVars
BY DEF Next, vars, WithPlanner, WithNone, AsAudit

\* The invariant of the readers, and why the properties below hold.
THEOREM ReadInvariant == Spec => [](PlannerInv /\ ScanInv /\ AuditInv)
<1>1. Init => PlannerInv /\ ScanInv /\ AuditInv
  BY InitInv, ScanInitInv, AuditInitInv DEF Init
<1>2. PlannerInv /\ ScanInv /\ AuditInv /\ [Next]_vars => PlannerInv' /\ ScanInv' /\ AuditInv'
  BY NextInv, ScanNextInv, AuditNextInv, ReadersAreApart
<1> QED BY <1>1, <1>2, PTL DEF Spec

\* The variables of the planner, the scan and the audit keep their types, and
\* the attempts of each stay within what the code allows it.
THEOREM ReadTypes == Spec => []TypeOK
<1>1. PlannerInv /\ ScanInv /\ AuditInv => TypeOK
  BY TypesFollow, ScanTypesFollow, AuditTypesFollow DEF TypeOK
<1> QED BY <1>1, ReadInvariant, PTL

\* What an audit reports was there at some time since it began, and when it
\* reports no errors nothing is missing that was there all the time, while the
\* cluster changes between one read and the next (audit.rs, run_residual_audit).
THEOREM ReadAuditTellsWhatIsThere == Spec => []AuditTellsWhatIsThere
<1>1. AuditInv => AuditTellsWhatIsThere
  BY DEF AuditInv, Told
<1> QED BY <1>1, ReadInvariant, PTL

\* Under which of two types an object is put that both of them list does not
\* depend on the order in which the LISTs return.
THEOREM ReadAliasesAreStable == Spec => []AliasesAreStable
<1>1. ScanInv => AliasesAreStable
  BY StabilityFollows
<1> QED BY <1>1, ReadInvariant, PTL

\* When the results of a scan are together, the types that failed, after all
\* their attempts, are those that were reported, each once.
THEOREM ReadNothingMissingSilently == Spec => []NothingMissingSilently
<1>1. ScanInv => NothingMissingSilently
  BY NothingIsMissed
<1> QED BY <1>1, ReadInvariant, PTL

\* A walk to the owners that ends without a warning was at the owner of
\* everything it was at, though objects are recreated while it goes on and
\* owners may form a cycle.
THEOREM ReadWalkLeavesNoGap == Spec => []WalkLeavesNoGap
<1>1. ScanInv => WalkLeavesNoGap
  BY NoGapIsLeft
<1> QED BY <1>1, ReadInvariant, PTL

\* In a command that shares a planner a query is sent once, and again only for
\* a leader that was dropped.
THEOREM ReadOneRequestPerKey == Spec => []OneRequestPerKey
<1>1. PlannerInv => OneRequestPerKey
  BY OneRequestFollows
<1> QED BY <1>1, ReadInvariant, PTL

\* What such a command records of its queries is what its consumers were told.
THEOREM ReadLedgerIsHonest == Spec => []LedgerIsHonest
<1>1. PlannerInv => LedgerIsHonest
  BY HonestyFollows
<1> QED BY <1>1, ReadInvariant, PTL

\* Every command that reads implements QueryContract with its planner.
THEOREM ReadImplementsContract == Spec => PlannerImplementsContract
<1>1. Init => Contract!ContractInit
  BY DEF Init, PlannerInit, Contract!ContractInit
<1>2. PlannerInv /\ PlannerInv' /\ [Next]_vars
        => [Contract!ContractNext]_(Contract!contractVars)
  BY ReadersAreApart, StepImplements
<1> QED
  BY <1>1, <1>2, ReadInvariant, PTL
  DEF Spec, PlannerImplementsContract, Contract!ContractSpec
=============================================================================
