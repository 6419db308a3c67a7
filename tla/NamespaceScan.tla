--------------------------- MODULE NamespaceScan ---------------------------
(***************************************************************************)
(* The readers that have no planner: the scan of a namespace               *)
(* (src/src/kube/scanner.rs scan_namespace_with_semaphore, followed by     *)
(* resolve_missing_parents_opts), the snapshot (src/src/kube/snapshot.rs   *)
(* build_snapshot_from_targets) and the walk to a resource's owners        *)
(* (find_parents_only).  The first two LIST every served type              *)
(* concurrently, each attempt under a permit, and put the results together *)
(* in the order of the types.  Meanwhile the cluster may delete and        *)
(* recreate what they read.                                                *)
(***************************************************************************)
EXTENDS ApiCall, FiniteSets, FiniteSetsExt

CONSTANTS
  Found,        \* Found[i]: the objects the i-th type lists; an object served
                \* under two groups is listed by two types
  Objects,      \* the objects, by name
  OwnerOf,      \* OwnerOf[o]: the primary owner o names, or NoOwner
  ScanPermits,  \* permits of the caller's semaphore
  Window,       \* scanner.rs DEFAULT_API_CONCURRENCY, without a semaphore
  Recreatable,  \* the objects that may be deleted and recreated
  MaxGen,       \* how often each of them may be (bound)
  NoOwner

Targets == 1..Len(Found)

\* The uids that objects may have: one for each incarnation.
Uids == [name : Objects, gen : Nat]

ASSUME ScanAssumption ==
  /\ IsFiniteSet(Objects) /\ NoOwner \notin Objects \union Uids
  /\ Found \in Seq(SUBSET Objects)
  /\ OwnerOf \in [Objects -> Objects \union {NoOwner}]
  /\ ScanPermits \in Nat \ {0} /\ Window \in Nat \ {0}

VARIABLES
  reader,     \* "index", "snapshot" or "parents": who reads
  limited,    \* the caller passed a semaphore
  gen,        \* gen[o]: the incarnation of o in the cluster
  ownerGen,   \* ownerGen[o]: the incarnation of its owner that o names
  free,       \* permits left
  line,       \* who waits for a permit
  target,     \* target[i]: where the future of the i-th type is
  attempt,    \* attempt[i]: the attempts it has used
  result,     \* result[i]: what it returned: the objects as read, or a failure
  reported,   \* what was reported of failures: ledger records or scan_errors
  collected,  \* the types whose results `buffered` has yielded, in order
  index,      \* by_uid, or the snapshot's resources, once put together
  walk        \* the walk over owners

scanVars == <<reader, limited, gen, ownerGen, free, line, target, attempt,
              result, reported, collected, index, walk>>

Uid(o, g) == [name |-> o, gen |-> g]

\* An object as it is read now: its uid and the uid its owner reference names.
Seen(o) ==
  [uid |-> Uid(o, gen[o]),
   owner |-> IF OwnerOf[o] = NoOwner THEN NoOwner
             ELSE Uid(OwnerOf[o], ownerGen[o])]

Got(seen) == [ok |-> TRUE, seen |-> seen]
Failed    == [ok |-> FALSE, seen |-> {}]

NotWalking == [pc |-> "off", at |-> NoOwner, visited |-> {}, warned |-> FALSE]

ScanInit ==
  /\ reader \in {"index", "snapshot", "parents"}
  /\ limited \in BOOLEAN
  /\ gen = [o \in Objects |-> 1]
  /\ ownerGen = [o \in Objects |-> 1]
  /\ free = ScanPermits
  /\ line = <<>>
  /\ target = [i \in Targets |-> "waiting"]
  /\ attempt = [i \in Targets |-> 0]
  /\ result = [i \in Targets |-> Got({})]
  /\ reported = <<>>
  /\ collected = <<>>
  /\ index = <<>>
  /\ walk = NotWalking
-----------------------------------------------------------------------------
(***************************************************************************)
(* One type of the scan                                                    *)
(***************************************************************************)

Lists == reader \in {"index", "snapshot"}

\* An attempt begins by asking for a permit, if there is a semaphore.
Ask(i) ==
  /\ target' = [target EXCEPT ![i] = IF limited THEN "queued" ELSE "listing"]
  /\ line' = IF limited THEN Append(line, i) ELSE line

\* buffered(concurrency) polls this many futures past the ones it has yielded.
Start(i) ==
  /\ Lists /\ target[i] = "waiting"
  /\ i <= Len(collected) + (IF limited THEN Len(Found) ELSE Window)
  /\ Ask(i)
  /\ UNCHANGED <<reader, limited, gen, ownerGen, free, attempt, result,
                 reported, collected, index, walk>>

TakePermit(i) ==
  /\ line # <<>> /\ i = Head(line) /\ free > 0
  /\ line' = Tail(line)
  /\ free' = free - 1
  /\ target' = [target EXCEPT ![i] = "listing"]
  /\ UNCHANGED <<reader, limited, gen, ownerGen, attempt, result, reported,
                 collected, index, walk>>

Release == free' = IF limited THEN free + 1 ELSE free

ListArrives(i) ==
  /\ target[i] = "listing"
  /\ target' = [target EXCEPT ![i] = "done"]
  /\ result' = [result EXCEPT ![i] = Got({Seen(o) : o \in Found[i]})]
  /\ Release
  /\ UNCHANGED <<reader, limited, gen, ownerGen, line, attempt, reported,
                 collected, index, walk>>

\* A transient failure sleeps with the permit held, and queues again.
ListSleeps(i) ==
  /\ target[i] = "listing" /\ attempt[i] < MaxRetries
  /\ target' = [target EXCEPT ![i] = "sleeping"]
  /\ UNCHANGED <<reader, limited, gen, ownerGen, free, line, attempt, result,
                 reported, collected, index, walk>>

Wake(i) ==
  /\ target[i] = "sleeping"
  /\ attempt' = [attempt EXCEPT ![i] = @ + 1]
  /\ Release
  /\ Ask(i)
  /\ UNCHANGED <<reader, limited, gen, ownerGen, result, reported, collected,
                 index, walk>>

ListFailsQuietly(i) ==
  /\ target[i] = "listing"
  /\ target' = [target EXCEPT ![i] = "done"]
  /\ result' = [result EXCEPT ![i] = Failed]
  /\ reported' = IF attempt[i] < MaxRetries THEN Append(reported, i) ELSE reported
  /\ Release
  /\ UNCHANGED <<reader, limited, gen, ownerGen, line, attempt, collected,
                 index, walk>>

\* A refusal, or the last attempt failed too: the failure is in the ledger and
\* in the warnings, or in the snapshot's scan_errors.
ListFails(i) ==
  /\ target[i] = "listing"
  /\ target' = [target EXCEPT ![i] = "done"]
  /\ result' = [result EXCEPT ![i] = Failed]
  /\ reported' = Append(reported, i)
  /\ Release
  /\ UNCHANGED <<reader, limited, gen, ownerGen, line, attempt, collected,
                 index, walk>>
-----------------------------------------------------------------------------
(***************************************************************************)
(* Putting the results together                                            *)
(***************************************************************************)

CollectAnyone(i) ==
  /\ target[i] = "done" /\ \A j \in DOMAIN collected : collected[j] # i
  /\ collected' = Append(collected, i)
  /\ UNCHANGED <<reader, limited, gen, ownerGen, free, line, target, attempt,
                 result, reported, index, walk>>

\* `buffered` yields in the order of the types, not of the answers.
Collect(i) ==
  /\ target[i] = "done" /\ i = Len(collected) + 1
  /\ collected' = Append(collected, i)
  /\ UNCHANGED <<reader, limited, gen, ownerGen, free, line, target, attempt,
                 result, reported, index, walk>>

Answered(i) == result[i].ok
ReadUids    == UNION {{s.uid : s \in result[i].seen} : i \in Targets}
ListedBy(u) == {i \in Targets : \E s \in result[i].seen : s.uid = u}
Position(i) == CHOOSE j \in DOMAIN collected : collected[j] = i

\* NamespaceIndex::insert overwrites: the last type collected keeps the object.
IndexEntry(u) ==
  LET last == CHOOSE i \in ListedBy(u) :
                \A j \in ListedBy(u) : Position(j) <= Position(i)
  IN  [type |-> last, owner |-> (CHOOSE s \in result[last].seen : s.uid = u).owner]

\* The snapshot keeps the first one and notes the other APIs.
SnapshotEntry(u) ==
  LET first == CHOOSE i \in ListedBy(u) :
                 \A j \in ListedBy(u) : Position(i) <= Position(j)
  IN  [type |-> first, owner |-> (CHOOSE s \in result[first].seen : s.uid = u).owner]

Assemble ==
  /\ Lists /\ Len(collected) = Len(Found) /\ index = <<>> /\ walk.pc = "off"
  /\ index' = [u \in ReadUids |-> IF reader = "index" THEN IndexEntry(u)
                                  ELSE SnapshotEntry(u)]
  /\ walk' = [walk EXCEPT !.pc = IF reader = "index" THEN "ready" ELSE "over"]
  /\ UNCHANGED <<reader, limited, gen, ownerGen, free, line, target, attempt,
                 result, reported, collected>>
-----------------------------------------------------------------------------
(***************************************************************************)
(* resolve_missing_parents_opts: from a scanned object up its owners       *)
(***************************************************************************)

Known == DOMAIN index

BeginWalk(u) ==
  /\ walk.pc = "ready" /\ u \in Known
  /\ walk' = [walk EXCEPT !.pc = "walking", !.at = u]
  /\ UNCHANGED <<reader, limited, gen, ownerGen, free, line, target, attempt,
                 result, reported, collected, index>>

Visit == [walk EXCEPT !.visited = @ \union {walk.at}]

WalkOnForgetful ==
  /\ walk.pc = "walking"
  /\ LET owner == index[walk.at].owner
     IN  walk' = IF owner = NoOwner THEN [Visit EXCEPT !.pc = "over"]
                 ELSE IF owner \in Known THEN [Visit EXCEPT !.at = owner]
                 ELSE [Visit EXCEPT !.pc = "fetching"]
  /\ UNCHANGED <<reader, limited, gen, ownerGen, free, line, target, attempt,
                 result, reported, collected, index>>

\* To the owner if the index has it, else it is fetched; a uid seen before or
\* an object without an owner ends the walk.
WalkOn ==
  /\ walk.pc = "walking"
  /\ walk' = IF walk.at \in walk.visited \/ walk.at \notin Known
               THEN [Visit EXCEPT !.pc = "over"]
             ELSE LET owner == index[walk.at].owner
                  IN  IF owner = NoOwner THEN [Visit EXCEPT !.pc = "over"]
                      ELSE IF owner \in Known THEN [Visit EXCEPT !.at = owner]
                      ELSE [Visit EXCEPT !.pc = "fetching"]
  /\ UNCHANGED <<reader, limited, gen, ownerGen, free, line, target, attempt,
                 result, reported, collected, index>>

FetchedAsNamed ==
  /\ walk.pc = "fetching"
  /\ LET seen == Seen(index[walk.at].owner.name)
     IN  /\ index' = [u \in Known \union {seen.uid} |->
                        IF u = seen.uid THEN [type |-> 0, owner |-> seen.owner]
                        ELSE index[u]]
         /\ walk' = [walk EXCEPT !.pc = "walking", !.at = index[walk.at].owner]
  /\ UNCHANGED <<reader, limited, gen, ownerGen, free, line, target, attempt,
                 result, reported, collected>>

\* The owner is fetched by name; what answers may have another uid, and the
\* walk goes on from the one that answered.
Fetched ==
  /\ walk.pc = "fetching"
  /\ LET seen == Seen(index[walk.at].owner.name)
     IN  /\ index' = [u \in Known \union {seen.uid} |->
                        IF u = seen.uid THEN [type |-> 0, owner |-> seen.owner]
                        ELSE index[u]]
         /\ walk' = [walk EXCEPT !.pc = "walking", !.at = seen.uid]
  /\ UNCHANGED <<reader, limited, gen, ownerGen, free, line, target, attempt,
                 result, reported, collected>>

\* The GET failed, or the owner's kind is unknown to discovery.
NotFetched ==
  /\ walk.pc = "fetching"
  /\ walk' = [walk EXCEPT !.pc = "over", !.warned = TRUE]
  /\ UNCHANGED <<reader, limited, gen, ownerGen, free, line, target, attempt,
                 result, reported, collected, index>>
-----------------------------------------------------------------------------
(***************************************************************************)
(* find_parents_only: the same walk by names, without an index             *)
(***************************************************************************)

BeginClimb(o) ==
  /\ reader = "parents" /\ walk.pc = "off"
  /\ walk' = [walk EXCEPT !.pc = "climbing", !.at = o]
  /\ UNCHANGED <<reader, limited, gen, ownerGen, free, line, target, attempt,
                 result, reported, collected, index>>

\* index is the chain here, an entry for each object that was read.
Climb ==
  /\ walk.pc = "climbing"
  /\ LET seen == Seen(walk.at)
     IN  IF seen.uid \in walk.visited
         THEN /\ walk' = [walk EXCEPT !.pc = "over"]
              /\ UNCHANGED index
         ELSE /\ index' = [u \in Known \union {seen.uid} |->
                             IF u = seen.uid
                             THEN [type |-> 0, owner |-> seen.owner]
                             ELSE index[u]]
              /\ walk' = [walk EXCEPT
                   !.visited = @ \union {seen.uid},
                   !.pc = IF seen.owner = NoOwner THEN "over" ELSE "climbing",
                   !.at = IF seen.owner = NoOwner THEN walk.at ELSE seen.owner.name]
  /\ UNCHANGED <<reader, limited, gen, ownerGen, free, line, target, attempt,
                 result, reported, collected>>

\* A failure on the first object is an error, on an owner a warning.
ClimbFails ==
  /\ walk.pc = "climbing"
  /\ walk' = [walk EXCEPT !.pc = "over", !.warned = TRUE]
  /\ UNCHANGED <<reader, limited, gen, ownerGen, free, line, target, attempt,
                 result, reported, collected, index>>
-----------------------------------------------------------------------------
\* The cluster: an object is deleted and created again, for the owner its
\* name has now.
Recreate(o) ==
  /\ o \in Recreatable /\ gen[o] < MaxGen /\ walk.pc # "over"
  /\ gen' = [gen EXCEPT ![o] = @ + 1]
  /\ ownerGen' = [ownerGen EXCEPT
       ![o] = IF OwnerOf[o] = NoOwner THEN @ ELSE gen'[OwnerOf[o]]]
  /\ UNCHANGED <<reader, limited, free, line, target, attempt, result, reported,
                 collected, index, walk>>

TargetStep(i) ==
  \/ Start(i) \/ TakePermit(i) \/ ListArrives(i) \/ ListSleeps(i) \/ Wake(i)
  \/ ListFails(i)

WalkStep ==
  \/ \E i \in Targets : Collect(i)
  \/ Assemble
  \/ \E u \in Known : BeginWalk(u)
  \/ WalkOn \/ Fetched \/ NotFetched
  \/ \E o \in Objects : BeginClimb(o)
  \/ Climb \/ ClimbFails

ScanNext ==
  \/ \E i \in Targets : TargetStep(i)
  \/ WalkStep
  \/ \E o \in Objects : Recreate(o)

\* Every future is polled, every request is answered or times out.
ScanFairness ==
  WF_scanVars(WalkStep) /\ \A i \in Targets : WF_scanVars(TargetStep(i))

ScanSpec == ScanInit /\ [][ScanNext]_scanVars /\ ScanFairness
-----------------------------------------------------------------------------
(***************************************************************************)
(* Properties                                                              *)
(***************************************************************************)

ScanTypeOK ==
  /\ reader \in {"index", "snapshot", "parents"} /\ limited \in BOOLEAN
  /\ free \in 0..ScanPermits
  /\ line \in Seq(Targets)
  /\ target \in [Targets -> {"waiting", "queued", "listing", "sleeping", "done"}]
  /\ attempt \in [Targets -> 0..MaxRetries]
  /\ walk.pc \in {"off", "ready", "walking", "fetching", "climbing", "over"}

\* scanner.rs "same-UID aliases are always inserted in the same order": which
\* type an object listed by two of them is put under depends on what was
\* answered, never on who answered first.
AliasesAreStable ==
  Lists /\ index # <<>> =>
    \A u \in ReadUids :
      index[u].type \in {0, (IF reader = "index" THEN Max(ListedBy(u))
                             ELSE Min(ListedBy(u)))}

\* What a scan does not contain was reported: when the results are together
\* every type that failed is in the warnings once, and nothing else is.
NothingMissingSilently ==
  Len(collected) = Len(Found) =>
    /\ \A i \in Targets : ~Answered(i) <=> \E n \in DOMAIN reported : reported[n] = i
    /\ Len(reported) = Cardinality({i \in Targets : ~Answered(i)})

\* A walk that ended without a warning has left no gap: every object it went
\* through is in the index, and each of their owners was gone through too, as
\* the uid that is named or as what bears its name now.
WalkLeavesNoGap ==
  walk.pc = "over" /\ ~walk.warned =>
    \A u \in walk.visited :
      /\ u \in Known
      /\ index[u].owner = NoOwner
           \/ \E v \in walk.visited : v.name = index[u].owner.name

\* A reader comes to an end, whatever is refused or recreated meanwhile, and
\* around a cycle of owners too.
Reading == walk.pc # "off" \/ \E i \in Targets : target[i] # "waiting"
ScanEnds == Reading ~> (walk.pc = "over" \/ (walk.pc = "ready" /\ Known = {}))
=============================================================================
