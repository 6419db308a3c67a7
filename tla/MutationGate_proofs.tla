------------------------ MODULE MutationGate_proofs ------------------------
(***************************************************************************)
(* The safety of the mutation gate for any number of tasks and permits.    *)
(* The argument is a count: a permit is in the semaphore, with a task, or  *)
(* with the drain.  Whoever has drained the semaphore therefore knows that *)
(* no task holds a permit, and the second read of `open` keeps it so.      *)
(***************************************************************************)
EXTENDS MutationGate, FiniteSetTheorems, TLAPS

Drained == IF drain = "holding" THEN MaxPermits ELSE 0

\* Permits are neither lost nor made: those in the semaphore, those the tasks
\* hold and those the drain holds add up to what new() created.
PermitsConserved ==
  /\ avail \in Nat
  /\ avail + Cardinality(Holders) + Drained = MaxPermits

\* `open` is false exactly from the store in close_and_drain to the one in
\* reopen.
OpenIsIdle == open <=> drain \in {"idle", "reopening"}

\* From the moment the drain holds every permit no task is inside a mutation.
NobodyInside ==
  drain \in {"holding", "drained"} => \A t \in Tasks : pc[t] \notin Admitted

\* Only the task that issued a call and has not checkpointed it is pending.
PendingIsIssued == \A t \in Tasks : outcome[t] = "pending" => pc[t] = "issued"

\* The type invariant, cut into the parts that different steps disturb.
GateTypes ==
  /\ open \in BOOLEAN /\ cancelled \in BOOLEAN
  /\ drain \in {"idle", "closed", "cancel sent", "waiting", "holding",
                "drained", "reopening"}

QueueType == queue \in Seq(Tasks \union {Closer})

TaskTypes ==
  /\ pc \in [Tasks -> Holding \union {"idle", "checked", "waiting"}]
  /\ outcome \in [Tasks -> {"none", "pending", "durable", "write failed"}]

\* A permit count that is right, a gate whose flag says where the drain is,
\* and tasks that are where the drain thinks they are.
IInv ==
  /\ GateTypes /\ QueueType /\ TaskTypes
  /\ PermitsConserved
  /\ OpenIsIdle /\ NobodyInside /\ PendingIsIssued
-----------------------------------------------------------------------------
\* What the semaphore's queue holds after a waiter joins or is served.
LEMMA QueueJoins ==
  ASSUME QueueType, NEW w \in Tasks \union {Closer}, queue' = Append(queue, w)
  PROVE  QueueType'
BY DEF QueueType

LEMMA QueueServed ==
  ASSUME QueueType, queue # <<>>, queue' = Tail(queue)
  PROVE  QueueType'
BY DEF QueueType

LEMMA PermitsPositive == MaxPermits \in Nat /\ MaxPermits >= 1
BY GateAssumption DEF GateAssumption

\* The set of holders is finite, and empty exactly when its count is zero.
LEMMA HoldersCount ==
  /\ IsFiniteSet(Holders)
  /\ Cardinality(Holders) \in Nat
  /\ Cardinality(Holders) = 0 => Holders = {}
BY GateAssumption, FS_Subset, FS_CardinalityType, FS_EmptySet DEF GateAssumption, Holders

\* A task that moves to a place where it holds a permit adds one to the count.
LEMMA HoldersGain ==
  ASSUME NEW t \in Tasks, TaskTypes, pc[t] \notin Holding,
         NEW to \in Holding, pc' = [pc EXCEPT ![t] = to]
  PROVE  Cardinality(Holders') = Cardinality(Holders) + 1
<1>1. Holders' = Holders \union {t} /\ t \notin Holders
  BY DEF Holders, TaskTypes
<1> QED  BY <1>1, HoldersCount, FS_AddElement

\* A task that leaves takes one from the count, which was not zero.
LEMMA HoldersLoss ==
  ASSUME NEW t \in Tasks, TaskTypes, pc[t] \in Holding,
         NEW to, to \notin Holding, pc' = [pc EXCEPT ![t] = to]
  PROVE  /\ Cardinality(Holders') = Cardinality(Holders) - 1
         /\ Cardinality(Holders) >= 1
<1>1. Holders' = Holders \ {t} /\ t \in Holders
  BY DEF Holders, TaskTypes
<1>2. Cardinality(Holders') = Cardinality(Holders) - 1
  BY <1>1, HoldersCount, FS_RemoveElement
<1>3. Cardinality(Holders) # 0
  BY <1>1, HoldersCount
<1> QED  BY <1>2, <1>3, HoldersCount

\* A task that keeps what it has, or keeps having nothing, changes no count.
LEMMA HoldersSame ==
  ASSUME NEW t \in Tasks, TaskTypes, NEW to,
         pc[t] \in Holding <=> to \in Holding, pc' = [pc EXCEPT ![t] = to]
  PROVE  Holders' = Holders
BY DEF Holders, TaskTypes
-----------------------------------------------------------------------------
LEMMA InitIInv == Init => IInv
<1> SUFFICES ASSUME Init PROVE IInv
  OBVIOUS
<1>1. Holders = {} /\ Cardinality(Holders) = 0
  BY FS_EmptySet DEF Init, Holders, Holding
<1>2. GateTypes
  BY DEF Init, GateTypes
<1>3. QueueType /\ TaskTypes
  BY DEF Init, QueueType, TaskTypes
<1>4. PermitsConserved
  BY <1>1, PermitsPositive DEF Init, PermitsConserved, Drained
<1>5. OpenIsIdle /\ NobodyInside /\ PendingIsIssued
  BY DEF Init, OpenIsIdle, NobodyInside, PendingIsIssued
<1> QED
  BY <1>2, <1>3, <1>4, <1>5 DEF IInv

\* Every step of a task keeps the inductive invariant.
LEMMA TaskStepIInv ==
  ASSUME NEW t \in Tasks, IInv, TaskStep(t)
  PROVE  IInv'
<1>1. CASE FastCheck(t)
  <2>1. QueueType' /\ GateTypes'
    <3>1. QueueType'
      BY <1>1, QueueJoins, QueueServed DEF FastCheck, Goto, gateVars, IInv, QueueType
    <3>2. GateTypes'
      BY <1>1 DEF FastCheck, Goto, gateVars, IInv, GateTypes
    <3> QED  BY <3>1, <3>2
  <2>2. TaskTypes'
    BY <1>1 DEF FastCheck, Goto, gateVars, IInv, TaskTypes, Holding
  <2>3. Holders' = Holders
    BY <1>1, HoldersSame DEF FastCheck, Goto, Holding, IInv
  <2>4. PermitsConserved'
    BY <1>1, <2>3, HoldersCount, PermitsPositive
    DEF FastCheck, Goto, gateVars, IInv, PermitsConserved, Drained
  <2>5. OpenIsIdle' /\ PendingIsIssued'
    <3>1. OpenIsIdle'
      BY <1>1 DEF FastCheck, Goto, gateVars, IInv, OpenIsIdle
    <3>2. PendingIsIssued'
      BY <1>1 DEF FastCheck, Goto, gateVars, IInv, TaskTypes, PendingIsIssued
    <3> QED  BY <3>1, <3>2
  <2>6. NobodyInside'
    BY <1>1 DEF FastCheck, Goto, gateVars, IInv, TaskTypes, OpenIsIdle, NobodyInside, Admitted
  <2> QED  BY <2>1, <2>2, <2>4, <2>5, <2>6 DEF IInv
<1>2. CASE Acquire(t)
  <2>1. QueueType' /\ GateTypes'
    <3>1. QueueType'
      BY <1>2, QueueJoins, QueueServed DEF Acquire, Goto, gateVars, IInv, QueueType
    <3>2. GateTypes'
      BY <1>2 DEF Acquire, Goto, gateVars, IInv, GateTypes
    <3> QED  BY <3>1, <3>2
  <2>2. TaskTypes'
    BY <1>2 DEF Acquire, Goto, gateVars, IInv, TaskTypes, Holding
  <2>3. \/ avail' = avail /\ Holders' = Holders
        \/ /\ avail >= 1 /\ avail' = avail - 1
           /\ Cardinality(Holders') = Cardinality(Holders) + 1
    BY <1>2, HoldersSame, HoldersGain DEF Acquire, Goto, Holding, IInv
  <2>4. PermitsConserved'
    BY <1>2, <2>3, HoldersCount, PermitsPositive
    DEF Acquire, Goto, gateVars, IInv, PermitsConserved, Drained
  <2>5. OpenIsIdle' /\ PendingIsIssued'
    <3>1. OpenIsIdle'
      BY <1>2 DEF Acquire, Goto, gateVars, IInv, OpenIsIdle
    <3>2. PendingIsIssued'
      BY <1>2 DEF Acquire, Goto, gateVars, IInv, TaskTypes, PendingIsIssued
    <3> QED  BY <3>1, <3>2
  <2>6. NobodyInside'
    BY <1>2 DEF Acquire, Goto, gateVars, IInv, TaskTypes, OpenIsIdle, NobodyInside, Admitted
  <2> QED  BY <2>1, <2>2, <2>4, <2>5, <2>6 DEF IInv
<1>3. CASE GrantTask(t)
  <2>1. QueueType' /\ GateTypes'
    <3>1. QueueType'
      BY <1>3, QueueJoins, QueueServed DEF GrantTask, Goto, gateVars, IInv, QueueType
    <3>2. GateTypes'
      BY <1>3 DEF GrantTask, Goto, gateVars, IInv, GateTypes
    <3> QED  BY <3>1, <3>2
  <2>2. TaskTypes'
    BY <1>3 DEF GrantTask, Goto, gateVars, IInv, TaskTypes, Holding
  <2>3. Cardinality(Holders') = Cardinality(Holders) + 1
    BY <1>3, HoldersGain DEF GrantTask, Goto, Holding, IInv
  <2>4. PermitsConserved'
    BY <1>3, <2>3, HoldersCount, PermitsPositive
    DEF GrantTask, Goto, gateVars, IInv, PermitsConserved, Drained
  <2>5. OpenIsIdle' /\ PendingIsIssued'
    <3>1. OpenIsIdle'
      BY <1>3 DEF GrantTask, Goto, gateVars, IInv, OpenIsIdle
    <3>2. PendingIsIssued'
      BY <1>3 DEF GrantTask, Goto, gateVars, IInv, TaskTypes, PendingIsIssued
    <3> QED  BY <3>1, <3>2
  <2>6. NobodyInside'
    BY <1>3 DEF GrantTask, Goto, gateVars, IInv, TaskTypes, OpenIsIdle, NobodyInside, Admitted
  <2> QED  BY <2>1, <2>2, <2>4, <2>5, <2>6 DEF IInv
<1>4. CASE DoubleCheck(t)
  <2>1. QueueType' /\ GateTypes'
    <3>1. QueueType'
      BY <1>4, QueueJoins, QueueServed DEF DoubleCheck, Goto, gateVars, IInv, QueueType
    <3>2. GateTypes'
      BY <1>4 DEF DoubleCheck, Goto, gateVars, IInv, GateTypes
    <3> QED  BY <3>1, <3>2
  <2>2. TaskTypes'
    BY <1>4 DEF DoubleCheck, Goto, gateVars, IInv, TaskTypes, Holding
  <2>3. \/ avail' = avail /\ Holders' = Holders
        \/ /\ avail' = avail + 1 /\ Cardinality(Holders) >= 1
           /\ Cardinality(Holders') = Cardinality(Holders) - 1
    BY <1>4, HoldersSame, HoldersLoss DEF DoubleCheck, Goto, gateVars, Holding, IInv
  <2>4. PermitsConserved'
    BY <1>4, <2>3, HoldersCount, PermitsPositive
    DEF DoubleCheck, Goto, gateVars, IInv, PermitsConserved, Drained
  <2>5. OpenIsIdle' /\ PendingIsIssued'
    <3>1. OpenIsIdle'
      BY <1>4 DEF DoubleCheck, Goto, gateVars, IInv, OpenIsIdle
    <3>2. PendingIsIssued'
      BY <1>4 DEF DoubleCheck, Goto, gateVars, IInv, TaskTypes, PendingIsIssued
    <3> QED  BY <3>1, <3>2
  <2>6. NobodyInside'
    BY <1>4 DEF DoubleCheck, Goto, gateVars, IInv, TaskTypes, OpenIsIdle, NobodyInside, Admitted
  <2> QED  BY <2>1, <2>2, <2>4, <2>5, <2>6 DEF IInv
<1>5. CASE Issue(t)
  <2>1. QueueType' /\ GateTypes'
    <3>1. QueueType'
      BY <1>5, QueueJoins, QueueServed DEF Issue, Goto, gateVars, IInv, QueueType
    <3>2. GateTypes'
      BY <1>5 DEF Issue, Goto, gateVars, IInv, GateTypes
    <3> QED  BY <3>1, <3>2
  <2>2. TaskTypes'
    BY <1>5 DEF Issue, Goto, gateVars, IInv, TaskTypes, Holding
  <2>3. Holders' = Holders
    BY <1>5, HoldersSame DEF Issue, Goto, Holding, IInv
  <2>4. PermitsConserved'
    BY <1>5, <2>3, HoldersCount, PermitsPositive
    DEF Issue, Goto, gateVars, IInv, PermitsConserved, Drained
  <2>5. OpenIsIdle' /\ PendingIsIssued'
    <3>1. OpenIsIdle'
      BY <1>5 DEF Issue, Goto, gateVars, IInv, OpenIsIdle
    <3>2. PendingIsIssued'
      BY <1>5 DEF Issue, Goto, gateVars, IInv, TaskTypes, PendingIsIssued
    <3> QED  BY <3>1, <3>2
  <2>6. NobodyInside'
    BY <1>5 DEF Issue, Goto, gateVars, IInv, TaskTypes, OpenIsIdle, NobodyInside, Admitted
  <2> QED  BY <2>1, <2>2, <2>4, <2>5, <2>6 DEF IInv
<1>6. CASE Checkpoint(t)
  <2>1. QueueType' /\ GateTypes'
    <3>1. QueueType'
      BY <1>6, QueueJoins, QueueServed DEF Checkpoint, Goto, gateVars, IInv, QueueType
    <3>2. GateTypes'
      BY <1>6 DEF Checkpoint, Goto, gateVars, IInv, GateTypes
    <3> QED  BY <3>1, <3>2
  <2>2. TaskTypes'
    BY <1>6 DEF Checkpoint, Goto, gateVars, IInv, TaskTypes, Holding
  <2>3. Holders' = Holders
    BY <1>6, HoldersSame DEF Checkpoint, Goto, Holding, IInv
  <2>4. PermitsConserved'
    BY <1>6, <2>3, HoldersCount, PermitsPositive
    DEF Checkpoint, Goto, gateVars, IInv, PermitsConserved, Drained
  <2>5. OpenIsIdle' /\ PendingIsIssued'
    <3>1. OpenIsIdle'
      BY <1>6 DEF Checkpoint, Goto, gateVars, IInv, OpenIsIdle
    <3>2. PendingIsIssued'
      BY <1>6 DEF Checkpoint, Goto, gateVars, IInv, TaskTypes, PendingIsIssued
    <3> QED  BY <3>1, <3>2
  <2>6. NobodyInside'
    BY <1>6 DEF Checkpoint, Goto, gateVars, IInv, TaskTypes, OpenIsIdle, NobodyInside, Admitted
  <2> QED  BY <2>1, <2>2, <2>4, <2>5, <2>6 DEF IInv
<1>7. CASE DropPermit(t)
  <2>1. QueueType' /\ GateTypes'
    <3>1. QueueType'
      BY <1>7, QueueJoins, QueueServed DEF DropPermit, Goto, gateVars, IInv, QueueType
    <3>2. GateTypes'
      BY <1>7 DEF DropPermit, Goto, gateVars, IInv, GateTypes
    <3> QED  BY <3>1, <3>2
  <2>2. TaskTypes'
    BY <1>7 DEF DropPermit, Goto, gateVars, IInv, TaskTypes, Holding
  <2>3. Cardinality(Holders') = Cardinality(Holders) - 1 /\ Cardinality(Holders) >= 1
    BY <1>7, HoldersLoss DEF DropPermit, Goto, Holding, IInv
  <2>4. PermitsConserved'
    BY <1>7, <2>3, HoldersCount, PermitsPositive
    DEF DropPermit, Goto, gateVars, IInv, PermitsConserved, Drained
  <2>5. OpenIsIdle' /\ PendingIsIssued'
    <3>1. OpenIsIdle'
      BY <1>7 DEF DropPermit, Goto, gateVars, IInv, OpenIsIdle
    <3>2. PendingIsIssued'
      BY <1>7 DEF DropPermit, Goto, gateVars, IInv, TaskTypes, PendingIsIssued
    <3> QED  BY <3>1, <3>2
  <2>6. NobodyInside'
    BY <1>7 DEF DropPermit, Goto, gateVars, IInv, TaskTypes, OpenIsIdle, NobodyInside, Admitted
  <2> QED  BY <2>1, <2>2, <2>4, <2>5, <2>6 DEF IInv
<1> QED  BY <1>1, <1>2, <1>3, <1>4, <1>5, <1>6, <1>7 DEF TaskStep

\* The drain that gets all the permits finds no holder.
LEMMA DrainFindsNobody ==
  ASSUME IInv, avail = MaxPermits
  PROVE  drain # "holding" /\ Holders = {} /\ Cardinality(Holders) = 0
<1>1. Cardinality(Holders) = 0 /\ drain # "holding"
  BY HoldersCount, PermitsPositive DEF IInv, PermitsConserved, Drained
<1> QED  BY <1>1, HoldersCount

\* Every step of the closer keeps the inductive invariant.
LEMMA CloserStepIInv ==
  ASSUME IInv, CloserStep
  PROVE  IInv'
<1>0. Holders' = Holders
  BY DEF CloserStep, Close, SendCancel, DrainAcquire, GrantDrain, DropDrain, Reopen,
         ResetCancel, Holders
<1>1. CASE Close
  <2>1. QueueType' /\ GateTypes' /\ TaskTypes'
    BY <1>1 DEF Close, IInv, QueueType, GateTypes, TaskTypes
  <2>2. PermitsConserved'
    BY <1>1, <1>0, HoldersCount, PermitsPositive
    DEF Close, IInv, PermitsConserved, Drained
  <2>3. OpenIsIdle' /\ PendingIsIssued'
    BY <1>1 DEF Close, IInv, OpenIsIdle, PendingIsIssued
  <2>4. NobodyInside'
    BY <1>1 DEF Close, IInv, NobodyInside
  <2> QED  BY <2>1, <2>2, <2>3, <2>4 DEF IInv
<1>2. CASE SendCancel
  <2>1. QueueType' /\ GateTypes' /\ TaskTypes'
    BY <1>2 DEF SendCancel, IInv, QueueType, GateTypes, TaskTypes
  <2>2. PermitsConserved'
    BY <1>2, <1>0, HoldersCount, PermitsPositive
    DEF SendCancel, IInv, PermitsConserved, Drained
  <2>3. OpenIsIdle' /\ PendingIsIssued'
    BY <1>2 DEF SendCancel, IInv, OpenIsIdle, PendingIsIssued
  <2>4. NobodyInside'
    BY <1>2 DEF SendCancel, IInv, NobodyInside
  <2> QED  BY <2>1, <2>2, <2>3, <2>4 DEF IInv
<1>3. CASE DrainAcquire
  <2>1. QueueType'
    BY <1>3, QueueJoins DEF DrainAcquire, IInv, QueueType
  <2>2. GateTypes' /\ TaskTypes'
    BY <1>3 DEF DrainAcquire, IInv, GateTypes, TaskTypes
  <2>3. PermitsConserved' /\ NobodyInside'
    <3>1. CASE avail = MaxPermits
      <4>1. drain # "holding" /\ Holders = {} /\ Cardinality(Holders) = 0
        BY <3>1, DrainFindsNobody
      <4>2. PermitsConserved'
        <5>1. Cardinality(Holders') = 0
          BY <1>0, <4>1
        <5>2. CASE queue = <<>>
          <6>0. ~(queue # <<>> \/ avail < MaxPermits)
            BY <3>1, <5>2, PermitsPositive
          <6>1. avail' = 0 /\ Drained' = MaxPermits
            BY <1>3, <6>0 DEF DrainAcquire, Drained
          <6> QED  BY <5>1, <6>1, PermitsPositive DEF PermitsConserved
        <5>3. CASE queue # <<>>
          <6>1. avail' = MaxPermits /\ Drained' = 0
            BY <1>3, <3>1, <5>3 DEF DrainAcquire, Drained
          <6> QED  BY <5>1, <6>1, PermitsPositive DEF PermitsConserved
        <5> QED  BY <5>2, <5>3
      <4>3. NobodyInside'
        BY <1>3, <4>1 DEF DrainAcquire, NobodyInside, Holders, Holding, Admitted
      <4> QED  BY <4>2, <4>3
    <3>2. CASE avail # MaxPermits
      <4>1. PermitsConserved'
        BY <1>0, <1>3, <3>2 DEF DrainAcquire, IInv, PermitsConserved, Drained
      <4>2. NobodyInside'
        BY <1>3, <3>2 DEF DrainAcquire, NobodyInside
      <4> QED  BY <4>1, <4>2
    <3> QED  BY <3>1, <3>2
  <2>4. OpenIsIdle'
    BY <1>3 DEF DrainAcquire, IInv, OpenIsIdle
  <2>5. PendingIsIssued'
    BY <1>3 DEF DrainAcquire, IInv, PendingIsIssued
  <2> QED  BY <2>1, <2>2, <2>3, <2>4, <2>5 DEF IInv
<1>4. CASE GrantDrain
  <2>2. QueueType'
    BY <1>4, QueueServed DEF GrantDrain, IInv
  <2>3. GateTypes' /\ TaskTypes'
    BY <1>4 DEF GrantDrain, IInv, GateTypes, TaskTypes
  <2>4. drain # "holding" /\ Holders = {} /\ Cardinality(Holders) = 0
    BY <1>4, DrainFindsNobody DEF GrantDrain
  <2>5. PermitsConserved'
    BY <1>0, <1>4, <2>4, PermitsPositive DEF GrantDrain, IInv, PermitsConserved, Drained
  <2>6. NobodyInside'
    BY <1>4, <2>4 DEF GrantDrain, NobodyInside, Holders, Holding, Admitted
  <2>7. OpenIsIdle'
    BY <1>4 DEF GrantDrain, IInv, OpenIsIdle
  <2>8. PendingIsIssued'
    BY <1>4 DEF GrantDrain, IInv, PendingIsIssued
  <2> QED  BY <2>2, <2>3, <2>5, <2>6, <2>7, <2>8 DEF IInv
<1>5. CASE DropDrain
  <2>1. QueueType' /\ GateTypes' /\ TaskTypes'
    BY <1>5 DEF DropDrain, IInv, QueueType, GateTypes, TaskTypes
  <2>2. PermitsConserved'
    BY <1>5, <1>0, HoldersCount, PermitsPositive
    DEF DropDrain, IInv, PermitsConserved, Drained
  <2>3. OpenIsIdle' /\ PendingIsIssued'
    BY <1>5 DEF DropDrain, IInv, OpenIsIdle, PendingIsIssued
  <2>4. NobodyInside'
    BY <1>5 DEF DropDrain, IInv, NobodyInside
  <2> QED  BY <2>1, <2>2, <2>3, <2>4 DEF IInv
<1>6. CASE Reopen
  <2>1. QueueType' /\ GateTypes' /\ TaskTypes'
    BY <1>6 DEF Reopen, IInv, QueueType, GateTypes, TaskTypes
  <2>2. PermitsConserved'
    BY <1>6, <1>0, HoldersCount, PermitsPositive
    DEF Reopen, IInv, PermitsConserved, Drained
  <2>3. OpenIsIdle' /\ PendingIsIssued'
    BY <1>6 DEF Reopen, IInv, OpenIsIdle, PendingIsIssued
  <2>4. NobodyInside'
    BY <1>6 DEF Reopen, IInv, NobodyInside
  <2> QED  BY <2>1, <2>2, <2>3, <2>4 DEF IInv
<1>7. CASE ResetCancel
  <2>1. QueueType' /\ GateTypes' /\ TaskTypes'
    BY <1>7 DEF ResetCancel, IInv, QueueType, GateTypes, TaskTypes
  <2>2. PermitsConserved'
    BY <1>7, <1>0, HoldersCount, PermitsPositive
    DEF ResetCancel, IInv, PermitsConserved, Drained
  <2>3. OpenIsIdle' /\ PendingIsIssued'
    BY <1>7 DEF ResetCancel, IInv, OpenIsIdle, PendingIsIssued
  <2>4. NobodyInside'
    BY <1>7 DEF ResetCancel, IInv, NobodyInside
  <2> QED  BY <2>1, <2>2, <2>3, <2>4 DEF IInv
<1> QED  BY <1>1, <1>2, <1>3, <1>4, <1>5, <1>6, <1>7 DEF CloserStep

\* The inductive invariant holds throughout.
LEMMA StutterIInv == ASSUME IInv, UNCHANGED vars PROVE IInv'
<1>1. Holders' = Holders
  BY DEF vars, Holders
<1>2. PermitsConserved'
  BY <1>1 DEF vars, IInv, PermitsConserved, Drained
<1>3. GateTypes' /\ QueueType' /\ TaskTypes'
  BY DEF vars, IInv, GateTypes, QueueType, TaskTypes
<1>4. OpenIsIdle' /\ NobodyInside' /\ PendingIsIssued'
  BY DEF vars, IInv, OpenIsIdle, NobodyInside, PendingIsIssued
<1> QED  BY <1>2, <1>3, <1>4 DEF IInv

LEMMA StepIInv == IInv /\ [Next]_vars => IInv'
BY TaskStepIInv, CloserStepIInv, StutterIInv DEF Next

\* The inductive invariant holds in every reachable state.
THEOREM GateInvariant == Spec => []IInv
BY InitIInv, StepIInv, PTL DEF Spec
-----------------------------------------------------------------------------
\* The state keeps its types; in particular the semaphore never holds more
\* permits than it was created with.
THEOREM GateTypeOK == Spec => []TypeOK
<1>1. IInv => TypeOK
  <2> SUFFICES ASSUME IInv PROVE TypeOK
    OBVIOUS
  <2>1. avail \in 0..MaxPermits
    BY HoldersCount, PermitsPositive DEF IInv, PermitsConserved, Drained
  <2> QED
    BY <2>1 DEF IInv, TypeOK, GateTypes, QueueType, TaskTypes
<1> QED  BY <1>1, GateInvariant, PTL

\* When close_and_drain returns, no mutation is running and none waits for
\* its checkpoint.
THEOREM GateDrainedIsSettled == Spec => []DrainedIsSettled
<1>1. IInv => DrainedIsSettled
  BY DEF IInv, NobodyInside, PendingIsIssued, DrainedIsSettled, Admitted
<1> QED  BY <1>1, GateInvariant, PTL

\* While the gate is closed no step admits a mutation: the only way in is the
\* second check, and it reads `open`.
THEOREM GateNoAdmissionWhileClosed == Spec => NoAdmissionWhileClosed
<1> DEFINE NoEntry ==
      ~open => \A t \in Tasks : pc'[t] \in Admitted => pc[t] \in Admitted
<1>1. IInv /\ [Next]_vars => NoEntry
  <2> SUFFICES ASSUME IInv, [Next]_vars, ~open, NEW t \in Tasks,
                      pc'[t] \in Admitted, pc[t] \notin Admitted
               PROVE  FALSE
    OBVIOUS
  <2>1. CASE CloserStep \/ UNCHANGED vars
    BY <2>1 DEF CloserStep, Close, SendCancel, DrainAcquire, GrantDrain, DropDrain, Reopen,
       ResetCancel, vars
  <2>2. ASSUME NEW u \in Tasks, TaskStep(u) PROVE FALSE
    <3>1. CASE u = t
      BY <2>2, <3>1 DEF TaskStep, FastCheck, Acquire, GrantTask, DoubleCheck, Issue, Checkpoint,
         DropPermit, Goto, IInv, TaskTypes, Admitted
    <3>2. CASE u # t
      BY <2>2, <3>2 DEF TaskStep, FastCheck, Acquire, GrantTask, DoubleCheck, Issue, Checkpoint,
         DropPermit, Goto, IInv, TaskTypes
    <3> QED  BY <3>1, <3>2
  <2> QED  BY <2>1, <2>2 DEF Next
<1>2. Spec => [][NoEntry]_vars
  BY <1>1, GateInvariant, PTL DEF Spec
<1> QED  BY <1>2 DEF NoAdmissionWhileClosed
-----------------------------------------------------------------------------
(***************************************************************************)
(* The gate implements PauseContract, step by step.                        *)
(***************************************************************************)

Inflight == {t \in Tasks : pc[t] \in Admitted}

Phase == IF drain \in {"idle", "reopening"} THEN "running"
         ELSE IF drain \in {"holding", "drained"} THEN "paused"
         ELSE "pausing"

LEMMA InitImplements == Init => Contract!ContractInit
BY DEF Init, Contract!ContractInit, Admitted

\* A task's step admits it, settles it, or is invisible from outside.
LEMMA TaskStepImplements ==
  ASSUME NEW t \in Tasks, IInv, TaskStep(t)
  PROVE  [Contract!ContractNext]_(Contract!contractVars)
<1>1. Phase' = Phase
  BY DEF TaskStep, FastCheck, Acquire, GrantTask, DoubleCheck, Issue, Checkpoint, DropPermit,
     gateVars, Phase
<1>2. CASE DoubleCheck(t) /\ open
  <2>1. Inflight' = Inflight \union {t} /\ t \notin Inflight
    BY <1>2 DEF DoubleCheck, Goto, IInv, TaskTypes, Inflight, Admitted
  <2>2. Phase = "running"
    BY <1>2 DEF IInv, OpenIsIdle, Phase
  <2> QED
    BY <1>1, <2>1, <2>2 DEF Contract!ContractNext, Contract!Admit, Phase, Inflight
<1>3. CASE DropPermit(t)
  <2>1. Inflight' = Inflight \ {t} /\ t \in Inflight
    BY <1>3 DEF DropPermit, Goto, IInv, TaskTypes, Inflight, Admitted
  <2> QED
    BY <1>1, <2>1 DEF Contract!ContractNext, Contract!Settle, Phase, Inflight
<1>4. CASE FastCheck(t) \/ Acquire(t) \/ GrantTask(t) \/ Issue(t) \/ Checkpoint(t)
  <2>1. Inflight' = Inflight
    BY <1>4 DEF FastCheck, Acquire, GrantTask, Issue, Checkpoint, Goto, IInv,
       TaskTypes, Inflight, Admitted
  <2> QED
    BY <1>1, <2>1 DEF Contract!contractVars, Phase, Inflight
<1>5. CASE DoubleCheck(t) /\ ~open
  <2>1. Inflight' = Inflight
    BY <1>5 DEF DoubleCheck, Goto, IInv, TaskTypes, Inflight, Admitted
  <2> QED
    BY <1>1, <2>1 DEF Contract!contractVars, Phase, Inflight
<1> QED
  <2>1. CASE DoubleCheck(t)
    BY <1>2, <1>5, <2>1
  <2> QED  BY <1>3, <1>4, <2>1 DEF TaskStep

\* The drain reports the pause when it holds every permit; nobody is inside.
LEMMA CloserStepImplements ==
  ASSUME IInv, CloserStep
  PROVE  [Contract!ContractNext]_(Contract!contractVars)
<1>1. Inflight' = Inflight
  BY DEF CloserStep, Close, SendCancel, DrainAcquire, GrantDrain, DropDrain, Reopen,
     ResetCancel, Inflight
<1>2. CASE Close
  BY <1>1, <1>2 DEF Close, Contract!ContractNext, Contract!AskPause, Inflight
<1>3. CASE DrainAcquire \/ GrantDrain
  <2>1. CASE drain' = "holding"
    <3>1. Inflight = {}
      BY <1>3, <2>1, DrainFindsNobody
      DEF DrainAcquire, GrantDrain, Inflight, Holders, Holding, Admitted
    <3> QED
      BY <1>1, <1>3, <2>1, <3>1
      DEF DrainAcquire, GrantDrain, Contract!ContractNext, Contract!Paused, Inflight
  <2>2. CASE drain' # "holding"
    BY <1>1, <1>3, <2>2 DEF DrainAcquire, GrantDrain, Contract!contractVars, Inflight
  <2> QED  BY <2>1, <2>2
<1>4. CASE Reopen
  BY <1>1, <1>4 DEF Reopen, Contract!ContractNext, Contract!Unpause, Inflight
<1>5. CASE SendCancel \/ DropDrain \/ ResetCancel
  BY <1>1, <1>5 DEF SendCancel, DropDrain, ResetCancel, Contract!contractVars, Inflight
<1> QED  BY <1>2, <1>3, <1>4, <1>5 DEF CloserStep

\* Seen from outside, the gate is a pausable run: it admits mutations only
\* while running and reports the pause only with nothing in flight.
THEOREM GateImplementsContract == Spec => ImplementsContract
<1>1. IInv /\ [Next]_vars => [Contract!ContractNext]_(Contract!contractVars)
  <2> SUFFICES ASSUME IInv, [Next]_vars
               PROVE  [Contract!ContractNext]_(Contract!contractVars)
    OBVIOUS
  <2>1. CASE UNCHANGED vars
    BY <2>1 DEF vars, Contract!contractVars
  <2> QED
    BY <2>1, TaskStepImplements, CloserStepImplements DEF Next
<1> QED
  BY <1>1, InitImplements, GateInvariant, PTL DEF Spec, ImplementsContract, Contract!ContractSpec
=============================================================================
