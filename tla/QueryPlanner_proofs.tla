------------------------ MODULE QueryPlanner_proofs ------------------------
(***************************************************************************)
(* The safety of the query planner for any consumers, queries, page counts *)
(* and number of permits.  A key has at most one initialiser, and none     *)
(* once its cell is set; what the cell and the answers hold is what one    *)
(* request found; each request is charged to a key that was started or to  *)
(* a consumer that was dropped.                                            *)
(***************************************************************************)
EXTENDS QueryPlanner, FiniteSetTheorems, SequenceTheorems, TLAPS

Leading == {"queued"} \union Holding
PCs == {"idle", "counted", "joined", "queued", "answered", "dropped"} \union Holding
Counters == [demands : Nat, hits : Nat, network : Nat, retries : Nat]

StateTypes ==
  /\ requirements \in [Keys -> {None, "Optional", "Required"}]
  /\ flights \subseteq Keys
  /\ leader \in [Keys -> Consumers \union {None}]
  /\ cancelled \in BOOLEAN
  /\ permits \in Nat
  /\ queue \in Seq(Consumers)
  /\ pc \in [Consumers -> PCs]
  /\ counts \in Counters
  /\ cell = [k \in Keys |-> cell[k]] /\ want = [c \in Consumers |-> want[c]]
  /\ call = [c \in Consumers |-> call[c]] /\ answer = [c \in Consumers |-> answer[c]]

\* A consumer that has begun wants one of its demands.
WantsArePlaced ==
  \A c \in Consumers : IF pc[c] = "idle" THEN want[c] = None ELSE want[c] \in Wants[c]

\* The pages before the current one have arrived, and none of them was asked
\* for more often than it may be.
CallOK(k, request) ==
  /\ request \in Call(PageCount[k])
  /\ request.items = [i \in 1..(request.page - 1) |-> i]
  /\ request.retries <= (request.page - 1) * MaxRetries

\* A result is that of a query; "cancelled" is one only after a cancellation.
ResultOK(k, done) ==
  done \in Completed(k) /\ (done.result = Failure("cancelled") => cancelled)

CallsAreSound ==
  \A c \in Consumers :
    /\ pc[c] = "request" => CallOK(Key(c), call[c])
    /\ pc[c] = "finish" => ResultOK(Key(c), call[c])

CellsAreSound ==
  \A k \in Keys : cell[k] # None => ResultOK(k, cell[k]) /\ k \in flights

\* Whoever runs a key's initialiser is its leader, and its cell is empty.
OneLeader ==
  /\ \A c \in Consumers : pc[c] \in Leading =>
       leader[Key(c)] = c /\ cell[Key(c)] = None
  /\ \A c \in Consumers : pc[c] \in {"joined"} \union Leading => Key(c) \in flights

\* An answer is what the cell holds, or that the planner was cancelled.
AnswersAreCells ==
  \A c \in Consumers :
    IF pc[c] = "answered"
    THEN \/ cancelled /\ answer[c] = Failure("cancelled")
         \/ cell[Key(c)] # None /\ answer[c] = cell[Key(c)].result
    ELSE answer[c] = None

\* A key is required exactly if one of those who want it requires it.
RequirementsAreJoined ==
  \A k \in Keys :
    /\ requirements[k] = "Required" <=>
         \E c \in Consumers : want[c] = [key |-> k, req |-> "Required"]

\* Nothing goes on after the flush.
FlushIsLast ==
  ledger # None =>
    /\ \A c \in Consumers : pc[c] \in {"idle", "answered", "dropped"}
    /\ ledger = {Record(k) : k \in {k \in flights : cell[k] # None}}

Holders == {c \in Consumers : pc[c] \in Holding}
Dropped == {c \in Consumers : pc[c] = "dropped"}
Started == {k \in Keys : cell[k] # None \/ \E c \in Holders : Key(c) = k}

\* A permit is in the semaphore or with a holder.
PermitsAreKept == permits + Cardinality(Holders) = MaxPermits

\* A request is charged to the key that was started, or to a dropped leader.
RequestsAreCharged ==
  counts.network <= Cardinality(Started) + Cardinality(Dropped)

PlannerInv ==
  /\ StateTypes /\ WantsArePlaced /\ CallsAreSound /\ CellsAreSound /\ OneLeader
  /\ AnswersAreCells /\ RequirementsAreJoined /\ FlushIsLast
  /\ PermitsAreKept /\ RequestsAreCharged
-----------------------------------------------------------------------------
(***************************************************************************)
(* What the operators do                                                   *)
(***************************************************************************)

LEMMA WithoutType ==
  ASSUME NEW c, queue \in Seq(Consumers)
  PROVE  Without(c) \in Seq(Consumers)
<1>1. CASE \E n \in DOMAIN queue : queue[n] = c
  <2> DEFINE i == CHOOSE n \in DOMAIN queue : queue[n] = c
  <2>1. i \in DOMAIN queue
    BY <1>1
  <2> HIDE DEF i
  <2>2. SubSeq(queue, 1, i - 1) \o SubSeq(queue, i + 1, Len(queue)) \in Seq(Consumers)
    BY <2>1
  <2> QED  BY <1>1, <2>2 DEF Without, i
<1> QED  BY <1>1 DEF Without

LEMMA KeyOfWant ==
  ASSUME WantsArePlaced, NEW c \in Consumers, pc[c] # "idle"
  PROVE  /\ want[c] \in Wants[c] /\ want[c] # None
         /\ Key(c) \in Keys /\ PageCount[Key(c)] \in Nat \ {0}
BY PlannerAssumption DEF WantsArePlaced, Key, Demands

LEMMA UpdatedFunction ==
  ASSUME NEW S, NEW f, f = [x \in S |-> f[x]], NEW a, NEW v
  PROVE  /\ [f EXCEPT ![a] = v] = [x \in S |-> [f EXCEPT ![a] = v][x]]
         /\ a \in S => [f EXCEPT ![a] = v][a] = v
         /\ \A x \in S \ {a} : [f EXCEPT ![a] = v][x] = f[x]
OBVIOUS

LEMMA CountersType ==
  ASSUME NEW r \in Counters, NEW n \in Nat
  PROVE  /\ [r EXCEPT !.demands = @ + 1] \in Counters
         /\ [r EXCEPT !.hits = @ + 1] \in Counters
         /\ [r EXCEPT !.network = @ + 1] \in Counters
         /\ [r EXCEPT !.retries = @ + n] \in Counters
         /\ [r EXCEPT !.demands = @ + 1].network = r.network
         /\ [r EXCEPT !.hits = @ + 1].network = r.network
         /\ [r EXCEPT !.network = @ + 1].network = r.network + 1
         /\ [r EXCEPT !.retries = @ + n].network = r.network
BY DEF Counters

\* The state components keep their types under every action.
LEMMA StateTypesStep ==
  ASSUME PlannerInv, [PlannerNext]_plannerVars
  PROVE  StateTypes'
<1> USE DEF PlannerInv
<1>1. ASSUME NEW c \in Consumers, NEW w \in Wants[c], Demand(c, w)
      PROVE  StateTypes'
  BY <1>1, PlannerAssumption, CountersType DEF Demand, Goto, StateTypes, PCs, Holding, Demands
<1>2. ASSUME NEW c \in Consumers, TurnAway(c) \/ CacheHit(c) \/ Join(c) \/ Follow(c)
      PROVE  StateTypes'
  BY <1>2, KeyOfWant, CountersType DEF TurnAway, CacheHit, Join, Follow, Goto, StateTypes, PCs, Holding
<1>3. ASSUME NEW c \in Consumers, Lead(c)
      PROVE  StateTypes'
  BY <1>3, KeyOfWant DEF Lead, Goto, StateTypes, PCs, Holding
<1>4. ASSUME NEW c \in Consumers, GetPermit(c)
      PROVE  StateTypes'
  <2>1. queue' \in Seq(Consumers) /\ permits' \in Nat
    BY <1>4 DEF GetPermit, StateTypes
  <2>2. counts' \in Counters
    BY <1>4, CountersType DEF GetPermit, StateTypes
  <2>3. pc' \in [Consumers -> PCs] /\ call' = [d \in Consumers |-> call'[d]]
    BY <1>4 DEF GetPermit, Goto, StateTypes, PCs, Holding
  <2> QED  BY <1>4, <2>1, <2>2, <2>3 DEF GetPermit, StateTypes
<1>5. ASSUME NEW c \in Consumers, RetryAttempt(c) \/ PageArrives(c)
      PROVE  StateTypes'
  BY <1>5 DEF RetryAttempt, PageArrives, StateTypes
<1>6. ASSUME NEW c \in Consumers, NEW r, NEW n, Ends(c, r, n)
      PROVE  StateTypes'
  BY <1>6 DEF Ends, Goto, StateTypes, PCs, Holding
<1>7. ASSUME NEW c \in Consumers, Finish(c)
      PROVE  StateTypes'
  <2>1. call[c].retries \in Nat
    BY <1>7, KeyOfWant, RetriesAssumption
    DEF Finish, Goto, CallsAreSound, ResultOK, Completed
  <2>2. PICK n \in Nat : n = call[c].retries
    BY <2>1
  <2>3. counts' \in Counters
    <3>1. counts' = [counts EXCEPT !.retries = @ + n]
      BY <1>7, <2>2, Zenon DEF Finish
    <3> QED  BY <3>1, CountersType DEF StateTypes
  <2>4. permits' = permits + 1 /\ leader' = [leader EXCEPT ![Key(c)] = None]
    BY <1>7, Zenon DEF Finish
  <2>5. permits' \in Nat /\ leader' \in [Keys -> Consumers \union {None}]
    <3>1. permits \in Nat /\ leader \in [Keys -> Consumers \union {None}]
      BY DEF StateTypes
    <3>2. permits' \in Nat
      BY <2>4, <3>1
    <3>3. leader' \in [Keys -> Consumers \union {None}]
      BY <2>4, <3>1
    <3> QED  BY <3>2, <3>3
  <2>6. pc' \in [Consumers -> PCs]
    BY <1>7 DEF Finish, Goto, StateTypes, PCs
  <2>7. /\ call' = [call EXCEPT ![c] = None]
        /\ cell' = [cell EXCEPT ![Key(c)] = call[c]]
        /\ answer' = [answer EXCEPT ![c] = call[c].result]
    BY <1>7, Zenon DEF Finish
  <2>8. /\ call' = [d \in Consumers |-> call'[d]]
        /\ cell' = [k \in Keys |-> cell'[k]]
        /\ answer' = [d \in Consumers |-> answer'[d]]
    BY <2>7, UpdatedFunction DEF StateTypes
  <2> QED  BY <1>7, <2>3, <2>5, <2>6, <2>8 DEF Finish, StateTypes
<1>8. ASSUME NEW c \in Consumers, Drop(c)
      PROVE  StateTypes'
  <2>1. queue' \in Seq(Consumers)
    BY <1>8, WithoutType DEF Drop, StateTypes
  <2>2. permits' \in Nat /\ leader' \in [Keys -> Consumers \union {None}]
    BY <1>8 DEF Drop, StateTypes
  <2>3. pc' \in [Consumers -> PCs]
    BY <1>8 DEF Drop, StateTypes, PCs
  <2>4. call' = [d \in Consumers |-> call'[d]]
    BY <1>8 DEF Drop, StateTypes
  <2> QED  BY <1>8, <2>1, <2>2, <2>3, <2>4 DEF Drop, StateTypes
<1>9. ASSUME Cancel \/ FlushToLedger \/ UNCHANGED plannerVars
      PROVE  StateTypes'
  BY <1>9 DEF Cancel, FlushToLedger, plannerVars, StateTypes
<1> QED
  BY <1>1, <1>2, <1>3, <1>4, <1>5, <1>6, <1>7, <1>8, <1>9
  DEF PlannerNext, DemandStep, QueryStep, LastPage, Fails, SeesCancel
-----------------------------------------------------------------------------
(***************************************************************************)
(* Wants, calls, cells and leaders                                         *)
(***************************************************************************)

LEMMA StateFunctions ==
  ASSUME PlannerInv
  PROVE  /\ pc \in [Consumers -> PCs]
         /\ leader \in [Keys -> Consumers \union {None}]
         /\ cell = [k \in Keys |-> cell[k]]
         /\ want = [c \in Consumers |-> want[c]]
         /\ call = [c \in Consumers |-> call[c]]
         /\ answer = [c \in Consumers |-> answer[c]]
BY DEF PlannerInv, StateTypes

\* Every step of a consumer but its demand leaves the wants, and moves only
\* that consumer, which had begun, to a place that is not the first.
ConsumerStep(c) == DemandStep(c) \/ QueryStep(c) \/ Drop(c)

LEMMA ConsumerMoves ==
  ASSUME PlannerInv, NEW c \in Consumers, ConsumerStep(c)
  PROVE  /\ want' = want /\ requirements' = requirements /\ ledger' = ledger
         /\ cancelled' = cancelled
         /\ pc[c] \notin {"idle", "answered", "dropped"}
         /\ pc' = [pc EXCEPT ![c] = pc'[c]]
         /\ pc'[c] \in PCs \ {"idle"}
         /\ \A d \in Consumers \ {c} : pc'[d] = pc[d] /\ call'[d] = call[d] /\ answer'[d] = answer[d]
<1> USE StateFunctions
<1>1. CASE TurnAway(c) \/ CacheHit(c) \/ Join(c) \/ Follow(c)
  BY <1>1 DEF TurnAway, CacheHit, Join, Follow, Goto, PCs, Holding
<1>2. CASE Lead(c)
  BY <1>2 DEF Lead, Goto, PCs, Holding
<1>3. CASE GetPermit(c)
  BY <1>3 DEF GetPermit, Goto, PCs, Holding
<1>4. CASE RetryAttempt(c) \/ PageArrives(c)
  BY <1>4 DEF RetryAttempt, PageArrives, PCs, Holding
<1>5. ASSUME NEW r, NEW n, Ends(c, r, n)
      PROVE  /\ want' = want /\ requirements' = requirements /\ ledger' = ledger
             /\ cancelled' = cancelled
             /\ pc[c] \notin {"idle", "answered", "dropped"}
             /\ pc' = [pc EXCEPT ![c] = pc'[c]]
             /\ pc'[c] \in PCs \ {"idle"}
             /\ \A d \in Consumers \ {c} : pc'[d] = pc[d] /\ call'[d] = call[d] /\ answer'[d] = answer[d]
  BY <1>5 DEF Ends, Goto, PCs, Holding
<1>6. CASE Finish(c)
  BY <1>6 DEF Finish, Goto, PCs, Holding
<1>7. CASE Drop(c)
  BY <1>7 DEF Drop, PCs, Holding
<1> QED
  BY <1>1, <1>2, <1>3, <1>4, <1>5, <1>6, <1>7
  DEF ConsumerStep, DemandStep, QueryStep, LastPage, Fails, SeesCancel

LEMMA WantsStep ==
  ASSUME PlannerInv, [PlannerNext]_plannerVars
  PROVE  WantsArePlaced'
<1> USE StateFunctions DEF PlannerInv
<1>1. ASSUME NEW c \in Consumers, NEW w \in Wants[c], Demand(c, w)
      PROVE  WantsArePlaced'
  BY <1>1 DEF Demand, Goto, WantsArePlaced
<1>2. ASSUME NEW c \in Consumers, ConsumerStep(c)
      PROVE  WantsArePlaced'
  BY <1>2, ConsumerMoves DEF WantsArePlaced
<1>3. ASSUME Cancel \/ FlushToLedger \/ UNCHANGED plannerVars
      PROVE  WantsArePlaced'
  BY <1>3 DEF Cancel, FlushToLedger, plannerVars, WantsArePlaced
<1> QED  BY <1>1, <1>2, <1>3 DEF PlannerNext, ConsumerStep

LEMMA RetriesBound ==
  ASSUME NEW p \in Nat, NEW q \in Nat, p < q
  PROVE  /\ p * MaxRetries \in Nat /\ q * MaxRetries \in Nat
         /\ p * MaxRetries + MaxRetries <= q * MaxRetries
<1> USE RetriesAssumption
<1>1. /\ p * MaxRetries \in Nat /\ q * MaxRetries \in Nat
      /\ (q - (p + 1)) * MaxRetries \in Nat
  OBVIOUS
<1>2. q * MaxRetries = p * MaxRetries + MaxRetries + (q - (p + 1)) * MaxRetries
  OBVIOUS
<1> QED  BY <1>1, <1>2

LEMMA CallRecord ==
  ASSUME NEW k \in Keys, NEW request, CallOK(k, request)
  PROVE  /\ PageCount[k] \in Nat \ {0}
         /\ request.page \in 1..PageCount[k] /\ request.attempt \in 0..MaxRetries
         /\ request.retries \in Nat
         /\ request = [page |-> request.page, attempt |-> request.attempt,
                       retries |-> request.retries, items |-> request.items]
BY PlannerAssumption, RetriesAssumption DEF CallOK, Call

\* A new call is sound, and stays so with an attempt more or a page more.
LEMMA NewCallOK ==
  ASSUME NEW k \in Keys
  PROVE  CallOK(k, NewCall)
<1>1. PageCount[k] \in Nat \ {0} /\ PageCount[k] * MaxRetries \in Nat
  BY PlannerAssumption, RetriesAssumption
<1> QED  BY <1>1, RetriesAssumption DEF CallOK, NewCall, Call

LEMMA AgainOK ==
  ASSUME NEW k \in Keys, NEW request, CallOK(k, request), request.attempt < MaxRetries
  PROVE  CallOK(k, Again(request))
<1>1. Again(request) = [page |-> request.page, attempt |-> request.attempt + 1,
                        retries |-> request.retries, items |-> request.items]
  BY CallRecord DEF Again
<1>2. request.attempt + 1 \in 0..MaxRetries
  BY CallRecord, RetriesAssumption
<1>3. Again(request) \in Call(PageCount[k])
  BY <1>1, <1>2 DEF CallOK, Call
<1> QED  BY <1>1, <1>3 DEF CallOK

LEMMA WithPageRecord ==
  ASSUME NEW k \in Keys, NEW request, CallOK(k, request)
  PROVE  /\ WithPage(request).items = [i \in 1..request.page |-> i]
         /\ WithPage(request).items \in Seq(1..PageCount[k])
         /\ Spent(WithPage(request)) = request.retries + request.attempt
<1>1. PICK p \in 1..PageCount[k] : p = request.page
  BY CallRecord
<1>2. Append([i \in 1..(p - 1) |-> i], p) = [i \in 1..p |-> i]
  <2>1. [i \in 1..(p - 1) |-> i] \in Seq(Nat)
    BY <1>1, CallRecord
  <2> QED  BY <1>1, <2>1, CallRecord
<1>3. WithPage(request).items = [i \in 1..p |-> i]
  BY <1>1, <1>2 DEF CallOK, WithPage
<1>4. [i \in 1..p |-> i] \in Seq(1..PageCount[k])
  BY <1>1, CallRecord
<1>5. Spent(WithPage(request)) = request.retries + request.attempt
  BY CallRecord, RetriesAssumption DEF Spent, WithPage
<1> QED  BY <1>1, <1>3, <1>4, <1>5

LEMMA SpentBound ==
  ASSUME NEW k \in Keys, NEW request, CallOK(k, request)
  PROVE  request.retries + request.attempt \in 0..(request.page * MaxRetries)
<1>1. request.page - 1 \in Nat /\ request.page - 1 < request.page /\ request.page \in Nat
  BY CallRecord
<1>2. (request.page - 1) * MaxRetries + MaxRetries <= request.page * MaxRetries
  BY <1>1, RetriesBound
<1>3. request.retries \in Nat /\ request.attempt \in Nat /\ request.attempt <= MaxRetries
  BY CallRecord, RetriesAssumption
<1>4. (request.page - 1) * MaxRetries \in Nat /\ request.page * MaxRetries \in Nat
  BY <1>1, RetriesAssumption
<1>5. request.retries <= (request.page - 1) * MaxRetries
  BY DEF CallOK
<1> QED  BY <1>2, <1>3, <1>4, <1>5, RetriesAssumption

LEMMA SpentOK ==
  ASSUME NEW k \in Keys, NEW request, CallOK(k, request)
  PROVE  request.retries + request.attempt \in 0..(PageCount[k] * MaxRetries)
<1>1. request.page \in Nat /\ PageCount[k] \in Nat /\ request.page <= PageCount[k]
  BY CallRecord
<1>2. request.page * MaxRetries <= PageCount[k] * MaxRetries
  BY <1>1, RetriesBound, RetriesAssumption
<1>3. request.page * MaxRetries \in Nat /\ PageCount[k] * MaxRetries \in Nat
  BY <1>1, RetriesAssumption
<1> QED  BY <1>2, <1>3, SpentBound

LEMMA NextPageOK ==
  ASSUME NEW k \in Keys, NEW request, CallOK(k, request), request.page < PageCount[k]
  PROVE  CallOK(k, NextPage(request))
<1>1. NextPage(request) = [page |-> request.page + 1, attempt |-> 0,
                           retries |-> request.retries + request.attempt,
                           items |-> WithPage(request).items]
  BY DEF NextPage, WithPage
<1>2. request.page + 1 \in 1..PageCount[k] /\ 0 \in 0..MaxRetries
  BY CallRecord, RetriesAssumption
<1>3. request.retries + request.attempt <= request.page * MaxRetries
  BY SpentBound, CallRecord, RetriesAssumption
<1>4. NextPage(request) \in Call(PageCount[k])
  <2>1. /\ WithPage(request).items \in Seq(1..PageCount[k])
        /\ request.retries + request.attempt \in 0..(PageCount[k] * MaxRetries)
    BY WithPageRecord, SpentOK
  <2> QED  BY <1>1, <1>2, <2>1 DEF Call
<1>5. NextPage(request).page - 1 = request.page
  <2>1. NextPage(request).page = request.page + 1
    BY <1>1
  <2> QED  BY <2>1, CallRecord
<1>6. WithPage(request).items = [i \in 1..request.page |-> i]
  BY WithPageRecord
<1>7. /\ NextPage(request).retries = request.retries + request.attempt
      /\ NextPage(request).items = WithPage(request).items
  BY <1>1
<1>8. NextPage(request).items = [i \in 1..(NextPage(request).page - 1) |-> i]
  BY <1>5, <1>6, <1>7, Zenon
<1>9. NextPage(request).retries <= (NextPage(request).page - 1) * MaxRetries
  BY <1>3, <1>5, <1>7, Zenon
<1> QED  BY <1>4, <1>8, <1>9 DEF CallOK

\* What a call ends with is a result of its query.
LEMMA LastPageResult ==
  ASSUME NEW k \in Keys, NEW request, CallOK(k, request), request.page = PageCount[k]
  PROVE  LET done == WithPage(request)
             end == [result |-> Success(done.items), retries |-> Spent(done)]
         IN  end \in Completed(k) /\ end.result # Failure("cancelled")
<1>1. WithPage(request).items = WholeList(k)
  BY WithPageRecord DEF WholeList
<1>2. Success(WithPage(request).items) \in Outcomes(k)
  BY <1>1 DEF Outcomes
<1>3. Spent(WithPage(request)) \in 0..(PageCount[k] * MaxRetries)
  BY WithPageRecord, SpentOK
<1>4. Success(WithPage(request).items) # Failure("cancelled")
  BY DEF Success, Failure
<1> QED  BY <1>2, <1>3, <1>4 DEF Completed

LEMMA FailureResult ==
  ASSUME NEW k \in Keys, NEW request, CallOK(k, request), NEW why \in FailureReasons
  PROVE  LET end == [result |-> Failure(why), retries |-> Spent(request)]
         IN  /\ end \in Completed(k)
             /\ why # "cancelled" => end.result # Failure("cancelled")
<1>1. Spent(request) \in 0..(PageCount[k] * MaxRetries)
  BY SpentOK DEF Spent
<1>2. Failure(why) \in Outcomes(k)
  BY DEF Outcomes
<1>3. why # "cancelled" => Failure(why) # Failure("cancelled")
  BY DEF Failure
<1> QED  BY <1>1, <1>2, <1>3 DEF Completed

\* A step of a consumer leaves the calls and the cells of the others sound.
LEMMA CallsStep ==
  ASSUME PlannerInv, [PlannerNext]_plannerVars
  PROVE  CallsAreSound'
<1> USE StateFunctions DEF PlannerInv
<1>1. ASSUME NEW c \in Consumers, NEW w \in Wants[c], Demand(c, w)
      PROVE  CallsAreSound'
  <2>1. \A d \in Consumers : d # c => Key(d)' = Key(d) /\ pc'[d] = pc[d] /\ call'[d] = call[d]
    BY <1>1 DEF Demand, Goto, Key
  <2>2. pc'[c] = "counted" /\ cancelled' = cancelled
    BY <1>1 DEF Demand, Goto
  <2> QED  BY <2>1, <2>2, Zenon DEF CallsAreSound, ResultOK
<1>2. ASSUME NEW c \in Consumers, ConsumerStep(c),
             pc'[c] = "request" => CallOK(Key(c), call'[c]),
             pc'[c] = "finish" => ResultOK(Key(c), call'[c])
      PROVE  CallsAreSound'
  <2>1. \A d \in Consumers : Key(d)' = Key(d)
    BY <1>2, ConsumerMoves DEF Key
  <2>2. \A d \in Consumers \ {c} : pc'[d] = pc[d] /\ call'[d] = call[d]
    BY <1>2, ConsumerMoves
  <2>3. cancelled' = cancelled
    BY <1>2, ConsumerMoves
  <2> QED  BY <1>2, <2>1, <2>2, <2>3, Zenon DEF CallsAreSound, ResultOK
<1>3. ASSUME NEW c \in Consumers, DemandStep(c) \/ Finish(c) \/ Drop(c)
      PROVE  CallsAreSound'
  <2>1. pc'[c] \in {"answered", "joined", "queued", "dropped"}
    BY <1>3 DEF DemandStep, TurnAway, CacheHit, Join, Lead, Follow, Finish, Drop, Goto
  <2> QED  BY <1>2, <1>3, <2>1 DEF ConsumerStep, QueryStep
<1>4. ASSUME NEW c \in Consumers, GetPermit(c)
      PROVE  CallsAreSound'
  <2>1. pc[c] = "queued" /\ pc'[c] = "request" /\ call'[c] = NewCall
    BY <1>4 DEF GetPermit, Goto
  <2>2. CallOK(Key(c), call'[c])
    BY <2>1, KeyOfWant, NewCallOK
  <2> QED  BY <1>2, <1>4, <2>1, <2>2 DEF ConsumerStep, QueryStep
<1>5. ASSUME NEW c \in Consumers, RetryAttempt(c) \/ PageArrives(c)
      PROVE  CallsAreSound'
  <2>1. pc[c] = "request" /\ pc'[c] = "request" /\ Key(c) \in Keys
    BY <1>5, KeyOfWant DEF RetryAttempt, PageArrives
  <2>2. CallOK(Key(c), call[c])
    BY <2>1 DEF CallsAreSound
  <2>3. \/ call'[c] = Again(call[c]) /\ call[c].attempt < MaxRetries
        \/ call'[c] = NextPage(call[c]) /\ call[c].page < PageCount[Key(c)]
    BY <1>5 DEF RetryAttempt, PageArrives, TriesAgain
  <2>4. CallOK(Key(c), call'[c])
    BY <2>1, <2>2, <2>3, AgainOK, NextPageOK
  <2> QED  BY <1>2, <1>5, <2>1, <2>4 DEF ConsumerStep, QueryStep
<1>6. ASSUME NEW c \in Consumers, NEW result, NEW retries, Ends(c, result, retries),
             ConsumerStep(c),
             ResultOK(Key(c), [result |-> result, retries |-> retries])
      PROVE  CallsAreSound'
  <2>1. pc'[c] = "finish" /\ call'[c] = [result |-> result, retries |-> retries]
    BY <1>6 DEF Ends, Goto
  <2> QED  BY <1>2, <1>6, <2>1
<1>7. ASSUME NEW c \in Consumers, LastPage(c)
      PROVE  CallsAreSound'
  <2>1. CallOK(Key(c), call[c]) /\ Key(c) \in Keys
    BY <1>7, KeyOfWant DEF LastPage, CallsAreSound
  <2>2. call[c].page = PageCount[Key(c)]
    BY <1>7 DEF LastPage
  <2> DEFINE done == WithPage(call[c])
  <2>3. ResultOK(Key(c), [result |-> Success(done.items), retries |-> Spent(done)])
    BY <2>1, <2>2, LastPageResult DEF ResultOK
  <2>4. Ends(c, Success(done.items), Spent(done))
    BY <1>7 DEF LastPage
  <2> QED  BY <1>6, <1>7, <2>3, <2>4, Zenon DEF ConsumerStep, QueryStep
<1>8. ASSUME NEW c \in Consumers, NEW why \in Replies, Fails(c, why)
      PROVE  CallsAreSound'
  <2>1. CallOK(Key(c), call[c]) /\ Key(c) \in Keys
    BY <1>8, KeyOfWant DEF Fails, CallsAreSound
  <2>2. why \in FailureReasons /\ why # "cancelled"
    BY <1>8 DEF Fails, FailureReasons
  <2>3. ResultOK(Key(c), [result |-> Failure(why), retries |-> Spent(call[c])])
    BY <2>1, <2>2, FailureResult DEF ResultOK
  <2>4. Ends(c, Failure(why), Spent(call[c]))
    BY <1>8 DEF Fails
  <2> QED  BY <1>6, <1>8, <2>3, <2>4, Zenon DEF ConsumerStep, QueryStep
<1>9. ASSUME NEW c \in Consumers, SeesCancel(c)
      PROVE  CallsAreSound'
  <2>1. CallOK(Key(c), call[c]) /\ Key(c) \in Keys /\ cancelled
    BY <1>9, KeyOfWant DEF SeesCancel, CallsAreSound
  <2>2. "cancelled" \in FailureReasons
    BY DEF FailureReasons
  <2>3. ResultOK(Key(c), [result |-> Failure("cancelled"), retries |-> Spent(call[c])])
    BY <2>1, <2>2, FailureResult DEF ResultOK
  <2>4. Ends(c, Failure("cancelled"), Spent(call[c]))
    BY <1>9 DEF SeesCancel
  <2> QED  BY <1>6, <1>9, <2>3, <2>4, Zenon DEF ConsumerStep, QueryStep
<1>10. ASSUME Cancel \/ FlushToLedger \/ UNCHANGED plannerVars
       PROVE  CallsAreSound'
  BY <1>10 DEF Cancel, FlushToLedger, plannerVars, CallsAreSound, ResultOK, Key
<1> QED
  BY <1>1, <1>3, <1>4, <1>5, <1>7, <1>8, <1>9, <1>10
  DEF PlannerNext, DemandStep, QueryStep

\* Only Finish touches the cells: it fills the empty cell of its own key.
LEMMA CellsKept ==
  ASSUME PlannerInv, [PlannerNext]_plannerVars,
         ~ \E c \in Consumers : Finish(c)
  PROVE  cell' = cell /\ flights \subseteq flights' /\ (cancelled => cancelled')
<1>1. ASSUME NEW c \in Consumers, NEW w \in Wants[c], Demand(c, w)
      PROVE  cell' = cell /\ flights \subseteq flights' /\ cancelled' = cancelled
  BY <1>1 DEF Demand
<1>2. ASSUME NEW c \in Consumers, DemandStep(c) \/ (QueryStep(c) /\ ~Finish(c)) \/ Drop(c)
      PROVE  cell' = cell /\ flights \subseteq flights' /\ cancelled' = cancelled
  BY <1>2
  DEF DemandStep, TurnAway, CacheHit, Join, Lead, Follow, QueryStep, GetPermit, RetryAttempt,
      PageArrives, LastPage, Fails, SeesCancel, Ends, Drop
<1>3. ASSUME Cancel \/ FlushToLedger \/ UNCHANGED plannerVars
      PROVE  cell' = cell /\ flights \subseteq flights' /\ (cancelled => cancelled')
  BY <1>3 DEF Cancel, FlushToLedger, plannerVars
<1> QED  BY <1>1, <1>2, <1>3 DEF PlannerNext

LEMMA FinishFills ==
  ASSUME PlannerInv, NEW c \in Consumers, Finish(c)
  PROVE  /\ Key(c) \in Keys /\ Key(c) \in flights
         /\ leader[Key(c)] = c /\ cell[Key(c)] = None
         /\ ResultOK(Key(c), call[c])
         /\ pc[c] = "finish" /\ pc'[c] = "answered"
         /\ cell' = [cell EXCEPT ![Key(c)] = call[c]]
         /\ cell'[Key(c)] = call[c] /\ cell'[Key(c)] # None
         /\ \A k \in Keys \ {Key(c)} : cell'[k] = cell[k]
         /\ answer'[c] = call[c].result
         /\ flights' = flights /\ cancelled' = cancelled
<1> USE DEF PlannerInv
<1>1. pc[c] = "finish" /\ pc'[c] = "answered" /\ flights' = flights /\ cancelled' = cancelled
  BY StateFunctions DEF Finish, Goto
<1>2. Key(c) \in Keys
  BY <1>1, KeyOfWant
<1>3. leader[Key(c)] = c /\ cell[Key(c)] = None /\ Key(c) \in flights
  BY <1>1 DEF OneLeader, Leading, Holding
<1>4. ResultOK(Key(c), call[c])
  BY <1>1 DEF CallsAreSound
<1>5. call[c] # None
  BY <1>2, <1>4, NoResultIsNone DEF ResultOK
<1>6. /\ cell' = [cell EXCEPT ![Key(c)] = call[c]]
      /\ answer' = [answer EXCEPT ![c] = call[c].result]
  BY Zenon DEF Finish
<1>7. cell'[Key(c)] = call[c] /\ \A k \in Keys \ {Key(c)} : cell'[k] = cell[k]
  BY <1>2, <1>6, StateFunctions
<1>8. answer'[c] = call[c].result
  BY <1>6, StateFunctions
<1> QED  BY <1>1, <1>2, <1>3, <1>4, <1>5, <1>6, <1>7, <1>8

LEMMA CellsStep ==
  ASSUME PlannerInv, [PlannerNext]_plannerVars
  PROVE  CellsAreSound'
<1>1. CASE \E c \in Consumers : Finish(c)
  <2>1. PICK c \in Consumers : Finish(c)
    BY <1>1
  <2>2. /\ \A k \in Keys \ {Key(c)} : cell'[k] = cell[k]
        /\ cell'[Key(c)] = call[c] /\ ResultOK(Key(c), call[c])
        /\ flights' = flights /\ cancelled' = cancelled /\ Key(c) \in flights
    BY <2>1, FinishFills
  <2> QED  BY <2>2, Zenon DEF PlannerInv, CellsAreSound, ResultOK
<1>2. CASE ~ \E c \in Consumers : Finish(c)
  <2>1. cell' = cell /\ flights \subseteq flights' /\ (cancelled => cancelled')
    BY <1>2, CellsKept
  <2> QED  BY <2>1 DEF PlannerInv, CellsAreSound, ResultOK
<1> QED  BY <1>1, <1>2

LEMMA LeadersStep ==
  ASSUME PlannerInv, [PlannerNext]_plannerVars
  PROVE  OneLeader'
<1> USE StateFunctions DEF PlannerInv
<1>1. ASSUME NEW c \in Consumers, NEW w \in Wants[c], Demand(c, w)
      PROVE  OneLeader'
  <2>1. \A d \in Consumers : d # c => Key(d)' = Key(d) /\ pc'[d] = pc[d]
    BY <1>1 DEF Demand, Goto, Key
  <2>2. pc'[c] = "counted" /\ leader' = leader /\ cell' = cell /\ flights' = flights
    BY <1>1 DEF Demand, Goto
  <2> QED  BY <2>1, <2>2 DEF OneLeader, Leading, Holding
<1>2. ASSUME NEW c \in Consumers, ConsumerStep(c)
      PROVE  /\ \A d \in Consumers : Key(d)' = Key(d)
             /\ \A d \in Consumers \ {c} : pc'[d] = pc[d]
  BY <1>2, ConsumerMoves DEF Key
<1>3. ASSUME NEW c \in Consumers, TurnAway(c) \/ CacheHit(c) \/ Follow(c)
      PROVE  OneLeader'
  <2>1. pc'[c] = "answered" /\ leader' = leader /\ cell' = cell /\ flights' = flights
    BY <1>3 DEF TurnAway, CacheHit, Follow, Goto
  <2>2. ConsumerStep(c)
    BY <1>3 DEF ConsumerStep, DemandStep
  <2> QED  BY <1>2, <2>1, <2>2 DEF OneLeader, Leading, Holding
<1>4. ASSUME NEW c \in Consumers, Join(c)
      PROVE  OneLeader'
  <2>1. /\ pc'[c] = "joined" /\ leader' = leader /\ cell' = cell
        /\ flights' = flights \union {Key(c)}
    BY <1>4 DEF Join, Goto
  <2>2. ConsumerStep(c)
    BY <1>4 DEF ConsumerStep, DemandStep
  <2> QED  BY <1>2, <2>1, <2>2 DEF OneLeader, Leading, Holding
<1>5. ASSUME NEW c \in Consumers, Lead(c)
      PROVE  OneLeader'
  <2>1. /\ pc[c] = "joined" /\ pc'[c] = "queued" /\ cell' = cell /\ flights' = flights
        /\ leader[Key(c)] = None /\ cell[Key(c)] = None
    BY <1>5 DEF Lead, Goto
  <2>2. ConsumerStep(c) /\ Key(c) \in Keys
    BY <1>5, <2>1, KeyOfWant DEF ConsumerStep, DemandStep
  <2>3. /\ leader'[Key(c)] = c
        /\ \A k \in Keys \ {Key(c)} : leader'[k] = leader[k]
    BY <1>5, <2>2 DEF Lead
  <2>4. ASSUME NEW d \in Consumers \ {c}, pc[d] \in Leading
        PROVE  leader'[Key(d)] = d
    <3>1. pc[d] # "idle" /\ leader[Key(d)] = d /\ d # None
      BY <2>4, PlannerAssumption DEF OneLeader, Leading, Holding
    <3>2. Key(d) \in Keys \ {Key(c)}
      BY <2>1, <3>1, KeyOfWant
    <3> QED  BY <2>3, <3>1, <3>2
  <2> QED  BY <1>2, <2>1, <2>2, <2>3, <2>4 DEF OneLeader, Leading
<1>6. ASSUME NEW c \in Consumers, (QueryStep(c) /\ ~Finish(c))
      PROVE  OneLeader'
  <2>1. /\ pc[c] \in Leading /\ pc'[c] \in Leading
        /\ leader' = leader /\ cell' = cell /\ flights' = flights
    <3>1. CASE GetPermit(c)
      BY <3>1 DEF GetPermit, Goto, Leading, Holding
    <3>2. CASE RetryAttempt(c) \/ PageArrives(c)
      BY <3>2 DEF RetryAttempt, PageArrives, Leading, Holding
    <3>3. ASSUME NEW r, NEW n, Ends(c, r, n)
          PROVE  /\ pc[c] \in Leading /\ pc'[c] \in Leading
                 /\ leader' = leader /\ cell' = cell /\ flights' = flights
      BY <3>3 DEF Ends, Goto, Leading, Holding
    <3> QED  BY <1>6, <3>1, <3>2, <3>3 DEF QueryStep, LastPage, Fails, SeesCancel
  <2>2. ConsumerStep(c)
    BY <1>6 DEF ConsumerStep
  <2> QED  BY <1>2, <2>1, <2>2 DEF OneLeader, Leading
<1>7. ASSUME NEW c \in Consumers, Finish(c)
      PROVE  OneLeader'
  <2>1. ConsumerStep(c)
    BY <1>7 DEF ConsumerStep, QueryStep
  <2>2. /\ pc'[c] = "answered" /\ flights' = flights /\ Key(c) \in Keys /\ leader[Key(c)] = c
        /\ \A k \in Keys \ {Key(c)} : cell'[k] = cell[k]
    BY <1>7, FinishFills
  <2>3. leader' = [leader EXCEPT ![Key(c)] = None]
    BY <1>7, Zenon DEF Finish
  <2>4. \A k \in Keys \ {Key(c)} : leader'[k] = leader[k]
    BY <2>3
  <2>5. ASSUME NEW d \in Consumers \ {c}, pc[d] \in Leading
        PROVE  leader'[Key(d)] = d /\ cell'[Key(d)] = None
    <3>1. pc[d] # "idle" /\ leader[Key(d)] = d /\ cell[Key(d)] = None
      BY <2>5 DEF OneLeader, Leading, Holding
    <3>2. Key(d) \in Keys \ {Key(c)}
      BY <2>2, <3>1, KeyOfWant
    <3> QED  BY <2>2, <2>4, <3>1, <3>2
  <2> QED  BY <1>2, <2>1, <2>2, <2>5 DEF OneLeader, Leading, Holding
<1>8. ASSUME NEW c \in Consumers, Drop(c)
      PROVE  OneLeader'
  <2>1. ConsumerStep(c)
    BY <1>8 DEF ConsumerStep
  <2>2. /\ pc'[c] = "dropped" /\ cell' = cell /\ flights' = flights
        /\ \A k \in Keys : leader[k] # c => leader'[k] = leader[k]
    BY <1>8 DEF Drop
  <2>3. ASSUME NEW d \in Consumers \ {c}, pc[d] \in Leading
        PROVE  leader'[Key(d)] = d
    <3>1. pc[d] # "idle" /\ leader[Key(d)] = d
      BY <2>3 DEF OneLeader, Leading, Holding
    <3> QED  BY <2>2, <3>1, KeyOfWant
  <2> QED  BY <1>2, <2>1, <2>2, <2>3 DEF OneLeader, Leading, Holding
<1>9. ASSUME Cancel \/ FlushToLedger \/ UNCHANGED plannerVars
      PROVE  OneLeader'
  BY <1>9 DEF Cancel, FlushToLedger, plannerVars, OneLeader, Key
<1> QED
  BY <1>1, <1>3, <1>4, <1>5, <1>6, <1>7, <1>8, <1>9
  DEF PlannerNext, DemandStep, QueryStep
-----------------------------------------------------------------------------
(***************************************************************************)
(* Answers, requirements and the ledger                                    *)
(***************************************************************************)

LEMMA AnswersStep ==
  ASSUME PlannerInv, [PlannerNext]_plannerVars
  PROVE  AnswersAreCells'
<1> USE StateFunctions DEF PlannerInv
<1>1. ASSUME NEW c \in Consumers, NEW w \in Wants[c], Demand(c, w)
      PROVE  AnswersAreCells'
  <2>1. \A d \in Consumers : d # c => Key(d)' = Key(d) /\ pc'[d] = pc[d]
    BY <1>1 DEF Demand, Goto, Key
  <2>2. /\ pc[c] = "idle" /\ pc'[c] = "counted"
        /\ answer' = answer /\ cell' = cell /\ cancelled' = cancelled
    BY <1>1 DEF Demand, Goto
  <2> QED  BY <2>1, <2>2, Zenon DEF AnswersAreCells
\* What is left to show of a step of c.
<1>2. ASSUME NEW c \in Consumers, ConsumerStep(c), cell' = cell,
             IF pc'[c] = "answered"
             THEN \/ cancelled /\ answer'[c] = Failure("cancelled")
                  \/ cell[Key(c)] # None /\ answer'[c] = cell[Key(c)].result
             ELSE answer'[c] = None
      PROVE  AnswersAreCells'
  <2>1. /\ \A d \in Consumers : Key(d)' = Key(d)
        /\ \A d \in Consumers \ {c} : pc'[d] = pc[d] /\ answer'[d] = answer[d]
        /\ cancelled' = cancelled
    BY <1>2, ConsumerMoves DEF Key
  <2> QED  BY <1>2, <2>1, Zenon DEF AnswersAreCells
<1>3. ASSUME NEW c \in Consumers, TurnAway(c) \/ CacheHit(c) \/ Follow(c)
      PROVE  AnswersAreCells'
  <2>1. /\ pc'[c] = "answered" /\ cell' = cell
        /\ \/ cancelled /\ answer'[c] = Failure("cancelled")
           \/ cell[Key(c)] # None /\ answer'[c] = cell[Key(c)].result
    BY <1>3 DEF TurnAway, CacheHit, Follow, Goto
  <2>2. ConsumerStep(c)
    BY <1>3 DEF ConsumerStep, DemandStep
  <2> QED  BY <1>2, <2>1, <2>2, Zenon
<1>4. ASSUME NEW c \in Consumers,
             Join(c) \/ Lead(c) \/ (QueryStep(c) /\ ~Finish(c)) \/ Drop(c)
      PROVE  AnswersAreCells'
  <2>1. cell' = cell /\ answer' = answer /\ pc'[c] # "answered"
    <3>1. CASE Join(c) \/ Lead(c) \/ GetPermit(c)
      BY <3>1 DEF Join, Lead, GetPermit, Goto
    <3>2. CASE RetryAttempt(c) \/ PageArrives(c) \/ Drop(c)
      BY <3>2 DEF RetryAttempt, PageArrives, Drop
    <3>3. ASSUME NEW r, NEW n, Ends(c, r, n)
          PROVE  cell' = cell /\ answer' = answer /\ pc'[c] # "answered"
      BY <3>3 DEF Ends, Goto
    <3> QED  BY <1>4, <3>1, <3>2, <3>3 DEF QueryStep, LastPage, Fails, SeesCancel
  <2>2. ConsumerStep(c)
    BY <1>4 DEF ConsumerStep, DemandStep
  <2>3. answer[c] = None
    BY <2>2, ConsumerMoves DEF AnswersAreCells
  <2> QED  BY <1>2, <2>1, <2>2, <2>3, Zenon
<1>5. ASSUME NEW c \in Consumers, Finish(c)
      PROVE  AnswersAreCells'
  <2>1. ConsumerStep(c)
    BY <1>5 DEF ConsumerStep, QueryStep
  <2>2. /\ \A d \in Consumers : Key(d)' = Key(d)
        /\ \A d \in Consumers \ {c} : pc'[d] = pc[d] /\ answer'[d] = answer[d]
        /\ cancelled' = cancelled
    BY <2>1, ConsumerMoves DEF Key
  <2>3. /\ pc'[c] = "answered" /\ cell[Key(c)] = None
        /\ cell'[Key(c)] = call[c] /\ cell'[Key(c)] # None /\ answer'[c] = call[c].result
        /\ \A k \in Keys \ {Key(c)} : cell'[k] = cell[k]
    BY <1>5, FinishFills
  <2>4. ASSUME NEW d \in Consumers \ {c}, pc[d] = "answered", cell[Key(d)] # None
        PROVE  cell'[Key(d)] = cell[Key(d)]
    <3>1. Key(d) \in Keys \ {Key(c)}
      BY <2>3, <2>4, KeyOfWant
    <3> QED  BY <2>3, <3>1
  <2>5. ASSUME NEW d \in Consumers \ {c}
        PROVE  IF pc'[d] = "answered"
               THEN \/ cancelled' /\ answer'[d] = Failure("cancelled")
                    \/ cell'[Key(d)] # None /\ answer'[d] = cell'[Key(d)].result
               ELSE answer'[d] = None
    BY <2>2, <2>4, Zenon DEF AnswersAreCells
  <2>6. pc'[c] = "answered" /\ cell'[Key(c)] # None /\ answer'[c] = cell'[Key(c)].result
    BY <2>3, Zenon
  <2>7. ASSUME NEW d \in Consumers
        PROVE  IF pc'[d] = "answered"
               THEN \/ cancelled' /\ answer'[d] = Failure("cancelled")
                    \/ cell'[Key(d)] # None /\ answer'[d] = cell'[Key(d)].result
               ELSE answer'[d] = None
    <3>1. CASE d = c
      BY <2>6, <3>1, Zenon
    <3> QED  BY <2>5, <3>1, Zenon
  <2> QED  BY <2>2, <2>7, Zenon DEF AnswersAreCells
<1>6. ASSUME Cancel \/ FlushToLedger \/ UNCHANGED plannerVars
      PROVE  AnswersAreCells'
  <2>1. /\ \A d \in Consumers : Key(d)' = Key(d)
        /\ pc' = pc /\ answer' = answer /\ cell' = cell /\ (cancelled => cancelled')
    BY <1>6 DEF Cancel, FlushToLedger, plannerVars, Key
  <2> QED  BY <2>1, Zenon DEF AnswersAreCells
<1> QED
  BY <1>1, <1>3, <1>4, <1>5, <1>6 DEF PlannerNext, DemandStep, QueryStep

LEMMA RequirementsStep ==
  ASSUME PlannerInv, [PlannerNext]_plannerVars
  PROVE  RequirementsAreJoined'
<1> USE StateFunctions DEF PlannerInv
<1>1. ASSUME NEW c \in Consumers, NEW w \in Wants[c], Demand(c, w)
      PROVE  RequirementsAreJoined'
  <2>1. /\ w.key \in Keys /\ w.req \in {"Required", "Optional"}
        /\ w = [key |-> w.key, req |-> w.req]
    BY PlannerAssumption DEF Demands
  <2>2. /\ want[c] = None /\ want'[c] = w
        /\ \A d \in Consumers \ {c} : want'[d] = want[d]
    BY <1>1 DEF Demand, Goto, WantsArePlaced
  <2>3. /\ \A k \in Keys \ {w.key} : requirements'[k] = requirements[k]
        /\ requirements'[w.key] = "Required" <=>
             w.req = "Required" \/ requirements[w.key] = "Required"
    BY <1>1, <2>1 DEF Demand, StateTypes
  <2>4. \A k \in Keys : None # [key |-> k, req |-> "Required"]
    BY PlannerAssumption DEF Demands
  <2>5. ASSUME NEW k \in Keys
        PROVE  (\E d \in Consumers : want'[d] = [key |-> k, req |-> "Required"])
                 <=> \/ w = [key |-> k, req |-> "Required"]
                     \/ \E d \in Consumers : want[d] = [key |-> k, req |-> "Required"]
    BY <2>2, <2>4, Zenon
  <2>6. ASSUME NEW k \in Keys
        PROVE  w = [key |-> k, req |-> "Required"] <=> w.key = k /\ w.req = "Required"
    BY <2>1
  <2> QED  BY <2>1, <2>3, <2>5, <2>6, Zenon DEF RequirementsAreJoined
<1>2. ASSUME NEW c \in Consumers, ConsumerStep(c)
      PROVE  RequirementsAreJoined'
  BY <1>2, ConsumerMoves DEF RequirementsAreJoined
<1>3. ASSUME Cancel \/ FlushToLedger \/ UNCHANGED plannerVars
      PROVE  RequirementsAreJoined'
  BY <1>3 DEF Cancel, FlushToLedger, plannerVars, RequirementsAreJoined
<1> QED  BY <1>1, <1>2, <1>3 DEF PlannerNext, ConsumerStep

LEMMA FlushStep ==
  ASSUME PlannerInv, [PlannerNext]_plannerVars
  PROVE  FlushIsLast'
<1> USE DEF PlannerInv
<1>1. ASSUME NEW c \in Consumers, NEW w \in Wants[c], Demand(c, w)
      PROVE  FlushIsLast'
  BY <1>1 DEF Demand, FlushIsLast
<1>2. ASSUME NEW c \in Consumers, ConsumerStep(c)
      PROVE  FlushIsLast'
  BY <1>2, ConsumerMoves DEF FlushIsLast
<1>3. CASE Cancel
  BY <1>3 DEF Cancel, FlushIsLast
<1>4. CASE FlushToLedger
  BY <1>4 DEF FlushToLedger, FlushIsLast, Record
<1>5. CASE UNCHANGED plannerVars
  BY <1>5 DEF plannerVars, FlushIsLast, Record
<1> QED  BY <1>1, <1>2, <1>3, <1>4, <1>5 DEF PlannerNext, ConsumerStep
-----------------------------------------------------------------------------
(***************************************************************************)
(* Permits and requests, counted                                           *)
(***************************************************************************)

LEMMA CountedSetsAreFinite ==
  /\ IsFiniteSet(Holders) /\ IsFiniteSet(Dropped) /\ IsFiniteSet(Started)
  /\ Cardinality(Holders) \in Nat /\ Cardinality(Dropped) \in Nat
  /\ Cardinality(Started) \in Nat
<1>1. Holders \in SUBSET Consumers /\ Dropped \in SUBSET Consumers /\ Started \in SUBSET Keys
  BY DEF Holders, Dropped, Started
<1>2. IsFiniteSet(Holders) /\ IsFiniteSet(Dropped) /\ IsFiniteSet(Started)
  BY <1>1, PlannerAssumption, FS_Subset
<1> QED  BY <1>2, FS_CardinalityType

\* The steps that neither take nor return a permit change nothing that counts.
LEMMA OtherStepsCountNothing ==
  ASSUME PlannerInv, [PlannerNext]_plannerVars,
         ~ \E c \in Consumers : GetPermit(c) \/ Finish(c) \/ Drop(c)
  PROVE  /\ permits' = permits /\ Holders' = Holders /\ Dropped' = Dropped
         /\ Started' = Started /\ counts'.network = counts.network
<1> USE StateFunctions DEF PlannerInv
<1>0. counts \in Counters
  BY DEF StateTypes
<1>1. ASSUME NEW c \in Consumers, NEW w \in Wants[c], Demand(c, w)
      PROVE  /\ permits' = permits /\ cell' = cell /\ counts'.network = counts.network
             /\ \A d \in Consumers : /\ pc'[d] \in Holding <=> pc[d] \in Holding
                                     /\ pc'[d] = "dropped" <=> pc[d] = "dropped"
                                     /\ pc[d] \in Holding => Key(d)' = Key(d)
  <2>1. permits' = permits /\ cell' = cell /\ counts' = [counts EXCEPT !.demands = @ + 1]
    BY <1>1 DEF Demand
  <2>2. counts'.network = counts.network
    BY <1>0, <2>1, CountersType, Zenon, 0 \in Nat
  <2>3. pc[c] = "idle" /\ pc'[c] = "counted"
        /\ \A d \in Consumers \ {c} : pc'[d] = pc[d] /\ Key(d)' = Key(d)
    BY <1>1 DEF Demand, Goto, Key
  <2> QED  BY <2>1, <2>2, <2>3 DEF Holding
<1>2. ASSUME NEW c \in Consumers, ConsumerStep(c), ~(GetPermit(c) \/ Finish(c) \/ Drop(c))
      PROVE  /\ permits' = permits /\ cell' = cell /\ counts'.network = counts.network
             /\ \A d \in Consumers : /\ pc'[d] \in Holding <=> pc[d] \in Holding
                                     /\ pc'[d] = "dropped" <=> pc[d] = "dropped"
                                     /\ Key(d)' = Key(d)
  <2>1. /\ \A d \in Consumers : Key(d)' = Key(d)
        /\ \A d \in Consumers \ {c} : pc'[d] = pc[d]
    BY <1>2, ConsumerMoves DEF Key
  <2>2. ASSUME TurnAway(c) \/ Join(c) \/ Follow(c) \/ Lead(c)
        PROVE  /\ permits' = permits /\ cell' = cell /\ counts' = counts
               /\ pc[c] \notin Holding \union {"dropped"} /\ pc'[c] \notin Holding \union {"dropped"}
    BY <2>2 DEF TurnAway, Join, Follow, Lead, Goto, Holding
  <2>3. ASSUME CacheHit(c)
        PROVE  /\ permits' = permits /\ cell' = cell /\ counts' = [counts EXCEPT !.hits = @ + 1]
               /\ pc[c] \notin Holding \union {"dropped"} /\ pc'[c] \notin Holding \union {"dropped"}
    BY <2>3 DEF CacheHit, Goto, Holding
  <2>4. ASSUME RetryAttempt(c) \/ PageArrives(c)
        PROVE  permits' = permits /\ cell' = cell /\ counts' = counts /\ pc' = pc
    BY <2>4 DEF RetryAttempt, PageArrives
  <2>5. ASSUME NEW r, NEW n, Ends(c, r, n)
        PROVE  /\ permits' = permits /\ cell' = cell /\ counts' = counts
               /\ pc[c] \in Holding /\ pc'[c] \in Holding
    BY <2>5 DEF Ends, Goto, Holding
  <2>6. CASE TurnAway(c) \/ Join(c) \/ Follow(c) \/ Lead(c)
    BY <2>1, <2>2, <2>6
  <2>7. CASE CacheHit(c)
    <3>1. counts'.network = counts.network
      BY <1>0, <2>3, <2>7, CountersType, Zenon, 0 \in Nat
    <3> QED  BY <2>1, <2>3, <2>7, <3>1
  <2>8. CASE RetryAttempt(c) \/ PageArrives(c)
    BY <2>1, <2>4, <2>8
  <2>9. CASE LastPage(c) \/ (\E why \in Replies : Fails(c, why)) \/ SeesCancel(c)
    <3>1. /\ permits' = permits /\ cell' = cell /\ counts' = counts
          /\ pc[c] \in Holding /\ pc'[c] \in Holding
      BY <2>5, <2>9 DEF LastPage, Fails, SeesCancel
    <3> QED  BY <2>1, <3>1 DEF Holding
  <2> QED
    BY <1>2, <2>6, <2>7, <2>8, <2>9 DEF ConsumerStep, DemandStep, QueryStep
<1>3. ASSUME Cancel \/ FlushToLedger \/ UNCHANGED plannerVars
      PROVE  /\ permits' = permits /\ cell' = cell /\ counts' = counts /\ pc' = pc
             /\ \A d \in Consumers : Key(d)' = Key(d)
  BY <1>3 DEF Cancel, FlushToLedger, plannerVars, Key
<1>4. /\ permits' = permits /\ cell' = cell /\ counts'.network = counts.network
      /\ \A d \in Consumers : /\ pc'[d] \in Holding <=> pc[d] \in Holding
                              /\ pc'[d] = "dropped" <=> pc[d] = "dropped"
                              /\ pc[d] \in Holding => Key(d)' = Key(d)
  BY <1>1, <1>2, <1>3 DEF PlannerNext, ConsumerStep
<1>5. Holders' = Holders /\ Dropped' = Dropped
  BY <1>4, Zenon DEF Holders, Dropped
<1>6. \A d \in Holders : Key(d)' = Key(d)
  BY <1>4 DEF Holders
<1>7. Started' = Started
  BY <1>4, <1>5, <1>6, Zenon DEF Started
<1> QED  BY <1>4, <1>5, <1>7

\* Who holds a permit, and what that does to the counted sets.
LEMMA PermitTaken ==
  ASSUME PlannerInv, NEW c \in Consumers, GetPermit(c)
  PROVE  /\ permits > 0 /\ permits' = permits - 1
         /\ c \notin Holders /\ Holders' = Holders \union {c}
         /\ Key(c) \notin Started /\ Started' = Started \union {Key(c)}
         /\ Dropped' = Dropped /\ counts'.network = counts.network + 1
<1> USE StateFunctions DEF PlannerInv
<1>1. /\ permits > 0 /\ permits' = permits - 1 /\ cell' = cell
      /\ pc[c] = "queued" /\ pc'[c] = "request"
      /\ \A d \in Consumers \ {c} : pc'[d] = pc[d]
      /\ \A d \in Consumers : Key(d)' = Key(d)
  BY DEF GetPermit, Goto, Key
<1>2. counts'.network = counts.network + 1
  <2>1. counts \in Counters /\ counts' = [counts EXCEPT !.network = @ + 1] /\ 0 \in Nat
    BY DEF GetPermit, StateTypes
  <2> QED  BY <2>1, CountersType, Zenon
<1>3. c \notin Holders /\ Holders' = Holders \union {c} /\ Dropped' = Dropped
  BY <1>1 DEF Holders, Dropped, Holding
<1>4. Key(c) \in Keys /\ cell[Key(c)] = None /\ leader[Key(c)] = c
  BY <1>1, KeyOfWant DEF OneLeader, Leading
<1>5. \A d \in Holders : Key(d) # Key(c)
  BY <1>3, <1>4 DEF OneLeader, Leading, Holders
<1>6. Key(c) \notin Started
  BY <1>4, <1>5, Zenon DEF Started
<1>7. Started' = Started \union {Key(c)}
  <2>1. \A k : k \in Started' <=> k \in Keys /\ (cell[k] # None \/ \E d \in Holders' : Key(d) = k)
    BY <1>1, <1>3 DEF Started, Holders
  <2>2. \A k : k \in Started <=> k \in Keys /\ (cell[k] # None \/ \E d \in Holders : Key(d) = k)
    BY DEF Started
  <2>3. \A k : k \in Started' <=> k \in Started \/ k = Key(c)
    BY <1>3, <1>4, <2>1, <2>2, Zenon
  <2> QED  BY <2>3
<1> QED  BY <1>1, <1>2, <1>3, <1>6, <1>7

LEMMA PermitReturned ==
  ASSUME PlannerInv, NEW c \in Consumers, Finish(c)
  PROVE  /\ permits' = permits + 1
         /\ c \in Holders /\ Holders' = Holders \ {c}
         /\ Started' = Started /\ Dropped' = Dropped /\ counts'.network = counts.network
<1> USE StateFunctions DEF PlannerInv
<1>0. ConsumerStep(c)
  BY DEF ConsumerStep, QueryStep
<1>1. /\ permits' = permits + 1 /\ pc[c] = "finish" /\ pc'[c] = "answered"
      /\ \A d \in Consumers \ {c} : pc'[d] = pc[d]
      /\ \A d \in Consumers : Key(d)' = Key(d)
  BY <1>0, ConsumerMoves, FinishFills DEF Finish, Key
<1>2. counts'.network = counts.network
  <2>1. PICK n \in Nat : n = call[c].retries
    BY FinishFills, PlannerAssumption, RetriesAssumption DEF ResultOK, Completed
  <2>2. counts' = [counts EXCEPT !.retries = @ + n]
    BY <2>1, Zenon DEF Finish
  <2>3. counts \in Counters
    BY DEF StateTypes
  <2> QED  BY <2>2, <2>3, CountersType, Zenon
<1>3. c \in Holders /\ Holders' = Holders \ {c} /\ Dropped' = Dropped
  BY <1>1 DEF Holders, Dropped, Holding
<1>4. /\ Key(c) \in Keys /\ cell'[Key(c)] # None
      /\ \A k \in Keys \ {Key(c)} : cell'[k] = cell[k]
  BY FinishFills
<1>5. Started' = Started
  <2>1. \A k : k \in Started' <=> k \in Keys /\ (cell'[k] # None \/ \E d \in Holders' : Key(d) = k)
    BY <1>1, <1>3 DEF Started, Holders
  <2>2. \A k : k \in Started <=> k \in Keys /\ (cell[k] # None \/ \E d \in Holders : Key(d) = k)
    BY DEF Started
  <2>3. Key(c) \in Started /\ Key(c) \in Started'
    BY <1>3, <1>4, <2>1, <2>2, Zenon
  <2>4. \A k : k # Key(c) => (k \in Started' <=> k \in Started)
    BY <1>3, <1>4, <2>1, <2>2
  <2> QED  BY <2>3, <2>4
<1> QED  BY <1>1, <1>2, <1>3, <1>5

LEMMA PermitDropped ==
  ASSUME PlannerInv, NEW c \in Consumers, Drop(c)
  PROVE  /\ permits' = IF c \in Holders THEN permits + 1 ELSE permits
         /\ Holders' = Holders \ {c}
         /\ c \notin Dropped /\ Dropped' = Dropped \union {c}
         /\ Started' \subseteq Started
         /\ c \in Holders => Started \subseteq Started' \union {Key(c)}
         /\ c \notin Holders => Started' = Started
         /\ counts'.network = counts.network
<1> USE StateFunctions DEF PlannerInv
<1>0. ConsumerStep(c)
  BY DEF ConsumerStep
<1>1. /\ permits' = IF pc[c] \in Holding THEN permits + 1 ELSE permits
      /\ cell' = cell /\ counts' = counts /\ pc[c] # "dropped" /\ pc'[c] = "dropped"
      /\ \A d \in Consumers \ {c} : pc'[d] = pc[d]
      /\ \A d \in Consumers : Key(d)' = Key(d)
  BY <1>0, ConsumerMoves DEF Drop, Key, Holding
<1>2. Holders' = Holders \ {c} /\ c \notin Dropped /\ Dropped' = Dropped \union {c}
  BY <1>1 DEF Holders, Dropped, Holding
<1>3. permits' = IF c \in Holders THEN permits + 1 ELSE permits
  BY <1>1 DEF Holders
<1>4. \A k : k \in Started' <=> k \in Keys /\ (cell[k] # None \/ \E d \in Holders' : Key(d) = k)
  BY <1>1, <1>2 DEF Started, Holders
<1>5. \A k : k \in Started <=> k \in Keys /\ (cell[k] # None \/ \E d \in Holders : Key(d) = k)
  BY DEF Started
<1>6. \A k : k \in Started' => k \in Started
  BY <1>2, <1>4, <1>5, Zenon
<1>7. \A k : k \in Started => k \in Started' \/ k = Key(c)
  BY <1>2, <1>4, <1>5, Zenon
<1>8. c \notin Holders => \A k : k \in Started => k \in Started'
  BY <1>2, <1>4, <1>5, Zenon
<1> QED  BY <1>1, <1>2, <1>3, <1>6, <1>7, <1>8

LEMMA PermitsStep ==
  ASSUME PlannerInv, [PlannerNext]_plannerVars, StateTypes'
  PROVE  PermitsAreKept'
<1> USE CountedSetsAreFinite, PlannerAssumption DEF PlannerInv
<1>0. permits \in Nat /\ permits + Cardinality(Holders) = MaxPermits
  BY DEF StateTypes, PermitsAreKept
<1>1. ASSUME NEW c \in Consumers, GetPermit(c)
      PROVE  PermitsAreKept'
  <2>1. Cardinality(Holders') = Cardinality(Holders) + 1
    BY <1>1, PermitTaken, FS_AddElement
  <2> QED  BY <1>0, <1>1, <2>1, PermitTaken DEF PermitsAreKept
<1>2. ASSUME NEW c \in Consumers, Finish(c)
      PROVE  PermitsAreKept'
  <2>1. Cardinality(Holders') = Cardinality(Holders) - 1
    BY <1>2, PermitReturned, FS_RemoveElement
  <2> QED  BY <1>0, <1>2, <2>1, PermitReturned DEF PermitsAreKept
<1>3. ASSUME NEW c \in Consumers, Drop(c)
      PROVE  PermitsAreKept'
  <2>1. Cardinality(Holders') = IF c \in Holders THEN Cardinality(Holders) - 1
                                ELSE Cardinality(Holders)
    BY <1>3, PermitDropped, FS_RemoveElement
  <2> QED  BY <1>0, <1>3, <2>1, PermitDropped DEF PermitsAreKept
<1>4. CASE ~ \E c \in Consumers : GetPermit(c) \/ Finish(c) \/ Drop(c)
  BY <1>0, <1>4, OtherStepsCountNothing DEF PermitsAreKept
<1> QED  BY <1>1, <1>2, <1>3, <1>4

LEMMA RequestsStep ==
  ASSUME PlannerInv, [PlannerNext]_plannerVars, StateTypes'
  PROVE  RequestsAreCharged'
<1> USE CountedSetsAreFinite DEF PlannerInv
<1>0. /\ counts.network \in Nat
      /\ counts.network <= Cardinality(Started) + Cardinality(Dropped)
  BY DEF StateTypes, Counters, RequestsAreCharged
<1>1. ASSUME NEW c \in Consumers, GetPermit(c)
      PROVE  RequestsAreCharged'
  <2>1. Cardinality(Started') = Cardinality(Started) + 1
    BY <1>1, PermitTaken, FS_AddElement
  <2> QED  BY <1>0, <1>1, <2>1, PermitTaken DEF RequestsAreCharged
<1>2. ASSUME NEW c \in Consumers, Finish(c)
      PROVE  RequestsAreCharged'
  BY <1>0, <1>2, PermitReturned DEF RequestsAreCharged
<1>3. ASSUME NEW c \in Consumers, Drop(c)
      PROVE  RequestsAreCharged'
  <2>1. Cardinality(Dropped') = Cardinality(Dropped) + 1
    BY <1>3, PermitDropped, FS_AddElement
  <2>2. IsFiniteSet(Started') /\ Cardinality(Started') \in Nat
    BY <1>3, PermitDropped, FS_Subset, FS_CardinalityType
  <2>3. Cardinality(Started) <= Cardinality(Started') + 1
    <3>1. /\ IsFiniteSet(Started' \union {Key(c)})
          /\ Cardinality(Started' \union {Key(c)}) <= Cardinality(Started') + 1
      <4>1. /\ IsFiniteSet(Started' \union {Key(c)})
            /\ Cardinality(Started' \union {Key(c)}) =
                 IF Key(c) \in Started' THEN Cardinality(Started') ELSE Cardinality(Started') + 1
        BY <2>2, FS_AddElement, Zenon
      <4> QED  BY <2>2, <4>1
    <3>2. Started \in SUBSET (Started' \union {Key(c)})
      BY <1>3, PermitDropped
    <3>3. Cardinality(Started) <= Cardinality(Started' \union {Key(c)})
      BY <3>1, <3>2, FS_Subset
    <3>4. Cardinality(Started' \union {Key(c)}) \in Nat
      BY <3>1, FS_CardinalityType
    <3> QED  BY <2>2, <3>1, <3>3, <3>4
  <2> QED  BY <1>0, <1>3, <2>1, <2>2, <2>3, PermitDropped DEF RequestsAreCharged
<1>4. CASE ~ \E c \in Consumers : GetPermit(c) \/ Finish(c) \/ Drop(c)
  BY <1>0, <1>4, OtherStepsCountNothing DEF RequestsAreCharged
<1> QED  BY <1>1, <1>2, <1>3, <1>4
-----------------------------------------------------------------------------
(***************************************************************************)
(* The theorems                                                            *)
(***************************************************************************)

LEMMA InitInv == PlannerInit => PlannerInv
<1> SUFFICES ASSUME PlannerInit PROVE PlannerInv
  OBVIOUS
<1> USE PlannerAssumption DEF PlannerInit
<1>1. StateTypes
  <2>1. counts \in Counters
    BY DEF Counters
  <2>2. /\ requirements \in [Keys -> {None, "Optional", "Required"}]
        /\ leader \in [Keys -> Consumers \union {None}]
    OBVIOUS
  <2>3. pc \in [Consumers -> PCs]
    BY DEF PCs
  <2>4. permits \in Nat /\ flights \subseteq Keys /\ cancelled \in BOOLEAN
    OBVIOUS
  <2>5. queue \in Seq(Consumers)
    BY EmptySeq
  <2>6. /\ cell = [k \in Keys |-> cell[k]] /\ want = [c \in Consumers |-> want[c]]
        /\ call = [c \in Consumers |-> call[c]] /\ answer = [c \in Consumers |-> answer[c]]
    OBVIOUS
  <2> QED  BY <2>1, <2>2, <2>3, <2>4, <2>5, <2>6 DEF StateTypes
<1>2. WantsArePlaced /\ CallsAreSound /\ CellsAreSound /\ OneLeader /\ AnswersAreCells
  BY DEF WantsArePlaced, CallsAreSound, CellsAreSound, OneLeader, AnswersAreCells, Leading, Holding
<1>3. RequirementsAreJoined /\ FlushIsLast
  <2>1. \A k \in Keys : None # [key |-> k, req |-> "Required"]
    BY DEF Demands
  <2> QED  BY <2>1 DEF RequirementsAreJoined, FlushIsLast
<1>4. Holders = {} /\ Dropped = {} /\ Started = {}
  BY DEF Holders, Dropped, Started, Holding
<1>5. PermitsAreKept /\ RequestsAreCharged
  BY <1>4, FS_EmptySet DEF PermitsAreKept, RequestsAreCharged
<1> QED  BY <1>1, <1>2, <1>3, <1>5 DEF PlannerInv

LEMMA NextInv == PlannerInv /\ [PlannerNext]_plannerVars => PlannerInv'
<1> SUFFICES ASSUME PlannerInv, [PlannerNext]_plannerVars PROVE PlannerInv'
  OBVIOUS
<1>1. StateTypes'
  BY StateTypesStep
<1> QED
  BY <1>1, WantsStep, CallsStep, CellsStep, LeadersStep, AnswersStep, RequirementsStep,
     FlushStep, PermitsStep, RequestsStep DEF PlannerInv

\* The inductive invariant of the planner.
THEOREM PlannerInvariant == PlannerSpec => []PlannerInv
BY InitInv, NextInv, PTL DEF PlannerSpec

\* The types follow from the invariant.
LEMMA TypesFollow ==
  ASSUME PlannerInv
  PROVE  PlannerTypeOK
<1> USE DEF PlannerInv
<1>1. permits \in 0..MaxPermits
  BY CountedSetsAreFinite, PlannerAssumption DEF StateTypes, PermitsAreKept
<1>2. \A k \in Keys : cell[k] \in Completed(k) \union {None}
  BY DEF CellsAreSound, ResultOK
<1>3. ASSUME NEW c \in Consumers
      PROVE  /\ want[c] # None => Key(c) \in Keys
             /\ pc[c] = "request" => call[c] \in Call(PageCount[Key(c)])
  BY KeyOfWant DEF WantsArePlaced, CallsAreSound, CallOK
<1>4. pc \in [Consumers -> {"idle", "counted", "joined", "queued", "answered", "dropped"}
                             \union Holding]
  BY DEF StateTypes, PCs
<1>5. counts \in [demands : Nat, hits : Nat, network : Nat, retries : Nat]
  BY DEF StateTypes, Counters
<1> QED  BY <1>1, <1>2, <1>3, <1>4, <1>5 DEF PlannerTypeOK, StateTypes

\* Type correctness of the planner, the permits and the request of every leader
\* included, for any consumers, queries, page counts and permits.
THEOREM PlannerTypes == PlannerSpec => []PlannerTypeOK
<1>1. PlannerInv => PlannerTypeOK
  BY TypesFollow
<1> QED  BY <1>1, PlannerInvariant, PTL

\* Requests are charged to flights, which are keys that were started, or to the
\* dropped.
LEMMA OneRequestFollows ==
  ASSUME PlannerInv
  PROVE  OneRequestPerKey
<1> USE DEF PlannerInv
<1>1. Started \in SUBSET flights /\ flights \in SUBSET Keys
  BY DEF Started, Holders, Holding, Leading, CellsAreSound, OneLeader, StateTypes
<1>2. IsFiniteSet(flights)
  BY <1>1, PlannerAssumption, FS_Subset
<1>3. Cardinality(Started) <= Cardinality(flights) /\ Cardinality(flights) \in Nat
  BY <1>1, <1>2, FS_Subset, FS_CardinalityType
<1>4. /\ counts.network \in Nat
      /\ counts.network <= Cardinality(Started) + Cardinality(Dropped)
  BY DEF StateTypes, Counters, RequestsAreCharged
<1>5. counts.network <= Cardinality(flights) + Cardinality(Dropped)
  BY <1>3, <1>4, CountedSetsAreFinite
<1> QED  BY <1>5 DEF OneRequestPerKey, Dropped

\* A query goes to the server once, and again only for a leader that was
\* dropped: the requests are at most the flights and the dropped consumers.
THEOREM PlannerOneRequestPerKey == PlannerSpec => []OneRequestPerKey
<1>1. PlannerInv => OneRequestPerKey
  BY OneRequestFollows
<1> QED  BY <1>1, PlannerInvariant, PTL

\* A record is made of the cell that the answers were taken from.
LEMMA HonestyFollows ==
  ASSUME PlannerInv
  PROVE  LedgerIsHonest
<1> USE DEF PlannerInv
<1> SUFFICES ASSUME ledger # None, NEW c \in Consumers,
                    pc[c] = "answered", answer[c] # Failure("cancelled")
             PROVE  \E r \in ledger :
                      /\ {q \in ledger : q.key = Key(c)} = {r}
                      /\ r.success = (answer[c].kind = "success")
                      /\ r.requirement = "Required" <=>
                           \E d \in Consumers :
                             want[d] = [key |-> Key(c), req |-> "Required"]
  BY Zenon DEF LedgerIsHonest
<1>1. cell[Key(c)] # None /\ answer[c] = cell[Key(c)].result
  BY Zenon DEF AnswersAreCells
<1>2. Key(c) \in Keys /\ Key(c) \in flights
  BY <1>1, KeyOfWant DEF CellsAreSound
<1>3. ledger = {Record(k) : k \in {k \in flights : cell[k] # None}}
  BY DEF FlushIsLast
<1>4. Record(Key(c)) \in ledger
  BY <1>1, <1>2, <1>3
<1>5. \A k : Record(k).key = k
  BY DEF Record
<1>6. {q \in ledger : q.key = Key(c)} = {Record(Key(c))}
  BY <1>3, <1>4, <1>5
<1>7. /\ Record(Key(c)).success = (answer[c].kind = "success")
      /\ Record(Key(c)).requirement = requirements[Key(c)]
  BY <1>1 DEF Record
<1>8. requirements[Key(c)] = "Required" <=>
        \E d \in Consumers : want[d] = [key |-> Key(c), req |-> "Required"]
  BY <1>2 DEF RequirementsAreJoined
<1> QED  BY <1>4, <1>6, <1>7, <1>8, Zenon

\* What flush_to_ledger records of a query that was answered is one record,
\* with the success the consumers were told and the strictest requirement any
\* of them stated, whatever the order in which they asked.
THEOREM PlannerLedgerIsHonest == PlannerSpec => []LedgerIsHonest
<1>1. PlannerInv => LedgerIsHonest
  BY HonestyFollows
<1> QED  BY <1>1, PlannerInvariant, PTL
-----------------------------------------------------------------------------
(***************************************************************************)
(* The planner implements QueryContract                                    *)
(***************************************************************************)

\* What the contract calls decided and asked.
Decided == [k \in Keys |-> IF cell[k] = None THEN None ELSE cell[k].result]
Asked   == [c \in Consumers |-> IF want[c] = None THEN None ELSE Key(c)]

LEMMA AskedKey ==
  ASSUME WantsArePlaced, NEW c \in Consumers, pc[c] # "idle"
  PROVE  Asked[c] = Key(c) /\ Asked[c] # None /\ Asked[c] \in Keys
BY KeyOfWant, PlannerAssumption DEF Asked

LEMMA DecidedResult ==
  ASSUME CellsAreSound, NEW k \in Keys, cell[k] # None
  PROVE  Decided[k] = cell[k].result /\ Decided[k] # None
<1>1. cell[k].result \in Outcomes(k)
  BY DEF CellsAreSound, ResultOK, Completed
<1> QED  BY <1>1, NoResultIsNone DEF Decided

\* A decision is a result of the query, or "cancelled" after a cancellation.
LEMMA ResultsAreAllowed ==
  ASSUME NEW k \in Keys, NEW done, ResultOK(k, done)
  PROVE  done.result \in Contract!Results(k)
                           \union (IF cancelled THEN {Contract!Cancelled} ELSE {})
<1>1. done.result \in Outcomes(k)
  BY DEF ResultOK, Completed
<1>2. CASE done.result = Success(WholeList(k))
  BY <1>2 DEF Success, WholeList, Contract!Results, Contract!WholeList
<1>3. CASE done.result = Failure("cancelled")
  BY <1>3 DEF ResultOK, Failure, Contract!Cancelled
<1>4. ASSUME NEW why \in {"transient", "refused"}, done.result = Failure(why)
      PROVE  done.result \in Contract!Results(k)
  BY <1>4 DEF Failure, Contract!Results
<1> QED  BY <1>1, <1>2, <1>3, <1>4 DEF Outcomes, FailureReasons

\* The steps the contract does not see.
LEMMA HiddenStep ==
  ASSUME Decided' = Decided, Asked' = Asked, answer' = answer, cancelled' = cancelled
  PROVE  [Contract!ContractNext]_(Contract!contractVars)
BY DEF Contract!contractVars, Decided, Asked

LEMMA StepImplements ==
  ASSUME PlannerInv, PlannerInv', [PlannerNext]_plannerVars
  PROVE  [Contract!ContractNext]_(Contract!contractVars)
<1> USE StateFunctions DEF PlannerInv
<1>1. ASSUME NEW c \in Consumers, NEW w \in Wants[c], Demand(c, w)
      PROVE  Contract!ContractNext
  <2>1. /\ want[c] = None /\ want'[c] = w /\ w # None /\ w.key \in Keys
        /\ \A d \in Consumers \ {c} : want'[d] = want[d] /\ Key(d)' = Key(d)
        /\ cell' = cell /\ answer' = answer /\ cancelled' = cancelled
    BY <1>1, PlannerAssumption DEF Demand, Goto, WantsArePlaced, Key, Demands
  <2>2. Asked[c] = None /\ Asked' = [Asked EXCEPT ![c] = w.key]
    BY <2>1 DEF Asked, Key
  <2>3. Decided' = Decided
    BY <2>1 DEF Decided
  <2>4. Contract!Ask(c, w.key)
    BY <2>1, <2>2, <2>3 DEF Contract!Ask, Asked, Decided
  <2> QED  BY <2>1, <2>4 DEF Contract!ContractNext
<1>2. ASSUME NEW c \in Consumers, ConsumerStep(c)
      PROVE  Asked' = Asked /\ cancelled' = cancelled
             /\ answer[c] = None /\ Asked[c] # None /\ Asked[c] = Key(c) /\ Key(c) \in Keys
  BY <1>2, ConsumerMoves, AskedKey DEF Asked, Key, AnswersAreCells
<1>3. ASSUME NEW c \in Consumers, TurnAway(c)
      PROVE  Contract!ContractNext
  <2>1. /\ cancelled /\ cell' = cell
        /\ answer' = [answer EXCEPT ![c] = Failure("cancelled")]
    BY <1>3 DEF TurnAway
  <2>2. /\ Asked' = Asked /\ cancelled' = cancelled /\ answer[c] = None /\ Asked[c] # None
    BY <1>2, <1>3 DEF ConsumerStep, DemandStep
  <2>3. Contract!TurnAway(c)
    BY <2>1, <2>2 DEF Contract!TurnAway, Contract!Cancelled, Failure, Asked, Decided
  <2> QED  BY <2>3 DEF Contract!ContractNext
<1>4. ASSUME NEW c \in Consumers, CacheHit(c) \/ Follow(c)
      PROVE  Contract!ContractNext
  <2>1. /\ cell[Key(c)] # None /\ cell' = cell
        /\ answer' = [answer EXCEPT ![c] = cell[Key(c)].result]
    BY <1>4 DEF CacheHit, Follow
  <2>2. /\ Asked' = Asked /\ cancelled' = cancelled /\ answer[c] = None
        /\ Asked[c] # None /\ Asked[c] = Key(c) /\ Key(c) \in Keys
    BY <1>2, <1>4 DEF ConsumerStep, DemandStep
  <2>3. Decided' = Decided /\ Decided[Key(c)] = cell[Key(c)].result /\ Decided[Key(c)] # None
    BY <2>1, <2>2, DecidedResult DEF Decided
  <2>4. answer' = [answer EXCEPT ![c] = Decided'[Asked[c]]]
    BY <2>1, <2>2, <2>3, Zenon
  <2>5. answer'[c] # None
    BY <2>2, <2>3, <2>4
  <2>6. Contract!Answer(c)
    BY <2>2, <2>3, <2>4, <2>5, Zenon DEF Contract!Answer, Asked, Decided
  <2> QED  BY <2>6 DEF Contract!ContractNext
<1>5. ASSUME NEW c \in Consumers, Finish(c)
      PROVE  Contract!ContractNext
  <2>1. /\ Asked' = Asked /\ cancelled' = cancelled /\ answer[c] = None
        /\ Asked[c] # None /\ Asked[c] = Key(c) /\ Key(c) \in Keys
    BY <1>2, <1>5 DEF ConsumerStep, QueryStep
  <2>2. /\ ResultOK(Key(c), call[c]) /\ cell[Key(c)] = None
        /\ cell'[Key(c)] = call[c] /\ cell'[Key(c)] # None
        /\ \A k \in Keys \ {Key(c)} : cell'[k] = cell[k]
    BY <1>5, FinishFills
  <2>3. Decided[Key(c)] = None
    BY <2>1, <2>2 DEF Decided
  <2>4. Decided' = [Decided EXCEPT ![Key(c)] = call[c].result]
    BY <2>1, <2>2 DEF Decided
  <2>5. Decided'[Key(c)] = call[c].result /\ Decided'[Key(c)] # None
    <3>1. call[c].result \in Outcomes(Key(c))
      BY <2>2 DEF ResultOK, Completed
    <3>2. Decided'[Key(c)] = call[c].result
      BY <2>1, <2>4 DEF Decided
    <3> QED  BY <2>1, <3>1, <3>2, NoResultIsNone
  <2>6. answer' = [answer EXCEPT ![c] = Decided'[Asked[c]]]
    <3>1. answer' = [answer EXCEPT ![c] = call[c].result]
      BY <1>5, Zenon DEF Finish
    <3> QED  BY <2>1, <2>5, <3>1, Zenon
  <2>7. answer'[c] # None
    BY <2>1, <2>5, <2>6
  <2>8. call[c].result \in Contract!Results(Key(c))
                             \union (IF cancelled THEN {Contract!Cancelled} ELSE {})
    BY <2>1, <2>2, ResultsAreAllowed
  <2>9. Contract!Answer(c)
    BY <2>1, <2>3, <2>4, <2>6, <2>7, <2>8, Zenon DEF Contract!Answer, Asked, Decided
  <2> QED  BY <2>9 DEF Contract!ContractNext
<1>6. ASSUME NEW c \in Consumers,
             Join(c) \/ Lead(c) \/ (QueryStep(c) /\ ~Finish(c)) \/ Drop(c)
      PROVE  [Contract!ContractNext]_(Contract!contractVars)
  <2>1. cell' = cell /\ answer' = answer
    BY <1>6
    DEF Join, Lead, QueryStep, GetPermit, RetryAttempt, PageArrives, LastPage, Fails, SeesCancel,
        Ends, Drop
  <2>2. Asked' = Asked /\ cancelled' = cancelled
    BY <1>2, <1>6 DEF ConsumerStep, DemandStep
  <2>3. Decided' = Decided
    BY <2>1 DEF Decided
  <2> QED  BY <2>1, <2>2, <2>3, HiddenStep
<1>7. CASE Cancel
  <2>1. cell' = cell /\ answer' = answer /\ want' = want /\ cancelled' = TRUE
    BY <1>7 DEF Cancel
  <2>2. Contract!Cancel
    BY <2>1 DEF Contract!Cancel, Key
  <2> QED  BY <2>2 DEF Contract!ContractNext
<1>8. CASE FlushToLedger \/ UNCHANGED plannerVars
  <2>1. cell' = cell /\ answer' = answer /\ want' = want /\ cancelled' = cancelled
    BY <1>8 DEF FlushToLedger, plannerVars
  <2>2. Decided' = Decided /\ Asked' = Asked
    BY <2>1 DEF Decided, Asked, Key
  <2> QED  BY <2>1, <2>2, HiddenStep
<1> QED
  BY <1>1, <1>3, <1>4, <1>5, <1>6, <1>7, <1>8 DEF PlannerNext, DemandStep, QueryStep

\* The planner implements the contract: a query is decided once, an answer is
\* the decision or "cancelled" after a cancellation, a list is the whole list.
THEOREM PlannerImplements == PlannerSpec => PlannerImplementsContract
<1>1. PlannerInit => Contract!ContractInit
  BY DEF PlannerInit, Contract!ContractInit
<1>2. PlannerInv /\ PlannerInv' /\ [PlannerNext]_plannerVars
        => [Contract!ContractNext]_(Contract!contractVars)
  BY StepImplements
<1> QED
  BY <1>1, <1>2, PlannerInvariant, PTL
  DEF PlannerSpec, PlannerImplementsContract, Contract!ContractSpec
=============================================================================
