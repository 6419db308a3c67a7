---------------------------- MODULE QueryPlanner ----------------------------
(***************************************************************************)
(* The query planner (src/src/kube/planner.rs): the consumers of one       *)
(* command demand GETs and LISTs, and a query is sent once however many    *)
(* demand it.  A flight per key holds a OnceCell: whoever enters           *)
(* get_or_init first runs the query, the others wait for the cell.         *)
(*                                                                         *)
(* The OnceCell and the semaphore are tokio's: one initialiser at a time,  *)
(* and an initialiser whose future is dropped hands over to a waiter; the  *)
(* semaphore is fair.                                                      *)
(***************************************************************************)
EXTENDS ApiCall, FiniteSets

CONSTANTS
  Consumers,   \* the demands of the command; each demands once
  Keys,        \* the QueryKeys they may name
  PageCount,   \* PageCount[k]: the pages the server has for k; 1 for a GET
  Wants,       \* Wants[c]: the demands c may make, a key and a requirement
  MaxPermits,  \* permits of the planner's semaphore
  Droppable,   \* the consumers whose future may be dropped (bound)
  None

Demands == [key : Keys, req : {"Required", "Optional"}]

ASSUME PlannerAssumption ==
  /\ IsFiniteSet(Consumers) /\ IsFiniteSet(Keys)
  /\ PageCount \in [Keys -> Nat \ {0}]
  /\ Wants \in [Consumers -> SUBSET Demands]
  /\ MaxPermits \in Nat \ {0}
  /\ Droppable \subseteq Consumers
  /\ None \notin Consumers \union Keys \union Demands \union {"Optional", "Required"}

\* What a query may come to, and the CompletedQuery that its cell keeps of it.
WholeList(k) == [i \in 1..PageCount[k] |-> i]
Outcomes(k) == {Success(WholeList(k))} \union {Failure(why) : why \in FailureReasons}
Completed(k) == [result : Outcomes(k), retries : 0..(PageCount[k] * MaxRetries)]

ASSUME NoResultIsNone ==
  \A k \in Keys : None \notin Outcomes(k) \union Completed(k)

VARIABLES
  requirements,  \* requirements[k]: None, "Optional" or "Required"
  flights,       \* the keys that have a flight
  cell,          \* cell[k]: the CompletedQuery of k's flight, or None
  leader,        \* leader[k]: who runs k's initialiser, or None
  cancelled,     \* the CancellationToken
  permits,       \* permits left in the semaphore
  queue,         \* who waits for a permit, first come first served
  pc,            \* pc[c]: where c is in demand
  want,          \* want[c]: the key and the requirement c demands, or None
  call,          \* call[c]: the request c runs as a leader
  answer,        \* answer[c]: what demand returned to c, or None
  counts,        \* the counters behind PlannerMetrics
  ledger         \* what flush_to_ledger recorded, None before it

plannerVars == <<requirements, flights, cell, leader, cancelled, permits, queue,
                 pc, want, call, answer, counts, ledger>>

PlannerInit ==
  /\ requirements = [k \in Keys |-> None]
  /\ flights = {}
  /\ cell = [k \in Keys |-> None]
  /\ leader = [k \in Keys |-> None]
  /\ cancelled = FALSE
  /\ permits = MaxPermits
  /\ queue = <<>>
  /\ pc = [c \in Consumers |-> "idle"]
  /\ want = [c \in Consumers |-> None]
  /\ call = [c \in Consumers |-> None]
  /\ answer = [c \in Consumers |-> None]
  /\ counts = [demands |-> 0, hits |-> 0, network |-> 0, retries |-> 0]
  /\ ledger = None

Goto(c, from, to) ==
  /\ pc[c] = from
  /\ pc' = [pc EXCEPT ![c] = to]

Key(c) == want[c].key
Holding == {"request", "finish"}
-----------------------------------------------------------------------------
(***************************************************************************)
(* demand                                                                  *)
(***************************************************************************)

DemandOverwrites(c, w) ==
  /\ Goto(c, "idle", "counted")
  /\ ledger = None
  /\ want' = [want EXCEPT ![c] = w]
  /\ requirements' = [requirements EXCEPT ![w.key] = w.req]
  /\ counts' = [counts EXCEPT !.demands = @ + 1]
  /\ UNCHANGED <<flights, cell, leader, cancelled, permits, queue, call, answer,
                 ledger>>

\* The demand is counted, and the key's requirement only ever goes up.  A
\* command demands nothing after it has flushed the planner.
Demand(c, w) ==
  /\ Goto(c, "idle", "counted")
  /\ ledger = None
  /\ want' = [want EXCEPT ![c] = w]
  /\ requirements' = [requirements EXCEPT
       ![w.key] = IF w.req = "Required" \/ @ = "Required" THEN "Required"
                  ELSE "Optional"]
  /\ counts' = [counts EXCEPT !.demands = @ + 1]
  /\ UNCHANGED <<flights, cell, leader, cancelled, permits, queue, call, answer,
                 ledger>>

\* A cancelled planner turns the demand away.
TurnAway(c) ==
  /\ cancelled
  /\ Goto(c, "counted", "answered")
  /\ answer' = [answer EXCEPT ![c] = Failure("cancelled")]
  /\ UNCHANGED <<requirements, flights, cell, leader, cancelled, permits, queue,
                 want, call, counts, ledger>>

\* The flight is found or made; a completed one is a cache hit.
CacheHit(c) ==
  /\ ~cancelled
  /\ Goto(c, "counted", "answered")
  /\ cell[Key(c)] # None
  /\ answer' = [answer EXCEPT ![c] = cell[Key(c)].result]
  /\ counts' = [counts EXCEPT !.hits = @ + 1]
  /\ UNCHANGED <<requirements, flights, cell, leader, cancelled, permits, queue,
                 want, call, ledger>>

Join(c) ==
  /\ ~cancelled
  /\ Goto(c, "counted", "joined")
  /\ cell[Key(c)] = None
  /\ flights' = flights \union {Key(c)}
  /\ UNCHANGED <<requirements, cell, leader, cancelled, permits, queue, want,
                 call, answer, counts, ledger>>

LeadRegardless(c) ==
  /\ Goto(c, "joined", "queued")
  /\ cell[Key(c)] = None
  /\ leader' = [leader EXCEPT ![Key(c)] = c]
  /\ queue' = Append(queue, c)
  /\ UNCHANGED <<requirements, flights, cell, cancelled, permits, want, call,
                 answer, counts, ledger>>

LeadIfFirst(c) ==
  /\ Goto(c, "joined", "queued")
  /\ leader[Key(c)] = None /\ cell[Key(c)] = None
  /\ \A d \in Consumers : pc[d] = "dropped" => Key(d) # Key(c)
  /\ leader' = [leader EXCEPT ![Key(c)] = c]
  /\ queue' = Append(queue, c)
  /\ UNCHANGED <<requirements, flights, cell, cancelled, permits, want, call,
                 answer, counts, ledger>>

\* get_or_init, for the one that becomes the initialiser: execute_query
\* starts by asking for a permit.
Lead(c) ==
  /\ Goto(c, "joined", "queued")
  /\ leader[Key(c)] = None /\ cell[Key(c)] = None
  /\ leader' = [leader EXCEPT ![Key(c)] = c]
  /\ queue' = Append(queue, c)
  /\ UNCHANGED <<requirements, flights, cell, cancelled, permits, want, call,
                 answer, counts, ledger>>

\* get_or_init, for the others: they are woken when the cell is set.
Follow(c) ==
  /\ Goto(c, "joined", "answered")
  /\ cell[Key(c)] # None
  /\ answer' = [answer EXCEPT ![c] = cell[Key(c)].result]
  /\ UNCHANGED <<requirements, flights, cell, leader, cancelled, permits, queue,
                 want, call, counts, ledger>>
-----------------------------------------------------------------------------
(***************************************************************************)
(* execute_query, run by the leader                                        *)
(***************************************************************************)

\* The head of the semaphore's queue gets a permit.  The wait for it does not
\* look at the CancellationToken.
GetPermit(c) ==
  /\ queue # <<>> /\ c = Head(queue) /\ permits > 0
  /\ Goto(c, "queued", "request")
  /\ queue' = Tail(queue)
  /\ permits' = permits - 1
  /\ call' = [call EXCEPT ![c] = NewCall]
  /\ counts' = [counts EXCEPT !.network = @ + 1]
  /\ UNCHANGED <<requirements, flights, cell, leader, cancelled, want, answer,
                 ledger>>

\* execute_get and execute_list: an attempt is over.  The select is biased, so
\* a reply is looked at only while nobody has cancelled.
RetryAttempt(c) ==
  /\ pc[c] = "request" /\ ~cancelled
  /\ TriesAgain(call[c], "transient")
  /\ call' = [call EXCEPT ![c] = Again(@)]
  /\ UNCHANGED <<requirements, flights, cell, leader, cancelled, permits, queue,
                 pc, want, answer, counts, ledger>>

PageArrives(c) ==
  /\ pc[c] = "request" /\ ~cancelled
  /\ call[c].page < PageCount[Key(c)]
  /\ call' = [call EXCEPT ![c] = NextPage(@)]
  /\ UNCHANGED <<requirements, flights, cell, leader, cancelled, permits, queue,
                 pc, want, answer, counts, ledger>>

\* The result of the call is known; it is not in the cell yet, and the locks of
\* the counters are awaited before it is.
Ends(c, result, retries) ==
  /\ Goto(c, "request", "finish")
  /\ call' = [call EXCEPT ![c] = [result |-> result, retries |-> retries]]
  /\ UNCHANGED <<requirements, flights, cell, leader, cancelled, permits, queue,
                 want, answer, counts, ledger>>

LastPage(c) ==
  /\ pc[c] = "request" /\ ~cancelled
  /\ call[c].page = PageCount[Key(c)]
  /\ LET done == WithPage(call[c])
     IN  Ends(c, Success(done.items), Spent(done))

FailsPartial(c, why) ==
  /\ pc[c] = "request" /\ ~cancelled
  /\ Ends(c, IF call[c].items = <<>> THEN Failure(why)
             ELSE Success(call[c].items), Spent(call[c]))

\* A reply that is not tried again: 403, a token that expired, or the last
\* attempt.  The pages that had arrived are discarded.
Fails(c, why) ==
  /\ pc[c] = "request" /\ ~cancelled
  /\ why \in {"transient", "refused"} /\ ~TriesAgain(call[c], why)
  /\ Ends(c, Failure(why), Spent(call[c]))

SeesCancel(c) ==
  /\ pc[c] = "request" /\ cancelled
  /\ Ends(c, Failure("cancelled"), Spent(call[c]))

\* The counters, the permit, the cell and the leader's own answer.
Finish(c) ==
  /\ Goto(c, "finish", "answered")
  /\ counts' = [counts EXCEPT !.retries = @ + call[c].retries]
  /\ cell' = [cell EXCEPT ![Key(c)] = call[c]]
  /\ answer' = [answer EXCEPT ![c] = call[c].result]
  /\ leader' = [leader EXCEPT ![Key(c)] = None]
  /\ permits' = permits + 1
  /\ call' = [call EXCEPT ![c] = None]
  /\ UNCHANGED <<requirements, flights, cancelled, queue, want, ledger>>
-----------------------------------------------------------------------------
(***************************************************************************)
(* What may happen around a demand                                         *)
(***************************************************************************)

\* Who waits for a permit when c has left the queue, in the same order.
Without(c) ==
  IF \E n \in DOMAIN queue : queue[n] = c
  THEN LET n == CHOOSE n \in DOMAIN queue : queue[n] = c
       IN  SubSeq(queue, 1, n - 1) \o SubSeq(queue, n + 1, Len(queue))
  ELSE queue

\* The future of a demand is dropped at an await: its place in the queue, its
\* permit and its hold on the cell go with it; what it had read is lost.
Drop(c) ==
  /\ c \in Droppable /\ pc[c] \in {"joined", "queued"} \union Holding
  /\ pc' = [pc EXCEPT ![c] = "dropped"]
  /\ queue' = Without(c)
  /\ permits' = IF pc[c] \in Holding THEN permits + 1 ELSE permits
  /\ leader' = [k \in Keys |-> IF leader[k] = c THEN None ELSE leader[k]]
  /\ call' = [call EXCEPT ![c] = None]
  /\ UNCHANGED <<requirements, flights, cell, cancelled, want, answer, counts,
                 ledger>>

Cancel ==
  /\ ~cancelled /\ ledger = None
  /\ cancelled' = TRUE
  /\ UNCHANGED <<requirements, flights, cell, leader, permits, queue, pc, want,
                 call, answer, counts, ledger>>

Record(k) ==
  [key |-> k, success |-> cell[k].result.kind = "success",
   requirement |-> requirements[k]]

\* flush_to_ledger, which a command calls after its last demand returned.
FlushToLedger ==
  /\ ledger = None
  /\ \A c \in Consumers : pc[c] \in {"idle", "answered", "dropped"}
  /\ ledger' = {Record(k) : k \in {k \in flights : cell[k] # None}}
  /\ UNCHANGED <<requirements, flights, cell, leader, cancelled, permits, queue,
                 pc, want, call, answer, counts>>
-----------------------------------------------------------------------------
DemandStep(c) == TurnAway(c) \/ CacheHit(c) \/ Join(c) \/ Lead(c) \/ Follow(c)

QueryStep(c) ==
  \/ GetPermit(c) \/ RetryAttempt(c) \/ PageArrives(c) \/ LastPage(c)
  \/ \E why \in Replies : Fails(c, why)
  \/ SeesCancel(c) \/ Finish(c)

PlannerNext ==
  \/ \E c \in Consumers :
       \/ \E w \in Wants[c] : Demand(c, w)
       \/ DemandStep(c) \/ QueryStep(c) \/ Drop(c)
  \/ Cancel \/ FlushToLedger

\* Every task the runtime polls goes on, and every request is answered or runs
\* into SCAN_REQUEST_TIMEOUT_SECS.
PlannerFairness ==
  \A c \in Consumers : WF_plannerVars(DemandStep(c) \/ QueryStep(c))

PlannerSpec ==
  PlannerInit /\ [][PlannerNext]_plannerVars /\ PlannerFairness
-----------------------------------------------------------------------------
(***************************************************************************)
(* Properties                                                              *)
(***************************************************************************)

PlannerTypeOK ==
  /\ requirements \in [Keys -> {None, "Optional", "Required"}]
  /\ flights \subseteq Keys
  /\ \A k \in Keys : cell[k] \in Completed(k) \union {None}
  /\ leader \in [Keys -> Consumers \union {None}]
  /\ cancelled \in BOOLEAN
  /\ permits \in 0..MaxPermits
  /\ queue \in Seq(Consumers)
  /\ pc \in [Consumers -> {"idle", "counted", "joined", "queued", "answered",
                           "dropped"} \union Holding]
  /\ counts \in [demands : Nat, hits : Nat, network : Nat, retries : Nat]
  /\ \A c \in Consumers :
       /\ want[c] # None => Key(c) \in Keys
       /\ pc[c] = "request" => call[c] \in Call(PageCount[Key(c)])

\* The coverage ledger a strict run is judged by (resource.rs has_incomplete)
\* tells the truth: for every query that was answered it has one record, of a
\* success exactly if the answer was one, and as Required if any consumer
\* required it, in whatever order they asked.
LedgerIsHonest ==
  ledger # None =>
    \A c \in Consumers :
      pc[c] = "answered" /\ answer[c] # Failure("cancelled") =>
        \E r \in ledger :
          /\ {q \in ledger : q.key = Key(c)} = {r}
          /\ r.success = (answer[c].kind = "success")
          /\ r.requirement = "Required" <=>
               \E d \in Consumers : want[d] = [key |-> Key(c), req |-> "Required"]

\* A query is sent again only for a leader that was dropped.
OneRequestPerKey ==
  counts.network <= Cardinality(flights)
                      + Cardinality({c \in Consumers : pc[c] = "dropped"})

\* Every demand returns, whoever is cancelled, dropped or refused around it: a
\* follower whose leader is dropped takes the query over.
EveryDemandIsAnswered ==
  \A c \in Consumers :
    pc[c] = "counted" ~> pc[c] \in {"answered", "dropped"}

\* The planner implements QueryContract: one decision per key, whole lists.
Contract == INSTANCE QueryContract WITH
  decided <- [k \in Keys |-> IF cell[k] = None THEN None ELSE cell[k].result],
  asked   <- [c \in Consumers |-> IF want[c] = None THEN None ELSE Key(c)]

PlannerImplementsContract == Contract!ContractSpec
=============================================================================
