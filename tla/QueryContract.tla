--------------------------- MODULE QueryContract ---------------------------
(***************************************************************************)
(* What the query planner promises its consumers: a query is decided at    *)
(* most once in the life of the planner, whoever and however many ask for  *)
(* it; an answer is that decision, or "cancelled" once somebody cancelled; *)
(* and a list that is answered is the whole list.                          *)
(***************************************************************************)
EXTENDS Naturals, Sequences

CONSTANTS
  Consumers,   \* the concurrent demands
  Keys,        \* the queries that may be demanded
  PageCount,   \* PageCount[k]: the pages the server has for k
  None

VARIABLES
  decided,     \* decided[k]: the result of query k, or None
  asked,       \* asked[c]: the query consumer c waits for, or None
  answer,      \* answer[c]: what c got, or None
  cancelled

contractVars == <<decided, asked, answer, cancelled>>

WholeList(k) == [i \in 1..PageCount[k] |-> i]
Results(k) ==
  [kind : {"success"}, items : {WholeList(k)}]
    \union [kind : {"failure"}, why : {"transient", "refused"}]
Cancelled == [kind |-> "failure", why |-> "cancelled"]

ContractInit ==
  /\ decided = [k \in Keys |-> None]
  /\ asked = [c \in Consumers |-> None]
  /\ answer = [c \in Consumers |-> None]
  /\ cancelled = FALSE

Ask(c, k) ==
  /\ asked[c] = None
  /\ asked' = [asked EXCEPT ![c] = k]
  /\ UNCHANGED <<decided, answer, cancelled>>

\* An answer: the decision there is, or the one made now.
Answer(c) ==
  /\ asked[c] # None /\ answer[c] = None
  /\ answer' = [answer EXCEPT ![c] = decided'[asked[c]]]
  /\ answer'[c] # None
  /\ \/ UNCHANGED decided
     \/ /\ decided[asked[c]] = None
        /\ \E r \in Results(asked[c])
                      \union (IF cancelled THEN {Cancelled} ELSE {}) :
             decided' = [decided EXCEPT ![asked[c]] = r]
  /\ UNCHANGED <<asked, cancelled>>

TurnAway(c) ==
  /\ cancelled
  /\ asked[c] # None /\ answer[c] = None
  /\ answer' = [answer EXCEPT ![c] = Cancelled]
  /\ UNCHANGED <<decided, asked, cancelled>>

Cancel ==
  /\ cancelled' = TRUE
  /\ UNCHANGED <<decided, asked, answer>>

ContractNext ==
  \/ \E c \in Consumers : Answer(c) \/ TurnAway(c) \/ \E k \in Keys : Ask(c, k)
  \/ Cancel

ContractSpec == ContractInit /\ [][ContractNext]_contractVars
=============================================================================
