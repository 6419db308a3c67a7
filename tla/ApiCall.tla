------------------------------ MODULE ApiCall ------------------------------
(***************************************************************************)
(* One request to the API server with its retries, as every reader of the  *)
(* program makes it: a GET, or a LIST page after page                      *)
(* (src/src/kube/planner.rs execute_get and execute_list, and              *)
(* get_with_retry_ledger, list_all_with_retry_ledger and the inline loop   *)
(* of the scan in src/src/kube/scanner.rs).  A page is asked for at most   *)
(* MaxRetries + 1 times; the continue token moves on only when a page has  *)
(* arrived.                                                                *)
(***************************************************************************)
EXTENDS Naturals, Sequences

CONSTANT MaxRetries   \* scanner.rs MAX_RETRIES

ASSUME RetriesAssumption == MaxRetries \in Nat

\* What one attempt comes back with.  "transient" is what is_retryable
\* accepts: a timeout, of the server or of this side, 429, 5xx, transport.
\* "refused" is the rest: 404, 401, 403, and 410 for a token that expired.
Replies == {"ok", "transient", "refused"}

\* A call under way: the page it asks for, the attempts that page has used,
\* the retries spent on the pages before it, and the pages it has.
NewCall == [page |-> 1, attempt |-> 0, retries |-> 0, items |-> <<>>]

Call(pages) == [page : 1..pages, attempt : 0..MaxRetries,
                retries : 0..(pages * MaxRetries), items : Seq(1..pages)]

TriesAgainLate(call, reply) ==
  reply = "transient" /\ call.attempt <= MaxRetries

TriesAgain(call, reply) == reply = "transient" /\ call.attempt < MaxRetries

\* The next attempt, and the first attempt of the next page.
Again(call) == [call EXCEPT !.attempt = @ + 1]

WithPage(call) ==
  [page |-> call.page, attempt |-> 0, retries |-> call.retries + call.attempt,
   items |-> Append(call.items, call.page)]
NextPage(call) ==
  LET done == WithPage(call)
  IN  [page |-> call.page + 1, attempt |-> done.attempt, retries |-> done.retries,
       items |-> done.items]

\* How a call can end.  A failure discards the pages that had arrived.
Success(items) == [kind |-> "success", items |-> items]
Failure(why)   == [kind |-> "failure", why |-> why]
Spent(call)    == call.retries + call.attempt

FailureReasons == {"transient", "refused", "cancelled"}
=============================================================================
