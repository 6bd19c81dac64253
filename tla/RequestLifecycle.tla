-------------------------- MODULE RequestLifecycle --------------------------
(***************************************************************************)
(* What a request handler that queries the database promises h2o and the   *)
(* allocator: a request is answered at most once, and its context lives    *)
(* exactly as long as somebody may still follow a pointer to it, the       *)
(* request's pool (its cleanup callback) or a query in the database pool.  *)
(***************************************************************************)
EXTENDS Naturals

CONSTANTS
    Requests,
    MaxOutstanding  \* how many queries a request may have in the pool at once

VARIABLES
    req,         \* "none", "open", "sent" (answered) or "gone" (disposed of)
    ctx,         \* the context: "none", "live" or "freed"
    outstanding  \* queries of the request that the pool has accepted

vars == <<req, ctx, outstanding>>

Init ==
    /\ req = [r \in Requests |-> "none"]
    /\ ctx = [r \in Requests |-> "none"]
    /\ outstanding = [r \in Requests |-> 0]

\* The context of r is freed by whoever lets go of it last.
Become(r, state, n) ==
    /\ req' = [req EXCEPT ![r] = state]
    /\ outstanding' = [outstanding EXCEPT ![r] = n]
    /\ ctx' = [ctx EXCEPT ![r] =
                  IF state = "gone" /\ n = 0 THEN "freed" ELSE "live"]

\* The handler is called: it submits queries, or answers at once, or both.
Handle(r) ==
    /\ req[r] = "none"
    /\ \E state \in {"open", "sent"}, n \in 0..MaxOutstanding :
          /\ state = "open" => n > 0
          /\ Become(r, state, n)

\* A query of r is answered.  Only an open request can be answered or submit
\* another query, and it cannot stay open without a query.
Callback(r) ==
    /\ outstanding[r] > 0
    /\ \E state \in {req[r], "sent"}, n \in {outstanding[r] - 1, outstanding[r]} :
          /\ state # req[r] \/ n = outstanding[r] => req[r] = "open"
          /\ state = "open" => n > 0
          /\ Become(r, state, n)

\* h2o disposes of the request: the response is complete, or the client left.
Dispose(r) ==
    /\ req[r] \in {"open", "sent"}
    /\ Become(r, "gone", outstanding[r])

Next == \E r \in Requests : Handle(r) \/ Callback(r) \/ Dispose(r)

Spec == Init /\ [][Next]_vars

=============================================================================
