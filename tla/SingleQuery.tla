---------------------------- MODULE SingleQuery ----------------------------
(***************************************************************************)
(* The handlers of /db (single_query, handlers/world.c) and /fortunes      *)
(* (fortunes, handlers/fortune.c) of the h2o server: one query, whose      *)
(* context is shared by the request and the query.  Whoever of the two     *)
(* ends first sets "cleanup", and the other one frees the context.         *)
(*                                                                         *)
(* The pool (DbPool) is seen from outside: execute_database_query accepts  *)
(* a query or refuses it, and an accepted query gets one callback.         *)
(***************************************************************************)
EXTENDS Naturals

CONSTANT Requests

VARIABLES
    req,      \* the h2o_req_t, as in RequestLifecycle; "broken" if it was
              \* answered when it was not open
    ctx,      \* memory of the single_query_ctx_t or fortune_ctx_t
    fortune,  \* is it a fortune_ctx_t?
    cleanup,
    buffer,   \* does the fortune_ctx_t hold a buffer?
    flying,   \* is the query in the pool?
    body      \* where the body of a 200 response is: "none", "copy" in the
              \* memory pool of the request, or "buffer"

vars == <<req, ctx, fortune, cleanup, buffer, flying, body>>

Init ==
    /\ req = [r \in Requests |-> "none"]
    /\ ctx = [r \in Requests |-> "none"]
    /\ fortune = [r \in Requests |-> FALSE]
    /\ cleanup = [r \in Requests |-> FALSE]
    /\ buffer = [r \in Requests |-> FALSE]
    /\ flying = [r \in Requests |-> FALSE]
    /\ body = [r \in Requests |-> "none"]

\* send_error and h2o_send on request r.
Answered(r) == [req EXCEPT ![r] = IF @ = "open" THEN "sent" ELSE "broken"]

\* cleanup_single_query, cleanup_fortunes
Cleanup(r) ==
    /\ ctx' = [ctx EXCEPT ![r] = "freed"]
    /\ buffer' = [buffer EXCEPT ![r] = FALSE]

\* A new context, whose query the pool accepts, or refuses: 503.
NewContext(r, accepted, isFortune) ==
    /\ req[r] = "none"
    /\ ctx' = [ctx EXCEPT ![r] = "live"]
    /\ fortune' = [fortune EXCEPT ![r] = isFortune]
    /\ cleanup' = [cleanup EXCEPT ![r] = ~accepted]
    /\ flying' = [flying EXCEPT ![r] = accepted]
    /\ req' = [req EXCEPT ![r] = IF accepted THEN "open" ELSE "sent"]
    /\ UNCHANGED <<buffer, body>>

HandleSingleQuery(r) == \E accepted \in BOOLEAN : NewContext(r, accepted, FALSE)

HandleFortunes(r) == \E accepted \in BOOLEAN : NewContext(r, accepted, TRUE)

\* Mutant of Failed: the callback does not find out that the request is gone.
FailedUnchecked(r) ==
    /\ flying[r]
    /\ flying' = [flying EXCEPT ![r] = FALSE]
    /\ cleanup' = [cleanup EXCEPT ![r] = TRUE]
    /\ req' = Answered(r)
    /\ UNCHANGED <<ctx, buffer, fortune, body>>

\* A callback without rows: the error is reported to a request that waits.
Failed(r) ==
    /\ flying[r]
    /\ flying' = [flying EXCEPT ![r] = FALSE]
    /\ cleanup' = [cleanup EXCEPT ![r] = TRUE]
    /\ IF cleanup[r] THEN Cleanup(r) /\ UNCHANGED req
                     ELSE req' = Answered(r) /\ UNCHANGED <<ctx, buffer>>
    /\ UNCHANGED <<fortune, body>>

OnSingleQueryError(r) == ~fortune[r] /\ Failed(r)

OnSingleQueryTimeout(r) == ~fortune[r] /\ Failed(r)

OnFortuneError(r) == fortune[r] /\ Failed(r)

OnFortuneTimeout(r) == fortune[r] /\ Failed(r)

\* on_single_query_result: the JSON is copied, and its generator given back.
OnSingleQueryResult(r) ==
    /\ flying[r] /\ ~fortune[r]
    /\ flying' = [flying EXCEPT ![r] = FALSE]
    /\ cleanup' = [cleanup EXCEPT ![r] = TRUE]
    /\ IF cleanup[r]
       THEN Cleanup(r) /\ UNCHANGED <<req, body>>
       ELSE /\ req' = Answered(r)
            /\ body' \in {body, [body EXCEPT ![r] = "copy"]}
            /\ UNCHANGED <<ctx, buffer>>
    /\ UNCHANGED fortune

\* Mutant of OnFortuneResult: a result that comes too late is dropped.
OnFortuneResultLate(r) ==
    /\ flying[r] /\ fortune[r]
    /\ flying' = [flying EXCEPT ![r] = FALSE]
    /\ cleanup' = [cleanup EXCEPT ![r] = TRUE]
    /\ IF cleanup[r]
       THEN UNCHANGED <<req, ctx, buffer, body>>
       ELSE /\ req' = Answered(r)
            /\ buffer' = [buffer EXCEPT ![r] = TRUE]
            /\ body' = [body EXCEPT ![r] = "buffer"]
            /\ UNCHANGED ctx
    /\ UNCHANGED fortune

\* Mutant of OnFortuneResult: the buffer is disposed of after h2o_send.
OnFortuneResultEager(r) ==
    /\ flying[r] /\ fortune[r]
    /\ flying' = [flying EXCEPT ![r] = FALSE]
    /\ cleanup' = [cleanup EXCEPT ![r] = TRUE]
    /\ IF cleanup[r]
       THEN Cleanup(r) /\ UNCHANGED <<req, body>>
       ELSE /\ req' = Answered(r)
            /\ body' = [body EXCEPT ![r] = "buffer"]
            /\ UNCHANGED <<ctx, buffer>>
    /\ UNCHANGED fortune

\* on_fortune_result: the page is rendered into the buffer and sent from
\* there, unless the query or the template fails.
OnFortuneResult(r) ==
    /\ flying[r] /\ fortune[r]
    /\ flying' = [flying EXCEPT ![r] = FALSE]
    /\ cleanup' = [cleanup EXCEPT ![r] = TRUE]
    /\ \/ cleanup[r] /\ Cleanup(r) /\ UNCHANGED <<req, body>>
       \/ /\ ~cleanup[r]
          /\ req' = Answered(r)
          /\ buffer' = [buffer EXCEPT ![r] = TRUE]
          /\ body' \in {body, [body EXCEPT ![r] = "buffer"]}
          /\ UNCHANGED ctx
       \/ ~cleanup[r] /\ req' = Answered(r) /\ UNCHANGED <<ctx, buffer, body>>
    /\ UNCHANGED fortune

\* Mutant of CleanupRequest: the request owns the context.
CleanupRequestAlways(r) ==
    /\ req[r] \in {"open", "sent"}
    /\ req' = [req EXCEPT ![r] = "gone"]
    /\ Cleanup(r)
    /\ UNCHANGED <<fortune, cleanup, flying, body>>

\* cleanup_single_query_request, cleanup_request: h2o disposes of a request
\* because its response is complete or because the client left.
CleanupRequest(r) ==
    /\ req[r] \in {"open", "sent"}
    /\ req' = [req EXCEPT ![r] = "gone"]
    /\ cleanup' = [cleanup EXCEPT ![r] = TRUE]
    /\ IF cleanup[r] THEN Cleanup(r) ELSE UNCHANGED <<ctx, buffer>>
    /\ UNCHANGED <<fortune, flying, body>>

Callback(r) ==
    \/ OnSingleQueryError(r) \/ OnSingleQueryTimeout(r) \/ OnSingleQueryResult(r)
    \/ OnFortuneError(r) \/ OnFortuneTimeout(r) \/ OnFortuneResult(r)

Next ==
    \E r \in Requests :
        HandleSingleQuery(r) \/ HandleFortunes(r) \/ Callback(r) \/ CleanupRequest(r)

Spec == Init /\ [][Next]_vars

\* The pool answers every query, and h2o disposes of answered requests.
Fairness ==
    \A r \in Requests :
        WF_vars(Callback(r)) /\ WF_vars(req[r] = "sent" /\ CleanupRequest(r))

FairSpec == Spec /\ Fairness

-----------------------------------------------------------------------------
(* Properties.                                                             *)

\* The states a context goes through.
TypeOK ==
    /\ req \in [Requests -> {"none", "open", "sent", "gone"}]
    /\ ctx \in [Requests -> {"none", "live", "freed"}]
    /\ fortune \in [Requests -> BOOLEAN]
    /\ cleanup \in [Requests -> BOOLEAN]
    /\ buffer \in [Requests -> BOOLEAN]
    /\ flying \in [Requests -> BOOLEAN]
    /\ body \in [Requests -> {"none", "copy", "buffer"}]

Outstanding == [r \in Requests |-> IF flying[r] THEN 1 ELSE 0]

Lifecycle == INSTANCE RequestLifecycle
    WITH outstanding <- Outstanding, MaxOutstanding <- 1

\* One flag is enough to find out who is last: a request is answered once,
\* and its context is freed exactly when the request and its query are gone.
LifecycleSpec == Lifecycle!Spec

\* A page that h2o still sends from the buffer is not given back to the
\* allocator by the query's callback ("cleanup_fortunes").
BodyAlive ==
    \A r \in Requests :
        req[r] = "sent" /\ body[r] = "buffer" => ctx[r] = "live" /\ buffer[r]

\* Every request is answered or left by its client, and every context and
\* every buffer is freed in the end.
EventuallyFreed ==
    \A r \in Requests :
        /\ req[r] = "open" ~> req[r] \in {"sent", "gone"}
        /\ ctx[r] = "live" ~> ctx[r] = "freed" /\ ~buffer[r]

=============================================================================
