---------------------------- MODULE WorldQueries ----------------------------
(***************************************************************************)
(* The handlers of /queries, /updates and /cached-worlds of the h2o server *)
(* (handlers/world.c): a request sends a window of queries, each result    *)
(* makes room for the next query, and the context is shared by the request *)
(* and by all queries in flight.                                           *)
(*                                                                         *)
(* The pool (DbPool) is seen from outside: execute_database_query accepts  *)
(* a query or refuses it, and an accepted query gets one callback.  All    *)
(* callbacks of a thread run one after the other.                          *)
(***************************************************************************)
EXTENDS Integers, Sequences, FiniteSets, SequencesExt

CONSTANTS
    Requests,
    Ids,         \* ids of the rows of the World table
    MaxQueries,  \* MAX_QUERIES
    Window       \* max_db_conn_num * max_pipeline_query_num

ASSUME WorldAssumption ==
    /\ Ids \subseteq Nat
    /\ MaxQueries \in Nat \ {0}
    /\ Window \in Nat \ {0}

Update == 0  \* in place of an id: the parameter carries the UPDATE
ASSUME UpdateIsNoId == Update \notin Ids

VARIABLES
    req,                    \* the h2o_req_t, as in RequestLifecycle; "broken"
                            \* if it was answered when it was not open
    ctx,                    \* memory of the multiple_query_ctx_t
    num_query,
    num_query_in_progress,
    num_result,
    flags,
    res,                    \* ids of res[], in order
    gen,                    \* does the context hold a JSON generator?
    flying,                 \* query_param[i] in the pool, and what it asks for
    body,                   \* ids in the body of a 200 response
    asked,                  \* ids that initialize_ids drew
    cache,                  \* data->world_cache: "null", "empty" or "full"
    populating              \* populate_cache_ctx_t in the pool

ctxVars == <<num_query, num_query_in_progress, num_result, flags, res, gen>>
cacheVars == <<cache, populating>>
vars == <<req, ctx, ctxVars, flying, body, asked, cacheVars>>

Init ==
    /\ req = [r \in Requests |-> "none"]
    /\ ctx = [r \in Requests |-> "none"]
    /\ num_query = [r \in Requests |-> 0]
    /\ num_query_in_progress = [r \in Requests |-> 0]
    /\ num_result = [r \in Requests |-> 0]
    /\ flags = [r \in Requests |-> {}]
    /\ res = [r \in Requests |-> <<>>]
    /\ gen = [r \in Requests |-> FALSE]
    /\ flying = [r \in Requests |-> <<>>]
    /\ body = [r \in Requests |-> <<>>]
    /\ asked = [r \in Requests |-> {}]
    /\ cache = "null" /\ populating = 0

-----------------------------------------------------------------------------
(* Helpers.                                                                *)

\* Byte order: ids on the wire are told apart from ids in host order.
Htonl(id) == -id
Ntohl(id) == -id

\* send_error, send_service_unavailable_error and h2o_send on request r.
Answered(r) == [req EXCEPT ![r] = IF @ = "open" THEN "sent" ELSE "broken"]

\* A handler or callback reports an error, and nobody waits for results.
GiveUp(r) ==
    /\ flags' = [flags EXCEPT ![r] = @ \union {"DO_CLEANUP"}]
    /\ req' = Answered(r)

\* query_param[i] goes to the pool with id x, instead of what it asked before.
Resubmit(r, i, x) ==
    /\ flying' = [flying EXCEPT ![r][i] = x]
    /\ UNCHANGED num_query_in_progress

\* query_param[i] came back and is not used again.
Land(r, i) ==
    /\ flying' = [flying EXCEPT ![r] = Restrict(@, DOMAIN @ \ {i})]
    /\ num_query_in_progress' = [num_query_in_progress EXCEPT ![r] = @ - 1]

\* cleanup_multiple_query: the generator is given back with the context.
Cleanup(r) ==
    /\ ctx' = [ctx EXCEPT ![r] = "freed"]
    /\ gen' = [gen EXCEPT ![r] = FALSE]

\* Mutant of Serialize: the generator is given back as soon as it was used.
SerializeAndFree(r, ids) ==
    /\ req' = Answered(r)
    /\ body' \in {body, [body EXCEPT ![r] = ids]}
    /\ UNCHANGED gen

\* serialize_items on r with the given ids, or one of the errors on the way:
\* there is no generator, or it fails and is thrown away.
Serialize(r, ids) ==
    /\ req' = Answered(r)
    /\ \/ /\ gen' = [gen EXCEPT ![r] = TRUE]
          /\ body' = [body EXCEPT ![r] = ids]
       \/ UNCHANGED <<gen, body>>

\* initialize_ids: n different ids.
Drawn(n) == {s \in [1..n -> Ids] : IsInjective(s)}

-----------------------------------------------------------------------------
(* cached_queries, multiple_queries, updates: do_multiple_queries          *)

\* A context for n queries, in a request whose pool will clean it up.
NewContext(r, ids) ==
    /\ req[r] = "none"
    /\ ctx' = [ctx EXCEPT ![r] = "live"]
    /\ num_query' = [num_query EXCEPT ![r] = Len(ids)]
    /\ res' = [res EXCEPT ![r] = ids]
    /\ asked' = [asked EXCEPT ![r] = ToSet(ids)]

\* Mutant of FetchMiss: a cache that is not filled yet is replaced.
FetchMissRepopulating(use_cache) ==
    /\ ~(use_cache /\ cache = "full")
    /\ IF use_cache
       THEN \/ cache' = "empty" /\ populating' = populating + 1
            \/ UNCHANGED cacheVars
       ELSE UNCHANGED cacheVars

\* fetch_from_cache finds no entry.  If there is no cache, one is created and
\* the query to fill it is sent; it is dropped again if the pool refuses.
FetchMiss(use_cache) ==
    /\ ~(use_cache /\ cache = "full")
    /\ IF use_cache /\ cache = "null"
       THEN \/ cache' = "empty" /\ populating' = populating + 1
            \/ UNCHANGED cacheVars
       ELSE UNCHANGED cacheVars

\* Mutant of SendWindow: a refused query stays counted.
SendWindowCountingAll(r, n, accepted) ==
    LET window == IF n < Window THEN n ELSE Window IN
    /\ accepted <= window
    /\ num_query_in_progress' = [num_query_in_progress EXCEPT ![r] = window]
    /\ flying' = [flying EXCEPT ![r] = [i \in 1..accepted |-> Htonl(res'[r][i])]]
    /\ req' = [req EXCEPT ![r] = IF accepted = window THEN "open" ELSE "sent"]

\* The first of n queries are sent, as many as there are query_params; if the
\* pool refuses one, the request is answered with 503.
SendWindow(r, n, accepted) ==
    LET window == IF n < Window THEN n ELSE Window IN
    /\ accepted <= window
    /\ num_query_in_progress' = [num_query_in_progress EXCEPT ![r] = accepted]
    /\ flying' = [flying EXCEPT ![r] = [i \in 1..accepted |-> Htonl(res'[r][i])]]
    /\ req' = [req EXCEPT ![r] = IF accepted = window THEN "open" ELSE "sent"]

\* do_multiple_queries, unless the cache has the answer.
DoMultipleQueries(r, do_update, use_cache) ==
    \E n \in 1..MaxQueries, accepted \in 0..MaxQueries : \E ids \in Drawn(n) :
        /\ NewContext(r, ids)
        /\ FetchMiss(use_cache)
        /\ SendWindow(r, n, accepted)
        /\ flags' = [flags EXCEPT ![r] =
              (IF do_update THEN {"DO_UPDATE"} ELSE {}) \union
              (IF use_cache THEN {"USE_CACHE"} ELSE {}) \union
              (IF req'[r] = "sent" THEN {"DO_CLEANUP"} ELSE {})]
        /\ UNCHANGED <<num_result, gen, body>>

\* do_multiple_queries when fetch_from_cache finds the table.
CachedQueries(r) ==
    \E n \in 1..MaxQueries : \E ids \in Drawn(n) :
        /\ cache = "full"
        /\ NewContext(r, ids)
        /\ num_result' = [num_result EXCEPT ![r] = n]
        /\ flags' = [flags EXCEPT ![r] = {"USE_CACHE", "DO_CLEANUP"}]
        /\ req' = [req EXCEPT ![r] = "sent"]
        /\ \/ /\ gen' = [gen EXCEPT ![r] = TRUE]
              /\ body' = [body EXCEPT ![r] = ids]
           \/ UNCHANGED <<gen, body>>
        /\ UNCHANGED <<num_query_in_progress, flying, cacheVars>>

-----------------------------------------------------------------------------
(* Callbacks of queries.                                                   *)

\* Mutant of Abandoned: a context that nobody waits for is leaked.
AbandonedLeaky(r) == UNCHANGED <<ctx, gen>>

\* Nobody waits for the result: the last query frees the context, if the
\* request is gone already.
Abandoned(r) ==
    IF num_query_in_progress'[r] = 0 /\ "IS_COMPLETED" \in flags[r]
    THEN Cleanup(r)
    ELSE UNCHANGED <<ctx, gen>>

\* A callback that has no row for its request.
NoRow(r, i) ==
    /\ i \in DOMAIN flying[r]
    /\ Land(r, i)
    /\ IF "DO_CLEANUP" \in flags[r]
       THEN Abandoned(r) /\ UNCHANGED <<flags, req>>
       ELSE GiveUp(r) /\ UNCHANGED <<ctx, gen>>
    /\ UNCHANGED <<num_query, num_result, res, body, asked, cacheVars>>

OnMultipleQueryError(r, i) == NoRow(r, i)

OnMultipleQueryTimeout(r, i) == NoRow(r, i)

\* on_multiple_query_result when the query failed, or nobody waits for it.
ResultUnused(r, i) == flying[r][i] # Update /\ NoRow(r, i)

\* process_result: the id of the reply overwrites the next id of res, which
\* its query_param had a copy of when it was sent.
Row(r, i) ==
    /\ i \in DOMAIN flying[r] /\ flying[r][i] # Update
    /\ "DO_CLEANUP" \notin flags[r]
    /\ num_result' = [num_result EXCEPT ![r] = @ + 1]
    /\ UNCHANGED <<ctx, num_query, asked, cacheVars>>

\* res[] with the row of query i.
WithRow(r, i) == [res[r] EXCEPT ![num_result[r] + 1] = Ntohl(flying[r][i])]

\* With the row of one more query: ids of r neither answered nor in flight.
Unsent(r) == num_query[r] - num_result[r] - num_query_in_progress[r]

\* Mutant of NextId: the next id is looked up behind the new result.
NextIdSkewed(r) == res'[r][num_result'[r] + 1]

\* The first id that is neither answered nor in flight.
NextId(r) == res'[r][num_result'[r] + num_query_in_progress[r]]

\* on_multiple_query_result with ids left: the parameter is used for the next.
ResultNext(r, i) ==
    /\ Row(r, i)
    /\ Unsent(r) > 0
    /\ res' = [res EXCEPT ![r] = WithRow(r, i)]
    /\ \/ Resubmit(r, i, Htonl(NextId(r))) /\ UNCHANGED <<req, flags>>
       \/ Land(r, i) /\ GiveUp(r)
    /\ UNCHANGED <<gen, body>>

\* on_multiple_query_result while the last results are on their way.
ResultWait(r, i) ==
    /\ Row(r, i)
    /\ Unsent(r) <= 0 /\ num_result'[r] # num_query[r]
    /\ res' = [res EXCEPT ![r] = WithRow(r, i)]
    /\ Land(r, i)
    /\ UNCHANGED <<req, flags, gen, body>>

\* complete_multiple_query without DO_UPDATE.
ResultLast(r, i) ==
    /\ Row(r, i)
    /\ Unsent(r) <= 0 /\ num_result'[r] = num_query[r]
    /\ "DO_UPDATE" \notin flags[r]
    /\ res' = [res EXCEPT ![r] = WithRow(r, i)]
    /\ Land(r, i)
    /\ flags' = [flags EXCEPT ![r] = @ \union {"DO_CLEANUP"}]
    /\ Serialize(r, res'[r])

\* qsort with compare_items: the same rows, in the order of their ids.
Sorted(rows) ==
    {s \in {[k \in DOMAIN rows |-> rows[p[k]]] :
               p \in Bijection(DOMAIN rows, DOMAIN rows)} :
        \A a, b \in DOMAIN rows : a < b => s[a] <= s[b]}

\* do_updates: the rows are sorted and put in network order, because the
\* UPDATE, which query_param[0] carries, points at them.
DoUpdates(r, i) ==
    /\ Row(r, i)
    /\ Unsent(r) <= 0 /\ num_result'[r] = num_query[r]
    /\ "DO_UPDATE" \in flags[r]
    /\ \E rows \in Sorted(WithRow(r, i)) :
          res' = [res EXCEPT ![r] = [k \in DOMAIN rows |-> Htonl(rows[k])]]
    /\ \/ /\ flying' = [flying EXCEPT ![r] = [q \in {1} |-> Update]]
          /\ UNCHANGED <<num_query_in_progress, req, flags>>
       \/ Land(r, i) /\ GiveUp(r)
    /\ UNCHANGED <<gen, body>>

\* on_update_result: the response is made of the rows in host order again.
OnUpdateResult(r) ==
    /\ 1 \in DOMAIN flying[r] /\ flying[r][1] = Update
    /\ Land(r, 1)
    /\ flags' = [flags EXCEPT ![r] = @ \union {"DO_CLEANUP"}]
    /\ \/ /\ "DO_CLEANUP" \in flags[r]
          /\ Cleanup(r)
          /\ UNCHANGED <<req, res, body>>
       \/ /\ "DO_CLEANUP" \notin flags[r]
          /\ res' = [res EXCEPT ![r] = [k \in DOMAIN @ |-> Ntohl(@[k])]]
          /\ Serialize(r, res'[r])
          /\ UNCHANGED ctx
       \/ /\ "DO_CLEANUP" \notin flags[r]
          /\ req' = Answered(r)
          /\ UNCHANGED <<ctx, res, gen, body>>
    /\ UNCHANGED <<num_query, num_result, asked, cacheVars>>

-----------------------------------------------------------------------------
\* Mutant of CleanupRequest: queries in flight are forgotten.
CleanupRequestAlways(r) ==
    /\ req[r] \in {"open", "sent"}
    /\ req' = [req EXCEPT ![r] = "gone"]
    /\ flags' = [flags EXCEPT ![r] = @ \union {"IS_COMPLETED", "DO_CLEANUP"}]
    /\ IF "DO_CLEANUP" \in flags[r] THEN Cleanup(r) ELSE UNCHANGED <<ctx, gen>>
    /\ UNCHANGED <<num_query, num_query_in_progress, num_result, res, flying,
                   body, asked, cacheVars>>

\* cleanup_multiple_query_request, when h2o disposes of the request.
CleanupRequest(r) ==
    /\ req[r] \in {"open", "sent"}
    /\ req' = [req EXCEPT ![r] = "gone"]
    /\ flags' = [flags EXCEPT ![r] = @ \union {"IS_COMPLETED", "DO_CLEANUP"}]
    /\ IF "DO_CLEANUP" \in flags[r] /\ num_query_in_progress[r] = 0
       THEN Cleanup(r) ELSE UNCHANGED <<ctx, gen>>
    /\ UNCHANGED <<num_query, num_query_in_progress, num_result, res, flying,
                   body, asked, cacheVars>>

-----------------------------------------------------------------------------
(* The cache of the World table.                                           *)

\* on_populate_cache_result
PopulateResult ==
    /\ populating > 0
    /\ cache' = "full" /\ populating' = populating - 1
    /\ UNCHANGED <<req, ctx, ctxVars, flying, body, asked>>

\* on_populate_cache_error, on_populate_cache_timeout: the cache is dropped.
PopulateError ==
    /\ populating > 0
    /\ cache' = "null" /\ populating' = populating - 1
    /\ UNCHANGED <<req, ctx, ctxVars, flying, body, asked>>

\* The entry is older than CACHE_DURATION (h2o_cache_fetch).
CacheExpires ==
    /\ cache = "full"
    /\ cache' = "empty"
    /\ UNCHANGED <<req, ctx, ctxVars, flying, body, asked, populating>>

-----------------------------------------------------------------------------
Callback(r) ==
    \/ OnUpdateResult(r)
    \/ \E i \in DOMAIN flying[r] :
          \/ OnMultipleQueryError(r, i) \/ OnMultipleQueryTimeout(r, i)
          \/ ResultUnused(r, i)
          \/ ResultNext(r, i) \/ ResultWait(r, i) \/ ResultLast(r, i)
          \/ DoUpdates(r, i)

Next ==
    \/ \E r \in Requests :
          \/ \E do_update, use_cache \in BOOLEAN :
                ~(do_update /\ use_cache) /\ DoMultipleQueries(r, do_update, use_cache)
          \/ CachedQueries(r)
          \/ Callback(r)
          \/ CleanupRequest(r)
    \/ PopulateResult \/ PopulateError \/ CacheExpires

Spec == Init /\ [][Next]_vars

\* The pool answers every query (EventuallyAnswered of DbPool), and h2o
\* disposes of a request whose response is complete.
Fairness ==
    \A r \in Requests :
        /\ WF_vars(Callback(r))
        /\ WF_vars(req[r] = "sent" /\ CleanupRequest(r))

FairSpec == Spec /\ Fairness

-----------------------------------------------------------------------------
(* Properties.                                                             *)

\* The queries of r the pool has: num_query_in_progress counts them.
Outstanding == [r \in Requests |-> Cardinality(DOMAIN flying[r])]

Lifecycle == INSTANCE RequestLifecycle 
    WITH outstanding <- Outstanding, MaxOutstanding <- Window

\* A request is answered once, its context is freed exactly when the request
\* and the last of its queries are gone, and nobody uses it after that.
LifecycleSpec == Lifecycle!Spec

\* num_query_in_progress, which decides who frees the context, counts the
\* queries in flight, and each of them has a query_param of its own, of which
\* there are only as many as the window is wide.
InProgressCounted ==
    \A r \in Requests :
        /\ ctx[r] = "live" => num_query_in_progress[r] = Cardinality(DOMAIN flying[r])
        /\ DOMAIN flying[r] \subseteq 1..Window

\* "the results may arrive in any order": a 200 response holds each id that
\* was drawn exactly once, although results overwrite the ids still to send.
ResultIds ==
    \A r \in Requests :
        body[r] # <<>> => ToSet(body[r]) = asked[r] /\ IsInjective(body[r])

\* The body of a 200 response is in the buffer of the generator, which h2o
\* does not copy: it is kept until the request is disposed of.
BodyAlive ==
    \A r \in Requests :
        req[r] = "sent" /\ body[r] # <<>> => ctx[r] = "live" /\ gen[r]

\* Only one query at a time fills the cache, and the cache it will fill or
\* drop is still there.
PopulateOnce == populating <= 1 /\ (populating = 1 => cache = "empty")

\* Every request is answered or left by its client, and every context is
\* freed in the end.
EventuallyFreed ==
    \A r \in Requests :
        /\ req[r] = "open" ~> req[r] \in {"sent", "gone"}
        /\ ctx[r] = "live" ~> ctx[r] = "freed"

=============================================================================
