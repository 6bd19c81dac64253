--------------------------- MODULE MCWorldQueries ---------------------------
(***************************************************************************)
(* WorldQueries for TLC.                                                   *)
(***************************************************************************)
EXTENDS WorldQueries

CONSTANT Long  \* the request with several queries

\* Bound: the other requests have one query, for row 1, and none in flight while
\* the context of Long lives.  Requests share the cache of the World table only,
\* and the query that fills it outlives the request that sent it.
Bound ==
    \A r \in Requests \ {Long} :
        /\ num_query[r] <= 1 /\ asked[r] \subseteq {1}
        /\ ctx[Long] = "live" => flying[r] = <<>>

MCSpec == Init /\ [][Next /\ Bound']_vars /\ Fairness

=============================================================================
