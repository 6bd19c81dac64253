------------------------------- MODULE DbPool -------------------------------
(***************************************************************************)
(* The database connection pool of the h2o server (src/database.c): a      *)
(* queue of waiting queries, a list of connections that can take one more  *)
(* query, and per connection a pipeline of queries sent to PostgreSQL.     *)
(*                                                                         *)
(* A pool belongs to one thread, so its callbacks never overlap.  A        *)
(* callback that is one assignment block is one action; a callback with a  *)
(* loop or with calls that may fail is a chain of actions ordered by pc,   *)
(* and no other callback starts until pc is "idle" again.                  *)
(***************************************************************************)
EXTENDS Integers, Sequences, FiniteSets, SequencesExt

CONSTANTS
    Slots,        \* addresses the allocator hands out for a db_conn_t
    NoConn,       \* not an address
    Params,       \* the db_query_param_t structures of the requests
    MaxConn,      \* config->max_db_conn_num
    MaxQuery,     \* config->max_query_num
    MaxPipeline,  \* config->max_pipeline_query_num
    Prepared      \* is pool->prepared_statements non-NULL?

ASSUME PoolAssumption ==
    /\ IsFiniteSet(Slots) /\ NoConn \notin Slots
    /\ MaxConn \in Nat \ {0} /\ MaxConn <= Cardinality(Slots)
    /\ MaxQuery \in Nat \ {0}
    /\ MaxPipeline \in Nat \ {0}
    /\ Prepared \in BOOLEAN

VARIABLES
    (* db_conn_pool_t *)
    pool_conn,       \* connections reachable from pool->conn.head
    pool_tail,       \* NoConn: pool->conn.tail is the end of that list;
                     \* c: it is &c->l.next of a c that is not on the list
    pool_queries,    \* pool->queries
    pool_query_num,  \* pool->query_num: free places in pool_queries
    conn_num,        \* pool->conn_num: connections that may still be made
    process_queries, \* pool->process_queries: a TASK message is posted
    (* db_conn_t *)
    phase,           \* "free" memory, or how far the connection got
    conn_queries,    \* conn->queries
    conn_query_num,  \* conn->query_num: free places in the pipeline
    flags,           \* conn->flags, but for RESET
    timer,           \* conn->timer: unlinked, or the callback it will run
    (* libpq and the server *)
    server,          \* queries sent whose replies are not yet read to the end
    stage,           \* what PQgetResult returns next for the oldest of them
    unsent,          \* how many of them PQflush still has to write
    writing,         \* sockets with h2o_socket_notify_write pending
    (* the event loop: which callback runs, and its locals *)
    pc, cur, ret,    \* where, on which connection, where to return to
    query_num,       \* on_process_queries: query_num
    iter,            \* on_process_queries: iter, the connections to visit
    (* the callers *)
    pending          \* params whose caller still waits for a callback

poolVars == <<pool_conn, pool_tail, pool_queries, pool_query_num, conn_num,
              process_queries>>
connVars == <<phase, conn_queries, conn_query_num, flags, timer>>
wireVars == <<server, stage, unsent, writing>>
loopVars == <<pc, cur, ret, query_num, iter>>
vars == <<poolVars, connVars, wireVars, loopVars, pending>>

Live == {c \in Slots : phase[c] # "free"}

-----------------------------------------------------------------------------
(* Helpers that several callbacks share.                                   *)

\* Control flow: call on_database_error(c) and continue at r.
Fail(c, r) ==
    /\ pc' = "error" /\ cur' = c /\ ret' = r

Goto(p) ==
    /\ pc' = p /\ UNCHANGED <<cur, ret>>

\* *pool->conn.tail = &conn->l; pool->conn.tail = &conn->l.next: with a stale
\* tail the write lands in a cell no list walk reads, and c is not linked.
AppendConn(c) ==
    /\ pool_conn' = IF pool_tail = NoConn THEN Append(pool_conn, c)
                                          ELSE pool_conn
    /\ pool_tail' = IF pool_tail = NoConn THEN NoConn ELSE c

\* remove_connection: the tail is put right only if the list becomes empty.
RemoveConn(c) ==
    IF c \notin ToSet(pool_conn)
    THEN UNCHANGED <<pool_conn, pool_tail>>
    ELSE \E i \in DOMAIN pool_conn :
            /\ pool_conn[i] = c
            /\ pool_conn' = RemoveAt(pool_conn, i)
            /\ pool_tail' = IF Len(pool_conn) = 1 THEN NoConn
                            ELSE IF i = Len(pool_conn) /\ pool_tail = NoConn
                                 THEN c
                                 ELSE pool_tail

\* process_queries: post on_process_queries once, if queries wait.
ProcessQueries ==
    process_queries' = (process_queries \/ pool_queries' # <<>>)

\* Mutant of ErrorNotification: pool->query_num is not restored.
ErrorNotificationKeepingNum(n, answered) ==
    /\ conn_num' = n + 1
    /\ UNCHANGED pool_query_num
    /\ IF n + 1 = MaxConn
       THEN /\ pool_queries' = <<>>
            /\ pending' = (pending \ answered) \ ToSet(pool_queries)
       ELSE /\ UNCHANGED pool_queries
            /\ pending' = pending \ answered

\* Mutant of ErrorNotification: the waiting queries stay where they are.
ErrorNotificationNoFlush(n, answered) ==
    /\ conn_num' = n + 1
    /\ UNCHANGED <<pool_queries, pool_query_num>>
    /\ pending' = pending \ answered

\* error_notification with n = pool->conn_num on entry; the callers of the
\* params in answered have already had their callback.
ErrorNotification(n, answered) ==
    /\ conn_num' = n + 1
    /\ IF n + 1 = MaxConn
       THEN /\ pool_queries' = <<>>
            /\ pool_query_num' = MaxQuery
            /\ pending' = (pending \ answered) \ ToSet(pool_queries)
       ELSE /\ UNCHANGED <<pool_queries, pool_query_num>>
            /\ pending' = pending \ answered

\* A db_conn_t with the given phase and timer and nothing else going on.
ResetConn(c, ph, tm) ==
    /\ phase' = [phase EXCEPT ![c] = ph]
    /\ timer' = [timer EXCEPT ![c] = tm]
    /\ conn_queries' = [conn_queries EXCEPT ![c] = <<>>]
    /\ conn_query_num' = [conn_query_num EXCEPT ![c] = MaxPipeline]
    /\ flags' = [flags EXCEPT ![c] = {}]
    /\ server' = [server EXCEPT ![c] = <<>>]
    /\ stage' = [stage EXCEPT ![c] = "result"]
    /\ unsent' = [unsent EXCEPT ![c] = 0]
    /\ writing' = writing \ {c}

\* Mutant of Flushed: a partial write asks for no notification.
FlushedSilently(c) ==
    /\ \E left \in 0..unsent[c] : unsent' = [unsent EXCEPT ![c] = left]
    /\ UNCHANGED writing

\* flush_connection: PQflush wrote everything, or a part, and then a write
\* notification is pending.  Its failure is the caller's disjunct.
Flushed(c) ==
    \/ /\ unsent' = [unsent EXCEPT ![c] = 0]
       /\ UNCHANGED writing
    \/ \E left \in 1..unsent[c] :
          /\ unsent' = [unsent EXCEPT ![c] = left]
          /\ writing' = writing \union {c}

-----------------------------------------------------------------------------
(* initialize_database_connection_pool                                     *)
Init ==
    /\ pool_conn = <<>> /\ pool_tail = NoConn
    /\ pool_queries = <<>> /\ pool_query_num = MaxQuery
    /\ conn_num = MaxConn
    /\ process_queries = FALSE
    /\ phase = [c \in Slots |-> "free"]
    /\ conn_queries = [c \in Slots |-> <<>>]
    /\ conn_query_num = [c \in Slots |-> MaxPipeline]
    /\ flags = [c \in Slots |-> {}]
    /\ timer = [c \in Slots |-> "none"]
    /\ server = [c \in Slots |-> <<>>]
    /\ stage = [c \in Slots |-> "result"]
    /\ unsent = [c \in Slots |-> 0]
    /\ writing = {}
    /\ pc = "idle" /\ cur = NoConn /\ ret = "idle"
    /\ query_num = 0 /\ iter = <<>>
    /\ pending = {}

-----------------------------------------------------------------------------
(* execute_database_query, called by a request handler.  It returns 1 and  *)
(* changes nothing when pool_query_num is 0.                               *)
ExecuteQuery(p) ==
    /\ pc = "idle"
    /\ p \notin pending
    /\ pool_query_num > 0
    /\ pool_queries' = Append(pool_queries, p)
    /\ pool_query_num' = pool_query_num - 1
    /\ pending' = pending \union {p}
    /\ ProcessQueries
    /\ UNCHANGED <<pool_conn, pool_tail, conn_num, connVars, wireVars, loopVars>>

-----------------------------------------------------------------------------
(* Connecting.                                                             *)

\* on_database_connect_error: the connection is given up and freed.
ConnectError(c) ==
    /\ ErrorNotification(conn_num, {})
    /\ ResetConn(c, "free", "none")
    /\ UNCHANGED <<pool_conn, pool_tail, process_queries, loopVars>>

\* The connection becomes usable and asks for work.
ConnReady(c) ==
    /\ phase' = [phase EXCEPT ![c] = "ready"]
    /\ timer' = [timer EXCEPT ![c] = "none"]
    /\ AppendConn(c)
    /\ UNCHANGED pool_queries
    /\ ProcessQueries
    /\ UNCHANGED <<pool_query_num, conn_num, conn_queries, conn_query_num,
                   flags, wireVars, loopVars, pending>>

\* poll_database_connection when PQconnectPoll or PQresetPoll says OK, and
\* prepare_statements.  (READING and WRITING only ask to be called again.)
PollOK(c) ==
    /\ pc = "idle" /\ phase[c] = "connecting"
    /\ \/ /\ Prepared
          /\ phase' = [phase EXCEPT ![c] = "preparing"]
          /\ timer' = [timer EXCEPT ![c] = "connect"]
          /\ UNCHANGED <<poolVars, conn_queries, conn_query_num, flags,
                         wireVars, loopVars, pending>>
       \/ /\ ~Prepared
          /\ ConnReady(c)

\* poll_database_connection when any of its calls fails.
PollError(c) ==
    /\ pc = "idle" /\ phase[c] = "connecting"
    /\ ConnectError(c)

\* on_database_connect_read_ready: the PIPELINE_SYNC after the statements.
ConnectReadReady(c) ==
    /\ pc = "idle" /\ phase[c] = "preparing"
    /\ ConnReady(c)

\* on_database_connect_read_ready and on_database_connect_write_ready when
\* the socket, libpq or a statement fails.
ConnectIOError(c) ==
    /\ pc = "idle" /\ phase[c] = "preparing"
    /\ ConnectError(c)

\* on_database_connect_timeout
ConnectTimeout(c) ==
    /\ pc = "idle" /\ timer[c] = "connect"
    /\ ConnectError(c)

-----------------------------------------------------------------------------
(* Reading results.                                                        *)

\* on_database_read_ready up to its loop; "readfull" is removed = true.
ReadReady(c) ==
    /\ pc = "idle" /\ phase[c] = "ready"
    /\ \/ /\ Fail(c, "idle")
          /\ UNCHANGED <<unsent, writing>>
       \/ /\ Flushed(c)
          /\ pc' = IF conn_query_num[c] = 0 THEN "readfull" ELSE "read"
          /\ cur' = c /\ UNCHANGED ret
    /\ UNCHANGED <<poolVars, connVars, server, stage, query_num, iter, pending>>

Reading(c) == pc \in {"read", "readfull"} /\ cur = c

\* ~PQisBusy: the reply to a query that was written out has arrived.
Arrived(c) == Len(server[c]) > unsent[c]

\* Mutant of FinishRead: every connection with a free place is appended.
FinishReadAlways(c) ==
    /\ IF conn_query_num[c] > 0 THEN AppendConn(c)
                                ELSE UNCHANGED <<pool_conn, pool_tail>>
    /\ UNCHANGED pool_queries
    /\ ProcessQueries
    /\ Goto("idle")

\* Mutant of FinishRead: only a connection that has nothing left to do is.
FinishReadWhenDrained(c) ==
    /\ IF pc = "readfull" /\ conn_queries[c] = <<>>
       THEN AppendConn(c)
       ELSE UNCHANGED <<pool_conn, pool_tail>>
    /\ UNCHANGED pool_queries
    /\ ProcessQueries
    /\ Goto("idle")

\* After the loop: a connection that was full and is not any more goes back
\* on the list; then process_queries.
FinishRead(c) ==
    /\ IF pc = "readfull" /\ conn_query_num[c] > 0
       THEN AppendConn(c)
       ELSE UNCHANGED <<pool_conn, pool_tail>>
    /\ UNCHANGED pool_queries
    /\ ProcessQueries
    /\ Goto("idle")

\* PQisBusy: the next result is not complete yet.
ReadBusy(c) ==
    /\ Reading(c)
    /\ server[c] # <<>>
    /\ FinishRead(c)
    /\ UNCHANGED <<pool_query_num, conn_num, connVars, wireVars, query_num,
                   iter, pending>>

\* Mutant of ReadIgnored: the NULL clears EXPECT_SYNC as well.
ReadIgnoredAll(c) ==
    /\ Reading(c) /\ Arrived(c)
    /\ "IGNORE_RESULT" \in flags[c]
    /\ stage[c] = "end"
    /\ flags' = [flags EXCEPT ![c] = {}]
    /\ stage' = [stage EXCEPT ![c] = "sync"]
    /\ UNCHANGED <<poolVars, phase, conn_queries, conn_query_num, timer,
                   server, unsent, writing, loopVars, pending>>

\* IGNORE_RESULT: the NULL that ends the results of a query.
ReadIgnored(c) ==
    /\ Reading(c) /\ Arrived(c)
    /\ "IGNORE_RESULT" \in flags[c]
    /\ stage[c] = "end"
    /\ flags' = [flags EXCEPT ![c] = @ \ {"IGNORE_RESULT"}]
    /\ stage' = [stage EXCEPT ![c] = "sync"]
    /\ UNCHANGED <<poolVars, phase, conn_queries, conn_query_num, timer,
                   server, unsent, writing, loopVars, pending>>

\* EXPECT_SYNC: the sync point of the query, or the failure of the connection.
ReadSync(c) ==
    /\ Reading(c) /\ Arrived(c)
    /\ flags[c] = {"EXPECT_SYNC"}
    /\ \/ /\ stage[c] = "sync"
          /\ flags' = [flags EXCEPT ![c] = {}]
          /\ server' = [server EXCEPT ![c] = Tail(@)]
          /\ stage' = [stage EXCEPT ![c] = "result"]
          /\ UNCHANGED loopVars
       \/ /\ Fail(c, "idle")
          /\ UNCHANGED <<flags, server, stage, query_num, iter>>
    /\ UNCHANGED <<poolVars, phase, conn_queries, conn_query_num, timer,
                   unsent, writing, pending>>

\* The params a result callback submits before it returns DONE: none, or one
\* that is free by now (p itself included), if the pool has a place.
Resubmission(p) ==
    {<<>>} \union
        IF pool_query_num > 0
        THEN {<<q>> : q \in (Params \ pending) \union {p}}
        ELSE {}

\* queries.head, and its callback returns DONE.
ReadDone(c) ==
    LET p == Head(conn_queries[c]) IN
    /\ Reading(c) /\ Arrived(c)
    /\ flags[c] = {} /\ conn_queries[c] # <<>>
    /\ \E next \in Resubmission(p) :
          /\ pool_queries' = pool_queries \o next
          /\ pool_query_num' = pool_query_num - Len(next)
          /\ pending' = (pending \ {p}) \union ToSet(next)
          /\ process_queries' = (process_queries \/ next # <<>>)
    /\ conn_query_num' = [conn_query_num EXCEPT ![c] = @ + 1]
    /\ timer' = [timer EXCEPT ![c] = "query"]
    /\ conn_queries' = [conn_queries EXCEPT ![c] = Tail(@)]
    /\ \/ /\ stage[c] = "result"
          /\ flags' = [flags EXCEPT ![c] = {"EXPECT_SYNC", "IGNORE_RESULT"}]
          /\ stage' = [stage EXCEPT ![c] = "end"]
       \/ /\ stage[c] = "end"
          /\ flags' = [flags EXCEPT ![c] = {"EXPECT_SYNC"}]
          /\ stage' = [stage EXCEPT ![c] = "sync"]
    /\ UNCHANGED <<pool_conn, pool_tail, conn_num, phase, server, unsent,
                   writing, loopVars>>

\* queries.head, and its callback wants the results that follow (SUCCESS).
ReadMore(c) ==
    /\ Reading(c) /\ Arrived(c)
    /\ flags[c] = {} /\ conn_queries[c] # <<>>
    /\ stage[c] = "result"
    /\ stage' = [stage EXCEPT ![c] = "end"]
    /\ UNCHANGED <<poolVars, connVars, server, unsent, writing, loopVars, pending>>

\* Mutant of ReadDrained: the timer stays linked.
ReadDrainedTimerOn(c) ==
    /\ Reading(c)
    /\ flags[c] = {} /\ conn_queries[c] = <<>>
    /\ FinishRead(c)
    /\ UNCHANGED <<pool_query_num, conn_num, connVars, wireVars, query_num,
                   iter, pending>>

\* Nothing outstanding: the timer is unlinked.
ReadDrained(c) ==
    /\ Reading(c)
    /\ flags[c] = {} /\ conn_queries[c] = <<>>
    /\ timer' = [timer EXCEPT ![c] = "none"]
    /\ FinishRead(c)
    /\ UNCHANGED <<pool_query_num, conn_num, phase, conn_queries,
                   conn_query_num, flags, wireVars, query_num, iter, pending>>

-----------------------------------------------------------------------------
(* Failures of a connection in use.                                        *)

\* Mutant of DatabaseTimeout: the timed out query stays on the connection.
DatabaseTimeoutNoPop(c) ==
    /\ pc = "idle" /\ timer[c] = "query"
    /\ timer' = [timer EXCEPT ![c] = "none"]
    /\ pending' = pending \ {conn_queries[c][i] : i \in DOMAIN conn_queries[c] \intersect {1}}
    /\ Fail(c, "idle")
    /\ UNCHANGED <<poolVars, phase, conn_queries, conn_query_num, flags,
                   wireVars, query_num, iter>>

\* on_database_timeout: the oldest query gets on_timeout, the others on_error.
DatabaseTimeout(c) ==
    /\ pc = "idle" /\ timer[c] = "query"
    /\ timer' = [timer EXCEPT ![c] = "none"]
    /\ IF conn_queries[c] # <<>>
       THEN /\ conn_queries' = [conn_queries EXCEPT ![c] = Tail(@)]
            /\ pending' = pending \ {Head(conn_queries[c])}
       ELSE UNCHANGED <<conn_queries, pending>>
    /\ Fail(c, "idle")
    /\ UNCHANGED <<poolVars, phase, conn_query_num, flags, wireVars,
                   query_num, iter>>

\* on_database_write_ready
WriteReady(c) ==
    /\ pc = "idle" /\ phase[c] = "ready" /\ c \in writing
    /\ \/ /\ Fail(c, "idle")
          /\ writing' = writing \ {c}
          /\ UNCHANGED unsent
       \/ /\ unsent' = [unsent EXCEPT ![c] = 0]
          /\ writing' = writing \ {c}
          /\ UNCHANGED <<pc, cur, ret>>
       \/ /\ \E left \in 1..unsent[c] : unsent' = [unsent EXCEPT ![c] = left]
          /\ UNCHANGED <<writing, pc, cur, ret>>
    /\ UNCHANGED <<poolVars, connVars, server, stage, query_num, iter, pending>>

\* on_database_error and start_database_connect(pool, conn): every query of
\* the connection gets on_error, then PQresetStart and create_socket succeed,
\* or the connection is freed.
DatabaseError ==
    LET c == cur IN
    /\ pc = "error"
    /\ RemoveConn(c)
    /\ \/ /\ ResetConn(c, "connecting", "connect")
          /\ pending' = pending \ ToSet(conn_queries[c])
          /\ UNCHANGED <<pool_queries, pool_query_num, conn_num>>
       \/ /\ ResetConn(c, "free", "none")
          /\ ErrorNotification(conn_num, ToSet(conn_queries[c]))
    /\ pc' = ret /\ cur' = NoConn
    /\ UNCHANGED <<process_queries, ret, query_num, iter>>

-----------------------------------------------------------------------------
(* on_process_queries, the posted TASK.                                    *)

StartProcessing ==
    /\ pc = "idle" /\ process_queries
    /\ pc' = "send" /\ query_num' = 0 /\ iter' = <<>>
    /\ UNCHANGED <<poolVars, connVars, wireVars, cur, ret, pending>>

\* do_execute_query(c, p) after it handed p to libpq.
DoExecuteQuery(c, p) ==
    /\ timer' = [timer EXCEPT ![c] =
                    IF conn_queries[c] = <<>> /\ flags[c] = {} THEN "query"
                                                               ELSE @]
    /\ conn_queries' = [conn_queries EXCEPT ![c] = Append(@, p)]
    /\ conn_query_num' = [conn_query_num EXCEPT ![c] = @ - 1]
    /\ server' = [server EXCEPT ![c] = Append(@, p)]
    /\ unsent' = [unsent EXCEPT ![c] = @ + 1]
    /\ UNCHANGED <<phase, flags, stage, writing>>

\* pool->conn.tail after the first connection was taken off the list.
TailAfterPop == IF Len(pool_conn) = 1 THEN NoConn ELSE pool_tail

\* The query is sent: its connection moves to the end of the list, or to
\* iter if its pipeline is full now.
Sent(c, p) ==
    /\ DoExecuteQuery(c, p)
    /\ query_num' = query_num + 1
    /\ IF conn_query_num[c] > 1
       THEN /\ pool_conn' = IF TailAfterPop = NoConn
                            THEN Append(Tail(pool_conn), c)
                            ELSE Tail(pool_conn)
            /\ pool_tail' = IF TailAfterPop = NoConn THEN NoConn ELSE c
            /\ UNCHANGED iter
       ELSE /\ pool_conn' = Tail(pool_conn)
            /\ pool_tail' = TailAfterPop
            /\ iter' = <<c>> \o iter
    /\ UNCHANGED <<pc, cur, ret, pending>>

\* do_execute_query fails: the query gets on_error, then on_database_error.
SendFailed(c, p) ==
    /\ pending' = pending \ {p}
    /\ pool_conn' = Tail(pool_conn)
    /\ pool_tail' = TailAfterPop
    /\ Fail(c, "send")
    /\ UNCHANGED <<connVars, wireVars, query_num, iter>>

\* The body of the first loop: the first waiting query is for the first
\* connection on the list.
Send ==
    LET c == Head(pool_conn)
        p == Head(pool_queries)
    IN
    /\ pc = "send" /\ pool_queries # <<>> /\ pool_conn # <<>>
    /\ pool_queries' = Tail(pool_queries)
    /\ pool_query_num' = pool_query_num + 1
    /\ Sent(c, p) \/ SendFailed(c, p)
    /\ UNCHANGED <<conn_num, process_queries>>

SendDone ==
    /\ pc = "send" /\ (pool_queries = <<>> \/ pool_conn = <<>>)
    /\ Goto("flushfull")
    /\ UNCHANGED <<poolVars, connVars, wireVars, query_num, iter, pending>>

\* The second loop: flush the connections that became full.
FlushFull ==
    LET c == Head(iter) IN
    /\ pc = "flushfull" /\ iter # <<>>
    /\ iter' = Tail(iter)
    /\ \/ /\ Flushed(c) /\ UNCHANGED <<pc, cur, ret>>
       \/ /\ Fail(c, "flushfull") /\ UNCHANGED <<unsent, writing>>
    /\ UNCHANGED <<poolVars, connVars, server, stage, query_num, pending>>

\* Between the loops; the walk from the head that follows rebuilds the tail.
FlushFullDone ==
    /\ pc = "flushfull" /\ iter = <<>>
    /\ pool_tail' = NoConn
    /\ process_queries' = FALSE
    /\ query_num' = query_num + (MaxQuery - pool_query_num)
    /\ iter' = pool_conn
    /\ Goto("flush")
    /\ UNCHANGED <<pool_conn, pool_queries, pool_query_num, conn_num, connVars,
                   wireVars, pending>>

\* The third loop: flush the others; one that fails is unlinked first.
FlushRest ==
    LET c == Head(iter) IN
    /\ pc = "flush" /\ iter # <<>>
    /\ iter' = Tail(iter)
    /\ \/ /\ Flushed(c)
          /\ UNCHANGED <<pool_conn, pc, cur, ret>>
       \/ /\ \E i \in DOMAIN pool_conn :
                /\ pool_conn[i] = c
                /\ pool_conn' = RemoveAt(pool_conn, i)
          /\ Fail(c, "flush") /\ UNCHANGED <<unsent, writing>>
    /\ UNCHANGED <<pool_tail, pool_queries, pool_query_num, conn_num,
                   process_queries, connVars, server, stage, query_num, pending>>

\* How many connections to start: one for each query beyond the number of
\* connections there are.
FlushDone ==
    LET conns == MaxConn - conn_num IN
    /\ pc = "flush" /\ iter = <<>>
    /\ query_num' = IF query_num > conns THEN query_num - conns ELSE 0
    /\ Goto("grow")
    /\ UNCHANGED <<poolVars, connVars, wireVars, iter, pending>>

\* Mutant of StartConnect: a connection that cannot be started stays counted.
StartConnectLeaky(c) ==
    /\ pc = "grow" /\ query_num > 0 /\ conn_num > 0
    /\ phase[c] = "free"
    /\ query_num' = query_num - 1
    /\ conn_num' = conn_num - 1
    /\ \/ ResetConn(c, "connecting", "connect")
       \/ ResetConn(c, "free", "none")
    /\ UNCHANGED <<pool_conn, pool_tail, pool_queries, pool_query_num,
                   process_queries, pc, cur, ret, iter, pending>>

\* start_database_connect(pool, NULL)
StartConnect(c) ==
    /\ pc = "grow" /\ query_num > 0 /\ conn_num > 0
    /\ phase[c] = "free"
    /\ query_num' = query_num - 1
    /\ \/ /\ ResetConn(c, "connecting", "connect")
          /\ conn_num' = conn_num - 1
          /\ UNCHANGED <<pool_queries, pool_query_num, pending>>
       \/ /\ ResetConn(c, "free", "none")
          /\ ErrorNotification(conn_num - 1, {})
    /\ UNCHANGED <<pool_conn, pool_tail, process_queries, pc, cur, ret, iter>>

EndProcessing ==
    /\ pc = "grow" /\ (query_num = 0 \/ conn_num = 0)
    /\ query_num' = 0
    /\ Goto("idle")
    /\ UNCHANGED <<poolVars, connVars, wireVars, iter, pending>>

-----------------------------------------------------------------------------
(* The rest of a callback that has started.                                *)
Continue ==
    \/ DatabaseError
    \/ Send \/ SendDone \/ FlushFull \/ FlushFullDone \/ FlushRest \/ FlushDone
    \/ EndProcessing
    \/ \E c \in Slots :
          \/ StartConnect(c)
          \/ ReadBusy(c) \/ ReadIgnored(c) \/ ReadSync(c) \/ ReadDone(c)
          \/ ReadMore(c) \/ ReadDrained(c)

Next ==
    \/ \E p \in Params : ExecuteQuery(p)
    \/ StartProcessing
    \/ Continue
    \/ \E c \in Slots :
          \/ PollOK(c) \/ PollError(c)
          \/ ConnectReadReady(c) \/ ConnectIOError(c) \/ ConnectTimeout(c)
          \/ ReadReady(c) \/ WriteReady(c) \/ DatabaseTimeout(c)

Spec == Init /\ [][Next]_vars

\* A timer that stays linked expires, unless it is linked anew again and again,
\* as on_database_read_ready does for each query that is done.
TimerExpires(c) ==
    \/ []<>(timer[c] = "none")
    \/ []<><<timer'[c] # timer[c] \/ ReadDone(c)>>_vars

\* What the event loop guarantees: a callback that started runs to its end, a
\* posted TASK is run although other callbacks run in between, and timers expire.
Fairness ==
    /\ WF_vars(Continue)
    /\ SF_vars(StartProcessing)
    /\ \A c \in Slots : TimerExpires(c)

FairSpec == Spec /\ Fairness

-----------------------------------------------------------------------------
(* Properties.                                                             *)

PoolTypeOK ==
    /\ pool_conn \in Seq(Slots)
    /\ pool_tail \in Slots \union {NoConn}
    /\ pool_queries \in Seq(Params)
    /\ pool_query_num \in 0..MaxQuery
    /\ conn_num \in 0..MaxConn
    /\ process_queries \in BOOLEAN

ConnTypeOK ==
    /\ phase \in [Slots -> {"free", "connecting", "preparing", "ready"}]
    /\ conn_queries \in [Slots -> Seq(Params)]
    /\ conn_query_num \in [Slots -> 0..MaxPipeline]
    /\ flags \in [Slots -> SUBSET {"EXPECT_SYNC", "IGNORE_RESULT"}]
    /\ timer \in [Slots -> {"none", "connect", "query"}]

WireTypeOK ==
    /\ server \in [Slots -> Seq(Params)]
    /\ stage \in [Slots -> {"result", "end", "sync"}]
    /\ unsent \in [Slots -> Nat]
    /\ writing \in SUBSET Slots

LoopTypeOK ==
    /\ pc \in {"idle", "read", "readfull", "error", "send", "flushfull",
               "flush", "grow"}
    /\ cur \in Slots \union {NoConn}
    /\ ret \in {"idle", "send", "flushfull", "flush"}
    /\ query_num \in Nat
    /\ iter \in Seq(Slots)

TypeOK ==
    /\ PoolTypeOK /\ ConnTypeOK /\ WireTypeOK /\ LoopTypeOK
    /\ pending \in SUBSET Params

\* on_database_error is about to tear c down.
Failing(c) == pc = "error" /\ cur = c

\* The counters the code keeps agree with its queues, whatever fails: the
\* free places of the pool's queue and of every pipeline.
QueueAccounting ==
    /\ pool_query_num + Len(pool_queries) = MaxQuery
    /\ \A c \in Slots : ~Failing(c) =>
          conn_query_num[c] + Len(conn_queries[c]) = MaxPipeline

\* conn_num counts exactly the connections that may still be made: none is
\* leaked by a failed connect, reset or query, and there are never too many.
ConnAccounting == conn_num + Cardinality(Live) = MaxConn

\* A query whose caller waits is in exactly one place of one queue, and a
\* query in a queue has a waiting caller: no callback is lost or runs twice.
OneOwner ==
    /\ pending = ToSet(pool_queries)
                  \union UNION {ToSet(conn_queries[c]) : c \in Slots}
    /\ IsInjective(pool_queries)
    /\ \A c \in Slots :
          /\ IsInjective(conn_queries[c])
          /\ ToSet(conn_queries[c]) \intersect ToSet(pool_queries) = {}
          /\ \A d \in Slots \ {c} :
                ToSet(conn_queries[c]) \intersect ToSet(conn_queries[d]) = {}

\* The queries of c are the ones libpq still has replies for, less the one
\* whose sync point the flags say is still to be read.
Aligned(c) ==
    /\ conn_queries[c] = IF flags[c] = {} THEN server[c] ELSE Tail(server[c])
    /\ flags[c] # {} => server[c] # <<>>
    /\ \/ flags[c] = {} /\ stage[c] \in {"result", "end"}
       \/ flags[c] = {"EXPECT_SYNC"} /\ stage[c] = "sync"
       \/ flags[c] = {"EXPECT_SYNC", "IGNORE_RESULT"} /\ stage[c] = "end"
    /\ unsent[c] <= Len(conn_queries[c])

\* A result is handed to the query it answers, on every connection, although
\* on_database_read_ready tells results apart only by counting NULLs and syncs.
ReplyOrder ==
    \A c \in Slots : phase[c] = "ready" /\ ~Failing(c) => Aligned(c)

\* A timer is linked exactly while the server owes something: an idle
\* connection is never torn down by a timeout, a hung one always is.
TimerCoversWork ==
    pc = "idle" =>
        \A c \in Slots :
            timer[c] = CASE phase[c] = "free" -> "none"
                         [] phase[c] \in {"connecting", "preparing"} -> "connect"
                         [] phase[c] = "ready" /\ server[c] = <<>> -> "none"
                         [] OTHER -> "query"

\* c could take a query, but on_process_queries will not find it: it was
\* appended through a stale pool->conn.tail.
Lost(c) ==
    phase[c] = "ready" /\ conn_query_num[c] > 0 /\ c \notin ToSet(pool_conn)

\* Outside on_process_queries no query sits in libpq's buffer without a
\* write notification that will flush it, unless its connection got lost.
FlushPromised ==
    pc = "idle" =>
        \A c \in Slots : unsent[c] > 0 => c \in writing \/ Lost(c)

\* A connection is on pool->conn only if it can take a query, and only once.
ListUsable ==
    /\ \A c \in ToSet(pool_conn) : phase[c] = "ready" /\ conn_query_num[c] > 0
    /\ IsInjective(pool_conn)

\* Nothing is queued, sent or expected on c.
Blank(c) ==
    /\ conn_queries[c] = <<>> /\ conn_query_num[c] = MaxPipeline
    /\ flags[c] = {} /\ server[c] = <<>> /\ stage[c] = "result"
    /\ unsent[c] = 0

\* A connection that is not established is blank.
BlankUnlessReady == \A c \in Slots : phase[c] # "ready" => Blank(c)

\* Which timer c has, in the middle of callbacks as well.
TimerOf(c) ==
    /\ phase[c] = "free" => timer[c] = "none"
    /\ phase[c] \in {"connecting", "preparing"} => timer[c] = "connect"
    /\ phase[c] = "ready" => timer[c] # "connect"
    /\ phase[c] = "ready" /\ ~Failing(c) =>
          /\ server[c] # <<>> => timer[c] = "query"
          /\ server[c] = <<>> /\ ~Reading(c) => timer[c] = "none"

TimerState == \A c \in Slots : TimerOf(c)

\* The connection a callback works on is established, and the callback that
\* found it full will not append it a second time.
LoopState ==
    /\ pc \in {"error", "read", "readfull"} => cur \in Slots /\ phase[cur] = "ready"
    /\ pc = "error" => cur \notin ToSet(iter)
    /\ pc = "readfull" => cur \notin ToSet(pool_conn)

\* Where on_process_queries is, or will be when on_database_error returns.
At == IF pc = "error" THEN ret ELSE pc

\* The connections on_process_queries has still to visit: full ones, then
\* the ones on the list; never one that was freed meanwhile.
IterState ==
    /\ IsInjective(iter)
    /\ At \in {"idle", "read", "readfull", "grow"} => iter = <<>>
    /\ At \in {"send", "flushfull"} =>
          \A c \in ToSet(iter) : phase[c] = "ready" /\ conn_query_num[c] = 0
    /\ At = "flush" => ToSet(iter) \subseteq ToSet(pool_conn)

\* The inductive invariant of DbPoolProofs.
IInv ==
    /\ TypeOK
    /\ QueueAccounting
    /\ ConnAccounting
    /\ ListUsable
    /\ BlankUnlessReady
    /\ ReplyOrder
    /\ TimerState
    /\ LoopState
    /\ IterState

\* Every established connection with a free place in its pipeline is on
\* pool->conn, so that on_process_queries can find it.
NoLostConnection ==
    pc = "idle" => \A c \in Slots : ~Lost(c)

\* assert(pool->conn.tail == &conn->l.next) in on_process_queries, when the
\* connection it takes is the only one on the list.
TailAssertion ==
    pc = "send" /\ pool_queries # <<>> /\ Len(pool_conn) = 1 => pool_tail = NoConn

\* A connection attempt or a connection in use ends by itself.
Failure ==
    \E c \in Slots :
        \/ PollError(c) \/ ConnectIOError(c)
        \/ (ReadReady(c) \/ WriteReady(c) \/ ReadSync(c)) /\ pc' = "error"

\* on_result of the query in p, which may submit p again at once.
ResultOf(p) == \E c \in Slots : ReadDone(c) /\ Head(conn_queries[c]) = p

\* "We don't want to keep requests waiting for an unbounded amount of time":
\* once connections stop failing by themselves (the server may still not
\* answer at all), every accepted query gets its callback: no p stays pending
\* for ever without its on_result.
EventuallyAnswered ==
    <>[][~Failure]_vars =>
        \A p \in Params : []<>(p \notin pending) \/ []<><<ResultOf(p)>>_vars

=============================================================================
