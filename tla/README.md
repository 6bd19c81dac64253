# A verification project for FrameworkBenchmarks

The repository holds a benchmark of web frameworks: several hundred independent
server programs under `src/frameworks/`, and the toolset under `src/toolset/`
that builds, runs, verifies and measures them. Three programs carry logic of their
own that is hard to test, and this project is about them:

* **the h2o server** (`src/frameworks/C/h2o/src/`): an event-driven C program
  that answers the benchmark's requests, with its own asynchronous, pipelined
  PostgreSQL connection pool;
* **the paozhu benchmark** (`src/frameworks/C++/paozhu/paozhu_benchmark/`): a C++
  coroutine server whose object-relational mapper (ORM) is checked in as four generated
  headers, more than half of the C and C++ code of the repository;
* **the toolset** (`src/toolset/`): the Python program that drives Docker
  containers through one test after the other, with exceptions, signals and
  threads.

The other frameworks are handlers of a few lines on top of third-party servers.

In this file "proved" means checked by TLAPS for every value of the constants,
"checked" means explored exhaustively by TLC on the instance of a `.cfg` file.

## 1. Inventory

### h2o server

| Part | State | Operations | Interacts with |
|---|---|---|---|
| Connection pool (`database.c`) | queue of waiting queries, list of usable connections with its tail pointer, `conn_num`, `query_num`; per connection its pipeline, flags and timer | `execute_database_query`, `on_process_queries`, `start_database_connect` and the socket and timer callbacks, `free_database_connection_pool` | called by the handlers; calls `on_result`, `on_error`, `on_timeout` of a query, which may call back into it; libpq; event loop (timers, a TASK message to itself) |
| `/queries`, `/updates`, `/cached-worlds` (`handlers/world.c`) | `multiple_query_ctx_t`: counters, flags, `res[]`, `query_param[]`, JSON generator; the cache of the World table | the handler, the query callbacks, the request's cleanup callback, filling and dropping the cache | pool, h2o (request disposal), JSON generators |
| `/db`, `/fortunes` (`handlers/world.c`, `handlers/fortune.c`) | one context with a flag `cleanup`; the page's buffer | the handler, three query callbacks, the request's cleanup callback | as above |
| `/json`, `/plaintext` | none | answer at once | h2o |
| JSON generators, sorting, random numbers (`utility.c`) | a bounded list of generators per thread | get, free; pure functions | handlers |
| Event loop and threads (`event_loop.c`, `thread.c`, `main.c`) | `shutdown`, `conn_num`, accept sockets, message queue | accept, throttle, post and process messages, shut down, free | everything else |
| TLS (`tls.c`) | OpenSSL contexts | initialization | h2o |

All callbacks of a thread run one after the other, and threads share nothing but
the message queues; the difficulty is in the order of callbacks. A query's reply,
its timeout, the failure of its connection and the departure of the HTTP client
come in any order. Callbacks free or reuse the structure they were called with.
Replies of a pipeline carry no name and are matched by position. Connecting,
sending and flushing fail halfway, and then other queues and lists have to be put
right. What makes the parts correct:

* pool: every accepted query gets one callback, with the result that answers it;
  the counters that bound queues and connections stay exact through failures;
  every usable connection is found; a hung connection is given up, an idle one
  is not;
* handlers: a request is answered once; its context is freed when the request and
  all its queries have ended, not before and not twice; a response holds the rows
  that were asked for, and the memory it is sent from stays valid;
* event loop: a shutdown reaches every thread, and what is freed is not used
  again.

### paozhu benchmark

| Part | State | Operations | Interacts with |
|---|---|---|---|
| Condition builder (`orm/include/*_mysql.h`) | the parts of the next statement as text, and the flags `iskuohao` (a bracket is open) and `ishascontent` (it has a condition) | about 60 families of methods, several overloads each, that append conditions, brackets, ORDER, GROUP and LIMIT, or clear | callers chain the calls; MySQL reads the result |
| Rows, SQL and JSON (`orm/include/*_base.h`) | `record` (rows) and `data` (the current row) | setters, SQL for INSERT, UPDATE and REPLACE, `to_json`, `from_json`, collecting and grouping columns | the two other parts of the class |
| Operations of the ORM (`orm/include/*_mysql.h`) | flags for errors, locks and caching, up to two connections per object; process-wide result caches and connection pools | fetch, get, count, page, insert, update, remove, save, transactions, lock, cache, each plain and `async_` | pool, caches, MySQL |
| Request handlers (`controller/src/techempower.cpp`) | locals of a coroutine; a process-wide cache | eight handlers | ORM, cache |

Hard here: the text of a condition is right only if two flags were kept right over all
calls before; each exchange with the database fails in several ways, some of which are
caught and forgotten with a reply still outstanding; an object can keep its connection
over calls and hand it to others; caches are filled from members that are not always
what was read; handlers run between each other's calls of the cache. What makes it
correct: a chain of calls builds SQL that is valid and means what the chain says; rows
survive their way to JSON and back; a call never gets another call's reply; a cache entry
is the reply to its statement; an object in error is silent; every request is answered,
with the rows it asked for.

### Toolset

| Part | State | Operations | Interacts with |
|---|---|---|---|
| Main program (`run-tests.py`, `benchmark/benchmarker.py`) | list of tests, exit code, the dool process | `run`, `__run_test`, `__benchmark`, `stop` (signal handler) | everything below |
| Docker helper (`utils/docker_helper.py`) | containers on up to three hosts | build, run, start database, benchmark, stop, clean | Docker |
| Framework test (`benchmark/framework_test.py`) | `failed` of each test type | `start`, `verify_urls` | test types, results |
| Results (`utils/results.py`) | results in memory, `results.json` | write, load, parse, count commits with threads | file system, git |
| Verifications (`test_types/`) | none | pure checks of bodies and headers | HTTP |
| Databases (`databases/`) | none | test the connection, count rows and queries | database drivers |
| Metadata, configuration, logging, scaffolding, audit, CI selection, service scripts | files | read, write, print | - |

Hard here: every Docker call may raise, also inside `except` and `finally`; a
signal runs `stop` in the middle of any call, and what it raises surfaces there,
possibly inside a bare `except:`; the results in memory are replaced by what the
file says after each test; threads share a closure. What makes it correct: no
container outlives its test; every started test is recorded; exit code 0 of a
verification means that everything was verified; the program ends, and stays
ended when told to stop.

`PROJECT.json` lists all components and, under `hazards`, the places where these
difficulties bite, each with the properties that cover it or the reason why none
does yet.

## 2. Modules

| Module | Models | Checked by |
|---|---|---|
| `DbPool` | the connection pool | `DbPool_*.cfg` through `MCDbPool`; `DbPoolProofs` |
| `RequestLifecycle` | abstract: what a handler promises h2o and the allocator | refined by the next two |
| `WorldQueries` | `/queries`, `/updates`, `/cached-worlds` | `WorldQueries.cfg` through `MCWorldQueries`; `WorldQueriesProofs` |
| `SingleQuery` | `/db`, `/fortunes` | `SingleQuery.cfg`; `SingleQueryProofs` |
| `EventLoop` | threads, accepting, messages and the shutdown of the server | `EventLoop*.cfg`; `EventLoopProofs` |
| `PaozhuBase` | paozhu: rows, SQL and JSON of a model class | with the next one; `PaozhuWhereProofs` |
| `PaozhuWhere` | paozhu: the condition builder; extends `PaozhuBase` as the class extends its base | `PaozhuWhere.cfg` through `MCPaozhuWhere`; `PaozhuWhereProofs` |
| `PaozhuOrm` | paozhu: operations of the ORM on shared pools, caches and table | `PaozhuOrm.cfg` through `MCPaozhuOrm`; `PaozhuOrmProofs` |
| `PaozhuServer` | paozhu: the request handlers as coroutines over the ORM's calls | `PaozhuServer.cfg` through `MCPaozhuServer`; `PaozhuServerProofs` |
| `Benchmarker` | the toolset's main program, containers and results | `Benchmarker*.cfg`; `BenchmarkerProofs` |

Run `tlc -config X.cfg M` with the module and the file that `PROJECT.json` names,
and `tlapm M.tla` for the eight proof modules (`*Proofs.tla`). Definitions whose comment begins with
"Mutant of" are not part of a model: each is the form a definition would take with
a plausible mistake, and shows that a property notices it.

### DbPool

The variables are the fields of `db_conn_pool_t` and `db_conn_t`, what libpq and
the server hold for a connection, and a program counter. A callback that is one
block of assignments is one action. A callback with a loop or with calls that may
fail is a chain of actions, and nothing else of the thread runs until it is over:

* `on_database_read_ready`: `ReadReady`, then `ReadIgnored`, `ReadSync`, `ReadDone`,
  `ReadMore` once per result, until `ReadBusy` or `ReadDrained`;
* `on_process_queries`: `StartProcessing`, `Send` per query, `FlushFull` per full
  connection, `FlushRest` per connection on the list, `StartConnect` and
  `EndProcessing`;
* `on_database_error` is `DatabaseError`, called from all of these, and returns to
  `ret`.

The list of connections is a sequence and a tail: `pool_tail = NoConn` means that
`pool->conn.tail` points at the end of the list, `pool_tail = c` that it points
into `c`, which is not on the list any more (or whose memory was freed), so that
the next append is lost. `stage` says what `PQgetResult` returns next for the
oldest query: results, the NULL that ends them, or the sync point. `on_result` may
submit a query again (`Resubmission`), as the handlers do.

Assumed of libpq and PostgreSQL: `PQsocket` does not change while a connection
is made; the PREPARE statements fit into the socket buffer, so that the write
callback of the connect phase is not pending when the connection becomes usable;
replies arrive in the order of queries. `COPY` results and errors that break the
pipeline lead to `on_database_error`. `free_database_connection_pool` is in `EventLoop`.

### RequestLifecycle, WorldQueries, SingleQuery

`RequestLifecycle` knows, for each request, whether it is open, answered or gone,
whether its context lives, and how many of its queries the pool has. The context
is freed in the step in which the last of them ends. The handlers decide this
with flags and counters only, and are shown to implement it.

`WorldQueries` keeps the fields of `multiple_query_ctx_t`. `flying` is what the
pool has: which `query_param[i]`, with which id. The contents of rows other than
the id are left out. `res` holds ids; `Htonl` and `Ntohl` change their sign, so
that an id in network order is told apart from one in host order. The pool is seen
through its contract: a query is accepted or refused, and an accepted one gets one
callback. The memory layout of the context is abstracted to the
number of parameters it has room for. The thread's cache of the World table is
`cache` and `populating`. `Sorted` is what `qsort` may return: the orders in which no id
comes after a larger one.

`SingleQuery` has both handlers with one query. `body` says whether the response is
a copy or is sent from the context's buffer.

### EventLoop

Each thread goes from `start_threads` over `initialize_thread_context` and its loop to
`free_thread_context`; thread 0 is the main thread, which also handles the signal, joins
the others and frees the global data. The load of a thread is the number of its
connections that wait for a request (`idle`) or for a query (`asking`), the queries
whose connection is closed (`abandoned`) and the query that fills the cache (`filling`).
`dropped` is history: the queries that were in a pool when it was freed. `process_messages`
handles all messages that have come, so a thread that reads them has none left.

`shutdown_server` never reads `signal_fd`, so the loop may call it again; `calls` counts
the calls. `send_message` takes the queue of the receiver from `h2o_receiver`, which is
zero before the receiver is registered and stale after its loop was destroyed: then the
model sets `undefined`, and the message is lost or the process crashes. Both can happen:
a signal right after the start, when another thread is slower than the main thread, and a
second call while the main thread still has connections. `ToldToStop` excepts a thread
that was sent a message in this way and, when it has ended, a later call; the liveness
properties except these behaviours altogether.

### PaozhuBase, PaozhuWhere

An object is a `World` or a `Fortune`. A text is a tuple of letters, SQL and JSON are
sequences of tokens; no text has a quote or a brace, which `from_json` would take for the
beginning or the end of a row. A condition is one token that carries the rows it selects, so that
`Selected` can evaluate what was built, with MySQL's precedence, and `said` is what the
same calls mean when read from left to right. The generated methods of a column come in
families (`eq`, `in`, `nin`, `bt`, `like`, `null`, with `or_` and for texts or numbers);
one action stands for a family, with its arguments chosen from small sets.
`flaws` names the calls after which no valid statement can follow.

The list methods of a text column that take a vector do not append the `)`; `from_json`
is a reader that consumes tokens and sometimes one too many; `findcolpos` looks at the
first letter of a name only; a group's key may be an uninitialized local (`Junk`). World's
`getvecCols` of two texts has no loop and returns nothing. A text key with a number matches
two overloads of `getvecCols` and of the `getgroupRows` of two columns, so that such a call
does not compile (`Ambiguous`); the one of two texts needs a third type that no argument
determines. Each is modelled as it is, and the properties say exactly where results are
still right. The two parts of a class read none of each other's members, so `Next` does not mix them.

### PaozhuOrm

A row is its key. A call is one step, since what it shares is one statement on a
connection that is nobody else's, and each call may end at each of its exchanges: no
connection, not sent, reply broken off, error packet, exception. A connection of an
object is `null`, clean, or has an unread reply; `idle` says whether the pool holds one of
the last kind. What tells the fetches apart (which cache, whether it is looked at first,
where the rows go, what is emptied) is a record, and `SelectCall` is the code that their
copies in the header have in common; likewise `Write` and `EditCall`. `ghost` remembers
what the properties are about.

`begin_commit`, `rollback` and `commit` test for a pool the wrong way round: with one they
return at once. Without one, after `switchDB` to an unknown tag, they go on. If the object
holds no `edit_conn` they use the null pointer, which is the end of the behaviour
(`crashed`). If it still holds one, because a call threw or was locked, `begin_commit`
locks the object, sends its statement in spite of `iserror`, leaves the reply unread and
sets `iscommit` (`Unanswered`); the next write only resets `iscommit`, and `rollback` and
`commit` send and unlock. What such a transaction does to the table is left open: any change
may become visible when it ends. `async_page` is left out: line 520 assigns the awaitable of
`async_count` to a number, which does not compile where it is used.

### PaozhuServer

Handlers are cut where they await, and between their calls of the cache, because other
threads run there. A connection is the sequence of replies nobody has read yet; pools
hold the ones with unread replies, and clean ones can always be had. `/queries` and
`/updates` lock their connections for all their statements. `tainted` remembers that one
of them caught an exception; from then on any handler may be given a reply of another,
which `MixedUpOnlyAfterLock` of `PaozhuOrm` shows in general. `short` carries the reasons
why a list may have too few rows, from the cache entry to the answer made of it. `Rows`
is the set of results a SELECT may have: its rows by key, of which there is one sequence.
`Sorted` is what `std::sort` may make of the fortunes, rows with equal messages in any
order.

### Benchmarker

`pc` of `Benchmarker` is the place in `run` and `__run_test`. `Raise` is Python's
rule for the nested `try` statements; `Fails` is a call that raises. `Signal` is
`Benchmarker.stop` at any point; the exception it ends with is raised at `pc`, or
swallowed if the code there runs inside a bare `except:`. `StopOutcomes` is
`docker_helper.stop`, which visits the hosts in order and may raise between them.
A write of `results.json` may fail before or after the file was truncated.

Assumed: a container that is asked to stop ends; a second signal does not arrive
while the handler of the first one runs; which images exist does not matter. In
mode "debug" the program waits for a signal.

## 3. What the runs check

| Run | Instance | Shows |
|---|---|---|
| `pool_two` | 2 connections, pipeline 2, queue 2, 3 queries | `QueueAccounting`, `ConnAccounting`, `OneOwner`, `ReplyOrder`, `TimerCoversWork`, `ListUsable`, `FlushPromised` through all failures |
| `pool_live` | 1 connection, pipeline 2, queue 2, 4 queries, prepared statements | `NoLostConnection`: with a single connection the list never loses it; `EventuallyAnswered` |
| `pool_tail` | 2 connections, pipeline 1 | **violated**: the assertion on `pool->conn.tail` |
| `world` | 2 requests, one with up to 3 queries and window 2, the other with 1 | `LifecycleSpec` (refinement), `InProgressCounted`, `ResultIds`, `BodyAlive`, `PopulateOnce`, `EventuallyFreed` |
| `single` | 3 requests | `TypeOK` (with it: answered once), `LifecycleSpec`, `BodyAlive`, `EventuallyFreed` |
| `loop` | 2 threads, up to 2 connections each, 2 calls of `shutdown_server` | `ToldToStop`, `AllStopListening`, `EventuallyExits` |
| `loop_idle` | 2 threads, 1 connection each | **violated**: the assertion that a pool is idle when it is freed |
| `toolset_run` | 2 tests, 1 type, 1 signal, all modes | `ServicesStopped`, `CodeMeansVerified`, `AllRecorded`, `EventuallyDone` |
| `toolset_stop` | the same, 2 modes | **violated**: `StopIsFinal` |
| `model` | both classes, 2 rows each, up to 3 rows in an object, statements of up to 6 tokens | `ValidUnlessFlawed`, `FluentMeaning`, `JsonRoundTrip`, `ListsWellFormed`, `GroupsComplete` |
| `orm` | 1 object, with or without a pool, 2 keys, any 5 calls | `MixedUpOnlyAfterLock`, `CachedIsReply`, `PageInWindow`, `SilentAfterError` |
| `server` | 2 coroutines, 2 requests of any kind, 2 ids, 1 failure | `OwnRows`, `UpdatesWritten`, `CachedAnswers`, `Answered` |

**Bounds.** A pipeline of two is the smallest in which a reply can be given to the
wrong query, a queue of two the smallest in which order matters and which can be
full while a query waits; two connections are enough for one to fail while the
other is in use, and for a stale tail and a lost connection. `world` sends three queries
through a window of two, so that results come in both orders and overwrite ids that are
not sent yet; the cache is the only state that requests share. The bound of
`MCWorldQueries` gives the second request one query, which is in flight only when the
context of the first one is not there; the query that fills the cache outlives its request,
so the two still meet in the cache. Two threads are
enough for one to start, serve or end while the other is at any other point, and two
connections for one `accept_connection` to accept several. Two tests are enough
for one to leave something behind for the next; one signal can arrive at every
point. Six tokens are enough for a bracket with two conditions after a condition, which
needs all three kinds of joints, and for a flaw with a condition before and after it;
three rows let `from_json` lose one and keep one after it. Five calls are enough
for an insert that throws, `switchDB` to an unknown tag, `begin_commit`, `switchDB` back and
a `save` that reads the reply that was left; for lock, a call that throws and a call that
reads what was left; and for use_cache with one call that saves and another before it. Objects
meet in pool, caches and table only, and what one leaves there it can find itself; the
theorems are about any number of objects and calls. In
`server` two iterations (the limit of 500 is 2) make the second read what the first
left, and two requests with one failure let the one meet what the other left behind, in
the pool or in the cache. The parts proved do not depend on these bounds.

**Symmetry** of connections and of queries is used in the runs of safety
properties only.

**Deadlock** is checked in all runs of `DbPool` that are expected to pass: a pool can
always do something. In the others every request, test or thread may come to an end.

**Fairness.**

* `DbPool!FairSpec`: a callback that started runs to its end; a posted message is
  handled although other callbacks run in between; a timer does not stay linked for
  ever without expiring, unless it is linked anew again and again, as it is for each
  result (`TimerExpires`). Nothing is assumed of the server: it need not answer, and
  sockets need not become readable. `EventuallyAnswered` is conditional on connections
  not failing by themselves for ever, since the pool retries without limit. A caller
  may submit a query again from its `on_result`, so the property counts callbacks.
* `WorldQueries`, `SingleQuery`: the pool calls back for every query it accepted,
  which is `EventuallyAnswered`, and h2o disposes of a request whose response is
  complete. A client need not leave, and the cache need not be filled.
* `EventLoop`: threads are scheduled and their loops deliver events; the pool answers;
  h2o closes a connection on which no request comes (its request timeout). A client may
  keep sending requests for ever, and then the server does not end, so `EventuallyExits`
  is conditional on requests coming to an end.
* `Benchmarker`: each call of the main program ends. Docker's and HTTP's calls have
  timeouts in the code. No signal is assumed to arrive, no container to die.
* `PaozhuServer`: a coroutine that waits is resumed, with a reply or with a failure, since
  asio completes every operation it started; there is no fairness for failures, for the
  expiry of cache entries or for the arrival of requests.

**What was found.** Each of the three runs that end in a violation is described in
`PROJECT.json` under `findings`:

1. `remove_connection` (`database.c:644`) sets the tail pointer right only if the list
   becomes empty. If the last of several connections is unlinked, the tail points into
   it, and the assertion in `on_process_queries` (`database.c:433`) fails later. Where
   assertions are off, a connection appended through that pointer is lost, and with the
   specification `FairSpec` and the constants of `DbPool_tail.cfg` the property
   `EventuallyAnswered` fails: a query waits for ever while the pool has an idle
   connection.
2. A thread frees its connection pool when it has no HTTP connection (`event_loop.c:298`),
   and `free_database_connection_pool` asserts that no query is left in it
   (`database.c:742`, `751`). A query whose client has left, or the one that fills the
   cache, may still be there. Where assertions are off, its callback never comes and its
   context is not freed.
3. The `SystemExit` of `Benchmarker.stop` can be swallowed by a bare `except:` in
   whatever the signal interrupted, and the run goes on with the next test.

Because of the first, properties of `DbPool` are stated so that they hold with the
stale tail as well, or in an instance in which it cannot arise; `Lost` names the
connections it loses.

The paozhu runs pass, but their properties name the places where the generated code does
less than its callers might expect; no comment or test of the repository promises more.
In a few words: lists of texts from a vector and `having` never give valid SQL, nor does a
bracket before the first condition (`ValidUnlessFlawed`); `from_json` loses every second
`Fortune` of an array in which the message comes last (`JsonRoundTrip`); an
`ON DUPLICATE KEY UPDATE` takes one name (`ListsWellFormed`); `fetch_obj` and
`fetch_one(true)` save something else than they read (`CachedIsReply`); `save` inserts
although the object is in error, and `begin_commit` sends for an object that has lost its
pool (`SilentAfterError`); an exception while a connection is
locked can hand its reply to another request (`MixedUpOnlyAfterLock`, `OwnRows`); a short
list of `/cached-db` or `/cached-queries` is served by both until it expires
(`CachedAnswers`); a failed update is answered as done (`UpdatesWritten`).

## 4. What is proved

The eight proof modules contain no step that is taken on trust. Each has one inductive
invariant, checked with TLC before it was proved, and one lemma per action or per group of
actions that do the same to it.

**DbPool**, for every number of connections, queue length, pipeline length and set of
queries (`PoolAssumption`: the limits are positive, and there are at least as many
addresses as connections may be made): `TypeOK`, `QueueAccounting`, `ConnAccounting`,
`ListUsable`, `ReplyOrder` and `TimerCoversWork` are invariants.

None of them is inductive alone. `IInv` adds what the code relies on in the middle of
callbacks:

* `BlankUnlessReady`: a connection that is not established has nothing queued, which is
  why `conn_num` and the counters are right after a failed connect;
* `TimerState`: the timer of every connection inside callbacks, from which
  `TimerCoversWork` follows where `pc` is "idle";
* `LoopState`: the connection a callback works on is established, and one found full is
  not on the list, so that appending it does not make a duplicate;
* `IterState`: the connections that `on_process_queries` still has to visit exist; a
  connection freed on the way is not among them.

There is one lemma per action (`SentStep`, `DatabaseErrorStep`, ...), each with the
conjuncts that the action can disturb; `OneConn` reduces the conjuncts about all
connections to the one that a callback works on; `LiveGrows`, `LiveShrinks` and
`LiveStays` carry the cardinality in `ConnAccounting`; lemmas on lists say what append,
unlink and pop do to elements and duplicates.

Three more invariants are proved relative to `IInv`:

* `OneOwner`. Apart from resetting connections, the steps move one query: from its caller
  to the pool's queue, from there to a pipeline, from a queue to its callback. `OwnersApart`
  and `OwnersJoin` take the owners apart into the pool, one connection and the others
  (`Others`) and put them together again, so that each action is about two sequences.
* `FlushPromised`, from `Promises`: in the middle of callbacks too, a query that libpq
  has not written belongs to a connection that waits to become writable, that
  `on_process_queries` has still to visit (in `iter`, or on the list before the last loop
  starts), that is about to be torn down, or that is lost.
* `NoLostConnection` for `MaxConn = 1`, from `Found`: the tail is never stale, because a
  connection that is unlinked was alone on the list (`OneOnList`, by `ConnAccounting`), and a
  usable connection is on the list unless `on_database_read_ready` found it full and will
  append it, or it is about to be torn down. The hypothesis is needed: `pool_tail` shows
  what two connections do.

**SingleQuery**, for every set of requests: `TypeOK` (with it, that no request is
answered twice or after it is gone), `BodyAlive`, and `SingleQueryRefines`: the
specification implements `RequestLifecycle`. The invariant `Owned` says what the one flag
knows in each state of a request. Each action is mapped to a step of the abstract
specification: handlers to `Handle`, query callbacks to `Callback`, the cleanup callback
to `Dispose`.

**WorldQueries**, for every set of requests, every set of positive ids, limit of queries
and window (`WorldAssumption`, `UpdateIsNoId`): `InProgressCounted`, `ResultIds`,
`BodyAlive`, `PopulateOnce`, and `WorldQueriesRefines`: the specification implements
`RequestLifecycle`. The invariant has four parts:

* `Owned`: the counter is the number of queries in flight, and the flags tell the last
  callback whether it has to free the context. With it `num_query_in_progress` is what the
  refinement mapping calls outstanding, and each action maps to `Handle`, `Callback`,
  `Dispose` or a stutter;
* `Querying` (`AllThere`): as long as a request waits for rows, every id that was drawn is
  in one place, among the results at the front of `res[]`, among the ids at its end that are
  still to be sent, or in a query in flight. What lies between may be overwritten. This is
  what makes it safe to write results over ids;
* `Updating`: when the UPDATE is in flight, all rows are there, once, in network order;
* `Kept`: a response holds the ids, and its generator is kept with the context.

**EventLoop**, for any number of threads, connections and calls of `shutdown_server`
(`LoopAssumption`: all limits are positive): `TypeOK` and `ToldToStop`. The invariant adds
`Counted` (no more messages than calls, no more connections than the limit) and `Told`: each
other thread that is shutting down has read a message, so that it has fewer than
`shutdown_server` has sent, and it leaves its loop only when it is shutting down. Without the
first of these a thread could end with the only message unread.

**Benchmarker**, for any number of tests, test types and signals and all modes
(`BenchmarkerAssumption`): `ServicesStopped`, `AllRecorded` and `CodeMeansVerified`. The
invariant says what holds at each place of `__run_test`: where no container runs (`Stopped`);
where the current test has its entry, and that the file agrees with the results in memory
until a write fails (`Recorded`, `Settled`), so that `results.load` brings nothing old back;
that `success` and `any_failed` say no less than the verdicts (`Verified`). `Signal` is the
action that needs the distinction in `Settled`: it can lead to the end before the entry is
written.

**PaozhuOrm**, for any objects, finite set of keys, conditions and number of calls
(`OrmAssumption`): `MixedUpOnlyAfterLock`, `CachedIsReply`, `PageInWindow` and the action
property `SilentAfterError`. `Contained` says where a connection with an unread reply can be:
with the object whose call threw or began a transaction, which takes another one for its next
call unless it is locked, or, once somebody locks, unlocks or begins a transaction without a
pool, in the pool. It also says why an object holds a connection between calls: a call threw,
or it was locked; without that `begin_commit` of an object that lost its pool has nothing to
send on. For `CachedIsReply` the calls are
sorted by `SavesReply`: those that save the member that they filled, and that was empty
before, save the reply. `PageInWindow` is arithmetic over all arguments of `page`.

**PaozhuServer**, for any number of coroutines, requests and failures, any finite sets of ids
and fortunes, any limit of queries (`ServerAssumption`): `OwnRows`, `UpdatesWritten` and
`CachedAnswers`. The invariant speaks of the states before an exception of a locking handler
(`~tainted`), as the properties do: then no connection in the pools has an unread reply, each
request is `Sound` at its place (how far its loop is, that each round brought the row that was
asked for, that a row not written is the one whose turn it is, that a list is whole or has a
reason to be short), the reply on its connection is its own (`Linked`), and each cache entry is
whole or has a reason (`GoodEntry`). A request makes no use of the others but through
pools, table and cache, so each action is a lemma about one request.

**PaozhuWhere**, for chains of calls of any length, any rows and values
(`BaseAssumption`, `WhereAssumption`): `ValidUnlessFlawed` and `FluentMeaning`. The invariant
`WInv` has four parts besides the types:

* `FlagsTrue`: `iskuohao` and `ishascontent` describe the last token of the condition. It is
  what the next call decides from; only a `wheresql.clear()` inside a bracket breaks it;
* `ClauseInv`: a condition without a flaw is good up to here (each token fits the one
  before, the depth of brackets is 0 or 1 and agrees with `iskuohao`), and each flaw has left a
  trace that no appended token removes (`TraceKeeps`). Both are needed, since the property
  is an equivalence;
* `TailInv`: the same for ORDER, GROUP and HAVING;
* `MeaningInv`: what MySQL has evaluated after the last token, inside and outside a
  bracket, is what `said` has of the two levels.

Each call that adds a condition is shown to be one `Condition` (`IdAdds`,
`MessageAdds`, ...), so that the invariant is proved for `Condition`, for opening and for
closing a bracket, and for the clears.

**PaozhuBase**, for any number of rows, any values and any content of an uninitialized
local: `BaseTypeOK` (rows keep the columns and types of their class, whatever `from_json` made of
a text), `GroupsComplete`, `JsonRoundTrip` and `ListsWellFormed`. They follow from the types
of the rows, by what the loops compute:

* grouping: the map after n rows is given explicitly (for each key, `Kept` of the
  values read so far), and a turn of the loop leads from one to the next (`GroupStep`,
  `Group2Step`, `FirstsIs`);
* `from_json`: `AllReadStep` and `HalfReadStep` say where the reader is after the text of n
  rows. When the last member is a text, rows alternate between being read and being
  passed over;
* lists with commas: after n rows they alternate (`NextItem`); an array that `func` has
  thinned out begins with a row or a comma, by whether the first row was kept (`ThinnedStep`);
* lists of names: one name or two (the bound `NameLists` of the property), by cases
  on the columns they stand for.

What these loops compute is a recursive function, or a fold of the community modules. The
library's induction theorems cannot be used, as they take an operator as a parameter.
Instead the set of the numbers for which a fact holds is formed, and it contains every number
since there is no least one outside (`LeastNumber`, `AllNumbers`); `RunExists` shows in
the same way that the recursive definition has a solution, and `SameSteps` that it is unique.

**Only checked**: the liveness properties (`EventuallyAnswered`, `EventuallyFreed`,
`AllStopListening`, `EventuallyExits`, `EventuallyDone`, `Answered`), since the prover has no
support for fairness. All invariants and all action properties of the passing runs are
proved. `TypeOK` of the modules other than `SingleQuery` is a part of the
inductive invariants, and is not repeated as a property of a run.

## 5. Plan

Done, in this order: `DbPool`, its first proofs, `RequestLifecycle`, `WorldQueries`,
`SingleQuery` and its proofs, `Benchmarker`, `EventLoop` and its proofs, `PaozhuWhere`
with `PaozhuBase`, `PaozhuOrm`, `PaozhuServer`, and the proofs of `Benchmarker`,
`WorldQueries`, `PaozhuOrm`, `PaozhuServer`, of the owners in `DbPool`, of `PaozhuWhere` and
`PaozhuBase`.

Theorems to come: how `pool_tail` and the list are related for any number of connections.

Models that could follow: the connect phase of `DbPool` with its own partial flushes and
write callbacks; an abstract pool (accept or refuse, then one callback) which `DbPool`
implements and which the handlers can be composed with; the bounded list of JSON
generators and the algorithms of `utility.c`; the checks of `test_types/verifications.py`.

## 6. Not modelled

* TLS, command-line options, formatting of headers, bodies and log lines: no state that
  the properties are about.
* Metadata, configuration files, scaffolding, audit and the shell scripts of the
  continuous service: sequential reading and writing of files.
* The commands of `run-tests.py` other than running tests; the counting of commits and
  the parsing of raw results, which run once after all tests.
* Of paozhu: the escaping of texts, the framework itself (`httppeer`, the pools, the
  caches and MySQL's protocol are third-party and seen through their use), the calls that
  store or remove a single cache entry by its key, and `async_page`, which does not compile.
* The other frameworks: independent programs whose logic is that of third-party servers.
* h2o, libpq, PostgreSQL, MySQL, asio, Docker and git: modelled only as the code uses them.
