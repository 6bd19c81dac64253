----------------------------- MODULE EventLoop -----------------------------
(***************************************************************************)
(* The threads of the h2o server and their event loops (main.c, thread.c,  *)
(* event_loop.c): how the program starts, accepts connections, and shuts   *)
(* down when it gets SIGTERM.  Thread 0 is the main thread.                *)
(*                                                                         *)
(* A step is one callback of one thread; threads interleave.  Of requests  *)
(* it matters only that a connection can wait for a query, and that the    *)
(* query outlives the connection if the client leaves.                     *)
(***************************************************************************)
EXTENDS Naturals, FiniteSets

CONSTANTS
    ThreadNum,  \* config->thread_num
    MaxAccept,  \* config->max_accept
    MaxConn,    \* bound on the HTTP connections of a thread
    MaxCalls    \* bound on the number of calls of shutdown_server

ASSUME LoopAssumption ==
    /\ ThreadNum \in Nat \ {0} /\ MaxAccept \in Nat \ {0}
    /\ MaxConn \in Nat \ {0} /\ MaxCalls \in Nat \ {0}

Threads == 0..(ThreadNum - 1)
Others == Threads \ {0}

VARIABLES
    process,    \* "running", "exited" or "aborted"
    pc,         \* where each thread is
    listening,  \* threads whose listening sockets are open
    shutdown,   \* threads with ctx->shutdown
    messages,   \* SHUTDOWN messages in the thread's h2o_receiver
    idle,       \* connections that wait for a request
    asking,     \* connections that wait for a query
    abandoned,  \* queries in the pool whose connection is closed
    filling,    \* threads whose pool has the query that fills the cache
    signal,     \* is signal_fd readable?  (Nobody reads it.)
    calls,      \* calls of shutdown_server so far
    undefined,  \* was a message sent to a receiver that is not registered?
    dropped     \* queries that the pool still had when it was freed

loadVars == <<idle, asking, abandoned, filling>>
stopVars == <<listening, shutdown, messages, calls, undefined>>
endVars == <<process, signal, dropped>>
vars == <<pc, loadVars, stopVars, endVars>>

\* event_loop.conn_num, and what the pool of t has.
ConnNum(t) == idle[t] + asking[t]
Queries(t) == asking[t] + abandoned[t] + (IF t \in filling THEN 1 ELSE 0)

\* Between h2o_multithread_register_receiver and its counterpart.
Registered(t) == pc[t] \in {"loop", "freepool", "freeloop"}

Init ==
    /\ process = "running"
    /\ pc = [t \in Threads |-> IF t = 0 THEN "create" ELSE "none"]
    /\ listening = {} /\ shutdown = {}
    /\ messages = [t \in Threads |-> 0]
    /\ idle = [t \in Threads |-> 0]
    /\ asking = [t \in Threads |-> 0]
    /\ abandoned = [t \in Threads |-> 0]
    /\ filling = {}
    /\ signal = FALSE /\ calls = 0
    /\ undefined = FALSE
    /\ dropped = [t \in Threads |-> 0]

Goto(t, p) == pc' = [pc EXCEPT ![t] = p]

-----------------------------------------------------------------------------
(* Start.                                                                  *)

\* start_threads
StartThreads ==
    /\ pc[0] = "create"
    /\ pc' = [t \in Threads |-> "listen"]
    /\ UNCHANGED <<loadVars, stopVars, endVars>>

\* initialize_event_loop up to start_accept_polling, which aborts the process
\* if there is no socket to listen on.
Listen(t) ==
    /\ pc[t] = "listen"
    /\ \/ /\ Goto(t, "register")
          /\ listening' = listening \union {t}
          /\ UNCHANGED process
       \/ /\ process' = "aborted"
          /\ UNCHANGED <<pc, listening>>
    /\ UNCHANGED <<loadVars, shutdown, messages, calls, undefined, signal, dropped>>

\* The rest of initialize_thread_context.
Register(t) ==
    /\ pc[t] = "register"
    /\ Goto(t, "loop")
    /\ UNCHANGED <<loadVars, stopVars, endVars>>

-----------------------------------------------------------------------------
(* Callbacks while the loop runs.                                          *)

\* accept_connection
AcceptConnection(t) ==
    /\ pc[t] = "loop" /\ t \in listening /\ t \notin shutdown
    /\ \E accepted \in 1..MaxAccept :
          /\ ConnNum(t) + accepted <= MaxConn
          /\ idle' = [idle EXCEPT ![t] = @ + accepted]
    /\ UNCHANGED <<pc, asking, abandoned, filling, stopVars, endVars>>

\* A request handler submits a query; one of /cached-worlds can send the query
\* that fills the cache as well.
HandleRequest(t) ==
    /\ pc[t] = "loop" /\ idle[t] > 0
    /\ idle' = [idle EXCEPT ![t] = @ - 1]
    /\ asking' = [asking EXCEPT ![t] = @ + 1]
    /\ \/ UNCHANGED filling
       \/ t \notin filling /\ filling' = filling \union {t}
    /\ UNCHANGED <<pc, abandoned, stopVars, endVars>>

\* The pool answers a query.
QueryDone(t) ==
    /\ pc[t] = "loop"
    /\ \/ /\ asking[t] > 0
          /\ asking' = [asking EXCEPT ![t] = @ - 1]
          /\ idle' = [idle EXCEPT ![t] = @ + 1]
          /\ UNCHANGED <<abandoned, filling>>
       \/ /\ abandoned[t] > 0
          /\ abandoned' = [abandoned EXCEPT ![t] = @ - 1]
          /\ UNCHANGED <<idle, asking, filling>>
       \/ /\ t \in filling
          /\ filling' = filling \ {t}
          /\ UNCHANGED <<idle, asking, abandoned>>
    /\ UNCHANGED <<pc, stopVars, endVars>>

\* on_close_connection of a connection without a request
CloseConnection(t) ==
    /\ pc[t] = "loop" /\ idle[t] > 0
    /\ idle' = [idle EXCEPT ![t] = @ - 1]
    /\ UNCHANGED <<pc, asking, abandoned, filling, stopVars, endVars>>

\* on_close_connection of a client that does not wait for its response
ClientLeaves(t) ==
    /\ pc[t] = "loop" /\ asking[t] > 0 /\ abandoned[t] < MaxConn
    /\ asking' = [asking EXCEPT ![t] = @ - 1]
    /\ abandoned' = [abandoned EXCEPT ![t] = @ + 1]
    /\ UNCHANGED <<pc, idle, filling, stopVars, endVars>>

-----------------------------------------------------------------------------
(* Shutdown.                                                               *)

\* SIGTERM
Signal ==
    /\ ~signal
    /\ signal' = TRUE
    /\ UNCHANGED <<pc, loadVars, stopVars, process, dropped>>

\* The threads that shutdown_server sends a message to.
Recipients == 1..(ThreadNum - 1)

\* shutdown_server, in the main thread.  It does not read signal_fd, so that
\* the loop may call it again.  What send_message does with a receiver that is
\* not registered, or whose queue was destroyed, is undefined: the message is
\* lost, or the program crashes.
ShutdownServer ==
    /\ pc[0] = "loop" /\ signal /\ calls < MaxCalls
    /\ calls' = calls + 1
    /\ shutdown' = shutdown \union {0}
    /\ listening' = listening \ {0}
    /\ messages' = [t \in Threads |->
          IF t \in Recipients /\ Registered(t) THEN messages[t] + 1 ELSE messages[t]]
    /\ IF \A t \in Recipients : Registered(t)
       THEN UNCHANGED <<undefined, process>>
       ELSE undefined' = TRUE /\ process' \in {process, "aborted"}
    /\ UNCHANGED <<pc, loadVars, signal, dropped>>

\* Mutant of ProcessMessages: the listening sockets are left to free_event_loop.
ProcessMessagesListening(t) ==
    /\ pc[t] = "loop" /\ messages[t] > 0
    /\ messages' = [messages EXCEPT ![t] = 0]
    /\ shutdown' = shutdown \union {t}
    /\ UNCHANGED <<pc, loadVars, listening, calls, undefined, endVars>>

\* process_messages, with one or several SHUTDOWN messages
ProcessMessages(t) ==
    /\ pc[t] = "loop" /\ messages[t] > 0
    /\ messages' = [messages EXCEPT ![t] = 0]
    /\ shutdown' = shutdown \union {t}
    /\ listening' = listening \ {t}
    /\ UNCHANGED <<pc, loadVars, calls, undefined, endVars>>

\* Mutant of LeaveLoop: "while (!ctx->shutdown && ctx->event_loop.conn_num)".
LeaveLoopUnasked(t) ==
    /\ pc[t] = "loop" /\ (t \in shutdown \/ ConnNum(t) = 0)
    /\ Goto(t, "freepool")
    /\ UNCHANGED <<loadVars, stopVars, endVars>>

\* The end of event_loop.
LeaveLoop(t) ==
    /\ pc[t] = "loop" /\ t \in shutdown /\ ConnNum(t) = 0
    /\ Goto(t, "freepool")
    /\ UNCHANGED <<loadVars, stopVars, endVars>>

\* free_database_connection_pool, in free_thread_context
FreePool(t) ==
    /\ pc[t] = "freepool"
    /\ dropped' = [dropped EXCEPT ![t] = Queries(t)]
    /\ Goto(t, "freeloop")
    /\ UNCHANGED <<loadVars, stopVars, process, signal>>

\* free_event_loop, which unregisters the receiver; the thread ends, and the
\* main thread goes on in free_global_data.
FreeEventLoop(t) ==
    /\ pc[t] = "freeloop"
    /\ Goto(t, IF t = 0 THEN "join" ELSE "done")
    /\ listening' = listening \ {t}
    /\ UNCHANGED <<loadVars, shutdown, messages, calls, undefined, endVars>>

\* Mutant of FreeGlobalData: the main thread joins itself as well.
FreeGlobalDataJoiningAll ==
    /\ pc[0] = "join" /\ \A t \in Threads : pc[t] = "done"
    /\ Goto(0, "exit")
    /\ UNCHANGED <<loadVars, stopVars, endVars>>

\* free_global_data: the other threads are joined.
FreeGlobalData ==
    /\ pc[0] = "join" /\ \A t \in Others : pc[t] = "done"
    /\ Goto(0, "exit")
    /\ UNCHANGED <<loadVars, stopVars, endVars>>

\* main returns.
Exit ==
    /\ pc[0] = "exit"
    /\ process' = "exited"
    /\ UNCHANGED <<pc, loadVars, stopVars, signal, dropped>>

-----------------------------------------------------------------------------
\* What a thread does without a client or the database.
Run(t) ==
    \/ Listen(t) \/ Register(t)
    \/ ProcessMessages(t) \/ LeaveLoop(t) \/ FreePool(t) \/ FreeEventLoop(t)

Main == StartThreads \/ FreeGlobalData \/ Exit

Next ==
    /\ process = "running"
    /\ \/ Main \/ ShutdownServer \/ Signal
       \/ \E t \in Threads :
             \/ Run(t) \/ AcceptConnection(t) \/ HandleRequest(t) \/ QueryDone(t)
             \/ CloseConnection(t) \/ ClientLeaves(t)

Spec == Init /\ [][Next]_vars

\* Threads are scheduled and their loops deliver events; the pool answers (see
\* DbPool), and h2o closes a connection on which no request comes.
Fairness ==
    /\ WF_vars(Main /\ process = "running")
    /\ WF_vars(ShutdownServer /\ process = "running" /\ calls = 0)
    /\ \A t \in Threads :
          /\ WF_vars(Run(t) /\ process = "running")
          /\ WF_vars(QueryDone(t) /\ process = "running")
          /\ WF_vars(CloseConnection(t) /\ process = "running")

FairSpec == Spec /\ Fairness

-----------------------------------------------------------------------------
(* Properties.                                                             *)

\* Every counter is in range; conn_num does not wrap around.
TypeOK ==
    /\ process \in {"running", "exited", "aborted"}
    /\ pc \in [Threads -> {"none", "create", "listen", "register", "loop", "freepool",
                         "freeloop", "join", "done", "exit"}]
    /\ listening \subseteq Threads /\ shutdown \subseteq Threads
    /\ filling \subseteq Threads
    /\ messages \in [Threads -> 0..MaxCalls]
    /\ idle \in [Threads -> 0..MaxConn]
    /\ asking \in [Threads -> 0..MaxConn]
    /\ abandoned \in [Threads -> 0..MaxConn]
    /\ dropped \in [Threads -> Nat]
    /\ signal \in BOOLEAN /\ undefined \in BOOLEAN
    /\ calls \in 0..MaxCalls

\* Whatever the threads are doing when SIGTERM comes: once shutdown_server has
\* run, and met only registered receivers, each other thread is shutting down or
\* has the message that makes it.  And none ends with a message unread, which
\* nobody would free, unless the signal that nobody reads had shutdown_server
\* called again.
ToldToStop ==
    \A t \in Others :
        /\ calls > 0 /\ ~undefined => t \in shutdown \/ messages[t] > 0
        /\ pc[t] = "done" /\ messages[t] > 0 => calls > 1

\* "assert(!pool->queries.head)" and "assert(!conn->queries.head)"
\* (database.c:742, 751): a pool has no query left when it is freed.
PoolIdle == \A t \in Threads : dropped[t] = 0

\* "Close the listening sockets immediately, so that if another instance of the
\* application is started before the current one exits [...], it will accept
\* all incoming connections" (event_loop.c:201): all threads do, whatever their
\* connections do meanwhile, unless shutdown_server met an unregistered receiver.
AllStopListening ==
    calls > 0 ~> listening = {} \/ process # "running" \/ undefined

\* After SIGTERM the program ends, once clients send no more requests on
\* connections they have.
EventuallyExits ==
    <>[][\A t \in Threads : ~HandleRequest(t)]_vars =>
        (signal ~> process # "running" \/ undefined)

=============================================================================
