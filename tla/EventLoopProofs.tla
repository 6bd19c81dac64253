-------------------------- MODULE EventLoopProofs --------------------------
(***************************************************************************)
(* Safety of the start and the shutdown of the server, for any number of   *)
(* threads and connections and any number of calls of shutdown_server.     *)
(***************************************************************************)
EXTENDS EventLoop, TLAPS

\* The counters of one thread: no more messages than shutdown_server sent, no
\* more connections than were accepted.
Counted(t) == messages[t] <= calls /\ ConnNum(t) <= MaxConn

\* Each other thread learns of the shutdown: it has read a message of one of the
\* calls, or will.  It ends only then.
Told(t) ==
    /\ calls > 0 /\ ~undefined => t \in shutdown \/ messages[t] > 0
    /\ t \in shutdown => messages[t] < calls
    /\ pc[t] \in {"freepool", "freeloop", "done"} => t \in shutdown

\* The inductive invariant.
IInv ==
    /\ TypeOK
    /\ \A t \in Threads : Counted(t)
    /\ \A t \in Others : Told(t)

\* The main thread is a thread.
LEMMA MainThread == 0 \in Threads /\ Others \subseteq Threads
BY LoopAssumption DEF Threads, Others

\* Initially nothing runs.
LEMMA InitIInv == Init => IInv
<1> SUFFICES ASSUME Init PROVE IInv
  OBVIOUS
<1>1. TypeOK
  <2>1. 0 \in 0..MaxConn /\ 0 \in 0..MaxCalls /\ 0 \in Nat
    BY LoopAssumption
  <2>2. /\ messages \in [Threads -> 0..MaxCalls] /\ idle \in [Threads -> 0..MaxConn]
        /\ asking \in [Threads -> 0..MaxConn] /\ abandoned \in [Threads -> 0..MaxConn]
        /\ dropped \in [Threads -> Nat] /\ calls \in 0..MaxCalls
    BY <2>1 DEF Init
  <2>3. /\ pc \in [Threads -> {"none", "create", "listen", "register", "loop", "freepool",
                               "freeloop", "join", "done", "exit"}]
        /\ process \in {"running", "exited", "aborted"}
    BY DEF Init
  <2>4. /\ signal \in BOOLEAN /\ undefined \in BOOLEAN
        /\ listening \subseteq Threads /\ shutdown \subseteq Threads
        /\ filling \subseteq Threads
    BY DEF Init
  <2> QED
    BY <2>2, <2>3, <2>4 DEF TypeOK
<1>2. \A t \in Threads : Counted(t)
  BY LoopAssumption DEF Init, Counted, ConnNum
<1>3. \A t \in Others : Told(t)
  BY MainThread DEF Init, Told, Others
<1> QED
  BY <1>1, <1>2, <1>3 DEF IInv

\* Steps that change the load of a loop that runs: accept, request, query, close.
LEMMA LoadStep ==
  ASSUME IInv, NEW t \in Threads,
         \/ AcceptConnection(t) \/ HandleRequest(t) \/ QueryDone(t)
         \/ CloseConnection(t) \/ ClientLeaves(t)
  PROVE  IInv'
<1> USE LoopAssumption
<1>0. /\ pc[t] = "loop" /\ UNCHANGED <<pc, stopVars, endVars>>
  BY DEF AcceptConnection, HandleRequest, QueryDone, CloseConnection, ClientLeaves
<1>1. UNCHANGED <<pc, listening, shutdown, messages, calls, undefined, process, signal,
                  dropped>>
  BY <1>0 DEF stopVars, endVars
<1>2. /\ idle \in [Threads -> 0..MaxConn] /\ asking \in [Threads -> 0..MaxConn]
      /\ abandoned \in [Threads -> 0..MaxConn] /\ filling \subseteq Threads
      /\ idle[t] + asking[t] <= MaxConn
  BY DEF IInv, TypeOK, Counted, ConnNum
<1>3. /\ idle' \in [Threads -> 0..MaxConn] /\ asking' \in [Threads -> 0..MaxConn]
      /\ abandoned' \in [Threads -> 0..MaxConn] /\ filling' \subseteq Threads
      /\ idle'[t] + asking'[t] <= MaxConn
      /\ \A s \in Threads \ {t} : idle'[s] = idle[s] /\ asking'[s] = asking[s]
  <2>1. CASE AcceptConnection(t)
    BY <2>1, <1>2 DEF AcceptConnection, ConnNum
  <2>2. CASE HandleRequest(t)
    BY <2>2, <1>2 DEF HandleRequest
  <2>3. CASE QueryDone(t)
    BY <2>3, <1>2 DEF QueryDone
  <2>4. CASE CloseConnection(t)
    BY <2>4, <1>2 DEF CloseConnection
  <2>5. CASE ClientLeaves(t)
    BY <2>5, <1>2 DEF ClientLeaves
  <2> QED
    BY <2>1, <2>2, <2>3, <2>4, <2>5
<1>4. TypeOK'
  BY <1>1, <1>3 DEF IInv, TypeOK
<1>5. \A s \in Threads : Counted(s)'
  BY <1>1, <1>3 DEF IInv, Counted, ConnNum
<1>6. \A s \in Others : Told(s)'
  BY <1>1 DEF IInv, Told
<1> QED
  BY <1>4, <1>5, <1>6 DEF IInv

\* Steps that start or end a thread and leave its load alone.
LEMMA RunStep ==
  ASSUME IInv, NEW t \in Threads,
         \/ Listen(t) \/ Register(t) \/ ProcessMessages(t) \/ LeaveLoop(t)
         \/ FreePool(t) \/ FreeEventLoop(t)
  PROVE  IInv'
<1> USE LoopAssumption
<1>0. TypeOK /\ Counted(t) /\ (t \in Others => Told(t))
  BY DEF IInv
<1>1. UNCHANGED <<idle, asking, abandoned, filling, calls, undefined, signal>>
  BY DEF Listen, Register, ProcessMessages, LeaveLoop, FreePool, FreeEventLoop,
         loadVars, stopVars, endVars
<1>2. /\ pc' \in [Threads -> {"none", "create", "listen", "register", "loop", "freepool",
                              "freeloop", "join", "done", "exit"}]
      /\ \A s \in Threads \ {t} : pc'[s] = pc[s]
  BY <1>0 DEF Listen, Register, ProcessMessages, LeaveLoop, FreePool, FreeEventLoop,
              Goto, TypeOK, loadVars, stopVars, endVars
<1>3. /\ messages' \in [Threads -> 0..MaxCalls]
      /\ \A s \in Threads : messages'[s] <= messages[s]
      /\ \A s \in Threads \ {t} : messages'[s] = messages[s]
  BY <1>0 DEF Listen, Register, ProcessMessages, LeaveLoop, FreePool, FreeEventLoop,
              TypeOK, loadVars, stopVars, endVars
<1>4. dropped' \in [Threads -> Nat]
  <2>1. Queries(t) \in Nat
    BY <1>0 DEF TypeOK, Queries
  <2>2. CASE FreePool(t)
    BY <2>1, <2>2, <1>0 DEF FreePool, TypeOK
  <2>3. CASE ~FreePool(t)
    BY <2>3, <1>0 DEF Listen, Register, ProcessMessages, LeaveLoop, FreeEventLoop,
                      TypeOK, loadVars, stopVars, endVars
  <2> QED
    BY <2>2, <2>3
<1>5. /\ process' \in {"running", "exited", "aborted"}
      /\ listening' \subseteq Threads /\ shutdown' \subseteq Threads
      /\ \A s \in Threads \ {t} : s \in shutdown' <=> s \in shutdown
  BY <1>0 DEF Listen, Register, ProcessMessages, LeaveLoop, FreePool, FreeEventLoop,
              TypeOK, loadVars, stopVars, endVars
<1>6. TypeOK'
  BY <1>0, <1>1, <1>2, <1>3, <1>4, <1>5 DEF TypeOK
<1>7. \A s \in Threads : Counted(s)'
  BY <1>0, <1>1, <1>3 DEF IInv, Counted, ConnNum, TypeOK
<1>8. ASSUME t \in Others PROVE Told(t)'
  <2>1. CASE ProcessMessages(t)
    <3>1. /\ messages[t] > 0 /\ messages[t] <= calls /\ messages[t] \in Nat /\ calls \in Nat
          /\ messages'[t] = 0 /\ t \in shutdown'
      BY <2>1, <1>0 DEF ProcessMessages, TypeOK, Counted
    <3> QED
      BY <3>1, <1>1 DEF Told
  <2>2. CASE LeaveLoop(t)
    BY <2>2, <1>0, <1>8 DEF LeaveLoop, Told, stopVars
  <2>3. CASE FreePool(t) \/ FreeEventLoop(t)
    <3>1. /\ pc[t] \in {"freepool", "freeloop"}
          /\ UNCHANGED <<shutdown, messages, calls, undefined>>
      BY <2>3 DEF FreePool, FreeEventLoop, stopVars
    <3> QED
      BY <3>1, <1>0, <1>8 DEF Told
  <2>4. CASE Listen(t) \/ Register(t)
    <3>1. /\ pc'[t] \in {"listen", "register", "loop"}
          /\ UNCHANGED <<shutdown, messages, calls, undefined>>
      BY <2>4, <1>0 DEF Listen, Register, Goto, TypeOK, stopVars
    <3> QED
      BY <3>1, <1>0, <1>8 DEF Told
  <2> QED
    BY <2>1, <2>2, <2>3, <2>4
<1>9. \A s \in Others : Told(s)'
  <2> SUFFICES ASSUME NEW s \in Others PROVE Told(s)'
    OBVIOUS
  <2>1. CASE s # t
    BY <2>1, <1>1, <1>2, <1>3, <1>5, MainThread DEF IInv, Told
  <2> QED
    BY <2>1, <1>8
<1> QED
  BY <1>6, <1>7, <1>9 DEF IInv

\* shutdown_server: one message more for each thread that is registered.
LEMMA ShutdownStep ==
  ASSUME IInv, ShutdownServer
  PROVE  IInv'
<1> USE LoopAssumption
<1>0. UNCHANGED <<pc, idle, asking, abandoned, filling, signal, dropped>>
  BY DEF ShutdownServer, loadVars
<1>1. calls' = calls + 1 /\ calls < MaxCalls /\ calls \in Nat
  BY DEF ShutdownServer, IInv, TypeOK
<1>2. \A t \in Threads : messages'[t] \in Nat /\ messages'[t] <= messages[t] + 1
  BY DEF ShutdownServer, IInv, TypeOK
<1>3. \A t \in Threads : messages[t] \in Nat /\ messages[t] <= calls
  BY DEF IInv, TypeOK, Counted
<1>4. \A t \in Threads : messages'[t] <= calls' /\ messages'[t] \in 0..MaxCalls
  BY <1>1, <1>2, <1>3
<1>5. messages' \in [Threads -> 0..MaxCalls]
  BY <1>4 DEF ShutdownServer
<1>6. /\ process' \in {"running", "exited", "aborted"} /\ undefined' \in BOOLEAN
      /\ shutdown' \subseteq Threads /\ listening' \subseteq Threads
  BY MainThread DEF ShutdownServer, IInv, TypeOK
<1>7. TypeOK'
  BY <1>0, <1>1, <1>5, <1>6 DEF IInv, TypeOK
<1>8. \A t \in Threads : Counted(t)'
  BY <1>0, <1>4 DEF IInv, Counted, ConnNum
<1>9. ASSUME NEW t \in Others PROVE Told(t)'
  <2>1. t \in Threads /\ t \in Recipients /\ t # 0
    BY MainThread DEF Others, Threads, Recipients
  <2>2. t \in shutdown' <=> t \in shutdown
    BY <2>1 DEF ShutdownServer
  <2>3. ~undefined' => messages'[t] = messages[t] + 1
    BY <2>1 DEF ShutdownServer
  <2>4. Told(t)
    BY <1>9 DEF IInv
  <2> QED
    BY <2>1, <2>2, <2>3, <2>4, <1>0, <1>1, <1>2, <1>3 DEF Told
<1> QED
  BY <1>7, <1>8, <1>9 DEF IInv

\* The steps of the main function, and the signal.
LEMMA MainStep ==
  ASSUME IInv, Main \/ Signal
  PROVE  IInv'
<1> USE LoopAssumption
<1>1. UNCHANGED <<idle, asking, abandoned, filling, listening, shutdown, messages, calls,
                  undefined, dropped>>
  BY DEF Main, StartThreads, FreeGlobalData, Exit, Signal, loadVars, stopVars, endVars
<1>2. /\ pc' \in [Threads -> {"none", "create", "listen", "register", "loop", "freepool",
                              "freeloop", "join", "done", "exit"}]
      /\ \A t \in Threads : pc'[t] \in {"freepool", "freeloop", "done"} => pc'[t] = pc[t]
  BY MainThread DEF Main, StartThreads, FreeGlobalData, Exit, Signal, Goto, IInv, TypeOK
<1>3. process' \in {"running", "exited", "aborted"} /\ signal' \in BOOLEAN
  BY DEF Main, StartThreads, FreeGlobalData, Exit, Signal, IInv, TypeOK, endVars
<1>4. TypeOK'
  BY <1>1, <1>2, <1>3 DEF IInv, TypeOK
<1>5. \A t \in Threads : Counted(t)'
  BY <1>1 DEF IInv, Counted, ConnNum
<1>6. \A t \in Others : Told(t)'
  BY <1>1, <1>2, MainThread DEF IInv, Told
<1> QED
  BY <1>4, <1>5, <1>6 DEF IInv

\* Every step keeps the invariant.
LEMMA NextIInv == IInv /\ [Next]_vars => IInv'
<1> SUFFICES ASSUME IInv, [Next]_vars PROVE IInv'
  OBVIOUS
<1>1. CASE Main \/ Signal
  BY <1>1, MainStep
<1>2. CASE ShutdownServer
  BY <1>2, ShutdownStep
<1>3. ASSUME NEW t \in Threads, Run(t) PROVE IInv'
  BY <1>3, RunStep DEF Run
<1>4. ASSUME NEW t \in Threads,
             \/ AcceptConnection(t) \/ HandleRequest(t) \/ QueryDone(t)
             \/ CloseConnection(t) \/ ClientLeaves(t)
      PROVE  IInv'
  BY <1>4, LoadStep
<1>5. CASE UNCHANGED vars
  BY <1>5 DEF vars, loadVars, stopVars, endVars, IInv, TypeOK, Counted,
              Told, ConnNum
<1> QED
  BY <1>1, <1>2, <1>3, <1>4, <1>5 DEF Next

\* The invariant holds in every state (main.c, thread.c, event_loop.c).
THEOREM Invariance == Spec => []IInv
BY InitIInv, NextIInv, PTL DEF Spec

\* conn_num never wraps around, and a receiver has no more messages than
\* shutdown_server sent.
THEOREM TypeCorrect == Spec => []TypeOK
<1>1. IInv => TypeOK
  BY DEF IInv
<1> QED
  BY <1>1, Invariance, PTL

\* Every thread learns of the shutdown, and none ends with a message unread
\* unless shutdown_server was called again (event_loop.c).
THEOREM ThreadsAreTold == Spec => []ToldToStop
<1>1. IInv => ToldToStop
  <2> SUFFICES ASSUME IInv, NEW t \in Others PROVE
        /\ calls > 0 /\ ~undefined => t \in shutdown \/ messages[t] > 0
        /\ pc[t] = "done" /\ messages[t] > 0 => calls > 1
    BY DEF ToldToStop
  <2>1. messages[t] \in Nat /\ calls \in Nat /\ Told(t)
    BY MainThread, LoopAssumption DEF IInv, TypeOK
  <2> QED
    BY <2>1 DEF Told
<1> QED
  BY <1>1, Invariance, PTL

=============================================================================
