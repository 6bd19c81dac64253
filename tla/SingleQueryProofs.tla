------------------------- MODULE SingleQueryProofs -------------------------
(***************************************************************************)
(* The handlers of /db and /fortunes implement RequestLifecycle, for any   *)
(* number of requests.                                                     *)
(***************************************************************************)
EXTENDS SingleQuery, TLAPS

\* What the one flag knows: it is set as soon as the request or the query has
\* ended, and the context is freed when both have.
Owned(r) ==
    /\ req[r] = "none" => ctx[r] = "none" /\ ~flying[r] /\ ~cleanup[r]
    /\ req[r] = "open" => ctx[r] = "live" /\ flying[r] /\ ~cleanup[r]
    /\ req[r] = "sent" => ctx[r] = "live" /\ ~flying[r] /\ cleanup[r]
    /\ req[r] = "gone" /\ flying[r] => ctx[r] = "live" /\ cleanup[r]
    /\ req[r] = "gone" /\ ~flying[r] => ctx[r] = "freed"

\* Where a response body can be, and how long its buffer lives.
BodyKept(r) ==
    /\ body[r] # "none" => ctx[r] # "none" /\ ~flying[r]
    /\ body[r] = "buffer" /\ ctx[r] = "live" => buffer[r]
    /\ ctx[r] = "none" => body[r] = "none"

\* The inductive invariant.
IInv == TypeOK /\ \A r \in Requests : Owned(r) /\ BodyKept(r)

\* Initially there is no context.
LEMMA InitIInv == Init => IInv
BY DEF Init, IInv, TypeOK, Owned, BodyKept

\* A step of one request keeps the invariant of the others.
LEMMA OthersKept ==
    ASSUME IInv, TypeOK', NEW r \in Requests, Owned(r)', BodyKept(r)',
           \A s \in Requests \ {r} :
               /\ req'[s] = req[s] /\ ctx'[s] = ctx[s] /\ cleanup'[s] = cleanup[s]
               /\ buffer'[s] = buffer[s] /\ flying'[s] = flying[s] /\ body'[s] = body[s]
    PROVE  IInv'
<1>1. ASSUME NEW s \in Requests \ {r} PROVE Owned(s)' /\ BodyKept(s)'
  BY <1>1 DEF IInv, Owned, BodyKept
<1> QED
  BY <1>1 DEF IInv

\* What a step does to its own request, for each action of the handlers.
LEMMA StepIInv ==
    ASSUME IInv, NEW r \in Requests,
           HandleSingleQuery(r) \/ HandleFortunes(r) \/ Callback(r) \/ CleanupRequest(r)
    PROVE  IInv'
<1>0. TypeOK /\ Owned(r) /\ BodyKept(r)
  BY DEF IInv
<1> DEFINE Others ==
        \A s \in Requests \ {r} :
            /\ req'[s] = req[s] /\ ctx'[s] = ctx[s] /\ cleanup'[s] = cleanup[s]
            /\ buffer'[s] = buffer[s] /\ flying'[s] = flying[s] /\ body'[s] = body[s]
<1>1. CASE HandleSingleQuery(r)
  <2>1. TypeOK'
    BY <1>0, <1>1 DEF HandleSingleQuery, NewContext, TypeOK, Owned
  <2>2. Others
    BY <1>0, <1>1 DEF HandleSingleQuery, NewContext, TypeOK
  <2>3. Owned(r)'
    BY <1>0, <1>1 DEF HandleSingleQuery, NewContext, TypeOK, Owned
  <2>4. BodyKept(r)'
    BY <1>0, <1>1 DEF HandleSingleQuery, NewContext, TypeOK, Owned, BodyKept
  <2> QED
    BY <2>1, <2>2, <2>3, <2>4, OthersKept
<1>2. CASE HandleFortunes(r)
  <2>1. TypeOK'
    BY <1>0, <1>2 DEF HandleFortunes, NewContext, TypeOK, Owned
  <2>2. Others
    BY <1>0, <1>2 DEF HandleFortunes, NewContext, TypeOK
  <2>3. Owned(r)'
    BY <1>0, <1>2 DEF HandleFortunes, NewContext, TypeOK, Owned
  <2>4. BodyKept(r)'
    BY <1>0, <1>2 DEF HandleFortunes, NewContext, TypeOK, Owned, BodyKept
  <2> QED
    BY <2>1, <2>2, <2>3, <2>4, OthersKept
<1>3. CASE Failed(r)
  <2>1. TypeOK'
    BY <1>0, <1>3 DEF Failed, Answered, Cleanup, TypeOK, Owned
  <2>2. Others
    BY <1>0, <1>3 DEF Failed, Answered, Cleanup, TypeOK
  <2>3. Owned(r)'
    BY <1>0, <1>3 DEF Failed, Answered, Cleanup, TypeOK, Owned
  <2>4. BodyKept(r)'
    BY <1>0, <1>3 DEF Failed, Answered, Cleanup, TypeOK, Owned, BodyKept
  <2> QED
    BY <2>1, <2>2, <2>3, <2>4, OthersKept
<1>4. CASE OnSingleQueryResult(r)
  <2>1. TypeOK'
    BY <1>0, <1>4 DEF OnSingleQueryResult, Answered, Cleanup, TypeOK, Owned
  <2>2. Others
    BY <1>0, <1>4 DEF OnSingleQueryResult, Answered, Cleanup, TypeOK
  <2>3. Owned(r)'
    BY <1>0, <1>4 DEF OnSingleQueryResult, Answered, Cleanup, TypeOK, Owned
  <2>4. BodyKept(r)'
    BY <1>0, <1>4 DEF OnSingleQueryResult, Answered, Cleanup, TypeOK, Owned, BodyKept
  <2> QED
    BY <2>1, <2>2, <2>3, <2>4, OthersKept
<1>5. CASE OnFortuneResult(r)
  <2>1. TypeOK'
    BY <1>0, <1>5 DEF OnFortuneResult, Answered, Cleanup, TypeOK, Owned
  <2>2. Others
    BY <1>0, <1>5 DEF OnFortuneResult, Answered, Cleanup, TypeOK
  <2>3. Owned(r)'
    BY <1>0, <1>5 DEF OnFortuneResult, Answered, Cleanup, TypeOK, Owned
  <2>4. BodyKept(r)'
    BY <1>0, <1>5 DEF OnFortuneResult, Answered, Cleanup, TypeOK, Owned, BodyKept
  <2> QED
    BY <2>1, <2>2, <2>3, <2>4, OthersKept
<1>6. CASE CleanupRequest(r)
  <2>1. TypeOK'
    BY <1>0, <1>6 DEF CleanupRequest, Cleanup, TypeOK, Owned
  <2>2. Others
    BY <1>0, <1>6 DEF CleanupRequest, Cleanup, TypeOK
  <2>3. Owned(r)'
    BY <1>0, <1>6 DEF CleanupRequest, Cleanup, TypeOK, Owned
  <2>4. BodyKept(r)'
    BY <1>0, <1>6 DEF CleanupRequest, Cleanup, TypeOK, Owned, BodyKept
  <2> QED
    BY <2>1, <2>2, <2>3, <2>4, OthersKept
<1> QED
  BY <1>1, <1>2, <1>3, <1>4, <1>5, <1>6
  DEF Callback, OnSingleQueryError, OnSingleQueryTimeout, OnFortuneError,
      OnFortuneTimeout

\* The invariant is kept by every step.
LEMMA NextIInv == IInv /\ [Next]_vars => IInv'
<1> SUFFICES ASSUME IInv, [Next]_vars PROVE IInv'
  OBVIOUS
<1>1. CASE Next
  BY <1>1, StepIInv DEF Next
<1>2. CASE UNCHANGED vars
  BY <1>2 DEF vars, IInv, TypeOK, Owned, BodyKept
<1> QED
  BY <1>1, <1>2

\* The inductive invariant holds in every reachable state.
THEOREM Invariance == Spec => []IInv
BY InitIInv, NextIInv, PTL DEF Spec

\* No request is answered twice or after it is gone.
THEOREM TypeCorrect == Spec => []TypeOK
<1>1. IInv => TypeOK
  BY DEF IInv
<1> QED
  BY <1>1, Invariance, PTL

\* The page of /fortunes stays in its buffer as long as h2o sends it.
THEOREM BodyStaysAlive == Spec => []BodyAlive
<1>1. IInv => BodyAlive
  BY DEF IInv, TypeOK, Owned, BodyKept, BodyAlive
<1> QED
  BY <1>1, Invariance, PTL

\* A handler's first step is a Handle step of the lifecycle.
LEMMA HandleRefines ==
    ASSUME IInv, NEW r \in Requests, NEW accepted \in BOOLEAN, NEW f \in BOOLEAN,
           NewContext(r, accepted, f)
    PROVE  Lifecycle!Handle(r)
<1>1. /\ req' = [req EXCEPT ![r] = IF accepted THEN "open" ELSE "sent"]
      /\ ctx' = [ctx EXCEPT ![r] = "live"]
      /\ flying' = [flying EXCEPT ![r] = accepted]
      /\ req[r] = "none"
  BY DEF NewContext
<1>2. Outstanding' = [Outstanding EXCEPT ![r] = IF accepted THEN 1 ELSE 0]
  BY <1>1 DEF Outstanding, IInv, TypeOK
<1>3. Lifecycle!Become(r, IF accepted THEN "open" ELSE "sent", IF accepted THEN 1 ELSE 0)
  BY <1>1, <1>2 DEF Lifecycle!Become
<1> QED
  BY <1>1, <1>3 DEF Lifecycle!Handle

\* The last step of a query is a Callback step of the lifecycle: it answers
\* a request that waits, and frees the context of one that is gone.
LEMMA CallbackRefines ==
    ASSUME IInv, NEW r \in Requests, flying[r],
           flying' = [flying EXCEPT ![r] = FALSE],
           \/ cleanup[r] /\ Cleanup(r) /\ UNCHANGED req
           \/ ~cleanup[r] /\ req' = Answered(r) /\ UNCHANGED ctx
    PROVE  Lifecycle!Callback(r)
<1>1. Outstanding' = [Outstanding EXCEPT ![r] = 0] /\ Outstanding[r] = 1
  BY DEF Outstanding, IInv, TypeOK
<1>2. CASE cleanup[r] /\ Cleanup(r) /\ UNCHANGED req
  <2>1. req[r] = "gone" /\ req' = [req EXCEPT ![r] = "gone"]
    BY <1>2 DEF IInv, TypeOK, Owned
  <2>2. Lifecycle!Become(r, "gone", 0)
    BY <1>1, <1>2, <2>1 DEF Lifecycle!Become, Cleanup
  <2> QED
    BY <1>1, <2>1, <2>2 DEF Lifecycle!Callback
<1>3. CASE ~cleanup[r] /\ req' = Answered(r) /\ UNCHANGED ctx
  <2>1. req[r] = "open" /\ ctx[r] = "live"
    BY <1>3 DEF IInv, TypeOK, Owned
  <2>2. req' = [req EXCEPT ![r] = "sent"] /\ ctx' = [ctx EXCEPT ![r] = "live"]
    BY <1>3, <2>1 DEF Answered, IInv, TypeOK
  <2>3. Lifecycle!Become(r, "sent", 0)
    BY <1>1, <2>2 DEF Lifecycle!Become
  <2> QED
    BY <1>1, <2>1, <2>3 DEF Lifecycle!Callback
<1> QED
  BY <1>2, <1>3

\* Disposing of the request is a Dispose step of the lifecycle: the flag says
\* whether the query has ended.
LEMMA CleanupRefines ==
    ASSUME IInv, NEW r \in Requests, CleanupRequest(r)
    PROVE  Lifecycle!Dispose(r)
<1>1. /\ req[r] \in {"open", "sent"} /\ req' = [req EXCEPT ![r] = "gone"]
      /\ flying' = flying
  BY DEF CleanupRequest
<1>2. Outstanding' = [Outstanding EXCEPT ![r] = Outstanding[r]]
  BY <1>1 DEF Outstanding
<1>3. ctx' = [ctx EXCEPT ![r] = IF Outstanding[r] = 0 THEN "freed" ELSE "live"]
  <2>1. CASE cleanup[r]
    BY <1>1, <2>1 DEF CleanupRequest, Cleanup, Outstanding, IInv, TypeOK, Owned
  <2>2. CASE ~cleanup[r]
    BY <1>1, <2>2 DEF CleanupRequest, Outstanding, IInv, TypeOK, Owned
  <2> QED
    BY <2>1, <2>2
<1>4. Lifecycle!Become(r, "gone", Outstanding[r])
  BY <1>1, <1>2, <1>3 DEF Lifecycle!Become
<1> QED
  BY <1>1, <1>4 DEF Lifecycle!Dispose

\* Every step of the handlers is a step of the lifecycle or leaves it alone.
LEMMA NextRefines == IInv /\ [Next]_vars => [Lifecycle!Next]_(Lifecycle!vars)
<1> SUFFICES ASSUME IInv, [Next]_vars PROVE [Lifecycle!Next]_(Lifecycle!vars)
  OBVIOUS
<1>1. ASSUME NEW r \in Requests, HandleSingleQuery(r) \/ HandleFortunes(r)
      PROVE  Lifecycle!Handle(r)
  BY <1>1, HandleRefines DEF HandleSingleQuery, HandleFortunes
<1>2. ASSUME NEW r \in Requests, Callback(r) PROVE Lifecycle!Callback(r)
  <2>1. /\ flying[r] /\ flying' = [flying EXCEPT ![r] = FALSE]
        /\ \/ cleanup[r] /\ Cleanup(r) /\ UNCHANGED req
           \/ ~cleanup[r] /\ req' = Answered(r) /\ UNCHANGED ctx
    BY <1>2 DEF Callback, OnSingleQueryError, OnSingleQueryTimeout,
                OnFortuneError, OnFortuneTimeout, Failed, OnSingleQueryResult,
                OnFortuneResult
  <2> QED
    BY <2>1, CallbackRefines
<1>3. ASSUME NEW r \in Requests, CleanupRequest(r) PROVE Lifecycle!Dispose(r)
  BY <1>3, CleanupRefines
<1>4. CASE Next
  BY <1>1, <1>2, <1>3, <1>4 DEF Next, Lifecycle!Next
<1>5. CASE UNCHANGED vars
  BY <1>5 DEF vars, Lifecycle!vars, Outstanding
<1> QED
  BY <1>4, <1>5

\* /db and /fortunes answer every request at most once, and free its context
\* exactly when the request and its query are gone.
THEOREM SingleQueryRefines == Spec => LifecycleSpec
<1>1. Init => Lifecycle!Init
  BY DEF Init, Lifecycle!Init, Outstanding
<1> QED
  BY <1>1, NextRefines, Invariance, PTL DEF Spec, LifecycleSpec, Lifecycle!Spec

=============================================================================
