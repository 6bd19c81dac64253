---------------------------- MODULE DbPoolProofs ----------------------------
(***************************************************************************)
(* Proofs that IInv is an inductive invariant of DbPool, for every number  *)
(* of connections, every queue and pipeline length and every set of        *)
(* queries, and the theorems that follow from it.                          *)
(***************************************************************************)
EXTENDS DbPool, TLAPS, SequenceTheorems, FiniteSetTheorems

-----------------------------------------------------------------------------
(* Sequences.                                                              *)

\* Head and Tail of a nonempty list.
LEMMA HeadTailFacts ==
  ASSUME NEW S, NEW s \in Seq(S), s # <<>>
  PROVE  /\ Head(s) \in S /\ Head(s) = s[1]
         /\ Tail(s) \in Seq(S)
         /\ Len(s) \in Nat \ {0} /\ Len(Tail(s)) = Len(s) - 1
         /\ \A i \in 1..(Len(s) - 1) : Tail(s)[i] = s[i + 1]
  OBVIOUS

\* Append to a list.
LEMMA AppendFacts ==
  ASSUME NEW S, NEW s \in Seq(S), NEW e \in S
  PROVE  /\ Append(s, e) \in Seq(S)
         /\ Len(s) \in Nat /\ Len(Append(s, e)) = Len(s) + 1
         /\ Append(s, e) # <<>>
         /\ Append(s, e)[Len(s) + 1] = e
         /\ \A i \in 1..Len(s) : Append(s, e)[i] = s[i]
  OBVIOUS

\* Put an element in front of a list.
LEMMA ConsFacts ==
  ASSUME NEW S, NEW s \in Seq(S), NEW e \in S
  PROVE  /\ <<e>> \o s \in Seq(S)
         /\ Len(s) \in Nat /\ Len(<<e>> \o s) = Len(s) + 1
         /\ (<<e>> \o s)[1] = e
         /\ \A i \in 2..(Len(s) + 1) : (<<e>> \o s)[i] = s[i - 1]
<1>1. <<e>> \in Seq(S) /\ Len(<<e>>) = 1
  OBVIOUS
<1> QED
  BY <1>1, ConcatProperties

\* Unlink the element at a position of a list.
LEMMA RemoveAtFacts ==
  ASSUME NEW S, NEW s \in Seq(S), NEW i \in DOMAIN s
  PROVE  /\ RemoveAt(s, i) \in Seq(S)
         /\ Len(s) \in Nat /\ Len(RemoveAt(s, i)) = Len(s) - 1
         /\ \A j \in 1..(Len(s) - 1) :
               RemoveAt(s, i)[j] = IF j < i THEN s[j] ELSE s[j + 1]
<1> DEFINE a == SubSeq(s, 1, i - 1)
           b == SubSeq(s, i + 1, Len(s))
<1>1. a \in Seq(S) /\ Len(a) = i - 1 /\ \A j \in 1..(i - 1) : a[j] = s[j]
  OBVIOUS
<1>2. b \in Seq(S) /\ Len(b) = Len(s) - i /\ \A j \in 1..(Len(s) - i) : b[j] = s[j + i]
  OBVIOUS
<1>3. RemoveAt(s, i) = a \o b
  BY DEF RemoveAt
<1> HIDE DEF a, b
<1>4. a \o b \in Seq(S) /\ Len(a \o b) = Len(a) + Len(b)
  BY <1>1, <1>2, ConcatProperties
<1>5. \A j \in 1..(Len(s) - 1) : (a \o b)[j] = IF j < i THEN s[j] ELSE s[j + 1]
  BY <1>1, <1>2, ConcatProperties
<1> QED
  BY <1>1, <1>2, <1>3, <1>4, <1>5

\* What these operations do to the set of elements, and that they keep a list
\* free of duplicates.
LEMMA EmptyList ==
  ToSet(<<>>) = {} /\ IsInjective(<<>>)
  BY DEF ToSet, IsInjective

\* Appending a new connection to a list without duplicates.
LEMMA AppendList ==
  ASSUME NEW S, NEW s \in Seq(S), NEW e \in S
  PROVE  /\ ToSet(Append(s, e)) = ToSet(s) \union {e}
         /\ IsInjective(s) /\ e \notin ToSet(s) => IsInjective(Append(s, e))
<1> DEFINE t == Append(s, e)
<1>1. DOMAIN s = 1..Len(s) /\ DOMAIN t = 1..(Len(s) + 1)
  BY AppendFacts
<1>2. t[Len(s) + 1] = e /\ \A i \in 1..Len(s) : t[i] = s[i]
  BY AppendFacts
<1>3. Len(s) \in Nat
  OBVIOUS
<1> HIDE DEF t
<1>4. ToSet(t) \subseteq ToSet(s) \union {e}
  BY <1>1, <1>2, <1>3 DEF ToSet
<1>5. ToSet(s) \union {e} \subseteq ToSet(t)
  BY <1>1, <1>2, <1>3 DEF ToSet
<1>6. IsInjective(s) /\ e \notin ToSet(s) => IsInjective(t)
  BY <1>1, <1>2, <1>3 DEF ToSet, IsInjective
<1> QED
  BY <1>4, <1>5, <1>6 DEF t

\* Taking the head off a list without duplicates.
LEMMA TailList ==
  ASSUME NEW S, NEW s \in Seq(S), s # <<>>
  PROVE  /\ ToSet(s) = ToSet(Tail(s)) \union {Head(s)}
         /\ IsInjective(s) => IsInjective(Tail(s)) /\ Head(s) \notin ToSet(Tail(s))
<1> DEFINE t == Tail(s)
<1>1. DOMAIN s = 1..Len(s) /\ DOMAIN t = 1..(Len(s) - 1) /\ Len(s) \in Nat \ {0}
  BY HeadTailFacts
<1>2. Head(s) = s[1] /\ \A i \in 1..(Len(s) - 1) : t[i] = s[i + 1]
  BY HeadTailFacts
<1> HIDE DEF t
<1>3. ToSet(t) \union {Head(s)} \subseteq ToSet(s)
  BY <1>1, <1>2 DEF ToSet
<1>4. ASSUME NEW i \in DOMAIN s PROVE s[i] \in ToSet(t) \union {Head(s)}
  <2>1. CASE i = 1
    BY <2>1, <1>2
  <2>2. CASE i # 1
    <3>1. i - 1 \in 1..(Len(s) - 1) /\ (i - 1) + 1 = i
      BY <2>2, <1>1
    <3>2. t[i - 1] = s[i]
      BY <3>1, <1>2
    <3> QED
      BY <3>1, <3>2, <1>1 DEF ToSet
  <2> QED
    BY <2>1, <2>2
<1>5. ASSUME IsInjective(s) PROVE Head(s) \notin ToSet(t)
  <2>1. \A i \in DOMAIN t : i + 1 \in DOMAIN s /\ i + 1 # 1 /\ 1 \in DOMAIN s
    BY <1>1
  <2> QED
    BY <2>1, <1>1, <1>2, <1>5 DEF ToSet, IsInjective
<1>6. ASSUME IsInjective(s), NEW i \in DOMAIN t, NEW j \in DOMAIN t, t[i] = t[j]
      PROVE  i = j
  <2>1. i + 1 \in DOMAIN s /\ j + 1 \in DOMAIN s
    BY <1>1
  <2>2. s[i + 1] = s[j + 1]
    BY <1>1, <1>2, <1>6
  <2>3. i + 1 = j + 1
    BY <2>1, <2>2, <1>6 DEF IsInjective
  <2> QED
    BY <2>3, <1>1
<1> QED
  BY <1>3, <1>4, <1>5, <1>6 DEF t, ToSet, IsInjective

\* Putting a connection in front of a list, as iter of on_process_queries.
LEMMA ConsList ==
  ASSUME NEW S, NEW s \in Seq(S), NEW e \in S
  PROVE  /\ ToSet(<<e>> \o s) = ToSet(s) \union {e}
         /\ IsInjective(s) /\ e \notin ToSet(s) => IsInjective(<<e>> \o s)
<1> DEFINE t == <<e>> \o s
<1>1. DOMAIN s = 1..Len(s) /\ DOMAIN t = 1..(Len(s) + 1) /\ Len(s) \in Nat
  BY ConsFacts
<1>2. t[1] = e /\ \A i \in 2..(Len(s) + 1) : t[i] = s[i - 1]
  BY ConsFacts
<1> HIDE DEF t
<1>3. ToSet(t) \subseteq ToSet(s) \union {e}
  BY <1>1, <1>2 DEF ToSet
<1>4. ASSUME NEW i \in DOMAIN s PROVE s[i] \in ToSet(t)
  <2>1. i + 1 \in 2..(Len(s) + 1) /\ (i + 1) - 1 = i
    BY <1>1
  <2>2. t[i + 1] = s[i]
    BY <2>1, <1>2
  <2> QED
    BY <2>1, <2>2, <1>1 DEF ToSet
<1>5. e \in ToSet(t)
  BY <1>1, <1>2 DEF ToSet
<1>6. IsInjective(s) /\ e \notin ToSet(s) => IsInjective(t)
  BY <1>1, <1>2 DEF ToSet, IsInjective
<1> QED
  BY <1>3, <1>4, <1>5, <1>6 DEF t, ToSet

\* Unlinking the connection at one place, as remove_connection does.
LEMMA RemoveList ==
  ASSUME NEW S, NEW s \in Seq(S), NEW i \in DOMAIN s, IsInjective(s)
  PROVE  /\ ToSet(RemoveAt(s, i)) = ToSet(s) \ {s[i]}
         /\ IsInjective(RemoveAt(s, i))
<1> DEFINE r == RemoveAt(s, i)
           at(m) == IF m < i THEN m ELSE m + 1
<1>1. DOMAIN s = 1..Len(s) /\ DOMAIN r = 1..(Len(s) - 1)
  BY RemoveAtFacts
<1>2. \A j \in DOMAIN r : at(j) \in DOMAIN s /\ at(j) # i /\ r[j] = s[at(j)]
  BY <1>1, RemoveAtFacts
<1>3. \A j \in DOMAIN s \ {i} : \E k \in DOMAIN r : at(k) = j
  <2> SUFFICES ASSUME NEW j \in DOMAIN s \ {i} PROVE \E k \in DOMAIN r : at(k) = j
    OBVIOUS
  <2>1. CASE j < i
    BY <2>1, <1>1
  <2>2. CASE j > i
    <3>1. j - 1 \in DOMAIN r /\ at(j - 1) = j
      BY <2>2, <1>1
    <3> QED
      BY <3>1
  <2> QED
    BY <2>1, <2>2, <1>1
<1>4. \A j, k \in DOMAIN r : at(j) = at(k) => j = k
  BY <1>1
<1> HIDE DEF r, at
<1>5. ToSet(r) \subseteq ToSet(s) \ {s[i]}
  BY <1>2 DEF ToSet, IsInjective
<1>6. ToSet(s) \ {s[i]} \subseteq ToSet(r)
  <2> SUFFICES ASSUME NEW j \in DOMAIN s, s[j] # s[i] PROVE s[j] \in ToSet(r)
    BY DEF ToSet
  <2>1. PICK k \in DOMAIN r : at(k) = j
    BY <1>3
  <2> QED
    BY <2>1, <1>2 DEF ToSet
<1>7. IsInjective(r)
  BY <1>2, <1>4 DEF IsInjective
<1> QED
  BY <1>5, <1>6, <1>7 DEF r

-----------------------------------------------------------------------------
(* The set of live connections.                                            *)

\* The established or connecting connections are finitely many.
LEMMA LiveFinite ==
  ASSUME ConnTypeOK
  PROVE  IsFiniteSet(Live) /\ Cardinality(Live) \in Nat
  BY PoolAssumption, FS_Subset, FS_CardinalityType DEF Live

\* A connection is started.
LEMMA LiveGrows ==
  ASSUME ConnTypeOK, NEW c \in Slots, phase[c] = "free",
         NEW ph \in {"connecting", "preparing", "ready"},
         phase' = [phase EXCEPT ![c] = ph]
  PROVE  Cardinality(Live') = Cardinality(Live) + 1
<1>1. Live' = Live \union {c} /\ c \notin Live
  BY DEF Live, ConnTypeOK
<1> QED
  BY <1>1, LiveFinite, FS_AddElement

\* A connection is freed; until then, one more could not be counted as free.
LEMMA LiveShrinks ==
  ASSUME ConnTypeOK, NEW c \in Slots, phase[c] # "free",
         phase' = [phase EXCEPT ![c] = "free"]
  PROVE  Cardinality(Live') = Cardinality(Live) - 1 /\ Cardinality(Live) > 0
<1>1. Live' = Live \ {c} /\ c \in Live
  BY DEF Live, ConnTypeOK
<1>2. Cardinality(Live') = Cardinality(Live) - 1
  BY <1>1, LiveFinite, FS_RemoveElement
<1>3. Cardinality(Live) # 0
  BY <1>1, LiveFinite, FS_EmptySet
<1> QED
  BY <1>2, <1>3, LiveFinite

\* A connection gets on with its life.
LEMMA LiveStays ==
  ASSUME ConnTypeOK, NEW c \in Slots,
         NEW ph \in {"free", "connecting", "preparing", "ready"},
         phase[c] = "free" <=> ph = "free",
         phase' = [phase EXCEPT ![c] = ph]
  PROVE  Live' = Live
  BY DEF Live, ConnTypeOK

-----------------------------------------------------------------------------
-----------------------------------------------------------------------------
(* Steps that change one connection.                                       *)

\* The step leaves every connection but c as it is.
OnlyTouches(c) ==
    \A d \in Slots \ {c} :
        /\ phase'[d] = phase[d] /\ conn_queries'[d] = conn_queries[d]
        /\ conn_query_num'[d] = conn_query_num[d] /\ flags'[d] = flags[d]
        /\ timer'[d] = timer[d] /\ server'[d] = server[d]
        /\ stage'[d] = stage[d] /\ unsent'[d] = unsent[d]

\* For the invariants that are about each connection by itself, it is enough
\* to look at the one connection c that the step touches.
LEMMA OneConn ==
  ASSUME ReplyOrder, BlankUnlessReady, TimerState, QueueAccounting,
         NEW c \in Slots,
         OnlyTouches(c),
         \A d \in Slots \ {c} :
            (Failing(d) => Failing(d)') /\ (Reading(d) => Reading(d)'),
         pool_query_num' + Len(pool_queries') = MaxQuery,
         ~Failing(c)' => conn_query_num'[c] + Len(conn_queries'[c]) = MaxPipeline,
         phase'[c] = "ready" /\ ~Failing(c)' => Aligned(c)',
         phase'[c] # "ready" => Blank(c)',
         TimerOf(c)'
  PROVE  (ReplyOrder /\ BlankUnlessReady /\ TimerState /\ QueueAccounting)'
<1> USE DEF OnlyTouches
<1>1. ReplyOrder'
  <2> SUFFICES ASSUME NEW d \in Slots, d # c, phase'[d] = "ready", ~Failing(d)'
               PROVE  Aligned(d)'
    BY DEF ReplyOrder
  <2>1. Aligned(d)
    BY DEF ReplyOrder
  <2> QED
    BY <2>1 DEF Aligned
<1>2. BlankUnlessReady'
  <2> SUFFICES ASSUME NEW d \in Slots, d # c, phase'[d] # "ready" PROVE Blank(d)'
    BY DEF BlankUnlessReady
  <2>1. Blank(d)
    BY DEF BlankUnlessReady
  <2> QED
    BY <2>1 DEF Blank
<1>3. TimerState'
  <2> SUFFICES ASSUME NEW d \in Slots, d # c PROVE TimerOf(d)'
    BY DEF TimerState
  <2>1. TimerOf(d)
    BY DEF TimerState
  <2> QED
    BY <2>1 DEF TimerOf
<1>4. QueueAccounting'
  BY DEF QueueAccounting
<1> QED
  BY <1>1, <1>2, <1>3, <1>4

\* What flush_connection does, but for asking for the notification.
LEMMA FlushedFacts ==
  ASSUME WireTypeOK, NEW c \in Slots, Flushed(c)
  PROVE  /\ unsent' \in [Slots -> Nat] /\ writing' \in SUBSET Slots
         /\ \A d \in Slots \ {c} : unsent'[d] = unsent[d]
         /\ unsent'[c] <= unsent[c]
<1>1. unsent \in [Slots -> Nat] /\ writing \in SUBSET Slots
  BY DEF WireTypeOK
<1>2. CASE unsent' = [unsent EXCEPT ![c] = 0] /\ UNCHANGED writing
  BY <1>1, <1>2
<1>3. ASSUME NEW left \in 1..unsent[c], unsent' = [unsent EXCEPT ![c] = left],
             writing' = writing \union {c}
      PROVE  /\ unsent' \in [Slots -> Nat] /\ writing' \in SUBSET Slots
             /\ \A d \in Slots \ {c} : unsent'[d] = unsent[d]
             /\ unsent'[c] <= unsent[c]
  <2>1. left \in Nat /\ left <= unsent[c]
    BY <1>1
  <2> QED
    BY <1>1, <1>3, <2>1
<1> QED
  BY <1>2, <1>3 DEF Flushed

\* A connection that is started, reset or freed is blank.
LEMMA ResetFacts ==
  ASSUME ConnTypeOK, WireTypeOK, NEW c \in Slots,
         NEW ph \in {"free", "connecting"}, NEW tm \in {"none", "connect"},
         ResetConn(c, ph, tm)
  PROVE  /\ ConnTypeOK' /\ WireTypeOK'
         /\ Blank(c)' /\ phase'[c] = ph /\ timer'[c] = tm
         /\ phase' = [phase EXCEPT ![c] = ph]
         /\ OnlyTouches(c)
<1> USE PoolAssumption
<1>1. <<>> \in Seq(Params) /\ MaxPipeline \in 0..MaxPipeline
  BY EmptySeq
<1>2. ConnTypeOK'
  BY <1>1 DEF ConnTypeOK, ResetConn
<1>3. WireTypeOK'
  BY <1>1 DEF WireTypeOK, ResetConn
<1>4. Blank(c)' /\ phase'[c] = ph /\ timer'[c] = tm
  BY DEF Blank, ResetConn, ConnTypeOK, WireTypeOK
<1>5. OnlyTouches(c)
  BY DEF OnlyTouches, ResetConn, ConnTypeOK, WireTypeOK
<1> QED
  BY <1>2, <1>3, <1>4, <1>5 DEF ResetConn

\* A query that is accepted preserves the invariant.
LEMMA ExecuteQueryStep ==
  ASSUME IInv, NEW p \in Params, ExecuteQuery(p)
  PROVE  IInv'
<1> USE PoolAssumption DEF IInv, TypeOK
<1>0. UNCHANGED <<pool_conn, pool_tail, conn_num, phase, conn_queries,
   conn_query_num, flags, timer, server, stage, unsent, writing, pc, cur, ret,
   query_num, iter>>
  BY DEF ExecuteQuery, ProcessQueries, poolVars, connVars, wireVars, loopVars
<1>1. (ConnTypeOK /\ WireTypeOK /\ LoopTypeOK)'
  BY <1>0 DEF ConnTypeOK, WireTypeOK, LoopTypeOK
<1>2. PoolTypeOK'
  BY <1>0, AppendFacts DEF ExecuteQuery, ProcessQueries, PoolTypeOK
<1>3. (pending \in SUBSET Params)'
  BY <1>0 DEF ExecuteQuery, ProcessQueries, PoolTypeOK, ConnTypeOK, WireTypeOK,
     LoopTypeOK
<1>4. (ReplyOrder /\ BlankUnlessReady /\ TimerState)'
  BY <1>0 DEF ReplyOrder, Aligned, Failing, BlankUnlessReady, Blank,
     TimerState, TimerOf, Reading
<1>5. (ConnAccounting /\ ListUsable /\ LoopState)'
  BY <1>0 DEF ConnAccounting, Live, ListUsable, LoopState
<1>6. IterState'
  BY <1>0 DEF IterState, At
<1>7. QueueAccounting'
  <2>1. Len(pool_queries') = Len(pool_queries) + 1 /\ Len(pool_queries) \in Nat
    BY AppendFacts DEF ExecuteQuery, PoolTypeOK
  <2>2. pool_query_num' = pool_query_num - 1
    BY DEF ExecuteQuery
  <2>3. pool_query_num' + Len(pool_queries') = MaxQuery
    BY <2>1, <2>2 DEF QueueAccounting, PoolTypeOK
  <2> QED
    BY <1>0, <2>3 DEF QueueAccounting, Failing
<1> QED
  BY <1>1, <1>2, <1>3, <1>4, <1>5, <1>6, <1>7

\* error_notification leaves the counters and the queue in order.
LEMMA NotificationFacts ==
  ASSUME PoolTypeOK, QueueAccounting, pending \in SUBSET Params,
         NEW n \in 0..(MaxConn - 1), NEW answered, ErrorNotification(n, answered)
  PROVE  /\ conn_num' = n + 1 /\ conn_num' \in 0..MaxConn
         /\ pool_queries' \in Seq(Params) /\ pool_query_num' \in 0..MaxQuery
         /\ pool_query_num' + Len(pool_queries') = MaxQuery
         /\ pending' \in SUBSET Params
<1> USE PoolAssumption DEF PoolTypeOK, QueueAccounting, ErrorNotification
<1>1. CASE n + 1 = MaxConn
  BY <1>1, EmptySeq
<1>2. CASE n + 1 # MaxConn
  BY <1>2
<1> QED
  BY <1>1, <1>2

\* A connection attempt that is given up preserves the invariant.
LEMMA ConnectErrorStep ==
  ASSUME IInv, NEW c \in Slots, pc = "idle", phase[c] \in {"connecting",
     "preparing"}, ConnectError(c)
  PROVE  IInv'
<1> USE PoolAssumption DEF IInv, TypeOK
<1>0. UNCHANGED <<pool_conn, pool_tail, process_queries, pc, cur, ret,
   query_num, iter>>
  BY DEF ConnectError, poolVars, connVars, wireVars, loopVars
<1>a. /\ Cardinality(Live') = Cardinality(Live) - 1
      /\ Cardinality(Live) > 0 /\ Cardinality(Live) \in Nat
  BY LiveShrinks, LiveFinite DEF ConnectError, ResetConn
<1>b. /\ ConnTypeOK' /\ WireTypeOK' /\ OnlyTouches(c)
      /\ Blank(c)' /\ phase'[c] = "free" /\ timer'[c] = "none"
  BY ResetFacts DEF ConnectError
<1>c. /\ conn_num' = conn_num + 1 /\ conn_num' \in 0..MaxConn
      /\ pool_queries' \in Seq(Params) /\ pool_query_num' \in 0..MaxQuery
      /\ pool_query_num' + Len(pool_queries') = MaxQuery
      /\ pending' \in SUBSET Params
  <2>1. conn_num \in 0..(MaxConn - 1)
    BY <1>a DEF ConnAccounting, PoolTypeOK
  <2> QED
    BY <2>1, NotificationFacts DEF ConnectError
<1>1. LoopTypeOK'
  BY <1>0 DEF LoopTypeOK
<1>2. PoolTypeOK'
  BY <1>0, <1>c DEF PoolTypeOK
<1>3. ConnTypeOK'
  BY <1>b
<1>4. WireTypeOK'
  BY <1>b
<1>5. (pending \in SUBSET Params)'
  BY <1>c
<1>6. OnlyTouches(c)
  BY <1>b
<1>7. \A d \in Slots \ {c} : (Failing(d) => Failing(d)') /\ (Reading(d) =>
   Reading(d)')
  BY DEF Failing, Reading
<1>8. pool_query_num' + Len(pool_queries') = MaxQuery
  BY <1>c
<1>9. ~Failing(c)' => conn_query_num'[c] + Len(conn_queries'[c]) = MaxPipeline
  BY <1>b, EmptySeq DEF Blank
<1>10. phase'[c] = "ready" /\ ~Failing(c)' => Aligned(c)'
  BY <1>b
<1>11. phase'[c] # "ready" => Blank(c)'
  BY <1>b
<1>12. TimerOf(c)'
  BY <1>b DEF TimerOf
<1>13. (ReplyOrder /\ BlankUnlessReady /\ TimerState /\ QueueAccounting)'
  BY <1>6, <1>7, <1>8, <1>9, <1>10, <1>11, <1>12, OneConn
<1>14. ConnAccounting'
  BY <1>a, <1>c DEF ConnAccounting, PoolTypeOK
<1>15. ListUsable'
  <2>1. \A d \in ToSet(pool_conn) : d # c /\ d \in Slots
    BY DEF ListUsable, PoolTypeOK, ToSet
  <2> QED
    BY <1>0, <1>b, <2>1 DEF ListUsable, OnlyTouches
<1>16. LoopState'
  BY <1>0 DEF LoopState
<1>17. IterState'
  BY <1>0, EmptyList DEF IterState, At
<1> QED
  BY <1>1, <1>2, <1>3, <1>4, <1>5, <1>13, <1>14, <1>15, <1>16, <1>17

\* A usable connection that is not on the list is appended, or gets lost.
LEMMA AppendConnFacts ==
  ASSUME PoolTypeOK, IsInjective(pool_conn), NEW c \in Slots,
         c \notin ToSet(pool_conn), AppendConn(c)
  PROVE  /\ pool_conn' \in Seq(Slots) /\ pool_tail' \in Slots \union {NoConn}
         /\ ToSet(pool_conn) \subseteq ToSet(pool_conn')
         /\ ToSet(pool_conn') \subseteq ToSet(pool_conn) \union {c}
         /\ IsInjective(pool_conn')
  BY AppendFacts, AppendList DEF PoolTypeOK, AppendConn

\* A connection that becomes usable preserves the invariant.
LEMMA ConnReadyStep ==
  ASSUME IInv, NEW c \in Slots, pc = "idle", phase[c] \in {"connecting",
     "preparing"}, ConnReady(c)
  PROVE  IInv'
<1> USE PoolAssumption DEF IInv, TypeOK
<1>0. UNCHANGED <<pool_queries, pool_query_num, conn_num, conn_queries,
   conn_query_num, flags, server, stage, unsent, writing, pc, cur, ret,
   query_num, iter, pending>>
  BY DEF ConnReady, poolVars, connVars, wireVars, loopVars
<1>a. /\ phase' = [phase EXCEPT ![c] = "ready"] /\ phase'[c] = "ready"
      /\ timer'[c] = "none"
  BY DEF ConnReady, ConnTypeOK
<1>b. Blank(c) /\ conn_query_num'[c] > 0
  BY <1>0 DEF BlankUnlessReady, Blank
<1>c. /\ pool_conn' \in Seq(Slots) /\ pool_tail' \in Slots \union {NoConn}
      /\ ToSet(pool_conn') \subseteq ToSet(pool_conn) \union {c}
      /\ IsInjective(pool_conn')
  <2>1. c \notin ToSet(pool_conn)
    BY DEF ListUsable
  <2> QED
    BY <2>1, AppendConnFacts DEF ConnReady, ListUsable
<1>1. (WireTypeOK /\ LoopTypeOK /\ (pending \in SUBSET Params))'
  BY <1>0 DEF WireTypeOK, LoopTypeOK
<1>2. PoolTypeOK'
  BY <1>0, <1>c DEF ConnReady, ProcessQueries, PoolTypeOK
<1>3. ConnTypeOK'
  BY <1>0 DEF ConnReady, ConnTypeOK, PoolTypeOK, WireTypeOK, LoopTypeOK
<1>4. OnlyTouches(c)
  BY <1>0 DEF ConnReady, OnlyTouches, PoolTypeOK, ConnTypeOK, WireTypeOK,
     LoopTypeOK
<1>5. \A d \in Slots \ {c} : (Failing(d) => Failing(d)') /\ (Reading(d) =>
   Reading(d)')
  BY <1>0 DEF ConnReady, Failing, Reading
<1>6. pool_query_num' + Len(pool_queries') = MaxQuery
  BY <1>0 DEF ConnReady, QueueAccounting, PoolTypeOK
<1>7. ~Failing(c)' => conn_query_num'[c] + Len(conn_queries'[c]) = MaxPipeline
  BY <1>0 DEF QueueAccounting, Failing
<1>8. phase'[c] = "ready" /\ ~Failing(c)' => Aligned(c)'
  BY <1>0, <1>b, EmptySeq DEF Aligned, Blank
<1>9. phase'[c] # "ready" => Blank(c)'
  BY <1>0 DEF ConnReady, BlankUnlessReady, Blank, ConnTypeOK, WireTypeOK
<1>10. TimerOf(c)'
  BY <1>0, <1>a, <1>b DEF TimerOf, Blank, Reading
<1>11. (ReplyOrder /\ BlankUnlessReady /\ TimerState /\ QueueAccounting)'
  BY <1>4, <1>5, <1>6, <1>7, <1>8, <1>9, <1>10, OneConn
<1>12. ConnAccounting'
  BY <1>0, LiveStays DEF ConnReady, ConnAccounting
<1>13. ListUsable'
  <2>1. \A d \in ToSet(pool_conn) : d \in Slots
    BY DEF PoolTypeOK, ToSet
  <2> QED
    BY <1>0, <1>a, <1>b, <1>c, <2>1 DEF ListUsable, ConnTypeOK
<1>14. LoopState'
  BY <1>0 DEF ConnReady, LoopState, PoolTypeOK, ConnTypeOK, WireTypeOK,
     LoopTypeOK
<1>15. IterState'
  BY <1>0, EmptyList DEF IterState, At
<1> QED
  BY <1>1, <1>2, <1>3, <1>11, <1>12, <1>13, <1>14, <1>15

\* Statements that have to be prepared first.
LEMMA PreparingStep ==
  ASSUME IInv, NEW c \in Slots, PollOK(c), Prepared
  PROVE  IInv'
<1> USE PoolAssumption DEF IInv, TypeOK
<1>0. UNCHANGED <<pool_conn, pool_tail, pool_queries, pool_query_num, conn_num,
   process_queries, conn_queries, conn_query_num, flags, server, stage, unsent,
   writing, pc, cur, ret, query_num, iter, pending>>
  BY DEF PollOK, ConnReady, poolVars, connVars, wireVars, loopVars
<1>1. (PoolTypeOK /\ WireTypeOK /\ LoopTypeOK /\ (pending \in SUBSET Params))'
  BY <1>0 DEF PoolTypeOK, WireTypeOK, LoopTypeOK
<1>2. ConnTypeOK'
  BY <1>0 DEF PollOK, ConnReady, ConnTypeOK, PoolTypeOK, WireTypeOK, LoopTypeOK
<1>3. OnlyTouches(c)
  BY <1>0 DEF PollOK, ConnReady, OnlyTouches, PoolTypeOK, ConnTypeOK,
     WireTypeOK, LoopTypeOK
<1>4. \A d \in Slots \ {c} : (Failing(d) => Failing(d)') /\ (Reading(d) =>
   Reading(d)')
  BY <1>0 DEF PollOK, ConnReady, Failing, Reading
<1>5. pool_query_num' + Len(pool_queries') = MaxQuery
  BY <1>0 DEF PollOK, ConnReady, QueueAccounting, PoolTypeOK
<1>6. ~Failing(c)' => conn_query_num'[c] + Len(conn_queries'[c]) = MaxPipeline
  BY <1>0 DEF PollOK, ConnReady, QueueAccounting, Failing, ConnTypeOK
<1>7. phase'[c] = "ready" /\ ~Failing(c)' => Aligned(c)'
  BY <1>0 DEF PollOK, ConnReady, ReplyOrder, Aligned, Failing, ConnTypeOK,
     WireTypeOK
<1>8. phase'[c] # "ready" => Blank(c)'
  BY <1>0 DEF PollOK, ConnReady, BlankUnlessReady, Blank, ConnTypeOK,
     WireTypeOK
<1>9. TimerOf(c)'
  BY <1>0 DEF PollOK, ConnReady, TimerState, TimerOf, Failing, Reading,
     ConnTypeOK, WireTypeOK
<1>10. (ReplyOrder /\ BlankUnlessReady /\ TimerState /\ QueueAccounting)'
  BY <1>3, <1>4, <1>5, <1>6, <1>7, <1>8, <1>9, OneConn
<1>11. ConnAccounting'
  BY <1>0, LiveStays DEF PollOK, ConnAccounting
<1>12. ListUsable'
  <2>1. \A d \in ToSet(pool_conn) : d \in Slots /\ d # c
    BY DEF PollOK, ListUsable, PoolTypeOK, ToSet
  <2> QED
    BY <1>0, <2>1 DEF PollOK, ListUsable, ConnTypeOK
<1>13. LoopState'
  BY <1>0 DEF PollOK, ConnReady, LoopState, PoolTypeOK, ConnTypeOK, WireTypeOK,
     LoopTypeOK
<1>14. IterState'
  BY <1>0 DEF PollOK, ConnReady, IterState, At, PoolTypeOK, ConnTypeOK,
     WireTypeOK, LoopTypeOK
<1> QED
  BY <1>1, <1>2, <1>10, <1>11, <1>12, <1>13, <1>14

\* remove_connection unlinks c, and nothing else.
LEMMA RemoveConnFacts ==
  ASSUME PoolTypeOK, IsInjective(pool_conn), NEW c \in Slots, RemoveConn(c)
  PROVE  /\ pool_conn' \in Seq(Slots) /\ pool_tail' \in Slots \union {NoConn}
         /\ ToSet(pool_conn') = ToSet(pool_conn) \ {c}
         /\ IsInjective(pool_conn')
<1>1. CASE c \notin ToSet(pool_conn)
  BY <1>1 DEF RemoveConn, PoolTypeOK
<1>2. CASE c \in ToSet(pool_conn)
  <2>1. PICK i \in DOMAIN pool_conn :
           /\ pool_conn[i] = c
           /\ pool_conn' = RemoveAt(pool_conn, i)
           /\ pool_tail' \in {NoConn, c, pool_tail}
    BY <1>2 DEF RemoveConn
  <2> QED
    BY <2>1, RemoveAtFacts, RemoveList DEF PoolTypeOK
<1> QED
  BY <1>1, <1>2

\* A connection that is started, or cannot be started.
LEMMA StartConnectStep ==
  ASSUME IInv, NEW c \in Slots, StartConnect(c)
  PROVE  IInv'
<1> USE PoolAssumption DEF IInv, TypeOK
<1>0. UNCHANGED <<pool_conn, pool_tail, process_queries, pc, cur, ret, iter>>
  BY DEF StartConnect, poolVars, connVars, wireVars, loopVars
<1>x. /\ pc = "grow" /\ phase[c] = "free" /\ conn_num > 0
      /\ query_num > 0 /\ query_num' = query_num - 1
  BY DEF StartConnect
<1>a. /\ ConnTypeOK' /\ WireTypeOK' /\ OnlyTouches(c) /\ Blank(c)'
      /\ \/ phase'[c] = "free" /\ timer'[c] = "none"
         \/ phase'[c] = "connecting" /\ timer'[c] = "connect"
  BY ResetFacts DEF StartConnect
<1>b. /\ conn_num' \in 0..MaxConn /\ conn_num' + Cardinality(Live') = MaxConn
      /\ pool_queries' \in Seq(Params) /\ pool_query_num' \in 0..MaxQuery
      /\ pool_query_num' + Len(pool_queries') = MaxQuery
      /\ pending' \in SUBSET Params
  <2>1. CASE /\ ResetConn(c, "connecting", "connect") /\ conn_num' = conn_num - 1
             /\ UNCHANGED <<pool_queries, pool_query_num, pending>>
    <3>1. Cardinality(Live') = Cardinality(Live) + 1 /\ Cardinality(Live) \in Nat
      BY <1>x, <2>1, LiveGrows, LiveFinite DEF ResetConn
    <3>2. conn_num \in 1..MaxConn /\ conn_num + Cardinality(Live) = MaxConn
      BY <1>x DEF ConnAccounting, PoolTypeOK
    <3>3. conn_num' \in 0..MaxConn
      BY <2>1, <3>2
    <3>4. conn_num' + Cardinality(Live') = MaxConn
      BY <2>1, <3>1, <3>2
    <3> QED
      BY <2>1, <3>3, <3>4 DEF QueueAccounting, PoolTypeOK
  <2>2. CASE ResetConn(c, "free", "none") /\ ErrorNotification(conn_num - 1, {})
    <3>1. Live' = Live
      BY <1>x, <2>2, LiveStays DEF ResetConn
    <3>2. conn_num - 1 \in 0..(MaxConn - 1) /\ (conn_num - 1) + 1 = conn_num
      BY <1>x DEF PoolTypeOK
    <3>3. /\ conn_num' = conn_num /\ conn_num' \in 0..MaxConn
          /\ pool_queries' \in Seq(Params) /\ pool_query_num' \in 0..MaxQuery
          /\ pool_query_num' + Len(pool_queries') = MaxQuery
          /\ pending' \in SUBSET Params
      BY <2>2, <3>2, NotificationFacts
    <3> QED
      BY <3>1, <3>3 DEF ConnAccounting
  <2> QED
    BY <2>1, <2>2 DEF StartConnect
<1>1. PoolTypeOK'
  BY <1>0, <1>b DEF PoolTypeOK
<1>2. ConnTypeOK'
  BY <1>a
<1>3. WireTypeOK'
  BY <1>a
<1>4. LoopTypeOK'
  BY <1>0, <1>x DEF LoopTypeOK
<1>5. (pending \in SUBSET Params)'
  BY <1>b
<1>6. OnlyTouches(c)
  BY <1>a
<1>7. \A d \in Slots \ {c} : (Failing(d) => Failing(d)') /\ (Reading(d) =>
   Reading(d)')
  BY <1>0 DEF Failing, Reading
<1>8. pool_query_num' + Len(pool_queries') = MaxQuery
  BY <1>b
<1>9. ~Failing(c)' => conn_query_num'[c] + Len(conn_queries'[c]) = MaxPipeline
  BY <1>a, EmptySeq DEF Blank
<1>10. phase'[c] = "ready" /\ ~Failing(c)' => Aligned(c)'
  BY <1>a
<1>11. phase'[c] # "ready" => Blank(c)'
  BY <1>a
<1>12. TimerOf(c)'
  BY <1>a DEF TimerOf
<1>13. (ReplyOrder /\ BlankUnlessReady /\ TimerState /\ QueueAccounting)'
  BY <1>6, <1>7, <1>8, <1>9, <1>10, <1>11, <1>12, OneConn
<1>14. ConnAccounting'
  BY <1>b DEF ConnAccounting
<1>15. ListUsable'
  <2>1. \A d \in ToSet(pool_conn) : d \in Slots /\ d # c
    BY <1>x DEF ListUsable, PoolTypeOK, ToSet
  <2> QED
    BY <1>0, <1>a, <2>1 DEF ListUsable, OnlyTouches
<1>16. LoopState'
  BY <1>0, <1>x DEF LoopState
<1>17. IterState'
  BY <1>0, <1>x, EmptyList DEF IterState, At
<1> QED
  BY <1>1, <1>2, <1>3, <1>4, <1>5, <1>13, <1>14, <1>15, <1>16, <1>17

\* A connection that is torn down.
LEMMA DatabaseErrorStep ==
  ASSUME IInv, NEW c \in Slots, c = cur, DatabaseError
  PROVE  IInv'
<1> USE PoolAssumption DEF IInv, TypeOK
<1>0. UNCHANGED <<process_queries, ret, query_num, iter>>
  BY DEF DatabaseError, poolVars, connVars, wireVars, loopVars
<1>x. /\ pc = "error" /\ pc' = ret /\ cur' = NoConn /\ phase[c] = "ready"
      /\ ret \in {"idle", "send", "flushfull", "flush"}
  BY DEF DatabaseError, LoopState, LoopTypeOK
<1>a. /\ ConnTypeOK' /\ WireTypeOK' /\ OnlyTouches(c) /\ Blank(c)'
      /\ \/ phase'[c] = "free" /\ timer'[c] = "none"
         \/ phase'[c] = "connecting" /\ timer'[c] = "connect"
  BY ResetFacts DEF DatabaseError
<1>b. /\ conn_num' \in 0..MaxConn /\ conn_num' + Cardinality(Live') = MaxConn
      /\ pool_queries' \in Seq(Params) /\ pool_query_num' \in 0..MaxQuery
      /\ pool_query_num' + Len(pool_queries') = MaxQuery
      /\ pending' \in SUBSET Params
  <2>1. CASE /\ ResetConn(c, "connecting", "connect")
             /\ pending' = pending \ ToSet(conn_queries[c])
             /\ UNCHANGED <<pool_queries, pool_query_num, conn_num>>
    <3>1. Live' = Live
      BY <1>x, <2>1, LiveStays DEF ResetConn
    <3> QED
      BY <2>1, <3>1 DEF ConnAccounting, QueueAccounting, PoolTypeOK
  <2>2. CASE /\ ResetConn(c, "free", "none")
             /\ ErrorNotification(conn_num, ToSet(conn_queries[c]))
    <3>1. /\ Cardinality(Live') = Cardinality(Live) - 1
          /\ Cardinality(Live) > 0 /\ Cardinality(Live) \in Nat
      BY <1>x, <2>2, LiveShrinks, LiveFinite DEF ResetConn
    <3>2. conn_num \in 0..(MaxConn - 1)
      BY <3>1 DEF ConnAccounting, PoolTypeOK
    <3>3. /\ conn_num' = conn_num + 1 /\ conn_num' \in 0..MaxConn
          /\ pool_queries' \in Seq(Params) /\ pool_query_num' \in 0..MaxQuery
          /\ pool_query_num' + Len(pool_queries') = MaxQuery
          /\ pending' \in SUBSET Params
      BY <2>2, <3>2, NotificationFacts
    <3> QED
      BY <3>1, <3>2, <3>3 DEF ConnAccounting
  <2> QED
    BY <2>1, <2>2 DEF DatabaseError
<1>c. /\ pool_conn' \in Seq(Slots) /\ pool_tail' \in Slots \union {NoConn}
      /\ ToSet(pool_conn') = ToSet(pool_conn) \ {c} /\ IsInjective(pool_conn')
  BY RemoveConnFacts DEF DatabaseError, ListUsable
<1>1. PoolTypeOK'
  BY <1>0, <1>b, <1>c DEF PoolTypeOK
<1>2. ConnTypeOK'
  BY <1>a
<1>3. WireTypeOK'
  BY <1>a
<1>4. LoopTypeOK'
  BY <1>0, <1>x DEF LoopTypeOK
<1>5. (pending \in SUBSET Params)'
  BY <1>b
<1>6. OnlyTouches(c)
  BY <1>a
<1>7. \A d \in Slots \ {c} : (Failing(d) => Failing(d)') /\ (Reading(d) =>
   Reading(d)')
  BY <1>x DEF Failing, Reading
<1>8. pool_query_num' + Len(pool_queries') = MaxQuery
  BY <1>b
<1>9. ~Failing(c)' => conn_query_num'[c] + Len(conn_queries'[c]) = MaxPipeline
  BY <1>a, EmptySeq DEF Blank
<1>10. phase'[c] = "ready" /\ ~Failing(c)' => Aligned(c)'
  BY <1>a
<1>11. phase'[c] # "ready" => Blank(c)'
  BY <1>a
<1>12. TimerOf(c)'
  BY <1>a DEF TimerOf
<1>13. (ReplyOrder /\ BlankUnlessReady /\ TimerState /\ QueueAccounting)'
  BY <1>6, <1>7, <1>8, <1>9, <1>10, <1>11, <1>12, OneConn
<1>14. ConnAccounting'
  BY <1>b DEF ConnAccounting
<1>15. ListUsable'
  <2>1. \A d \in ToSet(pool_conn) : d \in Slots
    BY DEF PoolTypeOK, ToSet
  <2> QED
    BY <1>a, <1>c, <2>1 DEF ListUsable, OnlyTouches
<1>16. LoopState'
  BY <1>x DEF LoopState
<1>17. IterState'
  <2>1. At' = ret /\ At = ret /\ iter' = iter
    BY <1>0, <1>x DEF At
  <2>2. \A d \in ToSet(iter) : d \in Slots \ {c}
    BY <1>x DEF LoopTypeOK, ToSet, LoopState
  <2> QED
    BY <1>a, <1>c, <2>1, <2>2 DEF IterState, OnlyTouches
<1> QED
  BY <1>1, <1>2, <1>3, <1>4, <1>5, <1>13, <1>14, <1>15, <1>16, <1>17

\* A socket that becomes readable.
LEMMA ReadReadyStep ==
  ASSUME IInv, NEW c \in Slots, ReadReady(c)
  PROVE  IInv'
<1> USE PoolAssumption DEF IInv, TypeOK
<1>0. UNCHANGED <<pool_conn, pool_tail, pool_queries, pool_query_num, conn_num,
   process_queries, phase, conn_queries, conn_query_num, flags, timer, server,
   stage, query_num, iter, pending>>
  BY DEF ReadReady, poolVars, connVars, wireVars, loopVars
<1>x. /\ pc = "idle" /\ phase[c] = "ready" /\ cur' = c
      /\ \/ pc' = "error" /\ ret' = "idle"
         \/ pc' = "read" /\ ret' = ret
         \/ pc' = "readfull" /\ ret' = ret /\ conn_query_num[c] = 0
  BY DEF ReadReady, Fail
<1>a. /\ unsent' \in [Slots -> Nat] /\ writing' \in SUBSET Slots
      /\ \A d \in Slots \ {c} : unsent'[d] = unsent[d]
      /\ unsent'[c] <= unsent[c]
  <2>1. CASE UNCHANGED <<unsent, writing>>
    BY <2>1 DEF WireTypeOK
  <2> QED
    BY <2>1, FlushedFacts DEF ReadReady
<1>1. (PoolTypeOK /\ ConnTypeOK /\ (pending \in SUBSET Params))'
  BY <1>0 DEF PoolTypeOK, ConnTypeOK
<1>2. WireTypeOK'
  BY <1>0, <1>a DEF WireTypeOK
<1>3. LoopTypeOK'
  BY <1>0, <1>x DEF LoopTypeOK
<1>4. OnlyTouches(c)
  BY <1>0, <1>a DEF OnlyTouches
<1>5. \A d \in Slots \ {c} : (Failing(d) => Failing(d)') /\ (Reading(d) =>
   Reading(d)')
  BY <1>x DEF Failing, Reading
<1>6. pool_query_num' + Len(pool_queries') = MaxQuery
  BY <1>0 DEF QueueAccounting
<1>7. ~Failing(c)' => conn_query_num'[c] + Len(conn_queries'[c]) = MaxPipeline
  BY <1>0, <1>x DEF QueueAccounting, Failing
<1>8. phase'[c] = "ready" /\ ~Failing(c)' => Aligned(c)'
  <2>1. Aligned(c) /\ Len(conn_queries[c]) \in Nat
    BY <1>x DEF ReplyOrder, Failing, ConnTypeOK
  <2> QED
    BY <1>0, <1>a, <2>1 DEF Aligned, WireTypeOK
<1>9. phase'[c] # "ready" => Blank(c)'
  BY <1>0, <1>x
<1>10. TimerOf(c)'
  BY <1>0, <1>x DEF TimerState, TimerOf, Failing, Reading
<1>11. (ReplyOrder /\ BlankUnlessReady /\ TimerState /\ QueueAccounting)'
  BY <1>4, <1>5, <1>6, <1>7, <1>8, <1>9, <1>10, OneConn
<1>12. (ConnAccounting /\ ListUsable)'
  BY <1>0 DEF ConnAccounting, Live, ListUsable
<1>13. LoopState'
  BY <1>0, <1>x, EmptyList DEF LoopState, IterState, ListUsable, At
<1>14. IterState'
  BY <1>0, <1>x, EmptyList DEF IterState, At
<1> QED
  BY <1>1, <1>2, <1>3, <1>11, <1>12, <1>13, <1>14

\* A read callback that has to wait for more.
LEMMA ReadBusyStep ==
  ASSUME IInv, NEW c \in Slots, ReadBusy(c)
  PROVE  IInv'
<1> USE PoolAssumption DEF IInv, TypeOK
<1>0. UNCHANGED <<pool_queries, pool_query_num, conn_num, phase, conn_queries,
   conn_query_num, flags, timer, server, stage, unsent, writing, cur, ret,
   query_num, iter, pending>>
  BY DEF ReadBusy, FinishRead, Goto, poolVars, connVars, wireVars, loopVars
<1>x. /\ pc \in {"read", "readfull"} /\ cur = c /\ phase[c] = "ready"
      /\ ~Failing(c) /\ Aligned(c)
  BY DEF ReadBusy, Reading, LoopState, Failing, ReplyOrder
<1>a. /\ pool_conn' \in Seq(Slots) /\ pool_tail' \in Slots \union {NoConn}
      /\ \A d \in ToSet(pool_conn') :
            d \in ToSet(pool_conn) \/ (d = c /\ conn_query_num[c] > 0)
      /\ IsInjective(pool_conn')
  <2>1. CASE pc = "readfull" /\ conn_query_num[c] > 0
    <3>1. c \notin ToSet(pool_conn) /\ AppendConn(c)
      BY <1>x, <2>1 DEF ReadBusy, FinishRead, LoopState
    <3> QED
      BY <2>1, <3>1, AppendConnFacts DEF ListUsable
  <2>2. CASE ~(pc = "readfull" /\ conn_query_num[c] > 0)
    BY <2>2 DEF ReadBusy, FinishRead, ListUsable, PoolTypeOK
  <2> QED
    BY <2>1, <2>2
<1>b. pc' = "idle" /\ process_queries' \in BOOLEAN
  BY DEF ReadBusy, FinishRead, Goto, ProcessQueries, PoolTypeOK
<1>1. (ConnTypeOK /\ WireTypeOK /\ (pending \in SUBSET Params))'
  BY <1>0 DEF ConnTypeOK, WireTypeOK
<1>2. PoolTypeOK'
  BY <1>0, <1>a, <1>b DEF PoolTypeOK
<1>3. LoopTypeOK'
  BY <1>0, <1>b DEF LoopTypeOK
<1>4. OnlyTouches(c)
  BY <1>0 DEF OnlyTouches
<1>5. \A d \in Slots \ {c} : (Failing(d) => Failing(d)') /\ (Reading(d) =>
   Reading(d)')
  BY <1>x DEF Failing, Reading
<1>6. pool_query_num' + Len(pool_queries') = MaxQuery
  BY <1>0 DEF QueueAccounting
<1>7. ~Failing(c)' => conn_query_num'[c] + Len(conn_queries'[c]) = MaxPipeline
  BY <1>0, <1>x DEF QueueAccounting
<1>8. phase'[c] = "ready" /\ ~Failing(c)' => Aligned(c)'
  BY <1>0, <1>x DEF Aligned
<1>9. phase'[c] # "ready" => Blank(c)'
  BY <1>0, <1>x
<1>10. TimerOf(c)'
  BY <1>0, <1>x DEF ReadBusy, TimerState, TimerOf
<1>11. (ReplyOrder /\ BlankUnlessReady /\ TimerState /\ QueueAccounting)'
  BY <1>4, <1>5, <1>6, <1>7, <1>8, <1>9, <1>10, OneConn
<1>12. ConnAccounting'
  BY <1>0 DEF ConnAccounting, Live
<1>13. ListUsable'
  BY <1>0, <1>a, <1>x DEF ListUsable
<1>14. LoopState'
  BY <1>b DEF LoopState
<1>15. IterState'
  BY <1>0, <1>b, <1>x, EmptyList DEF IterState, At
<1> QED
  BY <1>1, <1>2, <1>3, <1>11, <1>12, <1>13, <1>14, <1>15

\* A read callback that has nothing left to wait for.
LEMMA ReadDrainedStep ==
  ASSUME IInv, NEW c \in Slots, ReadDrained(c)
  PROVE  IInv'
<1> USE PoolAssumption DEF IInv, TypeOK
<1>0. UNCHANGED <<pool_queries, pool_query_num, conn_num, phase, conn_queries,
   conn_query_num, flags, server, stage, unsent, writing, cur, ret, query_num,
   iter, pending>>
  BY DEF ReadDrained, FinishRead, Goto, poolVars, connVars, wireVars, loopVars
<1>x. /\ pc \in {"read", "readfull"} /\ cur = c /\ phase[c] = "ready"
      /\ ~Failing(c) /\ Aligned(c)
  BY DEF ReadDrained, Reading, LoopState, Failing, ReplyOrder
<1>a. /\ pool_conn' \in Seq(Slots) /\ pool_tail' \in Slots \union {NoConn}
      /\ \A d \in ToSet(pool_conn') :
            d \in ToSet(pool_conn) \/ (d = c /\ conn_query_num[c] > 0)
      /\ IsInjective(pool_conn')
  <2>1. CASE pc = "readfull" /\ conn_query_num[c] > 0
    <3>1. c \notin ToSet(pool_conn) /\ AppendConn(c)
      BY <1>x, <2>1 DEF ReadDrained, FinishRead, LoopState
    <3> QED
      BY <2>1, <3>1, AppendConnFacts DEF ListUsable
  <2>2. CASE ~(pc = "readfull" /\ conn_query_num[c] > 0)
    BY <2>2 DEF ReadDrained, FinishRead, ListUsable, PoolTypeOK
  <2> QED
    BY <2>1, <2>2
<1>b. pc' = "idle" /\ process_queries' \in BOOLEAN
  BY DEF ReadDrained, FinishRead, Goto, ProcessQueries, PoolTypeOK
<1>1. (WireTypeOK /\ (pending \in SUBSET Params))'
  BY <1>0 DEF WireTypeOK
<1>2. PoolTypeOK'
  BY <1>0, <1>a, <1>b DEF PoolTypeOK
<1>3. ConnTypeOK'
  BY <1>0 DEF ReadDrained, ConnTypeOK
<1>4. LoopTypeOK'
  BY <1>0, <1>b DEF LoopTypeOK
<1>5. OnlyTouches(c)
  BY <1>0 DEF ReadDrained, OnlyTouches, ConnTypeOK
<1>6. \A d \in Slots \ {c} : (Failing(d) => Failing(d)') /\ (Reading(d) =>
   Reading(d)')
  BY <1>x DEF Failing, Reading
<1>7. pool_query_num' + Len(pool_queries') = MaxQuery
  BY <1>0 DEF QueueAccounting
<1>8. ~Failing(c)' => conn_query_num'[c] + Len(conn_queries'[c]) = MaxPipeline
  BY <1>0, <1>x DEF QueueAccounting
<1>9. phase'[c] = "ready" /\ ~Failing(c)' => Aligned(c)'
  BY <1>0, <1>x DEF Aligned
<1>10. phase'[c] # "ready" => Blank(c)'
  BY <1>0, <1>x
<1>11. TimerOf(c)'
  <2>1. timer'[c] = "none" /\ server[c] = <<>>
    BY <1>x DEF ReadDrained, Aligned, ConnTypeOK
  <2> QED
    BY <1>0, <1>x, <2>1 DEF TimerOf
<1>12. (ReplyOrder /\ BlankUnlessReady /\ TimerState /\ QueueAccounting)'
  BY <1>5, <1>6, <1>7, <1>8, <1>9, <1>10, <1>11, OneConn
<1>13. ConnAccounting'
  BY <1>0 DEF ConnAccounting, Live
<1>14. ListUsable'
  BY <1>0, <1>a, <1>x DEF ListUsable
<1>15. LoopState'
  BY <1>b DEF LoopState
<1>16. IterState'
  BY <1>0, <1>b, <1>x, EmptyList DEF IterState, At
<1> QED
  BY <1>1, <1>2, <1>3, <1>4, <1>12, <1>13, <1>14, <1>15, <1>16

\* The end of the results of a query.
LEMMA ReadIgnoredStep ==
  ASSUME IInv, NEW c \in Slots, ReadIgnored(c)
  PROVE  IInv'
<1> USE PoolAssumption DEF IInv, TypeOK
<1>0. UNCHANGED <<pool_conn, pool_tail, pool_queries, pool_query_num, conn_num,
   process_queries, phase, conn_queries, conn_query_num, timer, server, unsent,
   writing, pc, cur, ret, query_num, iter, pending>>
  BY DEF ReadIgnored, poolVars, connVars, wireVars, loopVars
<1>x. /\ pc \in {"read", "readfull"} /\ cur = c /\ phase[c] = "ready"
      /\ ~Failing(c) /\ Aligned(c)
  BY DEF ReadIgnored, Reading, LoopState, Failing, ReplyOrder
<1>1. (PoolTypeOK /\ LoopTypeOK /\ (pending \in SUBSET Params))'
  BY <1>0 DEF PoolTypeOK, LoopTypeOK
<1>2. ConnTypeOK'
  BY <1>0 DEF ReadIgnored, ConnTypeOK, PoolTypeOK, WireTypeOK, LoopTypeOK
<1>3. WireTypeOK'
  BY <1>0 DEF ReadIgnored, WireTypeOK, PoolTypeOK, ConnTypeOK, LoopTypeOK
<1>4. OnlyTouches(c)
  BY <1>0 DEF ReadIgnored, OnlyTouches, PoolTypeOK, ConnTypeOK, WireTypeOK,
     LoopTypeOK
<1>5. \A d \in Slots \ {c} : (Failing(d) => Failing(d)') /\ (Reading(d) =>
   Reading(d)')
  BY <1>0 DEF Failing, Reading
<1>6. pool_query_num' + Len(pool_queries') = MaxQuery
  BY <1>0 DEF QueueAccounting
<1>7. ~Failing(c)' => conn_query_num'[c] + Len(conn_queries'[c]) = MaxPipeline
  BY <1>0, <1>x DEF QueueAccounting
<1>8. phase'[c] = "ready" /\ ~Failing(c)' => Aligned(c)'
  <2>1. /\ flags[c] = {"EXPECT_SYNC", "IGNORE_RESULT"}
        /\ flags'[c] = flags[c] \ {"IGNORE_RESULT"} /\ stage'[c] = "sync"
    BY <1>x DEF ReadIgnored, Aligned, ConnTypeOK, WireTypeOK
  <2>2. flags'[c] = {"EXPECT_SYNC"} /\ flags[c] # {} /\ flags'[c] # {}
    BY <2>1
  <2> QED
    BY <1>0, <1>x, <2>1, <2>2 DEF Aligned
<1>9. phase'[c] # "ready" => Blank(c)'
  BY <1>0, <1>x
<1>10. TimerOf(c)'
  BY <1>0 DEF TimerState, TimerOf, Failing, Reading
<1>11. (ReplyOrder /\ BlankUnlessReady /\ TimerState /\ QueueAccounting)'
  BY <1>4, <1>5, <1>6, <1>7, <1>8, <1>9, <1>10, OneConn
<1>12. (ConnAccounting /\ ListUsable /\ LoopState)'
  BY <1>0 DEF ConnAccounting, Live, ListUsable, LoopState
<1>13. IterState'
  BY <1>0 DEF IterState, At
<1> QED
  BY <1>1, <1>2, <1>3, <1>11, <1>12, <1>13

\* The sync point of a query, or a failure.
LEMMA ReadSyncStep ==
  ASSUME IInv, NEW c \in Slots, ReadSync(c)
  PROVE  IInv'
<1> USE PoolAssumption DEF IInv, TypeOK
<1>0. UNCHANGED <<pool_conn, pool_tail, pool_queries, pool_query_num, conn_num,
   process_queries, phase, conn_queries, conn_query_num, timer, unsent,
   writing, query_num, iter, pending>>
  BY DEF ReadSync, poolVars, connVars, wireVars, loopVars
<1>x. /\ pc \in {"read", "readfull"} /\ cur = c /\ phase[c] = "ready"
      /\ ~Failing(c) /\ Aligned(c)
  BY DEF ReadSync, Reading, LoopState, Failing, ReplyOrder
<1>a. /\ flags[c] = {"EXPECT_SYNC"} /\ server[c] # <<>> /\ cur' = c
      /\ \/ /\ flags' = [flags EXCEPT ![c] = {}] /\ UNCHANGED <<pc, ret>>
            /\ server' = [server EXCEPT ![c] = Tail(@)]
            /\ stage' = [stage EXCEPT ![c] = "result"]
         \/ pc' = "error" /\ ret' = "idle" /\ UNCHANGED <<flags, server, stage>>
      /\ Tail(server[c]) \in Seq(Params)
  <2>1. flags[c] = {"EXPECT_SYNC"} /\ server[c] # <<>>
    BY <1>x DEF ReadSync, Aligned
  <2>2. Tail(server[c]) \in Seq(Params)
    BY <2>1, HeadTailFacts DEF WireTypeOK
  <2> QED
    BY <1>x, <2>1, <2>2 DEF ReadSync, Fail, loopVars
<1>1. (PoolTypeOK /\ (pending \in SUBSET Params))'
  BY <1>0 DEF PoolTypeOK
<1>2. ConnTypeOK'
  BY <1>0, <1>a DEF ConnTypeOK
<1>3. WireTypeOK'
  <2>1. server' \in [Slots -> Seq(Params)]
    <3>1. CASE server' = [server EXCEPT ![c] = Tail(@)]
      BY <1>a, <3>1 DEF WireTypeOK
    <3>2. CASE server' = server
      BY <3>2 DEF WireTypeOK
    <3> QED
      BY <1>a, <3>1, <3>2
  <2>2. stage' \in [Slots -> {"result", "end", "sync"}]
    BY <1>a DEF WireTypeOK
  <2> QED
    BY <1>0, <2>1, <2>2 DEF WireTypeOK
<1>4. LoopTypeOK'
  BY <1>0, <1>a DEF LoopTypeOK
<1>5. OnlyTouches(c)
  BY <1>0, <1>a DEF OnlyTouches, ConnTypeOK, WireTypeOK
<1>6. \A d \in Slots \ {c} : (Failing(d) => Failing(d)') /\ (Reading(d) =>
   Reading(d)')
  BY <1>a, <1>x DEF Failing, Reading
<1>7. pool_query_num' + Len(pool_queries') = MaxQuery
  BY <1>0 DEF QueueAccounting
<1>8. ~Failing(c)' => conn_query_num'[c] + Len(conn_queries'[c]) = MaxPipeline
  BY <1>0, <1>x DEF QueueAccounting
<1>9. phase'[c] = "ready" /\ ~Failing(c)' => Aligned(c)'
  <2> SUFFICES ASSUME ~Failing(c)' PROVE Aligned(c)'
    OBVIOUS
  <2>1. /\ flags'[c] = {} /\ server'[c] = Tail(server[c]) /\ stage'[c] = "result"
        /\ flags[c] # {}
    BY <1>a, <1>x DEF Failing, ConnTypeOK, WireTypeOK
  <2> QED
    BY <1>0, <1>x, <2>1 DEF Aligned
<1>10. phase'[c] # "ready" => Blank(c)'
  BY <1>0, <1>x
<1>11. TimerOf(c)'
  <2>1. timer[c] = "query" /\ timer'[c] = timer[c] /\ phase'[c] = "ready"
    BY <1>0, <1>x, <1>a DEF TimerState, TimerOf, Aligned
  <2> QED
    BY <1>x, <1>a, <2>1 DEF TimerOf, Failing, Reading
<1>12. (ReplyOrder /\ BlankUnlessReady /\ TimerState /\ QueueAccounting)'
  BY <1>5, <1>6, <1>7, <1>8, <1>9, <1>10, <1>11, OneConn
<1>13. (ConnAccounting /\ ListUsable)'
  BY <1>0 DEF ConnAccounting, Live, ListUsable
<1>14. LoopState'
  BY <1>0, <1>a, <1>x, EmptyList DEF LoopState, IterState, At
<1>15. IterState'
  BY <1>0, <1>a, <1>x, EmptyList DEF IterState, At
<1> QED
  BY <1>1, <1>2, <1>3, <1>4, <1>12, <1>13, <1>14, <1>15

\* A result whose callback wants more.
LEMMA ReadMoreStep ==
  ASSUME IInv, NEW c \in Slots, ReadMore(c)
  PROVE  IInv'
<1> USE PoolAssumption DEF IInv, TypeOK
<1>0. UNCHANGED <<pool_conn, pool_tail, pool_queries, pool_query_num, conn_num,
   process_queries, phase, conn_queries, conn_query_num, flags, timer, server,
   unsent, writing, pc, cur, ret, query_num, iter, pending>>
  BY DEF ReadMore, poolVars, connVars, wireVars, loopVars
<1>x. /\ pc \in {"read", "readfull"} /\ cur = c /\ phase[c] = "ready"
      /\ ~Failing(c) /\ Aligned(c)
  BY DEF ReadMore, Reading, LoopState, Failing, ReplyOrder
<1>1. (PoolTypeOK /\ ConnTypeOK /\ LoopTypeOK /\ (pending \in SUBSET Params))'
  BY <1>0 DEF PoolTypeOK, ConnTypeOK, LoopTypeOK
<1>2. WireTypeOK'
  BY <1>0 DEF ReadMore, WireTypeOK, PoolTypeOK, ConnTypeOK, LoopTypeOK
<1>3. OnlyTouches(c)
  BY <1>0 DEF ReadMore, OnlyTouches, PoolTypeOK, ConnTypeOK, WireTypeOK,
     LoopTypeOK
<1>4. \A d \in Slots \ {c} : (Failing(d) => Failing(d)') /\ (Reading(d) =>
   Reading(d)')
  BY <1>0 DEF Failing, Reading
<1>5. pool_query_num' + Len(pool_queries') = MaxQuery
  BY <1>0 DEF QueueAccounting
<1>6. ~Failing(c)' => conn_query_num'[c] + Len(conn_queries'[c]) = MaxPipeline
  BY <1>0, <1>x DEF QueueAccounting
<1>7. phase'[c] = "ready" /\ ~Failing(c)' => Aligned(c)'
  BY <1>0 DEF ReadMore, ReplyOrder, Aligned, Failing, ConnTypeOK, WireTypeOK
<1>8. phase'[c] # "ready" => Blank(c)'
  BY <1>0, <1>x
<1>9. TimerOf(c)'
  BY <1>0 DEF ReadMore, TimerState, TimerOf, Failing, Reading, ConnTypeOK,
     WireTypeOK
<1>10. (ReplyOrder /\ BlankUnlessReady /\ TimerState /\ QueueAccounting)'
  BY <1>3, <1>4, <1>5, <1>6, <1>7, <1>8, <1>9, OneConn
<1>11. (ConnAccounting /\ ListUsable /\ LoopState)'
  BY <1>0 DEF ConnAccounting, Live, ListUsable, LoopState
<1>12. IterState'
  BY <1>0 DEF IterState, At
<1> QED
  BY <1>1, <1>2, <1>10, <1>11, <1>12

\* A result that completes a query.
LEMMA ReadDoneStep ==
  ASSUME IInv, NEW c \in Slots, ReadDone(c)
  PROVE  IInv'
<1> USE PoolAssumption DEF IInv, TypeOK
<1>0. UNCHANGED <<pool_conn, pool_tail, conn_num, phase, server, unsent,
   writing, pc, cur, ret, query_num, iter>>
  BY DEF ReadDone, poolVars, connVars, wireVars, loopVars
<1>x. /\ pc \in {"read", "readfull"} /\ cur = c /\ phase[c] = "ready"
      /\ ~Failing(c) /\ Aligned(c)
  BY DEF ReadDone, Reading, LoopState, Failing, ReplyOrder
<1>a. /\ conn_query_num' = [conn_query_num EXCEPT ![c] = @ + 1]
      /\ timer' = [timer EXCEPT ![c] = "query"]
      /\ conn_queries' = [conn_queries EXCEPT ![c] = Tail(@)]
      /\ \/ /\ flags' = [flags EXCEPT ![c] = {"EXPECT_SYNC", "IGNORE_RESULT"}]
            /\ stage' = [stage EXCEPT ![c] = "end"]
         \/ /\ flags' = [flags EXCEPT ![c] = {"EXPECT_SYNC"}]
            /\ stage' = [stage EXCEPT ![c] = "sync"]
      /\ flags[c] = {} /\ conn_queries[c] # <<>> /\ Len(server[c]) > unsent[c]
  BY DEF ReadDone, Arrived
<1>b. /\ Head(conn_queries[c]) \in Params /\ Tail(conn_queries[c]) \in Seq(Params)
      /\ Len(conn_queries[c]) \in Nat \ {0}
      /\ Len(Tail(conn_queries[c])) = Len(conn_queries[c]) - 1
  BY <1>a, HeadTailFacts DEF ConnTypeOK
<1>c. /\ pool_queries' \in Seq(Params) /\ pool_query_num' \in 0..MaxQuery
      /\ pool_query_num' + Len(pool_queries') = MaxQuery
      /\ pending' \in SUBSET Params /\ process_queries' \in BOOLEAN
  <2> DEFINE p == Head(conn_queries[c])
  <2>1. PICK next \in Resubmission(p) :
           /\ pool_queries' = pool_queries \o next
           /\ pool_query_num' = pool_query_num - Len(next)
           /\ pending' = (pending \ {p}) \union ToSet(next)
           /\ process_queries' = (process_queries \/ next # <<>>)
    BY DEF ReadDone
  <2>2. CASE next = <<>>
    BY <2>1, <2>2, EmptyList DEF PoolTypeOK, QueueAccounting
  <2>3. CASE next # <<>>
    <3>1. PICK q \in (Params \ pending) \union {p} : next = <<q>> /\ pool_query_num > 0
      BY <2>3 DEF Resubmission
    <3>2. q \in Params /\ ToSet(next) = {q}
      BY <3>1, <1>b DEF ToSet
    <3>3. pool_queries' = Append(pool_queries, q) /\ Len(next) = 1
      BY <2>1, <3>1, <3>2 DEF PoolTypeOK
    <3>4. pool_queries' \in Seq(Params) /\ Len(pool_queries') = Len(pool_queries) + 1
          /\ Len(pool_queries) \in Nat
      BY <3>2, <3>3, AppendFacts DEF PoolTypeOK
    <3>5. pool_query_num' = pool_query_num - 1
      BY <2>1, <3>3
    <3>6. pool_query_num' + Len(pool_queries') = MaxQuery
      <4>1. pool_query_num + Len(pool_queries) = MaxQuery /\ pool_query_num \in Nat
        BY DEF QueueAccounting, PoolTypeOK
      <4> QED
        BY <3>4, <3>5, <4>1
    <3>7. pool_query_num' \in 0..MaxQuery
      BY <3>1, <3>5 DEF PoolTypeOK
    <3> QED
      BY <2>1, <3>2, <3>4, <3>6, <3>7 DEF PoolTypeOK
  <2> QED
    BY <2>2, <2>3
<1>1. LoopTypeOK'
  BY <1>0 DEF LoopTypeOK
<1>2. PoolTypeOK'
  BY <1>0, <1>c DEF PoolTypeOK
<1>3. ConnTypeOK'
  <2>1. conn_query_num[c] + 1 \in 0..MaxPipeline
    BY <1>b, <1>x DEF QueueAccounting, ConnTypeOK
  <2>2. conn_query_num' \in [Slots -> 0..MaxPipeline]
    BY <1>a, <2>1 DEF ConnTypeOK
  <2>3. conn_queries' \in [Slots -> Seq(Params)]
    BY <1>a, <1>b DEF ConnTypeOK
  <2>4. flags' \in [Slots -> SUBSET {"EXPECT_SYNC", "IGNORE_RESULT"}]
    <3>1. {"EXPECT_SYNC"} \in SUBSET {"EXPECT_SYNC", "IGNORE_RESULT"}
      OBVIOUS
    <3>2. PICK f \in SUBSET {"EXPECT_SYNC", "IGNORE_RESULT"} :
             flags' = [flags EXCEPT ![c] = f]
      BY <1>a, <3>1
    <3> QED
      BY <3>2 DEF ConnTypeOK
  <2>5. timer' \in [Slots -> {"none", "connect", "query"}]
    BY <1>a DEF ConnTypeOK
  <2> QED
    BY <1>0, <2>2, <2>3, <2>4, <2>5 DEF ConnTypeOK
<1>4. WireTypeOK'
  BY <1>0, <1>a DEF WireTypeOK
<1>5. (pending \in SUBSET Params)'
  BY <1>c
<1>6. OnlyTouches(c)
  BY <1>0, <1>a DEF OnlyTouches, ConnTypeOK, WireTypeOK
<1>7. \A d \in Slots \ {c} : (Failing(d) => Failing(d)') /\ (Reading(d) =>
   Reading(d)')
  BY <1>0 DEF Failing, Reading
<1>8. pool_query_num' + Len(pool_queries') = MaxQuery
  BY <1>c
<1>9. ~Failing(c)' => conn_query_num'[c] + Len(conn_queries'[c]) = MaxPipeline
  <2>1. conn_query_num'[c] = conn_query_num[c] + 1 /\ conn_queries'[c] = Tail(conn_queries[c])
    BY <1>a DEF ConnTypeOK
  <2>2. /\ conn_query_num[c] + Len(conn_queries[c]) = MaxPipeline
        /\ conn_query_num[c] \in Nat
    BY <1>x DEF QueueAccounting, ConnTypeOK
  <2> QED
    BY <1>b, <2>1, <2>2
<1>10. phase'[c] = "ready" /\ ~Failing(c)' => Aligned(c)'
  <2>1. /\ conn_queries'[c] = Tail(conn_queries[c])
        /\ \/ flags'[c] = {"EXPECT_SYNC", "IGNORE_RESULT"} /\ stage'[c] = "end"
           \/ flags'[c] = {"EXPECT_SYNC"} /\ stage'[c] = "sync"
    BY <1>a DEF ConnTypeOK, WireTypeOK
  <2>2. conn_queries[c] = server[c] /\ server[c] # <<>>
    BY <1>a, <1>b, <1>x DEF Aligned
  <2>3. unsent[c] <= Len(conn_queries'[c])
    BY <1>a, <1>b, <2>1, <2>2 DEF WireTypeOK
  <2> QED
    BY <1>0, <2>1, <2>2, <2>3 DEF Aligned
<1>11. phase'[c] # "ready" => Blank(c)'
  BY <1>0, <1>x
<1>12. TimerOf(c)'
  <2>1. timer'[c] = "query"
    BY <1>a DEF ConnTypeOK
  <2> QED
    BY <1>0, <1>x, <2>1 DEF TimerOf, Reading
<1>13. (ReplyOrder /\ BlankUnlessReady /\ TimerState /\ QueueAccounting)'
  BY <1>6, <1>7, <1>8, <1>9, <1>10, <1>11, <1>12, OneConn
<1>14. (ConnAccounting /\ LoopState)'
  BY <1>0 DEF ConnAccounting, Live, LoopState
<1>15. ListUsable'
  <2>1. \A d \in ToSet(pool_conn) : d \in Slots
    BY DEF PoolTypeOK, ToSet
  <2>2. \A d \in Slots : conn_query_num[d] > 0 => conn_query_num'[d] > 0
    BY <1>a DEF ConnTypeOK
  <2> QED
    BY <1>0, <2>1, <2>2 DEF ListUsable
<1>16. IterState'
  BY <1>0, <1>x, EmptyList DEF IterState, At
<1> QED
  BY <1>1, <1>2, <1>3, <1>4, <1>5, <1>13, <1>14, <1>15, <1>16

\* A socket that becomes writable.
LEMMA WriteReadyStep ==
  ASSUME IInv, NEW c \in Slots, WriteReady(c)
  PROVE  IInv'
<1> USE PoolAssumption DEF IInv, TypeOK
<1>0. UNCHANGED <<pool_conn, pool_tail, pool_queries, pool_query_num, conn_num,
   process_queries, phase, conn_queries, conn_query_num, flags, timer, server,
   stage, query_num, iter, pending>>
  BY DEF WriteReady, poolVars, connVars, wireVars, loopVars
<1>x. /\ pc = "idle" /\ phase[c] = "ready"
      /\ \/ pc' = "error" /\ ret' = "idle" /\ cur' = c
         \/ pc' = pc /\ cur' = cur /\ ret' = ret
  BY DEF WriteReady, Fail
<1>a. /\ unsent' \in [Slots -> Nat] /\ writing' \in SUBSET Slots
      /\ \A d \in Slots \ {c} : unsent'[d] = unsent[d]
      /\ unsent'[c] <= unsent[c]
  <2>1. unsent \in [Slots -> Nat] /\ writing' \in SUBSET Slots
    BY DEF WriteReady, WireTypeOK
  <2>2. CASE unsent' = unsent
    BY <2>1, <2>2
  <2>3. CASE unsent' = [unsent EXCEPT ![c] = 0]
    BY <2>1, <2>3
  <2>4. ASSUME NEW left \in 1..unsent[c], unsent' = [unsent EXCEPT ![c] = left]
        PROVE  /\ unsent' \in [Slots -> Nat]
               /\ \A d \in Slots \ {c} : unsent'[d] = unsent[d]
               /\ unsent'[c] <= unsent[c]
    <3>1. left \in Nat /\ left <= unsent[c]
      BY <2>1
    <3> QED
      BY <2>1, <2>4, <3>1
  <2> QED
    BY <2>1, <2>2, <2>3, <2>4 DEF WriteReady
<1>1. (PoolTypeOK /\ ConnTypeOK /\ (pending \in SUBSET Params))'
  BY <1>0 DEF PoolTypeOK, ConnTypeOK
<1>2. WireTypeOK'
  BY <1>0, <1>a DEF WireTypeOK
<1>3. LoopTypeOK'
  BY <1>0, <1>x DEF LoopTypeOK
<1>4. OnlyTouches(c)
  BY <1>0, <1>a DEF OnlyTouches
<1>5. \A d \in Slots \ {c} : (Failing(d) => Failing(d)') /\ (Reading(d) =>
   Reading(d)')
  BY <1>x DEF Failing, Reading
<1>6. pool_query_num' + Len(pool_queries') = MaxQuery
  BY <1>0 DEF QueueAccounting
<1>7. ~Failing(c)' => conn_query_num'[c] + Len(conn_queries'[c]) = MaxPipeline
  BY <1>0, <1>x DEF QueueAccounting, Failing
<1>8. phase'[c] = "ready" /\ ~Failing(c)' => Aligned(c)'
  <2>1. Aligned(c) /\ Len(conn_queries[c]) \in Nat
    BY <1>x DEF ReplyOrder, Failing, ConnTypeOK
  <2> QED
    BY <1>0, <1>a, <2>1 DEF Aligned, WireTypeOK
<1>9. phase'[c] # "ready" => Blank(c)'
  BY <1>0, <1>x
<1>10. TimerOf(c)'
  BY <1>0, <1>x DEF TimerState, TimerOf, Failing, Reading
<1>11. (ReplyOrder /\ BlankUnlessReady /\ TimerState /\ QueueAccounting)'
  BY <1>4, <1>5, <1>6, <1>7, <1>8, <1>9, <1>10, OneConn
<1>12. (ConnAccounting /\ ListUsable)'
  BY <1>0 DEF ConnAccounting, Live, ListUsable
<1>13. LoopState'
  BY <1>0, <1>x, EmptyList DEF LoopState, IterState, ListUsable, At
<1>14. IterState'
  BY <1>0, <1>x, EmptyList DEF IterState, At
<1> QED
  BY <1>1, <1>2, <1>3, <1>11, <1>12, <1>13, <1>14

\* A query that times out.
LEMMA DatabaseTimeoutStep ==
  ASSUME IInv, NEW c \in Slots, DatabaseTimeout(c)
  PROVE  IInv'
<1> USE PoolAssumption DEF IInv, TypeOK
<1>0. UNCHANGED <<pool_conn, pool_tail, pool_queries, pool_query_num, conn_num,
   process_queries, phase, conn_query_num, flags, server, stage, unsent,
   writing, query_num, iter>>
  BY DEF DatabaseTimeout, poolVars, connVars, wireVars, loopVars
<1>x. /\ pc = "idle" /\ phase[c] = "ready"
      /\ pc' = "error" /\ ret' = "idle" /\ cur' = c
  BY DEF DatabaseTimeout, Fail, TimerState, TimerOf, ConnTypeOK
<1>a. /\ conn_queries' \in [Slots -> Seq(Params)]
      /\ \A d \in Slots \ {c} : conn_queries'[d] = conn_queries[d]
  <2>1. CASE conn_queries[c] # <<>>
    <3>1. Tail(conn_queries[c]) \in Seq(Params)
      BY <2>1, HeadTailFacts DEF ConnTypeOK
    <3>2. conn_queries' = [conn_queries EXCEPT ![c] = Tail(@)]
      BY <2>1 DEF DatabaseTimeout
    <3> QED
      BY <3>1, <3>2 DEF ConnTypeOK
  <2>2. CASE conn_queries[c] = <<>>
    BY <2>2 DEF DatabaseTimeout, ConnTypeOK
  <2> QED
    BY <2>1, <2>2
<1>1. (PoolTypeOK /\ WireTypeOK)'
  BY <1>0 DEF PoolTypeOK, WireTypeOK
<1>2. ConnTypeOK'
  <2>1. timer' \in [Slots -> {"none", "connect", "query"}]
    BY DEF DatabaseTimeout, ConnTypeOK
  <2> QED
    BY <1>0, <1>a, <2>1 DEF ConnTypeOK
<1>3. LoopTypeOK'
  BY <1>0, <1>x DEF LoopTypeOK
<1>4. (pending \in SUBSET Params)'
  BY <1>0 DEF DatabaseTimeout, PoolTypeOK, ConnTypeOK, WireTypeOK, LoopTypeOK
<1>5. OnlyTouches(c)
  <2>1. \A d \in Slots \ {c} : timer'[d] = timer[d]
    BY DEF DatabaseTimeout, ConnTypeOK
  <2> QED
    BY <1>0, <1>a, <2>1 DEF OnlyTouches
<1>6. \A d \in Slots \ {c} : (Failing(d) => Failing(d)') /\ (Reading(d) =>
   Reading(d)')
  BY <1>x DEF Failing, Reading
<1>7. pool_query_num' + Len(pool_queries') = MaxQuery
  BY <1>0 DEF QueueAccounting
<1>8. ~Failing(c)' => conn_query_num'[c] + Len(conn_queries'[c]) = MaxPipeline
  BY <1>x DEF Failing
<1>9. phase'[c] = "ready" /\ ~Failing(c)' => Aligned(c)'
  BY <1>x DEF Failing
<1>10. phase'[c] # "ready" => Blank(c)'
  BY <1>0, <1>x
<1>11. TimerOf(c)'
  <2>1. timer'[c] = "none"
    BY DEF DatabaseTimeout, ConnTypeOK
  <2> QED
    BY <1>0, <1>x, <2>1 DEF TimerOf, Failing
<1>12. (ReplyOrder /\ BlankUnlessReady /\ TimerState /\ QueueAccounting)'
  BY <1>5, <1>6, <1>7, <1>8, <1>9, <1>10, <1>11, OneConn
<1>13. (ConnAccounting /\ ListUsable)'
  BY <1>0 DEF ConnAccounting, Live, ListUsable
<1>14. LoopState'
  BY <1>0, <1>x, EmptyList DEF LoopState, IterState, At
<1>15. IterState'
  BY <1>0, <1>x, EmptyList DEF IterState, At
<1> QED
  BY <1>1, <1>2, <1>3, <1>4, <1>12, <1>13, <1>14, <1>15

\* on_process_queries starts.
LEMMA StartProcessingStep ==
  ASSUME IInv, StartProcessing
  PROVE  IInv'
<1> USE PoolAssumption DEF IInv, TypeOK
<1>0. UNCHANGED <<pool_conn, pool_tail, pool_queries, pool_query_num, conn_num,
   process_queries, phase, conn_queries, conn_query_num, flags, timer, server,
   stage, unsent, writing, cur, ret, pending>>
  BY DEF StartProcessing, poolVars, connVars, wireVars, loopVars
<1>1. (PoolTypeOK /\ ConnTypeOK /\ WireTypeOK /\ (pending \in SUBSET Params))'
  BY <1>0 DEF PoolTypeOK, ConnTypeOK, WireTypeOK
<1>2. LoopTypeOK'
  BY <1>0, EmptySeq DEF StartProcessing, LoopTypeOK
<1>3. (BlankUnlessReady /\ ConnAccounting /\ ListUsable)'
  BY <1>0 DEF BlankUnlessReady, Blank, ConnAccounting, Live, ListUsable
<1>4. QueueAccounting'
  BY <1>0 DEF StartProcessing, QueueAccounting, Failing, PoolTypeOK,
     ConnTypeOK, WireTypeOK, LoopTypeOK
<1>5. ReplyOrder'
  BY <1>0 DEF StartProcessing, ReplyOrder, Aligned, Failing, PoolTypeOK,
     ConnTypeOK, WireTypeOK, LoopTypeOK
<1>6. TimerState'
  BY <1>0 DEF StartProcessing, TimerState, TimerOf, Failing, Reading,
     PoolTypeOK, ConnTypeOK, WireTypeOK, LoopTypeOK
<1>7. LoopState'
  BY <1>0, EmptyList DEF StartProcessing, LoopState
<1>8. IterState'
  BY <1>0, EmptyList DEF StartProcessing, IterState, At
<1> QED
  BY <1>1, <1>2, <1>3, <1>4, <1>5, <1>6, <1>7, <1>8

\* There is no query or no connection left to send on.
LEMMA SendDoneStep ==
  ASSUME IInv, SendDone
  PROVE  IInv'
<1> USE PoolAssumption DEF IInv, TypeOK
<1>0. UNCHANGED <<pool_conn, pool_tail, pool_queries, pool_query_num, conn_num,
   process_queries, phase, conn_queries, conn_query_num, flags, timer, server,
   stage, unsent, writing, cur, ret, query_num, iter, pending>>
  BY DEF SendDone, Goto, poolVars, connVars, wireVars, loopVars
<1>1. (PoolTypeOK /\ ConnTypeOK /\ WireTypeOK /\ (pending \in SUBSET Params))'
  BY <1>0 DEF PoolTypeOK, ConnTypeOK, WireTypeOK
<1>2. LoopTypeOK'
  BY <1>0 DEF SendDone, Goto, LoopTypeOK, PoolTypeOK, ConnTypeOK, WireTypeOK
<1>3. (BlankUnlessReady /\ ConnAccounting /\ ListUsable)'
  BY <1>0 DEF BlankUnlessReady, Blank, ConnAccounting, Live, ListUsable
<1>4. QueueAccounting'
  BY <1>0 DEF SendDone, Goto, QueueAccounting, Failing, PoolTypeOK, ConnTypeOK,
     WireTypeOK, LoopTypeOK
<1>5. ReplyOrder'
  BY <1>0 DEF SendDone, Goto, ReplyOrder, Aligned, Failing, PoolTypeOK,
     ConnTypeOK, WireTypeOK, LoopTypeOK
<1>6. TimerState'
  BY <1>0 DEF SendDone, Goto, TimerState, TimerOf, Failing, Reading,
     PoolTypeOK, ConnTypeOK, WireTypeOK, LoopTypeOK
<1>7. LoopState'
  BY <1>0 DEF SendDone, Goto, LoopState, PoolTypeOK, ConnTypeOK, WireTypeOK,
     LoopTypeOK
<1>8. IterState'
  BY <1>0 DEF SendDone, Goto, IterState, At, PoolTypeOK, ConnTypeOK,
     WireTypeOK, LoopTypeOK
<1> QED
  BY <1>1, <1>2, <1>3, <1>4, <1>5, <1>6, <1>7, <1>8

\* A full connection is flushed.
LEMMA FlushFullStep ==
  ASSUME IInv, NEW c \in Slots, c = Head(iter), FlushFull
  PROVE  IInv'
<1> USE PoolAssumption DEF IInv, TypeOK
<1>0. UNCHANGED <<pool_conn, pool_tail, pool_queries, pool_query_num, conn_num,
   process_queries, phase, conn_queries, conn_query_num, flags, timer, server,
   stage, query_num, pending>>
  BY DEF FlushFull, poolVars, connVars, wireVars, loopVars
<1>x. /\ pc = "flushfull"
      /\ \/ pc' = "error" /\ ret' = "flushfull" /\ cur' = c
         \/ pc' = pc /\ cur' = cur /\ ret' = ret
  BY DEF FlushFull, Fail
<1>a. /\ unsent' \in [Slots -> Nat] /\ writing' \in SUBSET Slots
      /\ \A d \in Slots \ {c} : unsent'[d] = unsent[d]
      /\ unsent'[c] <= unsent[c]
  <2>1. CASE UNCHANGED <<unsent, writing>>
    BY <2>1 DEF WireTypeOK
  <2> QED
    BY <2>1, FlushedFacts DEF FlushFull
<1>b. /\ iter' \in Seq(Slots) /\ IsInjective(iter') /\ c \notin ToSet(iter')
      /\ ToSet(iter) = ToSet(iter') \union {c} /\ phase[c] = "ready"
  <2>1. iter \in Seq(Slots) /\ iter # <<>> /\ iter' = Tail(iter) /\ At = "flushfull"
    BY <1>x DEF FlushFull, LoopTypeOK, At
  <2>2. /\ iter' \in Seq(Slots) /\ IsInjective(iter') /\ c \notin ToSet(iter')
        /\ ToSet(iter) = ToSet(iter') \union {c}
    BY <2>1, HeadTailFacts, TailList DEF IterState
  <2> QED
    BY <2>1, <2>2 DEF IterState
<1>1. (PoolTypeOK /\ ConnTypeOK /\ (pending \in SUBSET Params))'
  BY <1>0 DEF PoolTypeOK, ConnTypeOK
<1>2. WireTypeOK'
  BY <1>0, <1>a DEF WireTypeOK
<1>3. LoopTypeOK'
  BY <1>0, <1>x, <1>b DEF LoopTypeOK
<1>4. OnlyTouches(c)
  BY <1>0, <1>a DEF OnlyTouches
<1>5. \A d \in Slots \ {c} : (Failing(d) => Failing(d)') /\ (Reading(d) =>
   Reading(d)')
  BY <1>x DEF Failing, Reading
<1>6. pool_query_num' + Len(pool_queries') = MaxQuery
  BY <1>0 DEF QueueAccounting
<1>7. ~Failing(c)' => conn_query_num'[c] + Len(conn_queries'[c]) = MaxPipeline
  BY <1>0, <1>x DEF QueueAccounting, Failing
<1>8. phase'[c] = "ready" /\ ~Failing(c)' => Aligned(c)'
  <2>1. Aligned(c) /\ Len(conn_queries[c]) \in Nat
    BY <1>b, <1>x DEF ReplyOrder, Failing, ConnTypeOK
  <2> QED
    BY <1>0, <1>a, <2>1 DEF Aligned, WireTypeOK
<1>9. phase'[c] # "ready" => Blank(c)'
  BY <1>0, <1>b
<1>10. TimerOf(c)'
  BY <1>0, <1>b, <1>x DEF TimerState, TimerOf, Failing, Reading
<1>11. (ReplyOrder /\ BlankUnlessReady /\ TimerState /\ QueueAccounting)'
  BY <1>4, <1>5, <1>6, <1>7, <1>8, <1>9, <1>10, OneConn
<1>12. (ConnAccounting /\ ListUsable)'
  BY <1>0 DEF ConnAccounting, Live, ListUsable
<1>13. LoopState'
  BY <1>0, <1>b, <1>x DEF LoopState
<1>14. IterState'
  <2>1. At' = "flushfull" /\ At = "flushfull"
    BY <1>x DEF At
  <2> QED
    BY <1>0, <1>b, <2>1 DEF IterState
<1> QED
  BY <1>1, <1>2, <1>3, <1>11, <1>12, <1>13, <1>14

\* The walk over the list of connections begins.
LEMMA FlushFullDoneStep ==
  ASSUME IInv, FlushFullDone
  PROVE  IInv'
<1> USE PoolAssumption DEF IInv, TypeOK
<1>0. UNCHANGED <<pool_conn, pool_queries, pool_query_num, conn_num, phase,
   conn_queries, conn_query_num, flags, timer, server, stage, unsent, writing,
   cur, ret, pending>>
  BY DEF FlushFullDone, Goto, poolVars, connVars, wireVars, loopVars
<1>1. (ConnTypeOK /\ WireTypeOK /\ (pending \in SUBSET Params))'
  BY <1>0 DEF ConnTypeOK, WireTypeOK
<1>2. PoolTypeOK'
  BY <1>0 DEF FlushFullDone, Goto, PoolTypeOK, ConnTypeOK, WireTypeOK,
     LoopTypeOK
<1>3. LoopTypeOK'
  <2>1. MaxQuery - pool_query_num \in Nat
    BY DEF PoolTypeOK
  <2>2. query_num' \in Nat
    BY <2>1 DEF FlushFullDone, LoopTypeOK
  <2> QED
    BY <1>0, <2>2 DEF FlushFullDone, Goto, LoopTypeOK, PoolTypeOK
<1>4. (BlankUnlessReady /\ ConnAccounting /\ ListUsable)'
  BY <1>0 DEF BlankUnlessReady, Blank, ConnAccounting, Live, ListUsable
<1>5. QueueAccounting'
  BY <1>0 DEF FlushFullDone, Goto, QueueAccounting, Failing, PoolTypeOK,
     ConnTypeOK, WireTypeOK, LoopTypeOK
<1>6. ReplyOrder'
  BY <1>0 DEF FlushFullDone, Goto, ReplyOrder, Aligned, Failing, PoolTypeOK,
     ConnTypeOK, WireTypeOK, LoopTypeOK
<1>7. TimerState'
  BY <1>0 DEF FlushFullDone, Goto, TimerState, TimerOf, Failing, Reading,
     PoolTypeOK, ConnTypeOK, WireTypeOK, LoopTypeOK
<1>8. LoopState'
  BY <1>0 DEF FlushFullDone, Goto, LoopState, PoolTypeOK, ConnTypeOK,
     WireTypeOK, LoopTypeOK
<1>9. IterState'
  BY <1>0 DEF FlushFullDone, Goto, IterState, At, ListUsable
<1> QED
  BY <1>1, <1>2, <1>3, <1>4, <1>5, <1>6, <1>7, <1>8, <1>9

\* A connection on the list is flushed.
LEMMA FlushRestStep ==
  ASSUME IInv, NEW c \in Slots, c = Head(iter), FlushRest
  PROVE  IInv'
<1> USE PoolAssumption DEF IInv, TypeOK
<1>0. UNCHANGED <<pool_tail, pool_queries, pool_query_num, conn_num,
   process_queries, phase, conn_queries, conn_query_num, flags, timer, server,
   stage, query_num, pending>>
  BY DEF FlushRest, poolVars, connVars, wireVars, loopVars
<1>x. /\ pc = "flush"
      /\ \/ pc' = "error" /\ ret' = "flush" /\ cur' = c
         \/ pc' = pc /\ cur' = cur /\ ret' = ret
  BY DEF FlushRest, Fail
<1>a. /\ unsent' \in [Slots -> Nat] /\ writing' \in SUBSET Slots
      /\ \A d \in Slots \ {c} : unsent'[d] = unsent[d]
      /\ unsent'[c] <= unsent[c]
  <2>1. CASE UNCHANGED <<unsent, writing>>
    BY <2>1 DEF WireTypeOK
  <2> QED
    BY <2>1, FlushedFacts DEF FlushRest
<1>b. /\ iter' \in Seq(Slots) /\ IsInjective(iter') /\ c \notin ToSet(iter')
      /\ ToSet(iter) = ToSet(iter') \union {c} /\ phase[c] = "ready"
      /\ ToSet(iter) \subseteq ToSet(pool_conn)
  <2>1. iter \in Seq(Slots) /\ iter # <<>> /\ iter' = Tail(iter) /\ At = "flush"
    BY <1>x DEF FlushRest, LoopTypeOK, At
  <2>2. /\ iter' \in Seq(Slots) /\ IsInjective(iter') /\ c \notin ToSet(iter')
        /\ ToSet(iter) = ToSet(iter') \union {c}
    BY <2>1, HeadTailFacts, TailList DEF IterState
  <2>3. ToSet(iter) \subseteq ToSet(pool_conn)
    BY <2>1 DEF IterState
  <2> QED
    BY <2>2, <2>3 DEF ListUsable
<1>c. /\ pool_conn' \in Seq(Slots) /\ IsInjective(pool_conn')
      /\ ToSet(pool_conn') \subseteq ToSet(pool_conn)
      /\ ToSet(pool_conn) \subseteq ToSet(pool_conn') \union {c}
  <2>1. CASE pool_conn' = pool_conn
    BY <2>1 DEF ListUsable, PoolTypeOK
  <2>2. ASSUME NEW i \in DOMAIN pool_conn, pool_conn[i] = c,
               pool_conn' = RemoveAt(pool_conn, i)
        PROVE  /\ pool_conn' \in Seq(Slots) /\ IsInjective(pool_conn')
               /\ ToSet(pool_conn') = ToSet(pool_conn) \ {c}
    BY <2>2, RemoveAtFacts, RemoveList DEF ListUsable, PoolTypeOK
  <2> QED
    BY <2>1, <2>2 DEF FlushRest
<1>1. (ConnTypeOK /\ (pending \in SUBSET Params))'
  BY <1>0 DEF ConnTypeOK
<1>2. PoolTypeOK'
  BY <1>0, <1>c DEF PoolTypeOK
<1>3. WireTypeOK'
  BY <1>0, <1>a DEF WireTypeOK
<1>4. LoopTypeOK'
  BY <1>0, <1>x, <1>b DEF LoopTypeOK
<1>5. OnlyTouches(c)
  BY <1>0, <1>a DEF OnlyTouches
<1>6. \A d \in Slots \ {c} : (Failing(d) => Failing(d)') /\ (Reading(d) =>
   Reading(d)')
  BY <1>x DEF Failing, Reading
<1>7. pool_query_num' + Len(pool_queries') = MaxQuery
  BY <1>0 DEF QueueAccounting
<1>8. ~Failing(c)' => conn_query_num'[c] + Len(conn_queries'[c]) = MaxPipeline
  BY <1>0, <1>x DEF QueueAccounting, Failing
<1>9. phase'[c] = "ready" /\ ~Failing(c)' => Aligned(c)'
  <2>1. Aligned(c) /\ Len(conn_queries[c]) \in Nat
    BY <1>b, <1>x DEF ReplyOrder, Failing, ConnTypeOK
  <2> QED
    BY <1>0, <1>a, <2>1 DEF Aligned, WireTypeOK
<1>10. phase'[c] # "ready" => Blank(c)'
  BY <1>0, <1>b
<1>11. TimerOf(c)'
  BY <1>0, <1>b, <1>x DEF TimerState, TimerOf, Failing, Reading
<1>12. (ReplyOrder /\ BlankUnlessReady /\ TimerState /\ QueueAccounting)'
  BY <1>5, <1>6, <1>7, <1>8, <1>9, <1>10, <1>11, OneConn
<1>13. ConnAccounting'
  BY <1>0 DEF ConnAccounting, Live
<1>14. ListUsable'
  BY <1>0, <1>c DEF ListUsable
<1>15. LoopState'
  BY <1>0, <1>b, <1>x DEF LoopState
<1>16. IterState'
  <2>1. At' = "flush" /\ At = "flush"
    BY <1>x DEF At
  <2> QED
    BY <1>b, <1>c, <2>1 DEF IterState
<1> QED
  BY <1>1, <1>2, <1>3, <1>4, <1>12, <1>13, <1>14, <1>15, <1>16

\* The number of connections to start is known.
LEMMA FlushDoneStep ==
  ASSUME IInv, FlushDone
  PROVE  IInv'
<1> USE PoolAssumption DEF IInv, TypeOK
<1>0. UNCHANGED <<pool_conn, pool_tail, pool_queries, pool_query_num, conn_num,
   process_queries, phase, conn_queries, conn_query_num, flags, timer, server,
   stage, unsent, writing, cur, ret, iter, pending>>
  BY DEF FlushDone, Goto, poolVars, connVars, wireVars, loopVars
<1>1. (PoolTypeOK /\ ConnTypeOK /\ WireTypeOK /\ (pending \in SUBSET Params))'
  BY <1>0 DEF PoolTypeOK, ConnTypeOK, WireTypeOK
<1>2. LoopTypeOK'
  <2>1. MaxConn - conn_num \in Nat
    BY DEF PoolTypeOK
  <2>2. query_num' \in Nat
    BY <2>1 DEF FlushDone, LoopTypeOK
  <2> QED
    BY <1>0, <2>2 DEF FlushDone, Goto, LoopTypeOK
<1>3. (BlankUnlessReady /\ ConnAccounting /\ ListUsable)'
  BY <1>0 DEF BlankUnlessReady, Blank, ConnAccounting, Live, ListUsable
<1>4. QueueAccounting'
  BY <1>0 DEF FlushDone, Goto, QueueAccounting, Failing, PoolTypeOK,
     ConnTypeOK, WireTypeOK, LoopTypeOK
<1>5. ReplyOrder'
  BY <1>0 DEF FlushDone, Goto, ReplyOrder, Aligned, Failing, PoolTypeOK,
     ConnTypeOK, WireTypeOK, LoopTypeOK
<1>6. TimerState'
  BY <1>0 DEF FlushDone, Goto, TimerState, TimerOf, Failing, Reading,
     PoolTypeOK, ConnTypeOK, WireTypeOK, LoopTypeOK
<1>7. LoopState'
  BY <1>0 DEF FlushDone, Goto, LoopState, PoolTypeOK, ConnTypeOK, WireTypeOK,
     LoopTypeOK
<1>8. IterState'
  BY <1>0 DEF FlushDone, Goto, IterState, At, PoolTypeOK, ConnTypeOK,
     WireTypeOK, LoopTypeOK
<1> QED
  BY <1>1, <1>2, <1>3, <1>4, <1>5, <1>6, <1>7, <1>8

\* on_process_queries returns.
LEMMA EndProcessingStep ==
  ASSUME IInv, EndProcessing
  PROVE  IInv'
<1> USE PoolAssumption DEF IInv, TypeOK
<1>0. UNCHANGED <<pool_conn, pool_tail, pool_queries, pool_query_num, conn_num,
   process_queries, phase, conn_queries, conn_query_num, flags, timer, server,
   stage, unsent, writing, cur, ret, iter, pending>>
  BY DEF EndProcessing, Goto, poolVars, connVars, wireVars, loopVars
<1>1. (PoolTypeOK /\ ConnTypeOK /\ WireTypeOK /\ (pending \in SUBSET Params))'
  BY <1>0 DEF PoolTypeOK, ConnTypeOK, WireTypeOK
<1>2. LoopTypeOK'
  BY <1>0 DEF EndProcessing, Goto, LoopTypeOK, PoolTypeOK, ConnTypeOK,
     WireTypeOK
<1>3. (BlankUnlessReady /\ ConnAccounting /\ ListUsable)'
  BY <1>0 DEF BlankUnlessReady, Blank, ConnAccounting, Live, ListUsable
<1>4. QueueAccounting'
  BY <1>0 DEF EndProcessing, Goto, QueueAccounting, Failing, PoolTypeOK,
     ConnTypeOK, WireTypeOK, LoopTypeOK
<1>5. ReplyOrder'
  BY <1>0 DEF EndProcessing, Goto, ReplyOrder, Aligned, Failing, PoolTypeOK,
     ConnTypeOK, WireTypeOK, LoopTypeOK
<1>6. TimerState'
  BY <1>0 DEF EndProcessing, Goto, TimerState, TimerOf, Failing, Reading,
     PoolTypeOK, ConnTypeOK, WireTypeOK, LoopTypeOK
<1>7. LoopState'
  BY <1>0 DEF EndProcessing, Goto, LoopState, PoolTypeOK, ConnTypeOK,
     WireTypeOK, LoopTypeOK
<1>8. IterState'
  BY <1>0 DEF EndProcessing, Goto, IterState, At, PoolTypeOK, ConnTypeOK,
     WireTypeOK, LoopTypeOK
<1> QED
  BY <1>1, <1>2, <1>3, <1>4, <1>5, <1>6, <1>7, <1>8

\* What is left when on_process_queries has taken a connection and a query.
LEMMA SendFacts ==
  ASSUME IInv, Send
  PROVE  /\ pc = "send"
         /\ Head(pool_conn) \in Slots /\ Head(pool_queries) \in Params
         /\ pool_queries' \in Seq(Params) /\ pool_query_num' \in 0..MaxQuery
         /\ pool_query_num' + Len(pool_queries') = MaxQuery
         /\ Tail(pool_conn) \in Seq(Slots) /\ IsInjective(Tail(pool_conn))
         /\ ToSet(pool_conn) = ToSet(Tail(pool_conn)) \union {Head(pool_conn)}
         /\ Head(pool_conn) \notin ToSet(Tail(pool_conn))
         /\ TailAfterPop \in Slots \union {NoConn}
         /\ conn_num' = conn_num /\ process_queries' = process_queries
<1> USE PoolAssumption DEF IInv, TypeOK
<1>1. /\ pc = "send" /\ pool_queries # <<>> /\ pool_conn # <<>>
      /\ pool_queries' = Tail(pool_queries) /\ pool_query_num' = pool_query_num + 1
      /\ conn_num' = conn_num /\ process_queries' = process_queries
  BY DEF Send
<1>2. /\ Head(pool_queries) \in Params /\ Tail(pool_queries) \in Seq(Params)
      /\ Len(pool_queries) \in Nat \ {0}
      /\ Len(Tail(pool_queries)) = Len(pool_queries) - 1
  BY <1>1, HeadTailFacts DEF PoolTypeOK
<1>3. /\ pool_query_num' + Len(pool_queries') = MaxQuery
      /\ pool_query_num' \in 0..MaxQuery
  <2>1. pool_query_num + Len(pool_queries) = MaxQuery /\ pool_query_num \in Nat
    BY DEF QueueAccounting, PoolTypeOK
  <2> QED
    BY <1>1, <1>2, <2>1
<1>4. /\ Head(pool_conn) \in Slots /\ Tail(pool_conn) \in Seq(Slots)
      /\ IsInjective(Tail(pool_conn))
      /\ ToSet(pool_conn) = ToSet(Tail(pool_conn)) \union {Head(pool_conn)}
      /\ Head(pool_conn) \notin ToSet(Tail(pool_conn))
  BY <1>1, HeadTailFacts, TailList DEF PoolTypeOK, ListUsable
<1> QED
  BY <1>1, <1>2, <1>3, <1>4 DEF TailAfterPop, PoolTypeOK

\* A query that cannot be sent.
LEMMA SendFailedStep ==
  ASSUME IInv, Send, NEW c \in Slots, c = Head(pool_conn), SendFailed(c,
     Head(pool_queries))
  PROVE  IInv'
<1> USE PoolAssumption DEF IInv, TypeOK
<1>0. UNCHANGED <<conn_num, process_queries, phase, conn_queries,
   conn_query_num, flags, timer, server, stage, unsent, writing, query_num,
   iter>>
  BY DEF Send, SendFailed, poolVars, connVars, wireVars, loopVars
<1>a. /\ pc = "send"
      /\ pool_queries' \in Seq(Params) /\ pool_query_num' \in 0..MaxQuery
      /\ pool_query_num' + Len(pool_queries') = MaxQuery
      /\ Tail(pool_conn) \in Seq(Slots) /\ IsInjective(Tail(pool_conn))
      /\ ToSet(pool_conn) = ToSet(Tail(pool_conn)) \union {c}
      /\ TailAfterPop \in Slots \union {NoConn}
      /\ conn_num' = conn_num /\ process_queries' = process_queries
  BY SendFacts
<1>b. /\ pc' = "error" /\ cur' = c /\ ret' = "send"
      /\ pool_conn' = Tail(pool_conn) /\ pool_tail' = TailAfterPop
  BY DEF SendFailed, Fail
<1>c. phase[c] = "ready" /\ conn_query_num[c] > 0
  BY <1>a DEF ListUsable
<1>1. (ConnTypeOK /\ WireTypeOK)'
  BY <1>0 DEF ConnTypeOK, WireTypeOK
<1>2. PoolTypeOK'
  BY <1>a, <1>b DEF PoolTypeOK
<1>3. LoopTypeOK'
  BY <1>0, <1>b DEF LoopTypeOK
<1>4. (pending \in SUBSET Params)'
  BY DEF SendFailed
<1>5. OnlyTouches(c)
  BY <1>0 DEF OnlyTouches
<1>6. \A d \in Slots \ {c} : (Failing(d) => Failing(d)') /\ (Reading(d) =>
   Reading(d)')
  BY <1>a DEF Failing, Reading
<1>7. pool_query_num' + Len(pool_queries') = MaxQuery
  BY <1>a
<1>8. ~Failing(c)' => conn_query_num'[c] + Len(conn_queries'[c]) = MaxPipeline
  BY <1>b DEF Failing
<1>9. phase'[c] = "ready" /\ ~Failing(c)' => Aligned(c)'
  BY <1>b DEF Failing
<1>10. phase'[c] # "ready" => Blank(c)'
  BY <1>0, <1>c
<1>11. TimerOf(c)'
  BY <1>0, <1>a, <1>b, <1>c DEF TimerState, TimerOf, Failing
<1>12. (ReplyOrder /\ BlankUnlessReady /\ TimerState /\ QueueAccounting)'
  BY <1>5, <1>6, <1>7, <1>8, <1>9, <1>10, <1>11, OneConn
<1>13. ConnAccounting'
  BY <1>0 DEF ConnAccounting, Live
<1>14. ListUsable'
  BY <1>0, <1>a, <1>b DEF ListUsable
<1>15. LoopState'
  <2>1. c \notin ToSet(iter)
    BY <1>a, <1>c DEF IterState, At
  <2> QED
    BY <1>0, <1>b, <1>c, <2>1 DEF LoopState
<1>16. IterState'
  BY <1>0, <1>a, <1>b DEF IterState, At
<1> QED
  BY <1>1, <1>2, <1>3, <1>4, <1>12, <1>13, <1>14, <1>15, <1>16

\* A query that is sent.
LEMMA SentStep ==
  ASSUME IInv, Send, NEW c \in Slots, c = Head(pool_conn), NEW p \in Params,
     Sent(c, p)
  PROVE  IInv'
<1> USE PoolAssumption DEF IInv, TypeOK
<1>0. UNCHANGED <<conn_num, process_queries, phase, flags, stage, writing, pc,
   cur, ret, pending>>
  BY DEF Send, Sent, DoExecuteQuery, poolVars, connVars, wireVars, loopVars
<1>a. /\ pc = "send"
      /\ pool_queries' \in Seq(Params) /\ pool_query_num' \in 0..MaxQuery
      /\ pool_query_num' + Len(pool_queries') = MaxQuery
      /\ Tail(pool_conn) \in Seq(Slots) /\ IsInjective(Tail(pool_conn))
      /\ ToSet(pool_conn) = ToSet(Tail(pool_conn)) \union {c}
      /\ c \notin ToSet(Tail(pool_conn))
      /\ TailAfterPop \in Slots \union {NoConn}
      /\ conn_num' = conn_num /\ process_queries' = process_queries
  BY SendFacts
<1>b. /\ timer' = [timer EXCEPT ![c] =
                    IF conn_queries[c] = <<>> /\ flags[c] = {} THEN "query" ELSE @]
      /\ conn_queries' = [conn_queries EXCEPT ![c] = Append(@, p)]
      /\ conn_query_num' = [conn_query_num EXCEPT ![c] = @ - 1]
      /\ server' = [server EXCEPT ![c] = Append(@, p)]
      /\ unsent' = [unsent EXCEPT ![c] = @ + 1]
  BY DEF Sent, DoExecuteQuery
<1>c. /\ phase[c] = "ready" /\ conn_query_num[c] > 0
      /\ ~Failing(c) /\ ~Reading(c) /\ Aligned(c)
  BY <1>a DEF ListUsable, Failing, Reading, ReplyOrder
<1>d. /\ pool_conn' \in Seq(Slots) /\ pool_tail' \in Slots \union {NoConn}
      /\ IsInjective(pool_conn') /\ ToSet(pool_conn') \subseteq ToSet(pool_conn)
      /\ c \in ToSet(pool_conn') => conn_query_num[c] > 1
  <2>0. pool_tail' \in Slots \union {NoConn}
    BY <1>a DEF Sent
  <2>1. CASE pool_conn' = Tail(pool_conn)
    BY <1>a, <2>0, <2>1
  <2>2. CASE conn_query_num[c] > 1 /\ pool_conn' = Append(Tail(pool_conn), c)
    <3> DEFINE t == Tail(pool_conn)
    <3>1. /\ t \in Seq(Slots) /\ IsInjective(t) /\ c \notin ToSet(t)
          /\ ToSet(pool_conn) = ToSet(t) \union {c} /\ pool_conn' = Append(t, c)
      BY <1>a, <2>2
    <3> HIDE DEF t
    <3>2. Append(t, c) \in Seq(Slots)
      BY <3>1, AppendFacts
    <3>3. IsInjective(Append(t, c)) /\ ToSet(Append(t, c)) = ToSet(t) \union {c}
      BY <3>1, AppendList
    <3> QED
      BY <2>0, <2>2, <3>1, <3>2, <3>3
  <2> QED
    BY <2>1, <2>2 DEF Sent
<1>e. /\ conn_queries'[c] = Append(conn_queries[c], p)
      /\ server'[c] = Append(server[c], p)
      /\ Append(conn_queries[c], p) \in Seq(Params)
      /\ Append(server[c], p) \in Seq(Params)
      /\ Len(conn_queries'[c]) = Len(conn_queries[c]) + 1
      /\ Len(conn_queries[c]) \in Nat /\ server'[c] # <<>>
  <2>1. conn_queries'[c] = Append(conn_queries[c], p) /\ conn_queries[c] \in Seq(Params)
    BY <1>b DEF ConnTypeOK
  <2>2. server'[c] = Append(server[c], p) /\ server[c] \in Seq(Params)
    BY <1>b DEF WireTypeOK
  <2> QED
    BY <2>1, <2>2, AppendFacts
<1>g. c \notin ToSet(iter)
  BY <1>a, <1>c DEF IterState, At
<1>f. /\ iter' \in Seq(Slots) /\ IsInjective(iter')
      /\ \/ iter' = iter
         \/ ToSet(iter') = ToSet(iter) \union {c} /\ ~(conn_query_num[c] > 1)
  <2>1. CASE iter' = iter
    BY <2>1 DEF LoopTypeOK, IterState
  <2>2. CASE iter' = <<c>> \o iter /\ ~(conn_query_num[c] > 1)
    BY <1>g, <2>2, ConsFacts, ConsList DEF LoopTypeOK, IterState
  <2> QED
    BY <2>1, <2>2 DEF Sent
<1>1. (pending \in SUBSET Params)'
  BY <1>0
<1>2. PoolTypeOK'
  BY <1>a, <1>d DEF PoolTypeOK
<1>3. ConnTypeOK'
  <2>1. conn_queries' \in [Slots -> Seq(Params)]
    BY <1>b, <1>e DEF ConnTypeOK
  <2>2. conn_query_num' \in [Slots -> 0..MaxPipeline]
    <3>1. conn_query_num[c] - 1 \in 0..MaxPipeline
      BY <1>c DEF ConnTypeOK
    <3> QED
      BY <1>b, <3>1 DEF ConnTypeOK
  <2>3. timer' \in [Slots -> {"none", "connect", "query"}]
    BY <1>b DEF ConnTypeOK
  <2> QED
    BY <1>0, <2>1, <2>2, <2>3 DEF ConnTypeOK
<1>4. WireTypeOK'
  <2>1. server' \in [Slots -> Seq(Params)]
    BY <1>b, <1>e DEF WireTypeOK
  <2>2. unsent' \in [Slots -> Nat]
    BY <1>b DEF WireTypeOK
  <2> QED
    BY <1>0, <2>1, <2>2 DEF WireTypeOK
<1>5. LoopTypeOK'
  <2>1. query_num' \in Nat
    BY DEF Sent, LoopTypeOK
  <2> QED
    BY <1>0, <1>f, <2>1 DEF LoopTypeOK
<1>6. OnlyTouches(c)
  BY <1>0, <1>b DEF OnlyTouches, ConnTypeOK, WireTypeOK
<1>7. \A d \in Slots \ {c} : (Failing(d) => Failing(d)') /\ (Reading(d) =>
   Reading(d)')
  BY <1>0 DEF Failing, Reading
<1>8. pool_query_num' + Len(pool_queries') = MaxQuery
  BY <1>a
<1>9. ~Failing(c)' => conn_query_num'[c] + Len(conn_queries'[c]) = MaxPipeline
  <2>1. conn_query_num'[c] = conn_query_num[c] - 1
    BY <1>b DEF ConnTypeOK
  <2>2. conn_query_num[c] + Len(conn_queries[c]) = MaxPipeline
    BY <1>c DEF QueueAccounting
  <2>3. conn_query_num[c] \in Nat
    BY DEF ConnTypeOK
  <2>4. /\ Len(conn_queries'[c]) = Len(conn_queries[c]) + 1
        /\ Len(conn_queries[c]) \in Nat
    BY <1>e
  <2> QED
    BY <2>1, <2>2, <2>3, <2>4
<1>10. phase'[c] = "ready" /\ ~Failing(c)' => Aligned(c)'
  <2>1. server[c] # <<>> => Tail(Append(server[c], p)) = Append(Tail(server[c]), p)
    BY DEF WireTypeOK
  <2>2. conn_queries'[c] = IF flags[c] = {} THEN server'[c] ELSE Tail(server'[c])
    BY <1>c, <1>e, <2>1 DEF Aligned
  <2>3. unsent'[c] <= Len(conn_queries'[c])
    <3>1. unsent'[c] = unsent[c] + 1 /\ unsent[c] \in Nat
      BY <1>b DEF WireTypeOK
    <3>2. unsent[c] <= Len(conn_queries[c])
      BY <1>c DEF Aligned
    <3> QED
      BY <1>e, <3>1, <3>2
  <2> QED
    BY <1>0, <1>c, <1>e, <2>2, <2>3 DEF Aligned
<1>11. phase'[c] # "ready" => Blank(c)'
  BY <1>0, <1>c
<1>12. TimerOf(c)'
  <2>1. timer'[c] = "query"
    <3>1. CASE conn_queries[c] = <<>> /\ flags[c] = {}
      BY <1>b, <3>1 DEF ConnTypeOK
    <3>2. CASE ~(conn_queries[c] = <<>> /\ flags[c] = {})
      <4>1. server[c] # <<>>
        BY <1>c, <3>2 DEF Aligned
      <4>2. timer[c] = "query"
        BY <1>c, <4>1 DEF TimerState, TimerOf
      <4> QED
        BY <1>b, <3>2, <4>2 DEF ConnTypeOK
    <3> QED
      BY <3>1, <3>2
  <2> QED
    BY <1>0, <1>c, <1>e, <2>1 DEF TimerOf
<1>13. (ReplyOrder /\ BlankUnlessReady /\ TimerState /\ QueueAccounting)'
  BY <1>6, <1>7, <1>8, <1>9, <1>10, <1>11, <1>12, OneConn
<1>14. ConnAccounting'
  BY <1>0 DEF ConnAccounting, Live
<1>15. ListUsable'
  <2>1. \A d \in ToSet(pool_conn) : d \in Slots
    BY DEF PoolTypeOK, ToSet
  <2>2. \A d \in Slots : d # c => conn_query_num'[d] = conn_query_num[d]
    BY <1>b DEF ConnTypeOK
  <2>3. conn_query_num[c] > 1 => conn_query_num'[c] > 0
    BY <1>b DEF ConnTypeOK
  <2> QED
    BY <1>0, <1>d, <2>1, <2>2, <2>3 DEF ListUsable
<1>16. LoopState'
  BY <1>0, <1>a DEF LoopState
<1>17. IterState'
  <2>1. \A d \in ToSet(iter) : d \in Slots /\ d # c
    BY <1>g DEF LoopTypeOK, ToSet
  <2>2. \A d \in ToSet(iter') : phase'[d] = "ready" /\ conn_query_num'[d] = 0
    <3>1. \A d \in ToSet(iter) : phase'[d] = "ready" /\ conn_query_num'[d] = 0
      BY <1>0, <1>a, <1>b, <2>1 DEF IterState, At, ConnTypeOK
    <3>2. c \in ToSet(iter') => conn_query_num'[c] = 0
      BY <1>b, <1>c, <1>f, <1>g DEF ConnTypeOK
    <3> QED
      BY <1>0, <1>c, <1>f, <3>1, <3>2
  <2> QED
    BY <1>0, <1>a, <1>f, <2>2 DEF At, IterState
<1> QED
  BY <1>1, <1>2, <1>3, <1>4, <1>5, <1>13, <1>14, <1>15, <1>16, <1>17

-----------------------------------------------------------------------------
(* The inductive invariant.                                                *)

\* The pool that initialize_database_connection_pool sets up.
LEMMA InitIInv ==
  Init => IInv
<1> SUFFICES ASSUME Init PROVE IInv
  OBVIOUS
<1> USE PoolAssumption DEF Init
<1>0. <<>> \in Seq(Slots) /\ <<>> \in Seq(Params) /\ Len(<<>>) = 0
  BY EmptySeq
<1>1. TypeOK
  <2>1. PoolTypeOK
    <3>1. MaxQuery \in 0..MaxQuery /\ MaxConn \in 0..MaxConn
      OBVIOUS
    <3> QED
      BY <1>0, <3>1 DEF PoolTypeOK
  <2>2. ConnTypeOK
    BY <1>0 DEF ConnTypeOK
  <2>3. WireTypeOK
    BY <1>0 DEF WireTypeOK
  <2>4. LoopTypeOK
    BY <1>0 DEF LoopTypeOK
  <2> QED
    BY <2>1, <2>2, <2>3, <2>4 DEF TypeOK
<1>2. QueueAccounting
  BY <1>0 DEF QueueAccounting
<1>3. ConnAccounting
  <2>1. Live = {}
    BY DEF Live
  <2> QED
    BY <2>1, FS_EmptySet DEF ConnAccounting
<1>4. ListUsable /\ LoopState
  BY EmptyList DEF ListUsable, LoopState
<1>5. BlankUnlessReady /\ ReplyOrder
  BY DEF BlankUnlessReady, Blank, ReplyOrder
<1>6. TimerState
  BY DEF TimerState, TimerOf
<1>7. IterState
  BY EmptyList DEF IterState, At
<1> QED
  BY <1>1, <1>2, <1>3, <1>4, <1>5, <1>6, <1>7 DEF IInv

\* Every action keeps the inductive invariant.
LEMMA NextIInv ==
  IInv /\ [Next]_vars => IInv'
<1> SUFFICES ASSUME IInv, [Next]_vars PROVE IInv'
  OBVIOUS
<1>1. ASSUME NEW p \in Params, ExecuteQuery(p) PROVE IInv'
  BY <1>1, ExecuteQueryStep
<1>2. CASE StartProcessing
  BY <1>2, StartProcessingStep
<1>3. CASE DatabaseError
  <2>1. cur \in Slots
    BY <1>3 DEF DatabaseError, IInv, LoopState
  <2> QED
    BY <1>3, <2>1, DatabaseErrorStep
<1>4. CASE Send
  <2>1. Head(pool_conn) \in Slots /\ Head(pool_queries) \in Params
    BY <1>4, SendFacts
  <2>2. CASE Sent(Head(pool_conn), Head(pool_queries))
    BY <1>4, <2>1, <2>2, SentStep
  <2>3. CASE SendFailed(Head(pool_conn), Head(pool_queries))
    BY <1>4, <2>1, <2>3, SendFailedStep
  <2> QED
    BY <1>4, <2>2, <2>3 DEF Send
<1>5. CASE SendDone
  BY <1>5, SendDoneStep
<1>6. CASE FlushFull
  <2>1. Head(iter) \in Slots
    BY <1>6, HeadTailFacts DEF FlushFull, IInv, TypeOK, LoopTypeOK
  <2> QED
    BY <1>6, <2>1, FlushFullStep
<1>7. CASE FlushFullDone
  BY <1>7, FlushFullDoneStep
<1>8. CASE FlushRest
  <2>1. Head(iter) \in Slots
    BY <1>8, HeadTailFacts DEF FlushRest, IInv, TypeOK, LoopTypeOK
  <2> QED
    BY <1>8, <2>1, FlushRestStep
<1>9. CASE FlushDone
  BY <1>9, FlushDoneStep
<1>10. CASE EndProcessing
  BY <1>10, EndProcessingStep
<1>11. ASSUME NEW c \in Slots,
              \/ StartConnect(c) \/ ReadBusy(c) \/ ReadIgnored(c) \/ ReadSync(c)
              \/ ReadDone(c) \/ ReadMore(c) \/ ReadDrained(c)
       PROVE  IInv'
  BY <1>11, StartConnectStep, ReadBusyStep, ReadIgnoredStep, ReadSyncStep,
     ReadDoneStep, ReadMoreStep, ReadDrainedStep
<1>12. ASSUME NEW c \in Slots, PollOK(c) PROVE IInv'
  <2>1. CASE Prepared
    BY <1>12, <2>1, PreparingStep
  <2>2. CASE ~Prepared
    BY <1>12, <2>2, ConnReadyStep DEF PollOK
  <2> QED
    BY <2>1, <2>2
<1>13. ASSUME NEW c \in Slots, ConnectReadReady(c) PROVE IInv'
  BY <1>13, ConnReadyStep DEF ConnectReadReady
<1>14. ASSUME NEW c \in Slots,
              PollError(c) \/ ConnectIOError(c) \/ ConnectTimeout(c)
       PROVE  IInv'
  <2>1. pc = "idle" /\ phase[c] \in {"connecting", "preparing"} /\ ConnectError(c)
    BY <1>14 DEF PollError, ConnectIOError, ConnectTimeout, IInv, TypeOK,
                 ConnTypeOK, TimerState, TimerOf
  <2> QED
    BY <2>1, ConnectErrorStep
<1>15. ASSUME NEW c \in Slots,
              ReadReady(c) \/ WriteReady(c) \/ DatabaseTimeout(c)
       PROVE  IInv'
  BY <1>15, ReadReadyStep, WriteReadyStep, DatabaseTimeoutStep
<1>16. CASE UNCHANGED vars
  <2> USE <1>16 DEF vars, poolVars, connVars, wireVars, loopVars
  <2>1. TypeOK'
    BY DEF IInv, TypeOK, PoolTypeOK, ConnTypeOK, WireTypeOK, LoopTypeOK
  <2>2. (QueueAccounting /\ ConnAccounting /\ ListUsable)'
    BY DEF IInv, QueueAccounting, Failing, ConnAccounting, Live, ListUsable
  <2>3. (BlankUnlessReady /\ ReplyOrder)'
    BY DEF IInv, BlankUnlessReady, Blank, ReplyOrder, Failing, Aligned
  <2>4. (TimerState /\ LoopState /\ IterState)'
    BY DEF IInv, TimerState, TimerOf, Failing, Reading, LoopState, IterState, At
  <2> QED
    BY <2>1, <2>2, <2>3, <2>4 DEF IInv
<1> QED
  BY <1>1, <1>2, <1>3, <1>4, <1>5, <1>6, <1>7, <1>8, <1>9, <1>10, <1>11, <1>12,
     <1>13, <1>14, <1>15, <1>16 DEF Next, Continue

\* IInv holds in every reachable state, whatever the sizes of the pool.
THEOREM Invariance ==
  Spec => []IInv
<1> QED
  BY InitIInv, NextIInv, PTL DEF Spec

\* Every variable keeps its type: in particular no counter of the pool leaves
\* its range.
THEOREM TypeCorrect ==
  Spec => []TypeOK
<1>1. IInv => TypeOK
  BY DEF IInv
<1> QED
  BY <1>1, Invariance, PTL

\* The free places the code counts are the ones its queues have.
THEOREM QueuesAccounted ==
  Spec => []QueueAccounting
<1>1. IInv => QueueAccounting
  BY DEF IInv
<1> QED
  BY <1>1, Invariance, PTL

\* No connection is leaked or made beyond the limit, whatever fails.
THEOREM ConnectionsAccounted ==
  Spec => []ConnAccounting
<1>1. IInv => ConnAccounting
  BY DEF IInv
<1> QED
  BY <1>1, Invariance, PTL

\* The list of connections holds usable ones, each once, also when its tail
\* is stale.
THEOREM ListAlwaysUsable ==
  Spec => []ListUsable
<1>1. IInv => ListUsable
  BY DEF IInv
<1> QED
  BY <1>1, Invariance, PTL

\* Every result goes to the query it answers.
THEOREM RepliesInOrder ==
  Spec => []ReplyOrder
<1>1. IInv => ReplyOrder
  BY DEF IInv
<1> QED
  BY <1>1, Invariance, PTL

\* Between callbacks, a timer is linked exactly while something is owed.
THEOREM TimersCoverWork ==
  Spec => []TimerCoversWork
<1>1. IInv => TimerCoversWork
  <2> SUFFICES ASSUME IInv, pc = "idle", NEW c \in Slots
               PROVE  timer[c] = CASE phase[c] = "free" -> "none"
                         [] phase[c] \in {"connecting", "preparing"} -> "connect"
                         [] phase[c] = "ready" /\ server[c] = <<>> -> "none"
                         [] OTHER -> "query"
    BY DEF TimerCoversWork
  <2>1. TimerOf(c) /\ ~Failing(c) /\ ~Reading(c)
    BY DEF IInv, TimerState, Failing, Reading
  <2>2. phase[c] \in {"free", "connecting", "preparing", "ready"}
    BY DEF IInv, TypeOK, ConnTypeOK
  <2> QED
    BY <2>1, <2>2 DEF TimerOf
<1> QED
  BY <1>1, Invariance, PTL

-----------------------------------------------------------------------------
(***************************************************************************)
(* What becomes of the queries, on top of IInv: whose turn it is to call   *)
(* back (OneOwner), who will send them (FlushPromised), and, for a pool of *)
(* one connection, that it is found again (NoLostConnection).              *)
(***************************************************************************)

-----------------------------------------------------------------------------
(* Owners.                                                                 *)

\* The queries of the connections other than c.
Others(c) == UNION {ToSet(conn_queries[d]) : d \in Slots \ {c}}

\* The queries are those of the pool, those of c and those of the others.
LEMMA OwnersApart ==
  ASSUME OneOwner, NEW c \in Slots
  PROVE  /\ pending = ToSet(pool_queries) \union ToSet(conn_queries[c]) \union Others(c)
         /\ ToSet(pool_queries) \intersect ToSet(conn_queries[c]) = {}
         /\ ToSet(pool_queries) \intersect Others(c) = {}
         /\ ToSet(conn_queries[c]) \intersect Others(c) = {}
         /\ IsInjective(pool_queries) /\ IsInjective(conn_queries[c])
<1>1. UNION {ToSet(conn_queries[d]) : d \in Slots} = ToSet(conn_queries[c]) \union Others(c)
  BY DEF Others
<1> QED
  BY <1>1 DEF OneOwner, Others

\* A step that touches the pool's queue and the one of c.
LEMMA OwnersJoin ==
  ASSUME OneOwner, NEW c \in Slots,
         \A d \in Slots \ {c} : conn_queries'[d] = conn_queries[d],
         IsInjective(pool_queries'), IsInjective(conn_queries'[c]),
         ToSet(pool_queries') \intersect ToSet(conn_queries'[c]) = {},
         (ToSet(pool_queries') \union ToSet(conn_queries'[c])) \intersect Others(c) = {},
         pending' = ToSet(pool_queries') \union ToSet(conn_queries'[c]) \union Others(c)
  PROVE  OneOwner'
<1>1. UNION {ToSet(conn_queries'[d]) : d \in Slots} = ToSet(conn_queries'[c]) \union Others(c)
  BY DEF Others
<1>2. \A d \in Slots \ {c} : ToSet(conn_queries[d]) \subseteq Others(c)
  BY DEF Others
<1>3. pending' = ToSet(pool_queries') \union UNION {ToSet(conn_queries'[d]) : d \in Slots}
  BY <1>1
<1>4. ASSUME NEW d \in Slots
      PROVE  /\ IsInjective(conn_queries'[d])
             /\ ToSet(conn_queries'[d]) \intersect ToSet(pool_queries') = {}
  <2>1. CASE d = c
    BY <2>1
  <2>2. CASE d # c
    BY <1>2, <2>2 DEF OneOwner
  <2> QED
    BY <2>1, <2>2
<1>5. ASSUME NEW d \in Slots, NEW e \in Slots \ {d}
      PROVE  ToSet(conn_queries'[d]) \intersect ToSet(conn_queries'[e]) = {}
  <2>1. CASE d = c
    BY <1>2, <2>1
  <2>2. CASE e = c
    BY <1>2, <2>2
  <2>3. CASE d # c /\ e # c
    BY <2>3 DEF OneOwner
  <2> QED
    BY <2>1, <2>2, <2>3
<1> QED
  BY <1>3, <1>4, <1>5 DEF OneOwner

\* A step that leaves the queues and the callers alone.
LEMMA OwnersStay ==
  ASSUME OneOwner, UNCHANGED <<pool_queries, conn_queries, pending>>
  PROVE  OneOwner'
  BY DEF OneOwner

\* execute_database_query
LEMMA ExecuteQueryOwner ==
  ASSUME IInv, OneOwner, NEW p \in Params, ExecuteQuery(p)
  PROVE  OneOwner'
<1>1. /\ p \notin pending /\ pool_queries' = Append(pool_queries, p)
      /\ pending' = pending \union {p} /\ conn_queries' = conn_queries
  BY DEF ExecuteQuery, connVars
<1>2. pool_queries \in Seq(Params)
  BY DEF IInv, TypeOK, PoolTypeOK
<1>3. p \notin ToSet(pool_queries) /\ \A c \in Slots : p \notin ToSet(conn_queries[c])
  BY <1>1 DEF OneOwner
<1>4. ToSet(pool_queries') = ToSet(pool_queries) \union {p} /\ IsInjective(pool_queries')
  BY <1>1, <1>2, <1>3, AppendList DEF OneOwner
<1>5. pending' = ToSet(pool_queries') \union UNION {ToSet(conn_queries'[c]) : c \in Slots}
  BY <1>1, <1>4 DEF OneOwner
<1> QED
  BY <1>1, <1>3, <1>4, <1>5 DEF OneOwner

\* Every query of c had its callback, and error_notification runs: either the
\* queries of the pool wait on, or they have had their callbacks too.
LEMMA NotifiedOwner ==
  ASSUME OneOwner, NEW c \in Slots, NEW n,
         \A d \in Slots \ {c} : conn_queries'[d] = conn_queries[d],
         conn_queries'[c] = <<>>, NEW answered, answered = ToSet(conn_queries[c]),
         \/ ErrorNotification(n, answered)
         \/ pending' = pending \ answered /\ UNCHANGED pool_queries
  PROVE  OneOwner'
<1>1. /\ pending = ToSet(pool_queries) \union ToSet(conn_queries[c]) \union Others(c)
      /\ ToSet(pool_queries) \intersect ToSet(conn_queries[c]) = {}
      /\ ToSet(pool_queries) \intersect Others(c) = {}
      /\ ToSet(conn_queries[c]) \intersect Others(c) = {}
      /\ IsInjective(pool_queries)
  BY OwnersApart
<1>2. ToSet(conn_queries'[c]) = {} /\ IsInjective(conn_queries'[c])
  BY EmptyList
<1>3. \/ pool_queries' = <<>> /\ pending' = (pending \ answered) \ ToSet(pool_queries)
      \/ pool_queries' = pool_queries /\ pending' = pending \ answered
  BY DEF ErrorNotification
<1>4. /\ IsInjective(pool_queries') /\ ToSet(pool_queries') \subseteq ToSet(pool_queries)
      /\ pending' = ToSet(pool_queries') \union Others(c)
  <2>1. CASE pool_queries' = <<>> /\ pending' = (pending \ answered) \ ToSet(pool_queries)
    BY <1>1, <2>1, EmptyList
  <2>2. CASE pool_queries' = pool_queries /\ pending' = pending \ answered
    BY <1>1, <2>2
  <2> QED
    BY <1>3, <2>1, <2>2
<1> QED
  BY <1>1, <1>2, <1>4, OwnersJoin

\* A connection attempt that is given up had no queries.
LEMMA ConnectErrorOwner ==
  ASSUME IInv, OneOwner, NEW c \in Slots, phase[c] # "ready", NEW n, ErrorNotification(n, {}),
         conn_queries' = [conn_queries EXCEPT ![c] = <<>>]
  PROVE  OneOwner'
<1>1. conn_queries[c] = <<>> /\ conn_queries \in [Slots -> Seq(Params)]
  BY DEF IInv, BlankUnlessReady, Blank, TypeOK, ConnTypeOK
<1>2. conn_queries'[c] = <<>> /\ \A d \in Slots \ {c} : conn_queries'[d] = conn_queries[d]
  BY <1>1
<1>3. {} = ToSet(conn_queries[c])
  BY <1>1, EmptyList
<1> QED
  BY <1>2, <1>3, NotifiedOwner

\* A connection is started, or cannot be: then waiting queries may be answered.
LEMMA StartConnectOwner ==
  ASSUME IInv, OneOwner, NEW c \in Slots, StartConnect(c)
  PROVE  OneOwner'
<1>1. phase[c] # "ready" /\ conn_queries' = [conn_queries EXCEPT ![c] = <<>>]
  BY DEF StartConnect, ResetConn
<1>2. CASE ErrorNotification(conn_num - 1, {})
  BY <1>1, <1>2, ConnectErrorOwner
<1>3. CASE UNCHANGED <<pool_queries, pool_query_num, pending>>
  <2>1. conn_queries[c] = <<>> /\ conn_queries \in [Slots -> Seq(Params)]
    BY <1>1 DEF IInv, BlankUnlessReady, Blank, TypeOK, ConnTypeOK
  <2>2. conn_queries' = conn_queries
    BY <1>1, <2>1
  <2> QED
    BY <1>3, <2>2, OwnersStay
<1> QED
  BY <1>2, <1>3 DEF StartConnect

\* on_database_error
LEMMA DatabaseErrorOwner ==
  ASSUME IInv, OneOwner, DatabaseError
  PROVE  OneOwner'
<1>1. cur \in Slots /\ conn_queries \in [Slots -> Seq(Params)]
  BY DEF DatabaseError, IInv, LoopState, TypeOK, ConnTypeOK
<1>2. conn_queries' = [conn_queries EXCEPT ![cur] = <<>>]
  BY DEF DatabaseError, ResetConn
<1>3. conn_queries'[cur] = <<>> /\ \A d \in Slots \ {cur} : conn_queries'[d] = conn_queries[d]
  BY <1>1, <1>2
<1>4. \/ ErrorNotification(conn_num, ToSet(conn_queries[cur]))
      \/ pending' = pending \ ToSet(conn_queries[cur]) /\ UNCHANGED pool_queries
  BY DEF DatabaseError
<1> QED
  BY <1>1, <1>3, <1>4, NotifiedOwner

\* The first query of c had its callback, and next is submitted.
LEMMA PoppedOwner ==
  ASSUME IInv, OneOwner, NEW c \in Slots, conn_queries[c] # <<>>,
         conn_queries' = [conn_queries EXCEPT ![c] = Tail(@)],
         NEW p, p = Head(conn_queries[c]),
         \/ pool_queries' = pool_queries /\ pending' = pending \ {p}
         \/ \E q \in (Params \ pending) \union {p} :
              /\ pool_queries' = Append(pool_queries, q)
              /\ pending' = (pending \ {p}) \union {q}
  PROVE  OneOwner'
<1>1. /\ conn_queries \in [Slots -> Seq(Params)] /\ conn_queries[c] \in Seq(Params)
      /\ pool_queries \in Seq(Params)
  BY DEF IInv, TypeOK, ConnTypeOK, PoolTypeOK
<1>2. /\ conn_queries'[c] = Tail(conn_queries[c])
      /\ \A d \in Slots \ {c} : conn_queries'[d] = conn_queries[d]
  BY <1>1
<1>3. /\ pending = ToSet(pool_queries) \union ToSet(conn_queries[c]) \union Others(c)
      /\ ToSet(pool_queries) \intersect ToSet(conn_queries[c]) = {}
      /\ ToSet(pool_queries) \intersect Others(c) = {}
      /\ ToSet(conn_queries[c]) \intersect Others(c) = {}
      /\ IsInjective(pool_queries) /\ IsInjective(conn_queries[c])
  BY OwnersApart
<1>4. /\ ToSet(conn_queries[c]) = ToSet(conn_queries'[c]) \union {p}
      /\ IsInjective(conn_queries'[c]) /\ p \notin ToSet(conn_queries'[c]) /\ p \in Params
  BY <1>1, <1>2, <1>3, TailList, HeadTailFacts
<1>5. CASE pool_queries' = pool_queries /\ pending' = pending \ {p}
  <2>1. pending' = ToSet(pool_queries') \union ToSet(conn_queries'[c]) \union Others(c)
    BY <1>3, <1>4, <1>5
  <2> QED
    BY <1>2, <1>3, <1>4, <1>5, <2>1, OwnersJoin
<1>6. ASSUME NEW q \in (Params \ pending) \union {p},
             pool_queries' = Append(pool_queries, q), pending' = (pending \ {p}) \union {q}
      PROVE  OneOwner'
  <2>1. q \in Params /\ q \notin ToSet(pool_queries) \union ToSet(conn_queries'[c]) \union Others(c)
    BY <1>3, <1>4
  <2>2. ToSet(pool_queries') = ToSet(pool_queries) \union {q} /\ IsInjective(pool_queries')
    BY <1>1, <1>3, <1>6, <2>1, AppendList
  <2>3. pending' = ToSet(pool_queries') \union ToSet(conn_queries'[c]) \union Others(c)
    BY <1>3, <1>4, <1>6, <2>2
  <2>4. /\ ToSet(pool_queries') \intersect ToSet(conn_queries'[c]) = {}
        /\ (ToSet(pool_queries') \union ToSet(conn_queries'[c])) \intersect Others(c) = {}
    BY <1>3, <1>4, <2>1, <2>2
  <2> QED
    BY <1>2, <1>4, <2>2, <2>3, <2>4, OwnersJoin
<1> QED
  BY <1>5, <1>6

\* A query is done, and its callback may submit it, or another one, at once.
LEMMA ReadDoneOwner ==
  ASSUME IInv, OneOwner, NEW c \in Slots, ReadDone(c)
  PROVE  OneOwner'
<1> DEFINE p == Head(conn_queries[c])
<1>1. conn_queries[c] # <<>> /\ conn_queries' = [conn_queries EXCEPT ![c] = Tail(@)]
  BY DEF ReadDone
<1>2. PICK next \in Resubmission(p) :
         /\ pool_queries' = pool_queries \o next
         /\ pending' = (pending \ {p}) \union ToSet(next)
  BY DEF ReadDone
<1>3. pool_queries \in Seq(Params)
  BY DEF IInv, TypeOK, PoolTypeOK
<1>4. next = <<>> \/ \E q \in (Params \ pending) \union {p} : next = <<q>>
  BY <1>2 DEF Resubmission
<1> HIDE DEF p
<1>5. CASE next = <<>>
  <2>1. pool_queries' = pool_queries /\ pending' = pending \ {p}
    BY <1>2, <1>3, <1>5, ConcatEmptySeq, EmptyList
  <2> QED
    BY <1>1, <2>1, PoppedOwner DEF p
<1>6. ASSUME NEW q \in (Params \ pending) \union {p}, next = <<q>>
      PROVE  OneOwner'
  <2>1. ToSet(next) = {q}
    BY <1>6 DEF ToSet
  <2>2. pool_queries' = Append(pool_queries, q)
    BY <1>2, <1>3, <1>6
  <2>3. \E x \in (Params \ pending) \union {p} :
          /\ pool_queries' = Append(pool_queries, x)
          /\ pending' = (pending \ {p}) \union {x}
    BY <1>2, <2>1, <2>2
  <2> QED
    BY <1>1, <2>3, PoppedOwner DEF p
<1> QED
  BY <1>4, <1>5, <1>6

\* The oldest query gets on_timeout.
LEMMA DatabaseTimeoutOwner ==
  ASSUME IInv, OneOwner, NEW c \in Slots, DatabaseTimeout(c)
  PROVE  OneOwner'
<1>1. CASE conn_queries[c] # <<>>
  <2>1. /\ conn_queries' = [conn_queries EXCEPT ![c] = Tail(@)]
        /\ pending' = pending \ {Head(conn_queries[c])} /\ pool_queries' = pool_queries
    BY <1>1 DEF DatabaseTimeout, poolVars
  <2> QED
    BY <1>1, <2>1, PoppedOwner
<1>2. CASE conn_queries[c] = <<>>
  BY <1>2, OwnersStay DEF DatabaseTimeout, poolVars
<1> QED
  BY <1>1, <1>2

\* The first query of the pool goes to a connection, or gets on_error.
LEMMA SendOwner ==
  ASSUME IInv, OneOwner, Send
  PROVE  OneOwner'
<1> DEFINE c == Head(pool_conn)
           p == Head(pool_queries)
<1>1. c \in Slots /\ p \in Params
  BY SendFacts
<1>2. /\ pool_queries # <<>> /\ pool_queries' = Tail(pool_queries)
      /\ Sent(c, p) \/ SendFailed(c, p)
  BY DEF Send
<1>3. /\ conn_queries \in [Slots -> Seq(Params)] /\ pool_queries \in Seq(Params)
  BY DEF IInv, TypeOK, ConnTypeOK, PoolTypeOK
<1> HIDE DEF c
<1>4. /\ pending = ToSet(pool_queries) \union ToSet(conn_queries[c]) \union Others(c)
      /\ ToSet(pool_queries) \intersect ToSet(conn_queries[c]) = {}
      /\ ToSet(pool_queries) \intersect Others(c) = {}
      /\ ToSet(conn_queries[c]) \intersect Others(c) = {}
      /\ IsInjective(pool_queries) /\ IsInjective(conn_queries[c])
  BY <1>1, OwnersApart
<1>5. /\ ToSet(pool_queries) = ToSet(pool_queries') \union {p}
      /\ IsInjective(pool_queries') /\ p \notin ToSet(pool_queries')
  BY <1>2, <1>3, <1>4, TailList
<1> HIDE DEF p
<1>6. CASE Sent(c, p)
  <2>1. conn_queries' = [conn_queries EXCEPT ![c] = Append(@, p)] /\ pending' = pending
    BY <1>6 DEF Sent, DoExecuteQuery
  <2>2. /\ conn_queries'[c] = Append(conn_queries[c], p)
        /\ \A d \in Slots \ {c} : conn_queries'[d] = conn_queries[d]
    BY <1>1, <1>3, <2>1
  <2>3. ToSet(conn_queries'[c]) = ToSet(conn_queries[c]) \union {p} /\ IsInjective(conn_queries'[c])
    BY <1>1, <1>3, <1>4, <1>5, <2>2, AppendList
  <2>4. /\ ToSet(pool_queries') \intersect ToSet(conn_queries'[c]) = {}
        /\ (ToSet(pool_queries') \union ToSet(conn_queries'[c])) \intersect Others(c) = {}
        /\ pending' = ToSet(pool_queries') \union ToSet(conn_queries'[c]) \union Others(c)
    BY <1>4, <1>5, <2>1, <2>3
  <2> QED
    BY <1>1, <1>5, <2>2, <2>3, <2>4, OwnersJoin
<1>7. CASE SendFailed(c, p)
  <2>1. conn_queries' = conn_queries /\ pending' = pending \ {p}
    BY <1>7 DEF SendFailed, connVars
  <2>2. /\ ToSet(pool_queries') \intersect ToSet(conn_queries'[c]) = {}
        /\ (ToSet(pool_queries') \union ToSet(conn_queries'[c])) \intersect Others(c) = {}
        /\ pending' = ToSet(pool_queries') \union ToSet(conn_queries'[c]) \union Others(c)
    BY <1>4, <1>5, <2>1
  <2> QED
    BY <1>1, <1>4, <1>5, <2>1, <2>2, OwnersJoin
<1> QED
  BY <1>2, <1>6, <1>7

\* Every step keeps the owners.
LEMMA NextOwner ==
  IInv /\ OneOwner /\ [Next]_vars => OneOwner'
<1> SUFFICES ASSUME IInv, OneOwner, [Next]_vars PROVE OneOwner'
  OBVIOUS
<1>1. ASSUME NEW p \in Params, ExecuteQuery(p) PROVE OneOwner'
  BY <1>1, ExecuteQueryOwner
<1>2. CASE DatabaseError
  BY <1>2, DatabaseErrorOwner
<1>3. CASE Send
  BY <1>3, SendOwner
<1>4. CASE \/ StartProcessing \/ SendDone \/ FlushFull \/ FlushFullDone \/ FlushRest
           \/ FlushDone \/ EndProcessing
  <2>1. UNCHANGED <<pool_queries, conn_queries, pending>>
    BY <1>4 DEF StartProcessing, SendDone, FlushFull, FlushFullDone, FlushRest, FlushDone,
                EndProcessing, poolVars, connVars
  <2> QED
    BY <2>1, OwnersStay
<1>5. ASSUME NEW c \in Slots, StartConnect(c) PROVE OneOwner'
  BY <1>5, StartConnectOwner
<1>6. ASSUME NEW c \in Slots, ReadDone(c) PROVE OneOwner'
  BY <1>6, ReadDoneOwner
<1>7. ASSUME NEW c \in Slots, DatabaseTimeout(c) PROVE OneOwner'
  BY <1>7, DatabaseTimeoutOwner
<1>8. ASSUME NEW c \in Slots, PollError(c) \/ ConnectIOError(c) \/ ConnectTimeout(c)
      PROVE  OneOwner'
  <2>1. phase[c] # "ready" /\ ConnectError(c)
    BY <1>8 DEF PollError, ConnectIOError, ConnectTimeout, IInv, TimerState, TimerOf
  <2>2. /\ ErrorNotification(conn_num, {})
        /\ conn_queries' = [conn_queries EXCEPT ![c] = <<>>]
    BY <2>1 DEF ConnectError, ResetConn
  <2> QED
    BY <2>1, <2>2, ConnectErrorOwner
<1>9. ASSUME NEW c \in Slots,
             \/ PollOK(c) \/ ConnectReadReady(c) \/ ReadReady(c) \/ WriteReady(c)
             \/ ReadBusy(c) \/ ReadIgnored(c) \/ ReadSync(c) \/ ReadMore(c) \/ ReadDrained(c)
      PROVE  OneOwner'
  <2>1. UNCHANGED <<pool_queries, conn_queries, pending>>
    BY <1>9 DEF PollOK, ConnectReadReady, ConnReady, ReadReady, WriteReady, ReadBusy,
                ReadIgnored, ReadSync, ReadMore, ReadDrained, FinishRead, poolVars, connVars
  <2> QED
    BY <2>1, OwnersStay
<1>10. CASE UNCHANGED vars
  BY <1>10, OwnersStay DEF vars, poolVars, connVars
<1> QED
  BY <1>1, <1>2, <1>3, <1>4, <1>5, <1>6, <1>7, <1>8, <1>9, <1>10 DEF Next, Continue

\* At first there are no queries.
LEMMA InitOwner ==
  Init => OneOwner
<1> SUFFICES ASSUME Init PROVE OneOwner
  OBVIOUS
<1>1. /\ ToSet(pool_queries) = {} /\ IsInjective(pool_queries) /\ pending = {}
      /\ \A c \in Slots : ToSet(conn_queries[c]) = {} /\ IsInjective(conn_queries[c])
  BY EmptyList DEF Init
<1> QED
  BY <1>1 DEF OneOwner

\* A query whose caller waits is in exactly one queue, once, and a queued query
\* has a waiting caller (OneOwner): no callback of execute_database_query is
\* lost or runs twice, whatever times out, fails or is submitted again.
THEOREM QueriesHaveOneOwner ==
  Spec => []OneOwner
  BY InitOwner, NextOwner, Invariance, PTL DEF Spec

-----------------------------------------------------------------------------
(* Queries in libpq's buffer.                                              *)

\* Somebody will flush what is in the buffer of c: a write notification, or
\* on_process_queries, which goes on now or when on_database_error returns,
\* unless c is torn down or was lost.
Promised(c) ==
    unsent[c] > 0 =>
        \/ c \in writing \/ Lost(c) \/ Failing(c) \/ c \in ToSet(iter)
        \/ At \in {"send", "flushfull"} /\ c \in ToSet(pool_conn)

\* What on_database_read_ready leaves in the buffer waits for a notification,
\* although c may go back on the list meanwhile.
ReadPromised(c) == Reading(c) /\ unsent[c] > 0 => c \in writing

Promises == \A c \in Slots : Promised(c) /\ ReadPromised(c)

\* What a promise rests on is still there.
LEMMA PromiseKept ==
  ASSUME NEW d, Promised(d), ReadPromised(d), unsent'[d] = unsent[d],
         d \in writing => d \in writing', Lost(d) => Lost(d)', Failing(d) => Failing(d)',
         d \in ToSet(iter) => d \in ToSet(iter)',
         At \in {"send", "flushfull"} /\ d \in ToSet(pool_conn) =>
            At' \in {"send", "flushfull"} /\ d \in ToSet(pool_conn)',
         Reading(d)' => Reading(d)
  PROVE  Promised(d)' /\ ReadPromised(d)'
  BY DEF Promised, ReadPromised

\* A connection with nothing to write needs no promise.
LEMMA NothingPromised ==
  ASSUME NEW c \in Slots, unsent'[c] = 0
  PROVE  Promised(c)' /\ ReadPromised(c)'
  BY DEF Promised, ReadPromised

\* The step leaves the buffers and the lists alone, and the callback that runs.
LEMMA PromisesStay ==
  ASSUME Promises, UNCHANGED <<unsent, writing, phase, pool_conn, iter>>,
         \A d \in Slots : (conn_query_num[d] > 0 => conn_query_num'[d] > 0),
         \A d \in Slots : Failing(d) => Failing(d)',
         \A d \in Slots : Reading(d)' => Reading(d),
         At \in {"send", "flushfull"} => At' \in {"send", "flushfull"}
  PROVE  Promises'
<1> SUFFICES ASSUME NEW d \in Slots PROVE Promised(d)' /\ ReadPromised(d)'
  BY DEF Promises
<1>1. Lost(d) => Lost(d)'
  BY DEF Lost
<1>2. Promised(d) /\ ReadPromised(d)
  BY DEF Promises
<1> QED
  BY <1>1, <1>2, PromiseKept

\* A connection is started, reset or freed.
LEMMA ResetPromises ==
  ASSUME IInv, Promises, NEW c \in Slots, NEW ph, NEW tm, ResetConn(c, ph, tm),
         \A d \in Slots \ {c} : d \in ToSet(pool_conn)' <=> d \in ToSet(pool_conn),
         iter' = iter, At' = At, ~Reading(c)', \A d \in Slots : ~Failing(d)' /\ ~Reading(d)',
         \A d \in Slots \ {c} : ~Failing(d)
  PROVE  Promises'
<1> SUFFICES ASSUME NEW d \in Slots PROVE Promised(d)' /\ ReadPromised(d)'
  BY DEF Promises
<1>1. /\ unsent \in [Slots -> Nat] /\ phase \in [Slots -> {"free", "connecting", "preparing", "ready"}]
      /\ conn_query_num \in [Slots -> 0..MaxPipeline]
  BY DEF IInv, TypeOK, WireTypeOK, ConnTypeOK
<1>2. /\ unsent' = [unsent EXCEPT ![c] = 0] /\ phase' = [phase EXCEPT ![c] = ph]
      /\ conn_query_num' = [conn_query_num EXCEPT ![c] = MaxPipeline]
      /\ writing' = writing \ {c}
  BY DEF ResetConn
<1>3. CASE d = c
  BY <1>1, <1>2, <1>3, NothingPromised
<1>4. CASE d # c
  <2>1. /\ unsent'[d] = unsent[d] /\ phase'[d] = phase[d]
        /\ conn_query_num'[d] = conn_query_num[d] /\ (d \in writing => d \in writing')
    BY <1>1, <1>2, <1>4
  <2>2. Lost(d) => Lost(d)'
    BY <1>4, <2>1 DEF Lost
  <2>3. Promised(d) /\ ReadPromised(d)
    BY DEF Promises
  <2> QED
    BY <1>4, <2>1, <2>2, <2>3, PromiseKept
<1> QED
  BY <1>3, <1>4

\* The connection c is flushed, or on_database_error runs for it.
LEMMA FlushPromises ==
  ASSUME IInv, Promises, NEW c \in Slots,
         unsent'[c] = 0 \/ c \in writing' \/ Failing(c)',
         \A d \in Slots \ {c} : unsent'[d] = unsent[d] /\ (d \in writing => d \in writing'),
         UNCHANGED <<phase, conn_query_num>>,
         \A d \in Slots \ {c} : d \in ToSet(pool_conn)' <=> d \in ToSet(pool_conn),
         \A d \in Slots \ {c} : d \in ToSet(iter) => d \in ToSet(iter)',
         At' = At \/ (At = "idle" /\ At' \in {"idle", "read", "readfull"}),
         pc # "error", \A d \in Slots \ {c} : ~Reading(d)'
  PROVE  Promises'
<1> SUFFICES ASSUME NEW d \in Slots PROVE Promised(d)' /\ ReadPromised(d)'
  BY DEF Promises
<1>1. CASE d = c
  BY <1>1 DEF Promised, ReadPromised, Failing, Reading
<1>2. CASE d # c
  <2>1. Lost(d) => Lost(d)'
    BY <1>2 DEF Lost
  <2>2. Promised(d) /\ ReadPromised(d) /\ ~Failing(d)
    BY DEF Promises, Failing
  <2> QED
    BY <1>2, <2>1, <2>2, PromiseKept
<1> QED
  BY <1>1, <1>2

\* flush_connection writes everything or asks for a write notification.
LEMMA FlushedPromise ==
  ASSUME IInv, NEW c \in Slots, Flushed(c)
  PROVE  /\ unsent'[c] = 0 \/ c \in writing'
         /\ \A d \in Slots \ {c} : unsent'[d] = unsent[d] /\ (d \in writing => d \in writing')
<1>1. unsent \in [Slots -> Nat] /\ writing \in SUBSET Slots
  BY DEF IInv, TypeOK, WireTypeOK
<1> QED
  BY <1>1 DEF Flushed

\* A usable connection is put on the list: all it has in its buffer waits for a
\* notification.
LEMMA AppendPromises ==
  ASSUME IInv, Promises, NEW c \in Slots, unsent[c] > 0 => c \in writing,
         AppendConn(c) \/ UNCHANGED pool_conn,
         UNCHANGED <<unsent, writing, conn_query_num, iter>>,
         \A d \in Slots \ {c} : phase'[d] = phase[d],
         At \in {"idle", "read", "readfull"}, pc # "error", \A d \in Slots : ~Reading(d)'
  PROVE  Promises'
<1> SUFFICES ASSUME NEW d \in Slots PROVE Promised(d)' /\ ReadPromised(d)'
  BY DEF Promises
<1>1. CASE d = c
  BY <1>1 DEF Promised, ReadPromised
<1>2. CASE d # c
  <2>1. d \in ToSet(pool_conn)' <=> d \in ToSet(pool_conn)
    <3>1. pool_conn \in Seq(Slots)
      BY DEF IInv, TypeOK, PoolTypeOK
    <3>2. pool_conn' = pool_conn \/ pool_conn' = Append(pool_conn, c)
      BY DEF AppendConn
    <3>3. CASE pool_conn' = Append(pool_conn, c)
      BY <1>2, <3>1, <3>3, AppendList
    <3> QED
      BY <3>2, <3>3
  <2>2. Lost(d) => Lost(d)'
    BY <1>2, <2>1 DEF Lost
  <2>3. Promised(d) /\ ReadPromised(d) /\ ~Failing(d)
    BY DEF Promises, Failing
  <2> QED
    BY <1>2, <2>1, <2>2, <2>3, PromiseKept
<1> QED
  BY <1>1, <1>2

\* Steps of the callbacks that send nothing and flush nothing.
LEMMA QuietPromises ==
  ASSUME IInv, Promises,
         \/ \E p \in Params : ExecuteQuery(p)
         \/ StartProcessing \/ SendDone \/ FlushDone \/ EndProcessing
         \/ \E c \in Slots : \/ ReadIgnored(c) \/ ReadSync(c) \/ ReadMore(c) \/ ReadDone(c)
                             \/ DatabaseTimeout(c)
         \/ UNCHANGED vars
  PROVE  Promises'
<1> USE DEF vars, poolVars, connVars, wireVars, loopVars
<1>1. CASE UNCHANGED vars
  BY <1>1, PromisesStay DEF Failing, Reading, At
<1>2. CASE \E p \in Params : ExecuteQuery(p)
  BY <1>2, PromisesStay DEF ExecuteQuery, Failing, Reading, At
<1>3. CASE StartProcessing
  <2>1. iter = <<>>
    BY <1>3 DEF StartProcessing, IInv, IterState, At
  <2> QED
    BY <1>3, <2>1, PromisesStay DEF StartProcessing, Failing, Reading, At
<1>4. CASE SendDone \/ FlushDone \/ EndProcessing
  BY <1>4, PromisesStay DEF SendDone, FlushDone, EndProcessing, Goto, Failing, Reading, At
<1>5. ASSUME NEW c \in Slots, ReadIgnored(c) \/ ReadMore(c)
      PROVE  Promises'
  BY <1>5, PromisesStay DEF ReadIgnored, ReadMore, Failing, Reading, At
<1>6. ASSUME NEW c \in Slots, ReadSync(c)
      PROVE  Promises'
  BY <1>6, PromisesStay DEF ReadSync, Fail, Failing, Reading, At
<1>7. ASSUME NEW c \in Slots, DatabaseTimeout(c)
      PROVE  Promises'
  BY <1>7, PromisesStay DEF DatabaseTimeout, Fail, Failing, Reading, At
<1>8. ASSUME NEW c \in Slots, ReadDone(c)
      PROVE  Promises'
  <2>1. /\ conn_query_num \in [Slots -> 0..MaxPipeline] /\ MaxPipeline \in Nat
        /\ conn_query_num' = [conn_query_num EXCEPT ![c] = @ + 1]
    BY <1>8, PoolAssumption DEF ReadDone, IInv, TypeOK, ConnTypeOK
  <2>2. \A d \in Slots : conn_query_num[d] > 0 => conn_query_num'[d] > 0
    BY <2>1
  <2> QED
    BY <1>8, <2>2, PromisesStay DEF ReadDone, Failing, Reading, At
<1> QED
  BY <1>1, <1>2, <1>3, <1>4, <1>5, <1>6, <1>7, <1>8

\* A connection is reset, given up, started, or cannot be started.
LEMMA ResetStepPromises ==
  ASSUME IInv, Promises,
         \/ DatabaseError
         \/ \E c \in Slots : StartConnect(c)
         \/ \E c \in Slots : PollError(c) \/ ConnectIOError(c) \/ ConnectTimeout(c)
  PROVE  Promises'
<1>1. CASE DatabaseError
  <2>1. cur \in Slots /\ ret \in {"idle", "send", "flushfull", "flush"}
    BY <1>1 DEF DatabaseError, IInv, LoopState, TypeOK, LoopTypeOK
  <2>2. \A d \in Slots \ {cur} : d \in ToSet(pool_conn)' <=> d \in ToSet(pool_conn)
    BY <1>1, <2>1, RemoveConnFacts DEF DatabaseError, IInv, TypeOK, ListUsable
  <2>3. ResetConn(cur, "connecting", "connect") \/ ResetConn(cur, "free", "none")
    BY <1>1 DEF DatabaseError
  <2>4. iter' = iter /\ At' = At
    BY <1>1, <2>1 DEF DatabaseError, At
  <2>5. \A d \in Slots : ~Failing(d)' /\ ~Reading(d)'
    BY <1>1, <2>1 DEF DatabaseError, Failing, Reading
  <2>6. \A d \in Slots \ {cur} : ~Failing(d)
    BY DEF Failing
  <2> QED
    BY <2>1, <2>2, <2>3, <2>4, <2>5, <2>6, ResetPromises
<1>2. ASSUME NEW c \in Slots, StartConnect(c)
      PROVE  Promises'
  <2>1. ResetConn(c, "connecting", "connect") \/ ResetConn(c, "free", "none")
    BY <1>2 DEF StartConnect
  <2>2. /\ pool_conn' = pool_conn /\ iter' = iter /\ At' = At
        /\ \A d \in Slots : ~Failing(d)' /\ ~Reading(d)' /\ ~Failing(d)
    BY <1>2 DEF StartConnect, At, Failing, Reading
  <2> QED
    BY <2>1, <2>2, ResetPromises
<1>3. ASSUME NEW c \in Slots, PollError(c) \/ ConnectIOError(c) \/ ConnectTimeout(c)
      PROVE  Promises'
  <2>1. pc = "idle" /\ ConnectError(c)
    BY <1>3 DEF PollError, ConnectIOError, ConnectTimeout
  <2>2. ResetConn(c, "free", "none")
    BY <2>1 DEF ConnectError
  <2>3. /\ pool_conn' = pool_conn /\ iter' = iter /\ At' = At
        /\ \A d \in Slots : ~Failing(d)' /\ ~Reading(d)' /\ ~Failing(d)
    BY <2>1 DEF ConnectError, loopVars, At, Failing, Reading
  <2> QED
    BY <2>2, <2>3, ResetPromises
<1> QED
  BY <1>1, <1>2, <1>3

\* A connection becomes usable, or is left by on_database_read_ready.
LEMMA UsablePromises ==
  ASSUME IInv, Promises, NEW c \in Slots,
         PollOK(c) \/ ConnectReadReady(c) \/ ReadBusy(c) \/ ReadDrained(c)
  PROVE  Promises'
<1> USE DEF poolVars, connVars, wireVars, loopVars
<1>1. CASE PollOK(c) \/ ConnectReadReady(c)
  <2>1. pc = "idle" /\ phase[c] \in {"connecting", "preparing"}
    BY <1>1 DEF PollOK, ConnectReadReady
  <2>2. unsent[c] = 0 /\ phase \in [Slots -> {"free", "connecting", "preparing", "ready"}]
    BY <2>1 DEF IInv, BlankUnlessReady, Blank, TypeOK, ConnTypeOK
  <2>3. /\ AppendConn(c) \/ UNCHANGED pool_conn
        /\ UNCHANGED <<unsent, writing, conn_query_num, iter, pc>>
        /\ \A d \in Slots \ {c} : phase'[d] = phase[d]
    BY <1>1, <2>2 DEF PollOK, ConnectReadReady, ConnReady
  <2>4. At = "idle" /\ \A d \in Slots : ~Reading(d)'
    BY <2>1, <2>3 DEF At, Reading
  <2> QED
    BY <2>1, <2>2, <2>3, <2>4, AppendPromises
<1>2. CASE ReadBusy(c) \/ ReadDrained(c)
  <2>1. Reading(c) /\ pc \in {"read", "readfull"}
    BY <1>2 DEF ReadBusy, ReadDrained, Reading
  <2>2. unsent[c] > 0 => c \in writing
    BY <2>1 DEF Promises, ReadPromised
  <2>3. /\ AppendConn(c) \/ UNCHANGED pool_conn
        /\ UNCHANGED <<unsent, writing, conn_query_num, iter, phase>> /\ pc' = "idle"
    BY <1>2 DEF ReadBusy, ReadDrained, FinishRead, Goto
  <2>4. At \in {"read", "readfull"} /\ \A d \in Slots : ~Reading(d)'
    BY <2>1, <2>3 DEF At, Reading
  <2> QED
    BY <2>1, <2>2, <2>3, <2>4, AppendPromises
<1> QED
  BY <1>1, <1>2

\* flush_connection and on_database_write_ready.
LEMMA FlushStepPromises ==
  ASSUME IInv, Promises,
         \/ FlushFull \/ FlushRest
         \/ \E c \in Slots : ReadReady(c) \/ WriteReady(c)
  PROVE  Promises'
<1> USE DEF poolVars, connVars, wireVars, loopVars
<1>1. ASSUME NEW c \in Slots, ReadReady(c)
      PROVE  Promises'
  <2>1. /\ pc = "idle" /\ UNCHANGED <<phase, conn_query_num, pool_conn, iter>>
        /\ \/ Fail(c, "idle") /\ UNCHANGED <<unsent, writing>>
           \/ Flushed(c) /\ pc' \in {"read", "readfull"} /\ cur' = c
    BY <1>1 DEF ReadReady
  <2>2. /\ unsent'[c] = 0 \/ c \in writing' \/ Failing(c)'
        /\ \A d \in Slots \ {c} : unsent'[d] = unsent[d] /\ (d \in writing => d \in writing')
    BY <2>1, FlushedPromise DEF Fail, Failing
  <2>3. /\ At = "idle" /\ At' \in {"idle", "read", "readfull"}
        /\ \A d \in Slots \ {c} : ~Reading(d)'
    BY <2>1 DEF At, Reading, Fail
  <2> QED
    BY <2>1, <2>2, <2>3, FlushPromises
<1>2. ASSUME NEW c \in Slots, WriteReady(c)
      PROVE  Promises'
  <2>1. /\ pc = "idle" /\ c \in writing /\ UNCHANGED <<phase, conn_query_num, pool_conn, iter>>
        /\ \/ Fail(c, "idle") /\ writing' = writing \ {c} /\ UNCHANGED unsent
           \/ /\ unsent' = [unsent EXCEPT ![c] = 0] /\ writing' = writing \ {c}
              /\ UNCHANGED <<pc, cur, ret>>
           \/ /\ \E left \in 1..unsent[c] : unsent' = [unsent EXCEPT ![c] = left]
              /\ UNCHANGED <<writing, pc, cur, ret>>
    BY <1>2 DEF WriteReady
  <2>2. unsent \in [Slots -> Nat]
    BY DEF IInv, TypeOK, WireTypeOK
  <2>3. /\ unsent'[c] = 0 \/ c \in writing' \/ Failing(c)'
        /\ \A d \in Slots \ {c} : unsent'[d] = unsent[d] /\ (d \in writing => d \in writing')
    BY <2>1, <2>2 DEF Fail, Failing
  <2>4. At = "idle" /\ At' = "idle" /\ \A d \in Slots \ {c} : ~Reading(d)'
    BY <2>1 DEF At, Reading, Fail
  <2> QED
    BY <2>1, <2>3, <2>4, FlushPromises
<1>3. CASE FlushFull \/ FlushRest
  <2>1. iter # <<>> /\ iter \in Seq(Slots) /\ pool_conn \in Seq(Slots)
    BY <1>3 DEF FlushFull, FlushRest, IInv, TypeOK, LoopTypeOK, PoolTypeOK
  <2>2. PICK c \in Slots : c = Head(iter) /\ ToSet(iter) = ToSet(Tail(iter)) \union {c}
    BY <2>1, HeadTailFacts, TailList
  <2>3. /\ pc \in {"flushfull", "flush"} /\ iter' = Tail(iter)
        /\ UNCHANGED <<phase, conn_query_num>>
        /\ \/ Flushed(c) /\ UNCHANGED <<pool_conn, pc, cur, ret>>
           \/ Fail(c, pc) /\ UNCHANGED <<unsent, writing>>
    BY <1>3, <2>2 DEF FlushFull, FlushRest
  <2>4. \A d \in Slots \ {c} : d \in ToSet(pool_conn)' <=> d \in ToSet(pool_conn)
    <3>1. \/ pool_conn' = pool_conn
          \/ \E i \in DOMAIN pool_conn : pool_conn[i] = c /\ pool_conn' = RemoveAt(pool_conn, i)
      BY <1>3, <2>2 DEF FlushFull, FlushRest
    <3>2. IsInjective(pool_conn)
      BY DEF IInv, ListUsable
    <3>3. ASSUME NEW i \in DOMAIN pool_conn, pool_conn[i] = c, pool_conn' = RemoveAt(pool_conn, i)
          PROVE  ToSet(pool_conn') = ToSet(pool_conn) \ {c}
      BY <2>1, <3>2, <3>3, RemoveList
    <3> QED
      BY <3>1, <3>3
  <2>5. /\ unsent'[c] = 0 \/ c \in writing' \/ Failing(c)'
        /\ \A d \in Slots \ {c} : unsent'[d] = unsent[d] /\ (d \in writing => d \in writing')
    BY <2>2, <2>3, FlushedPromise DEF Fail, Failing
  <2>6. /\ At' = At /\ pc # "error" /\ \A d \in Slots \ {c} : ~Reading(d)'
        /\ \A d \in Slots \ {c} : d \in ToSet(iter) => d \in ToSet(iter)'
    BY <2>2, <2>3 DEF At, Reading, Fail
  <2> QED
    BY <2>2, <2>3, <2>4, <2>5, <2>6, FlushPromises
<1> QED
  BY <1>1, <1>2, <1>3

\* Between the loops, the connections on the list are the ones to visit.
LEMMA FlushFullDonePromises ==
  ASSUME IInv, Promises, FlushFullDone
  PROVE  Promises'
<1>1. /\ pc = "flushfull" /\ pc' = "flush" /\ iter = <<>> /\ iter' = pool_conn
      /\ UNCHANGED <<pool_conn, unsent, writing, phase, conn_query_num>>
  BY DEF FlushFullDone, Goto, connVars, wireVars
<1> SUFFICES ASSUME NEW d \in Slots PROVE Promised(d)' /\ ReadPromised(d)'
  BY DEF Promises
<1>2. Promised(d) /\ d \notin ToSet(iter)
  BY <1>1, EmptyList DEF Promises
<1> QED
  BY <1>1, <1>2 DEF Promised, ReadPromised, Lost, Failing, Reading, At

\* A query is handed to libpq: its connection goes to the end of the list or to
\* iter, it is lost, or it fails.
LEMMA SendPromises ==
  ASSUME IInv, Promises, Send
  PROVE  Promises'
<1>1. /\ pc = "send" /\ Tail(pool_conn) \in Seq(Slots)
      /\ \E c \in Slots : /\ c = Head(pool_conn)
                          /\ ToSet(pool_conn) = ToSet(Tail(pool_conn)) \union {c}
                          /\ c \notin ToSet(Tail(pool_conn))
  BY SendFacts
<1>2. PICK c \in Slots : /\ c = Head(pool_conn)
                         /\ ToSet(pool_conn) = ToSet(Tail(pool_conn)) \union {c}
                         /\ c \notin ToSet(Tail(pool_conn))
  BY <1>1
<1>3. Sent(c, Head(pool_queries)) \/ SendFailed(c, Head(pool_queries))
  BY <1>2 DEF Send
<1>4. /\ unsent \in [Slots -> Nat] /\ conn_query_num \in [Slots -> 0..MaxPipeline]
      /\ MaxPipeline \in Nat /\ iter \in Seq(Slots)
  BY PoolAssumption DEF IInv, TypeOK, WireTypeOK, ConnTypeOK, LoopTypeOK
<1>5. phase[c] = "ready" /\ conn_query_num[c] > 0
  BY <1>2 DEF IInv, ListUsable
<1> SUFFICES ASSUME NEW d \in Slots PROVE Promised(d)' /\ ReadPromised(d)'
  BY DEF Promises
<1>6. Promised(d)
  BY DEF Promises
<1>7. CASE SendFailed(c, Head(pool_queries))
  <2>1. /\ pool_conn' = Tail(pool_conn) /\ pc' = "error" /\ cur' = c /\ ret' = "send"
        /\ UNCHANGED <<unsent, writing, phase, conn_query_num, iter>>
    BY <1>7 DEF SendFailed, Fail, connVars, wireVars
  <2> QED
    BY <1>1, <1>2, <1>6, <2>1 DEF Promised, ReadPromised, Lost, Failing, Reading, At
<1>8. CASE Sent(c, Head(pool_queries))
  <2>1. /\ unsent' = [unsent EXCEPT ![c] = @ + 1]
        /\ conn_query_num' = [conn_query_num EXCEPT ![c] = @ - 1]
        /\ UNCHANGED <<phase, writing, pc, cur, ret>>
    BY <1>8 DEF Sent, DoExecuteQuery
  <2>2. \/ /\ conn_query_num[c] > 1 /\ iter' = iter
           /\ pool_conn' \in {Append(Tail(pool_conn), c), Tail(pool_conn)}
        \/ pool_conn' = Tail(pool_conn) /\ iter' = <<c>> \o iter
    BY <1>8 DEF Sent
  <2>3. /\ ToSet(Append(Tail(pool_conn), c)) = ToSet(Tail(pool_conn)) \union {c}
        /\ ToSet(<<c>> \o iter) = ToSet(iter) \union {c}
    <3>1. ToSet(Append(Tail(pool_conn), c)) = ToSet(Tail(pool_conn)) \union {c}
      <4>1. PICK t \in Seq(Slots) : t = Tail(pool_conn)
        BY <1>1
      <4>2. ToSet(Append(t, c)) = ToSet(t) \union {c}
        BY ONLY t \in Seq(Slots), c \in Slots, AppendList
      <4> QED
        BY <4>1, <4>2
    <3>2. ToSet(<<c>> \o iter) = ToSet(iter) \union {c}
      BY <1>4, ConsList
    <3> QED
      BY <3>1, <3>2
  <2>4. ReadPromised(d)' /\ At' = "send" /\ At = "send" /\ ~Failing(d)
    BY <1>1, <2>1 DEF ReadPromised, Reading, At, Failing
  <2>5. CASE d # c
    <3>1. unsent'[d] = unsent[d] /\ conn_query_num'[d] = conn_query_num[d]
      BY <1>4, <2>1, <2>5
    <3>2. d \in ToSet(pool_conn') <=> d \in ToSet(pool_conn)
      BY <1>2, <2>2, <2>3, <2>5
    <3>3. d \in ToSet(iter) => d \in ToSet(iter')
      BY <2>2, <2>3
    <3>4. Lost(d) => Lost(d)'
      BY <2>1, <3>1, <3>2 DEF Lost
    <3> QED
      BY <1>6, <2>1, <2>4, <3>1, <3>2, <3>3, <3>4 DEF Promised
  <2>6. CASE d = c
    <3>1. CASE pool_conn' = Append(Tail(pool_conn), c)
      BY <2>3, <2>4, <2>6, <3>1 DEF Promised
    <3>2. CASE iter' = <<c>> \o iter
      BY <2>3, <2>4, <2>6, <3>2 DEF Promised
    <3>3. CASE conn_query_num[c] > 1 /\ pool_conn' = Tail(pool_conn)
      <4>1. conn_query_num'[c] > 0
        BY <1>4, <2>1, <3>3
      <4>2. Lost(c)'
        BY <1>2, <1>5, <2>1, <3>3, <4>1 DEF Lost
      <4> QED
        BY <2>4, <2>6, <4>2 DEF Promised
    <3> QED
      BY <2>2, <3>1, <3>2, <3>3
  <2> QED
    BY <2>4, <2>5, <2>6
<1> QED
  BY <1>3, <1>7, <1>8

\* Every step keeps the promises.
LEMMA NextPromises ==
  IInv /\ Promises /\ [Next]_vars => Promises'
<1> SUFFICES ASSUME IInv, Promises, [Next]_vars PROVE Promises'
  OBVIOUS
<1> QED
  BY QuietPromises, ResetStepPromises, UsablePromises, FlushStepPromises,
     FlushFullDonePromises, SendPromises DEF Next, Continue

\* No query stays in libpq's buffer unnoticed (FlushPromised): between callbacks
\* a write notification is pending for its connection, unless the connection
\* got lost through a stale pool->conn.tail.
THEOREM BuffersAreFlushed ==
  Spec => []FlushPromised
<1>1. Init => Promises
  BY DEF Init, Promises, Promised, ReadPromised
<1>2. IInv /\ Promises => FlushPromised
  <2> SUFFICES ASSUME IInv, Promises, pc = "idle", NEW c \in Slots, unsent[c] > 0
               PROVE  c \in writing \/ Lost(c)
    BY DEF FlushPromised
  <2>1. iter = <<>> /\ At = "idle" /\ ~Failing(c)
    BY DEF IInv, IterState, At, Failing
  <2> QED
    BY <2>1, EmptyList DEF Promises, Promised
<1> QED
  BY <1>1, <1>2, NextPromises, Invariance, PTL DEF Spec

-----------------------------------------------------------------------------
(* A pool of one connection.                                               *)

\* The tail is never stale, and a connection that can take a query is on the
\* list, but for the one a callback is about to append or to tear down; one
\* that on_database_read_ready will not append had a free place to begin with.
Found ==
    /\ pool_tail = NoConn
    /\ \A c \in Slots : Lost(c) => Failing(c) \/ (pc = "readfull" /\ cur = c)
    /\ pc = "read" => conn_query_num[cur] > 0

\* There are never two connections on the list.
LEMMA OneOnList ==
  ASSUME MaxConn = 1, IInv, pool_conn # <<>>
  PROVE  Len(pool_conn) = 1
<1>1. /\ pool_conn \in Seq(Slots) /\ IsInjective(pool_conn) /\ Len(pool_conn) \in Nat \ {0}
      /\ \A c \in ToSet(pool_conn) : phase[c] = "ready"
  BY HeadTailFacts DEF IInv, TypeOK, PoolTypeOK, ListUsable
<1>2. IsFiniteSet(Live) /\ Cardinality(Live) \in Nat /\ Cardinality(Live) <= 1
  BY LiveFinite, PoolAssumption DEF IInv, TypeOK, ConnAccounting, PoolTypeOK
<1>3. ASSUME Len(pool_conn) # 1
      PROVE  FALSE
  <2>1. 1 \in DOMAIN pool_conn /\ 2 \in DOMAIN pool_conn
    <3>1. DOMAIN pool_conn = 1..Len(pool_conn)
      BY <1>1
    <3>2. Len(pool_conn) >= 2
      <4>1. PICK n \in Nat \ {0} : n = Len(pool_conn)
        BY <1>1
      <4>2. n # 1
        BY <1>3, <4>1
      <4>3. n >= 2
        BY ONLY n \in Nat \ {0}, <4>2
      <4> QED
        BY <4>1, <4>3
    <3> QED
      BY <1>1, <3>1, <3>2
  <2>2. pool_conn[1] # pool_conn[2]
    BY <1>1, <2>1 DEF IsInjective
  <2>3. {pool_conn[1], pool_conn[2]} \subseteq Live
    BY <1>1, <2>1 DEF Live, ToSet
  <2>4. Cardinality({pool_conn[1], pool_conn[2]}) = 2
    <3>1. IsFiniteSet({pool_conn[1]}) /\ Cardinality({pool_conn[1]}) = 1
      BY FS_Singleton
    <3>2. Cardinality({pool_conn[1]} \union {pool_conn[2]}) = Cardinality({pool_conn[1]}) + 1
      BY <2>2, <3>1, FS_AddElement
    <3>3. {pool_conn[1]} \union {pool_conn[2]} = {pool_conn[1], pool_conn[2]}
      OBVIOUS
    <3> QED
      BY <3>1, <3>2, <3>3
  <2> QED
    BY <1>2, <2>3, <2>4, FS_Subset
<1> QED
  BY <1>3

\* A step that makes no connection usable, and leaves the callbacks where they are.
LEMMA FoundKept ==
  ASSUME Found, pool_tail' = pool_tail,
         \A d \in Slots : Lost(d)' => Lost(d),
         \A d \in Slots : Failing(d) => Failing(d)',
         \A d \in Slots : pc = "readfull" /\ cur = d =>
            (pc' = "readfull" /\ cur' = d) \/ Failing(d)' \/ ~Lost(d)',
         pc' # "read" \/ UNCHANGED <<pc, cur, conn_query_num>>
  PROVE  Found'
  BY DEF Found

\* Steps that do not make a connection usable.
LEMMA QuietFound ==
  ASSUME IInv, Found,
         \/ \E p \in Params : ExecuteQuery(p)
         \/ StartProcessing \/ SendDone \/ FlushFull \/ FlushFullDone \/ FlushDone
         \/ EndProcessing
         \/ \E c \in Slots : \/ ReadIgnored(c) \/ ReadSync(c) \/ ReadMore(c)
                             \/ DatabaseTimeout(c) \/ WriteReady(c)
         \/ UNCHANGED vars
  PROVE  Found'
<1> USE DEF vars, poolVars, connVars, wireVars, loopVars
<1>1. /\ UNCHANGED <<phase, conn_query_num, pool_conn>>
      /\ pool_tail' = pool_tail \/ pool_tail' = NoConn
  BY DEF ExecuteQuery, StartProcessing, SendDone, FlushFull, FlushFullDone, FlushDone,
         EndProcessing, ReadIgnored, ReadSync, ReadMore, DatabaseTimeout, WriteReady
<1>2. pool_tail' = pool_tail /\ \A d \in Slots : Lost(d)' => Lost(d)
  BY <1>1 DEF Found, Lost
<1>3. /\ \A d \in Slots : Failing(d) => Failing(d)'
      /\ \A d \in Slots : pc = "readfull" /\ cur = d =>
            (pc' = "readfull" /\ cur' = d) \/ Failing(d)'
  <2>1. CASE \/ \E p \in Params : ExecuteQuery(p)
             \/ StartProcessing \/ SendDone \/ FlushFull \/ FlushFullDone \/ FlushDone
             \/ EndProcessing \/ UNCHANGED vars
    BY <2>1 DEF ExecuteQuery, StartProcessing, SendDone, FlushFull, FlushFullDone, FlushDone,
                EndProcessing, Goto, Failing
  <2>2. ASSUME NEW c \in Slots, ReadIgnored(c) \/ ReadMore(c) \/ DatabaseTimeout(c) \/ WriteReady(c)
        PROVE  /\ \A d \in Slots : Failing(d) => Failing(d)'
               /\ \A d \in Slots : pc = "readfull" /\ cur = d =>
                     (pc' = "readfull" /\ cur' = d) \/ Failing(d)'
    BY <2>2 DEF ReadIgnored, ReadMore, DatabaseTimeout, WriteReady, Failing
  <2>3. ASSUME NEW c \in Slots, ReadSync(c)
        PROVE  /\ \A d \in Slots : Failing(d) => Failing(d)'
               /\ \A d \in Slots : pc = "readfull" /\ cur = d =>
                     (pc' = "readfull" /\ cur' = d) \/ Failing(d)'
    BY <2>3 DEF ReadSync, Reading, Fail, Failing
  <2> QED
    BY <2>1, <2>2, <2>3
<1>4. pc' # "read" \/ UNCHANGED <<pc, cur, conn_query_num>>
  BY <1>1 DEF ExecuteQuery, StartProcessing, SendDone, FlushFull, FlushFullDone, FlushDone,
              EndProcessing, ReadIgnored, ReadSync, ReadMore, DatabaseTimeout, WriteReady,
              Goto, Fail
<1> QED
  BY <1>2, <1>3, <1>4, FoundKept

\* A connection that is reset, started or freed is not usable, and if it was on
\* the list, it was alone there.
LEMMA ResetFound ==
  ASSUME MaxConn = 1, IInv, Found,
         \/ DatabaseError
         \/ \E c \in Slots : StartConnect(c)
         \/ \E c \in Slots : PollError(c) \/ ConnectIOError(c) \/ ConnectTimeout(c)
  PROVE  Found'
<1>0. /\ phase \in [Slots -> {"free", "connecting", "preparing", "ready"}]
      /\ conn_query_num \in [Slots -> 0..MaxPipeline] /\ pool_conn \in Seq(Slots)
  BY DEF IInv, TypeOK, ConnTypeOK, PoolTypeOK
<1>1. ASSUME NEW c \in Slots, NEW ph \in {"free", "connecting"}, NEW tm, ResetConn(c, ph, tm),
             pool_tail' = NoConn, pc # "readfull", pc' # "read",
             \A d \in Slots \ {c} : d \in ToSet(pool_conn) => d \in ToSet(pool_conn)',
             \A d \in Slots \ {c} : ~Failing(d)
      PROVE  Found'
  <2>1. /\ phase' = [phase EXCEPT ![c] = ph]
        /\ conn_query_num' = [conn_query_num EXCEPT ![c] = MaxPipeline]
    BY <1>1 DEF ResetConn
  <2>2. ~Lost(c)'
    BY <1>0, <2>1 DEF Lost
  <2>3. \A d \in Slots \ {c} : Lost(d)' => Lost(d)
    BY <1>0, <1>1, <2>1 DEF Lost
  <2> QED
    BY <1>1, <2>2, <2>3 DEF Found
<1>2. CASE DatabaseError
  <2>1. cur \in Slots /\ pc = "error" /\ RemoveConn(cur)
    BY <1>2 DEF DatabaseError, IInv, LoopState
  <2>2. PICK c \in Slots : c = cur
    BY <2>1
  <2>3. PICK ph \in {"free", "connecting"} : \E tm : ResetConn(c, ph, tm)
    BY <1>2, <2>2 DEF DatabaseError
  <2>4. pool_tail' = NoConn
    <3>1. CASE c \notin ToSet(pool_conn)
      BY <2>1, <2>2, <3>1 DEF RemoveConn, Found
    <3>2. CASE c \in ToSet(pool_conn)
      <4>1. pool_conn # <<>>
        BY <3>2, EmptyList
      <4>2. Len(pool_conn) = 1
        BY <4>1, OneOnList
      <4> QED
        BY <2>1, <2>2, <3>2, <4>2 DEF RemoveConn
    <3> QED
      BY <3>1, <3>2
  <2>5. \A d \in Slots \ {c} : d \in ToSet(pool_conn) => d \in ToSet(pool_conn)'
    BY <2>1, <2>2, RemoveConnFacts DEF IInv, TypeOK, ListUsable
  <2>6. \A d \in Slots \ {c} : ~Failing(d)
    BY <2>2 DEF Failing
  <2>7. pc' # "read"
    BY <1>2 DEF DatabaseError, IInv, TypeOK, LoopTypeOK
  <2> QED
    BY <1>1, <2>1, <2>3, <2>4, <2>5, <2>6, <2>7
<1>3. ASSUME NEW c \in Slots, StartConnect(c)
      PROVE  Found'
  <2>1. /\ UNCHANGED <<pool_conn, pool_tail, pc>> /\ pc = "grow"
        /\ ResetConn(c, "connecting", "connect") \/ ResetConn(c, "free", "none")
    BY <1>3 DEF StartConnect
  <2> QED
    BY <1>1, <2>1 DEF Found, Failing
<1>4. ASSUME NEW c \in Slots, PollError(c) \/ ConnectIOError(c) \/ ConnectTimeout(c)
      PROVE  Found'
  <2>1. pc = "idle" /\ UNCHANGED <<pool_conn, pool_tail, pc>> /\ ResetConn(c, "free", "none")
    BY <1>4 DEF PollError, ConnectIOError, ConnectTimeout, ConnectError, loopVars
  <2> QED
    BY <1>1, <2>1 DEF Found, Failing
<1> QED
  BY <1>2, <1>3, <1>4

\* A connection becomes usable, or is left by on_database_read_ready: if it was
\* not on the list, it is appended to it.
LEMMA UsableFound ==
  ASSUME IInv, Found, NEW c \in Slots,
         PollOK(c) \/ ConnectReadReady(c) \/ ReadBusy(c) \/ ReadDrained(c)
  PROVE  Found'
<1> USE DEF poolVars, connVars, wireVars, loopVars
<1>1. /\ phase \in [Slots -> {"free", "connecting", "preparing", "ready"}]
      /\ conn_query_num \in [Slots -> 0..MaxPipeline] /\ pool_conn \in Seq(Slots)
  BY DEF IInv, TypeOK, ConnTypeOK, PoolTypeOK
<1>2. ToSet(Append(pool_conn, c)) = ToSet(pool_conn) \union {c}
  <2>1. pool_conn \in Seq(Slots)
    BY <1>1
  <2> QED
    BY ONLY <2>1, c \in Slots, AppendList
<1>3. AppendConn(c) => pool_conn' = Append(pool_conn, c) /\ pool_tail' = NoConn
  BY DEF AppendConn, Found
<1>4. CASE ConnReady(c) /\ pc = "idle"
  <2>1. /\ phase' = [phase EXCEPT ![c] = "ready"] /\ conn_query_num' = conn_query_num
        /\ pc' = "idle" /\ AppendConn(c)
    BY <1>4 DEF ConnReady
  <2>2. pool_conn' = Append(pool_conn, c) /\ pool_tail' = NoConn
    BY <1>3, <2>1
  <2>3. \A d \in Slots : ~Lost(d)
    BY <1>4 DEF Found, Failing
  <2>4. \A d \in Slots : ~Lost(d)'
    BY <1>1, <1>2, <2>1, <2>2, <2>3 DEF Lost
  <2> QED
    BY <2>1, <2>2, <2>4 DEF Found
<1>5. CASE PollOK(c) /\ ~ConnReady(c)
  <2>1. /\ phase' = [phase EXCEPT ![c] = "preparing"] /\ pc = "idle"
        /\ UNCHANGED <<conn_query_num, pool_conn, pool_tail, pc, cur>>
    BY <1>5 DEF PollOK
  <2>2. \A d \in Slots : Lost(d)' => Lost(d)
    BY <1>1, <2>1 DEF Lost
  <2> QED
    BY <2>1, <2>2, FoundKept DEF Failing
<1>6. CASE ReadBusy(c) \/ ReadDrained(c)
  <2>1. /\ Reading(c) /\ FinishRead(c) /\ UNCHANGED <<phase, conn_query_num>>
    BY <1>6 DEF ReadBusy, ReadDrained
  <2>2. /\ pc \in {"read", "readfull"} /\ cur = c /\ pc' = "idle"
    BY <2>1 DEF Reading, FinishRead, Goto
  <2>3. \A d \in Slots : Lost(d) => pc = "readfull" /\ d = c
    BY <2>2 DEF Found, Failing
  <2>4. CASE pc = "readfull" /\ conn_query_num[c] > 0
    <3>1. pool_conn' = Append(pool_conn, c) /\ pool_tail' = NoConn
      BY <1>3, <2>1, <2>4 DEF FinishRead
    <3>2. \A d \in Slots : ~Lost(d)'
      BY <1>2, <2>1, <2>3, <3>1 DEF Lost
    <3> QED
      BY <2>2, <3>1, <3>2 DEF Found
  <2>5. CASE ~(pc = "readfull" /\ conn_query_num[c] > 0)
    <3>1. UNCHANGED <<pool_conn, pool_tail>>
      BY <2>1, <2>5 DEF FinishRead
    <3>2. \A d \in Slots : ~Lost(d)'
      BY <2>1, <2>3, <2>5, <3>1 DEF Lost
    <3> QED
      BY <2>2, <3>1, <3>2 DEF Found
  <2> QED
    BY <2>4, <2>5
<1> QED
  BY <1>4, <1>5, <1>6 DEF PollOK, ConnectReadReady

\* A connection is read from: it is appended later only if it was full, and then
\* it was not on the list.
LEMMA ReadFound ==
  ASSUME IInv, Found, NEW c \in Slots, ReadReady(c) \/ ReadDone(c)
  PROVE  Found'
<1> USE DEF poolVars, connVars, wireVars, loopVars
<1>1. conn_query_num \in [Slots -> 0..MaxPipeline] /\ MaxPipeline \in Nat
  BY PoolAssumption DEF IInv, TypeOK, ConnTypeOK
<1>2. CASE ReadReady(c)
  <2>1. /\ pc = "idle" /\ UNCHANGED <<phase, conn_query_num, pool_conn, pool_tail>>
        /\ \/ pc' = "error" /\ cur' = c
           \/ pc' = (IF conn_query_num[c] = 0 THEN "readfull" ELSE "read") /\ cur' = c
    BY <1>2 DEF ReadReady, Fail
  <2>2. \A d \in Slots : ~Lost(d)'
    BY <2>1 DEF Found, Failing, Lost
  <2>3. pc' = "read" => conn_query_num'[cur'] > 0
    BY <1>1, <2>1
  <2> QED
    BY <2>1, <2>2, <2>3 DEF Found
<1>3. CASE ReadDone(c)
  <2>1. /\ pc \in {"read", "readfull"} /\ cur = c
        /\ UNCHANGED <<phase, pool_conn, pool_tail, pc, cur>>
        /\ conn_query_num' = [conn_query_num EXCEPT ![c] = @ + 1]
    BY <1>3 DEF ReadDone, Reading
  <2>2. \A d \in Slots : Lost(d) => pc = "readfull" /\ d = c
    BY <2>1 DEF Found, Failing
  <2>3. \A d \in Slots \ {c} : ~Lost(d)'
    BY <1>1, <2>1, <2>2 DEF Lost
  <2>4. pc = "read" => conn_query_num[c] > 0 /\ conn_query_num'[c] > 0
    BY <1>1, <2>1 DEF Found
  <2>5. pc = "read" => ~Lost(c)'
    BY <2>1, <2>2, <2>4 DEF Lost
  <2> QED
    BY <2>1, <2>3, <2>4, <2>5 DEF Found
<1> QED
  BY <1>2, <1>3

\* The third loop of on_process_queries unlinks only a connection that fails.
LEMMA FlushRestFound ==
  ASSUME IInv, Found, FlushRest
  PROVE  Found'
<1>1. /\ iter # <<>> /\ iter \in Seq(Slots) /\ pool_conn \in Seq(Slots)
      /\ IsInjective(pool_conn)
  BY DEF FlushRest, IInv, TypeOK, LoopTypeOK, PoolTypeOK, ListUsable
<1>2. PICK c \in Slots : c = Head(iter)
  BY <1>1, HeadTailFacts
<1>3. /\ pc = "flush" /\ UNCHANGED <<phase, conn_query_num, pool_tail>>
      /\ \/ UNCHANGED <<pool_conn, pc, cur>>
         \/ /\ \E i \in DOMAIN pool_conn : pool_conn[i] = c /\ pool_conn' = RemoveAt(pool_conn, i)
            /\ pc' = "error" /\ cur' = c
  BY <1>2 DEF FlushRest, Fail, connVars
<1>4. \A d \in Slots : ~Lost(d)
  BY <1>3 DEF Found, Failing
<1>5. ASSUME NEW i \in DOMAIN pool_conn, pool_conn[i] = c, pool_conn' = RemoveAt(pool_conn, i)
      PROVE  ToSet(pool_conn') = ToSet(pool_conn) \ {c}
  BY <1>1, <1>5, RemoveList
<1>6. \A d \in Slots : Lost(d)' => Failing(d)'
  BY <1>3, <1>4, <1>5 DEF Lost, Failing
<1> QED
  BY <1>3, <1>6 DEF Found

\* The first loop of on_process_queries takes the only connection off the list
\* and appends it again, or it is full, or it fails.
LEMMA SendFound ==
  ASSUME MaxConn = 1, IInv, Found, Send
  PROVE  Found'
<1>1. pc = "send" /\ pool_conn # <<>> /\ pool_conn \in Seq(Slots) /\ IsInjective(pool_conn)
  BY DEF Send, IInv, TypeOK, PoolTypeOK, ListUsable
<1>2. Tail(pool_conn) \in Seq(Slots) /\ Head(pool_conn) \in Slots
  BY <1>1, HeadTailFacts
<1>3. PICK c \in Slots : c = Head(pool_conn) /\ ToSet(pool_conn) = ToSet(Tail(pool_conn)) \union {c}
  BY <1>1, <1>2, TailList
<1>4. ToSet(Append(Tail(pool_conn), c)) = ToSet(Tail(pool_conn)) \union {c}
  <2>1. PICK t \in Seq(Slots) : t = Tail(pool_conn)
    BY <1>2
  <2>2. ToSet(Append(t, c)) = ToSet(t) \union {c}
    BY ONLY t \in Seq(Slots), c \in Slots, AppendList
  <2> QED
    BY <2>1, <2>2
<1>5. TailAfterPop = NoConn
  BY <1>1, OneOnList DEF TailAfterPop
<1>6. \A d \in Slots : ~Lost(d)
  BY <1>1 DEF Found, Failing
<1>7. conn_query_num \in [Slots -> 0..MaxPipeline] /\ MaxPipeline \in Nat
  BY PoolAssumption DEF IInv, TypeOK, ConnTypeOK
<1>8. Sent(c, Head(pool_queries)) \/ SendFailed(c, Head(pool_queries))
  BY <1>3 DEF Send
<1>9. CASE SendFailed(c, Head(pool_queries))
  <2>1. /\ pool_conn' = Tail(pool_conn) /\ pool_tail' = NoConn /\ pc' = "error" /\ cur' = c
        /\ UNCHANGED <<phase, conn_query_num>>
    BY <1>5, <1>9 DEF SendFailed, Fail, connVars
  <2>2. \A d \in Slots : Lost(d)' => Failing(d)'
    BY <1>3, <1>6, <2>1 DEF Lost, Failing
  <2> QED
    BY <2>1, <2>2 DEF Found
<1>10. CASE Sent(c, Head(pool_queries))
  <2>1. /\ pc' = "send" /\ pool_tail' = NoConn /\ phase' = phase
        /\ conn_query_num' = [conn_query_num EXCEPT ![c] = @ - 1]
        /\ \/ conn_query_num[c] > 1 /\ pool_conn' = Append(Tail(pool_conn), c)
           \/ ~(conn_query_num[c] > 1) /\ pool_conn' = Tail(pool_conn)
    BY <1>1, <1>5, <1>10 DEF Sent, DoExecuteQuery
  <2>2. ~(conn_query_num[c] > 1) => ~(conn_query_num'[c] > 0)
    BY <1>7, <2>1
  <2>3. \A d \in Slots \ {c} : conn_query_num'[d] = conn_query_num[d]
    BY <1>7, <2>1
  <2>4. \A d \in Slots : ~Lost(d)'
    BY <1>3, <1>4, <1>6, <2>1, <2>2, <2>3 DEF Lost
  <2> QED
    BY <2>1, <2>4 DEF Found
<1> QED
  BY <1>8, <1>9, <1>10

\* Every step of a pool of one connection keeps the list complete.
LEMMA NextFound ==
  ASSUME MaxConn = 1, IInv, Found, [Next]_vars
  PROVE  Found'
  BY QuietFound, ResetFound, UsableFound, ReadFound, FlushRestFound, SendFound DEF Next, Continue

\* With one connection per thread (max_db_conn_num = 1) the stale tail that
\* DbPool_tail shows cannot arise: every established connection with a free
\* place is on pool->conn whenever no callback runs (NoLostConnection).
THEOREM OneConnectionFound ==
  ASSUME MaxConn = 1
  PROVE  Spec => []NoLostConnection
<1>1. Init => Found
  BY DEF Init, Found, Lost
<1>2. Found => NoLostConnection
  BY DEF Found, NoLostConnection, Failing
<1>3. IInv /\ Found /\ [Next]_vars => Found'
  BY NextFound
<1> QED
  BY <1>1, <1>2, <1>3, Invariance, PTL DEF Spec

=============================================================================
