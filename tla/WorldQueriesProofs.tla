------------------------- MODULE WorldQueriesProofs -------------------------
(***************************************************************************)
(* Proofs about the handlers of /queries, /updates and /cached-worlds, for *)
(* any number of requests, any table, any MAX_QUERIES and any window: they *)
(* implement RequestLifecycle, and a response has the rows that were drawn.*)
(***************************************************************************)
EXTENDS WorldQueries, FiniteSetTheorems, SequenceTheorems, TLAPS

Flags == {"DO_UPDATE", "USE_CACHE", "DO_CLEANUP", "IS_COMPLETED"}
Params == UNION {[S -> Int] : S \in SUBSET (1..Window)}

\* Types.
TypeInv ==
    /\ req \in [Requests -> {"none", "open", "sent", "gone"}]
    /\ ctx \in [Requests -> {"none", "live", "freed"}]
    /\ num_query \in [Requests -> Nat]
    /\ num_query_in_progress \in [Requests -> Nat]
    /\ num_result \in [Requests -> Nat]
    /\ flags \in [Requests -> SUBSET Flags]
    /\ res \in [Requests -> Seq(Int)]
    /\ gen \in [Requests -> BOOLEAN]
    /\ flying \in [Requests -> Params]
    /\ body \in [Requests -> Seq(Int)]
    /\ asked \in [Requests -> SUBSET Ids]

\* The counter counts, and whoever is last can tell from the flags: DO_CLEANUP
\* is set as soon as nobody waits for results, IS_COMPLETED as soon as the
\* request is gone.
Owned(r) ==
    LET F == DOMAIN flying[r] IN
    /\ num_query_in_progress[r] = Cardinality(F)
    /\ req[r] = "none" => ctx[r] = "none" /\ F = {} /\ flags[r] = {} /\ num_result[r] = 0
    /\ req[r] = "open" => ctx[r] = "live" /\ F # {} /\ "DO_CLEANUP" \notin flags[r]
    /\ req[r] \in {"sent", "gone"} => "DO_CLEANUP" \in flags[r]
    /\ req[r] = "gone" <=> "IS_COMPLETED" \in flags[r]
    /\ req[r] = "sent" => ctx[r] = "live"
    /\ req[r] = "gone" => ctx[r] = IF F = {} THEN "freed" ELSE "live"
    /\ 1 \in F /\ flying[r][1] = Update => F = {1} /\ req[r] # "sent"

\* The places of n ids that hold a result or an id still to be sent, with k
\* results and p queries in flight.  Those in between may be overwritten: the
\* query_params in flight have their ids.
Places(k, p, n) == {a \in 1..n : a <= k \/ a > k + p}

\* No id of A, those that were drawn, is lost, and none is there twice: each is
\* in one place of s (res[]) or asked for by one query of f.
AllThere(A, s, f, k, p, n) ==
    /\ k + p <= n /\ Len(s) = n
    /\ \A a \in Places(k, p, n) : s[a] \in A
    /\ \A i \in DOMAIN f : -f[i] \in A
    /\ \A x \in A :
         (\E a \in Places(k, p, n) : s[a] = x) \/ (\E i \in DOMAIN f : f[i] = -x)
    /\ \A a, b \in Places(k, p, n) : s[a] = s[b] => a = b
    /\ \A i, j \in DOMAIN f : f[i] = f[j] => i = j
    /\ \A a \in Places(k, p, n), i \in DOMAIN f : s[a] # -f[i]

Querying(r) ==
    AllThere(asked[r], res[r], flying[r], num_result[r], num_query_in_progress[r],
             num_query[r])

\* All rows are there, in network order, and the UPDATE is in the pool.
Updating(r) ==
    /\ DOMAIN flying[r] = {1} /\ flying[r][1] = Update
    /\ \A a \in DOMAIN res[r] : -res[r][a] \in asked[r]
    /\ \A x \in asked[r] : \E a \in DOMAIN res[r] : res[r][a] = -x
    /\ IsInjective(res[r])

\* A request that waits for results.
Waiting(r) == req[r] = "open" => Querying(r) \/ Updating(r)

\* A response has the ids that were drawn, in a buffer that is kept.
Kept(r) ==
    body[r] # <<>> =>
        /\ req[r] \in {"sent", "gone"}
        /\ ctx[r] = "live" => gen[r]
        /\ ToSet(body[r]) = asked[r] /\ IsInjective(body[r])

\* The inductive invariant of the requests; that of the cache is PopulateOnce.
IInv == TypeInv /\ \A r \in Requests : Owned(r) /\ Waiting(r) /\ Kept(r)

-----------------------------------------------------------------------------
(* Sequences and functions.                                                *)

\* What is needed of the byte order.
LEMMA Negation ==
  ASSUME NEW x \in Int, NEW y \in Int
  PROVE  /\ -x \in Int /\ -(-x) = x
         /\ x = -y => y = -x
         /\ -x = -y => x = y
         /\ -x = y /\ y # 0 => x # 0
<1>1. -x = 0 - x /\ -y = 0 - y
  OBVIOUS
<1>2. -x \in Int /\ -(-x) = x
  OBVIOUS
<1>3. (x = -y => y = -x) /\ (-x = -y => x = y)
  OBVIOUS
<1>4. 0 - x # 0 => x # 0
  OBVIOUS
<1> QED
  BY <1>1, <1>2, <1>3, <1>4

\* Ids of rows are integers.
LEMMA IdsAreIntegers ==
  ASSUME NEW A, A \subseteq Ids
  PROVE  A \subseteq Int
BY WorldAssumption

\* A function on 1..n is a sequence of length n.
LEMMA FunctionIsSeq ==
  ASSUME NEW S, NEW n \in Nat, NEW f \in [1..n -> S]
  PROVE  f \in Seq(S) /\ Len(f) = n /\ DOMAIN f = 1..n
OBVIOUS

\* The query_params in flight are finitely many.
LEMMA ParamsFacts ==
  ASSUME NEW f \in Params
  PROVE  /\ DOMAIN f \subseteq 1..Window /\ f \in [DOMAIN f -> Int]
         /\ IsFiniteSet(DOMAIN f) /\ Cardinality(DOMAIN f) \in Nat
         /\ Cardinality(DOMAIN f) = 0 <=> DOMAIN f = {}
         /\ \A i \in DOMAIN f : Cardinality(DOMAIN f) = 1 => DOMAIN f = {i}
<1>1. DOMAIN f \subseteq 1..Window /\ f \in [DOMAIN f -> Int]
  BY DEF Params
<1>2. IsFiniteSet(1..Window)
  BY FS_Interval, WorldAssumption
<1>3. IsFiniteSet(DOMAIN f)
  BY <1>1, <1>2, FS_Subset
<1>4. Cardinality(DOMAIN f) \in Nat /\ (Cardinality(DOMAIN f) = 0 <=> DOMAIN f = {})
  BY <1>3, FS_CardinalityType, FS_EmptySet
<1>5. ASSUME NEW i \in DOMAIN f, Cardinality(DOMAIN f) = 1 PROVE DOMAIN f = {i}
  <2>1. IsFiniteSet(DOMAIN f \ {i}) /\ Cardinality(DOMAIN f \ {i}) = 0
    BY <1>3, <1>5, FS_RemoveElement
  <2>2. DOMAIN f \ {i} = {}
    BY <2>1, FS_EmptySet
  <2> QED
    BY <2>2
<1> QED
  BY <1>1, <1>3, <1>4, <1>5

\* One of them comes back.
LEMMA RestrictFacts ==
  ASSUME NEW f \in Params, NEW i \in DOMAIN f, NEW g, g = Restrict(f, DOMAIN f \ {i})
  PROVE  /\ g \in Params
         /\ DOMAIN g = DOMAIN f \ {i} /\ \A j \in DOMAIN f \ {i} : g[j] = f[j]
         /\ Cardinality(DOMAIN g) = Cardinality(DOMAIN f) - 1
<1>1. DOMAIN g = DOMAIN f \ {i} /\ \A j \in DOMAIN f \ {i} : g[j] = f[j]
  BY DEF Restrict
<1>2. g \in [DOMAIN f \ {i} -> Int]
  BY ParamsFacts DEF Restrict
<1>3. g \in Params
  BY <1>2, ParamsFacts DEF Params
<1>4. Cardinality(DOMAIN f \ {i}) = Cardinality(DOMAIN f) - 1
  BY ParamsFacts, FS_RemoveElement
<1> QED
  BY <1>1, <1>3, <1>4

\* qsort permutes.
LEMMA SortedFacts ==
  ASSUME NEW w \in Seq(Int), IsInjective(w), NEW s \in Sorted(w)
  PROVE  /\ s \in [1..Len(w) -> Int] /\ DOMAIN s = DOMAIN w
         /\ IsInjective(s)
         /\ ToSet(s) = ToSet(w)
<1>1. PICK p \in Bijection(DOMAIN w, DOMAIN w) : s = [k \in DOMAIN w |-> w[p[k]]]
  BY DEF Sorted
<1>2. /\ p \in [DOMAIN w -> DOMAIN w]
      /\ \A a, b \in DOMAIN w : p[a] = p[b] => a = b
      /\ \A b \in DOMAIN w : \E a \in DOMAIN w : p[a] = b
  BY DEF Bijection, Injection, Surjection, IsInjective
<1>3. DOMAIN w = 1..Len(w) /\ \A a \in DOMAIN w : w[a] \in Int
  OBVIOUS
<1>4. DOMAIN s = DOMAIN w /\ \A a \in DOMAIN w : s[a] = w[p[a]]
  BY <1>1
<1>5. s \in [1..Len(w) -> Int]
  BY <1>1, <1>2, <1>3
<1>6. IsInjective(s)
  BY <1>2, <1>4 DEF IsInjective
<1>7. ToSet(s) = ToSet(w)
  BY <1>2, <1>4 DEF ToSet
<1> QED
  BY <1>4, <1>5, <1>6, <1>7

\* Sequence w is s with x at place k.
Written(w, s, k, x) ==
    /\ w \in Seq(Int) /\ Len(w) = Len(s) /\ w[k] = x
    /\ \A a \in 1..Len(s) : a # k => w[a] = s[a]

\* The queries of g are those of f without i.
Without(g, f, i) == DOMAIN g = DOMAIN f \ {i} /\ \A j \in DOMAIN g : g[j] = f[j]

-----------------------------------------------------------------------------
(* What becomes of the ids when the reply to query i is written to the next *)
(* place of res[].                                                         *)

\* There are no ids left to send: the query comes back.
LEMMA LandKeepsIds ==
  ASSUME NEW A, A \subseteq Int, NEW s \in Seq(Int), NEW f \in Params, NEW k \in Nat,
         NEW p \in Nat, NEW n \in Nat, AllThere(A, s, f, k, p, n), k + p = n, p > 0,
         NEW i \in DOMAIN f, NEW w, Written(w, s, k + 1, -f[i]), NEW g, Without(g, f, i)
  PROVE  AllThere(A, w, g, k + 1, p - 1, n)
<1>1. Places(k, p, n) = 1..k /\ Places(k + 1, p - 1, n) = 1..(k + 1)
  BY DEF Places
<1>2. Len(s) = n /\ k + 1 \in 1..n
  BY DEF AllThere
<1>0. DOMAIN g = DOMAIN f \ {i} /\ \A j \in DOMAIN g : g[j] = f[j]
  BY DEF Without
<1>3. w \in Seq(Int) /\ Len(w) = n /\ w[k + 1] = -f[i] /\ \A a \in 1..k : w[a] = s[a]
  BY <1>2 DEF Written
<1>4. \A a \in 1..(k + 1) : a = k + 1 \/ a \in 1..k
  OBVIOUS
<1>5. \A j \in DOMAIN f : f[j] \in Int
  BY ParamsFacts
<1>6. /\ \A a \in 1..k : s[a] \in A
      /\ \A j \in DOMAIN f : -f[j] \in A
      /\ \A x \in A : (\E a \in 1..k : s[a] = x) \/ (\E j \in DOMAIN f : f[j] = -x)
      /\ \A a, b \in 1..k : s[a] = s[b] => a = b
      /\ \A j, l \in DOMAIN f : f[j] = f[l] => j = l
      /\ \A a \in 1..k, j \in DOMAIN f : s[a] # -f[j]
  BY <1>1 DEF AllThere
<1>7. \A a \in 1..(k + 1) : w[a] \in A
  BY <1>3, <1>4, <1>6
<1>8. ASSUME NEW x \in A
      PROVE  (\E a \in 1..(k + 1) : w[a] = x) \/ (\E j \in DOMAIN g : g[j] = -x)
  <2>1. CASE \E a \in 1..k : s[a] = x
    <3>1. PICK a \in 1..k : s[a] = x
      BY <2>1
    <3>2. a \in 1..(k + 1) /\ w[a] = x
      BY <1>3, <3>1
    <3> QED
      BY <3>2
  <2>2. CASE \E j \in DOMAIN f : f[j] = -x
    <3>1. PICK j \in DOMAIN f : f[j] = -x
      BY <2>2
    <3>2. CASE j = i
      <4>1. x \in Int /\ w[k + 1] = x
        BY <1>3, <3>1, <3>2
      <4> QED
        BY <4>1
    <3>3. CASE j # i
      BY <1>0, <3>1, <3>3
    <3> QED
      BY <3>2, <3>3
  <2> QED
    BY <1>6, <2>1, <2>2
<1>9. ASSUME NEW a \in 1..(k + 1), NEW b \in 1..(k + 1), w[a] = w[b] PROVE a = b
  <2>1. \A c \in 1..k : s[c] # w[k + 1]
    BY <1>3, <1>6
  <2>2. CASE a \in 1..k /\ b \in 1..k
    BY <1>3, <1>6, <1>9, <2>2
  <2> QED
    BY <1>3, <1>4, <1>9, <2>1, <2>2
<1>10. ASSUME NEW a \in 1..(k + 1), NEW j \in DOMAIN g PROVE w[a] # -g[j]
  <2>1. j \in DOMAIN f /\ g[j] = f[j] /\ f[j] # f[i] /\ f[j] \in Int /\ f[i] \in Int
    BY <1>0, <1>5, <1>6
  <2>2. -f[j] # -f[i]
    BY <2>1
  <2>3. CASE a \in 1..k
    <3>1. s[a] # -f[j]
      BY <1>6, <2>1, <2>3
    <3> QED
      BY <1>3, <2>1, <2>3, <3>1
  <2>4. CASE a = k + 1
    BY <1>3, <2>1, <2>2, <2>4
  <2> QED
    BY <1>4, <2>3, <2>4
<1>11. (\A j \in DOMAIN g : -g[j] \in A) /\ \A j, l \in DOMAIN g : g[j] = g[l] => j = l
  BY <1>0, <1>6
<1>12. (k + 1) + (p - 1) <= n
  OBVIOUS
<1> QED
  BY <1>1, <1>3, <1>7, <1>8, <1>9, <1>10, <1>11, <1>12 DEF AllThere

\* One more result, as many in flight: one place is taken and one is given up.
LEMMA PlacesNext ==
  ASSUME NEW k \in Nat, NEW p \in Nat, NEW n \in Nat, k + p < n, p > 0
  PROVE  LET P == Places(k, p, n)  Q == Places(k + 1, p, n)  next == k + 1 + p IN
         /\ next \in P /\ next \notin Q /\ k + 1 \in Q /\ k + 1 \notin P
         /\ \A a \in P : a \in Q \/ a = next
         /\ \A a \in Q : a \in P \/ a = k + 1
         /\ P \subseteq 1..n /\ Q \subseteq 1..n
BY DEF Places

\* The query_param is used for the first of the ids left.
LEMMA NextKeepsIds ==
  ASSUME NEW A, A \subseteq Int, NEW s \in Seq(Int), NEW f \in Params, NEW k \in Nat,
         NEW p \in Nat, NEW n \in Nat, AllThere(A, s, f, k, p, n), k + p < n, p > 0,
         NEW i \in DOMAIN f, NEW w, Written(w, s, k + 1, -f[i]),
         NEW g, g = [f EXCEPT ![i] = -w[k + 1 + p]]
  PROVE  AllThere(A, w, g, k + 1, p, n)
<1> DEFINE P == Places(k, p, n)  Q == Places(k + 1, p, n)  next == k + 1 + p
<1>1. /\ next \in P /\ next \notin Q /\ k + 1 \in Q /\ k + 1 \notin P
      /\ \A a \in P : a \in Q \/ a = next
      /\ \A a \in Q : a \in P \/ a = k + 1
      /\ P \subseteq 1..n /\ Q \subseteq 1..n
  BY PlacesNext
<1>2. Len(s) = n /\ k + 1 \in 1..n
  BY DEF AllThere
<1>3. w \in Seq(Int) /\ Len(w) = n /\ w[k + 1] = -f[i] /\ \A a \in 1..n : a # k + 1 => w[a] = s[a]
  BY <1>2 DEF Written
<1>4. /\ \A a \in P : s[a] \in A
      /\ \A j \in DOMAIN f : -f[j] \in A
      /\ \A x \in A : (\E a \in P : s[a] = x) \/ (\E j \in DOMAIN f : f[j] = -x)
      /\ \A a, b \in P : s[a] = s[b] => a = b
      /\ \A j, l \in DOMAIN f : f[j] = f[l] => j = l
      /\ \A a \in P, j \in DOMAIN f : s[a] # -f[j]
  BY DEF AllThere
<1>5. \A j \in DOMAIN f : f[j] \in Int
  BY ParamsFacts
<1> HIDE DEF P, Q, next
<1>6. w[next] = s[next] /\ \A a \in P : w[a] = s[a]
  BY <1>1, <1>3
<1>7. s[next] \in Int /\ s[next] \in A
  BY <1>1, <1>4
<1>8. /\ DOMAIN g = DOMAIN f /\ g[i] = -s[next]
      /\ \A j \in DOMAIN f \ {i} : g[j] = f[j]
  BY <1>6 DEF next
<1>9. -g[i] = s[next]
  BY <1>7, <1>8, Negation
<1>10. ASSUME NEW a \in Q PROVE w[a] \in A
  <2>1. CASE a \in P
    BY <1>4, <1>6, <2>1
  <2>2. CASE a = k + 1
    BY <1>3, <1>4, <2>2
  <2> QED
    BY <1>1, <2>1, <2>2
<1>11. \A j \in DOMAIN g : -g[j] \in A
  BY <1>4, <1>7, <1>8, <1>9
<1>12. ASSUME NEW x \in A
       PROVE  (\E a \in Q : w[a] = x) \/ (\E j \in DOMAIN g : g[j] = -x)
  <2>1. CASE \E a \in P : s[a] = x
    BY <1>1, <1>6, <1>8, <2>1
  <2>2. CASE \E j \in DOMAIN f : f[j] = -x
    <3>1. PICK j \in DOMAIN f : f[j] = -x
      BY <2>2
    <3>2. CASE j = i
      <4>1. x \in Int /\ w[k + 1] = x
        BY <1>3, <3>1, <3>2
      <4> QED
        BY <1>1, <4>1
    <3>3. CASE j # i
      BY <1>8, <3>1, <3>3
    <3> QED
      BY <3>2, <3>3
  <2> QED
    BY <1>4, <2>1, <2>2
<1>13. ASSUME NEW a \in Q, NEW b \in Q, w[a] = w[b] PROVE a = b
  <2>1. \A c \in P : s[c] # w[k + 1]
    BY <1>3, <1>4
  <2>2. (a \in P \/ a = k + 1) /\ (b \in P \/ b = k + 1)
    BY <1>1
  <2>3. CASE a \in P /\ b \in P
    BY <1>4, <1>6, <1>13, <2>3
  <2> QED
    BY <1>6, <1>13, <2>1, <2>2, <2>3
<1>14. \A j, l \in DOMAIN g : g[j] = g[l] => j = l
  <2>1. ASSUME NEW j \in DOMAIN f \ {i} PROVE g[j] # g[i]
    <3>1. s[next] # -f[j] /\ f[j] \in Int
      BY <1>1, <1>4, <1>5
    <3>2. f[j] # -s[next]
      BY <1>7, <3>1
    <3> QED
      BY <1>8, <3>2
  <2> QED
    BY <1>4, <1>8, <2>1
<1>15. ASSUME NEW a \in Q, NEW j \in DOMAIN g PROVE w[a] # -g[j]
  <2>1. CASE j = i
    <3>1. a \in P /\ a # next => s[a] # s[next]
      BY <1>1, <1>4
    <3>2. s[next] # -f[i]
      BY <1>1, <1>4
    <3> QED
      BY <1>1, <1>3, <1>6, <1>9, <2>1, <3>1, <3>2
  <2>2. CASE j # i
    <3>1. g[j] = f[j] /\ j \in DOMAIN f /\ f[j] # f[i] /\ f[j] \in Int /\ f[i] \in Int
      BY <1>4, <1>5, <1>8, <2>2
    <3>2. -f[j] # -f[i]
      BY <3>1
    <3>3. CASE a \in P
      <4>1. s[a] # -f[j]
        BY <1>4, <3>1, <3>3
      <4> QED
        BY <1>6, <3>1, <3>3, <4>1
    <3>4. CASE a = k + 1
      BY <1>3, <3>1, <3>2, <3>4
    <3> QED
      BY <1>1, <3>3, <3>4
  <2> QED
    BY <2>1, <2>2
<1>16. (k + 1) + p <= n
  OBVIOUS
<1> QED
  BY <1>3, <1>10, <1>11, <1>12, <1>13, <1>14, <1>15, <1>16 DEF AllThere, Q

\* It was the last query: all ids are in res[].
LEMMA LastKeepsIds ==
  ASSUME NEW A, A \subseteq Int, NEW s \in Seq(Int), NEW f \in Params, NEW k \in Nat,
         NEW p \in Nat, p = 1, NEW n \in Nat, n = k + 1, AllThere(A, s, f, k, p, n),
         NEW i, DOMAIN f = {i}, NEW w, Written(w, s, k + 1, -f[i])
  PROVE  ToSet(w) = A /\ IsInjective(w)
<1> DEFINE g == Restrict(f, DOMAIN f \ {i})
<1>1. DOMAIN g = {} /\ Without(g, f, i)
  BY DEF Restrict, Without
<1> HIDE DEF g
<1>2. i \in DOMAIN f /\ k + p = n /\ p > 0
  OBVIOUS
<1>3. AllThere(A, w, g, k + 1, p - 1, n)
  BY <1>1, <1>2, LandKeepsIds
<1>4. Places(k + 1, p - 1, n) = 1..n
  BY DEF Places
<1>5. /\ \A a \in 1..n : w[a] \in A
      /\ \A x \in A : \E a \in 1..n : w[a] = x
      /\ \A a, b \in 1..n : w[a] = w[b] => a = b
      /\ Len(w) = n
  BY <1>1, <1>3, <1>4 DEF AllThere
<1>6. DOMAIN w = 1..n
  BY <1>5 DEF Written
<1>7. ToSet(w) = A
  <2>1. \A x : x \in ToSet(w) <=> \E a \in 1..n : w[a] = x
    BY <1>6 DEF ToSet
  <2>2. ToSet(w) \subseteq A
    BY <1>5, <2>1
  <2>3. A \subseteq ToSet(w)
    BY <1>5, <2>1
  <2> QED
    BY <2>2, <2>3
<1>8. IsInjective(w)
  BY <1>5, <1>6 DEF IsInjective
<1> QED
  BY <1>7, <1>8

-----------------------------------------------------------------------------
(* Parts of the actions.                                                   *)

\* Initially there is no context.
LEMMA InitIInv == Init => IInv
<1> SUFFICES ASSUME Init PROVE IInv
  OBVIOUS
<1>1. <<>> \in Seq(Int) /\ <<>> \in [{} -> Int] /\ DOMAIN <<>> = {}
  OBVIOUS
<1>2. <<>> \in Params
  BY <1>1 DEF Params
<1>3. TypeInv
  BY <1>1, <1>2 DEF Init, TypeInv
<1>4. Cardinality({}) = 0
  BY FS_EmptySet
<1>5. ASSUME NEW r \in Requests PROVE Owned(r) /\ Waiting(r) /\ Kept(r)
  BY <1>1, <1>4 DEF Init, Owned, Waiting, Kept
<1> QED
  BY <1>3, <1>5 DEF IInv

\* Nothing of request s changes.
Same(s) ==
    /\ req'[s] = req[s] /\ ctx'[s] = ctx[s] /\ flags'[s] = flags[s]
    /\ num_query'[s] = num_query[s] /\ num_result'[s] = num_result[s]
    /\ num_query_in_progress'[s] = num_query_in_progress[s]
    /\ res'[s] = res[s] /\ gen'[s] = gen[s] /\ flying'[s] = flying[s]
    /\ body'[s] = body[s] /\ asked'[s] = asked[s]

\* A step of one request keeps the invariant of the others.
LEMMA OthersKept ==
  ASSUME IInv, NEW r \in Requests, TypeInv', Owned(r)', Waiting(r)', Kept(r)',
         \A s \in Requests \ {r} : Same(s)
  PROVE  IInv'
<1>1. ASSUME NEW s \in Requests, Same(s) PROVE Owned(s)' /\ Waiting(s)' /\ Kept(s)'
  <2>1. Owned(s) /\ Waiting(s) /\ Kept(s)
    BY DEF IInv
  <2>2. Owned(s)'
    BY <1>1, <2>1 DEF Owned, Same
  <2>3. Waiting(s)'
    BY <1>1, <2>1 DEF Waiting, Querying, Updating, Same
  <2>4. Kept(s)'
    BY <1>1, <2>1 DEF Kept, Same
  <2> QED
    BY <2>2, <2>3, <2>4
<1> QED
  BY <1>1 DEF IInv

\* A query that comes back.
LEMMA LandFacts ==
  ASSUME TypeInv, NEW r \in Requests, Owned(r), NEW i \in DOMAIN flying[r], Land(r, i)
  PROVE  /\ flying' \in [Requests -> Params]
         /\ num_query_in_progress' \in [Requests -> Nat]
         /\ DOMAIN flying'[r] = DOMAIN flying[r] \ {i}
         /\ \A j \in DOMAIN flying[r] \ {i} : flying'[r][j] = flying[r][j]
         /\ num_query_in_progress'[r] = num_query_in_progress[r] - 1
         /\ num_query_in_progress'[r] = Cardinality(DOMAIN flying'[r])
         /\ num_query_in_progress'[r] = 0 <=> DOMAIN flying'[r] = {}
         /\ \A s \in Requests \ {r} : flying'[s] = flying[s]
              /\ num_query_in_progress'[s] = num_query_in_progress[s]
<1> DEFINE f == flying[r]  g == Restrict(f, DOMAIN f \ {i})
<1>1. f \in Params /\ flying' = [flying EXCEPT ![r] = g]
  BY DEF TypeInv, Land
<1>2. /\ g \in Params
      /\ DOMAIN g = DOMAIN f \ {i} /\ \A j \in DOMAIN f \ {i} : g[j] = f[j]
      /\ Cardinality(DOMAIN g) = Cardinality(DOMAIN f) - 1
  BY <1>1, RestrictFacts
<1>3. /\ Cardinality(DOMAIN g) \in Nat
      /\ Cardinality(DOMAIN g) = 0 <=> DOMAIN g = {}
  BY <1>2, ParamsFacts
<1>4. num_query_in_progress[r] = Cardinality(DOMAIN f)
  BY DEF Owned
<1>5. num_query_in_progress' = [num_query_in_progress EXCEPT ![r] = @ - 1]
  BY DEF Land
<1>6. flying'[r] = g /\ \A s \in Requests \ {r} : flying'[s] = flying[s]
  BY <1>1 DEF TypeInv
<1> HIDE DEF f, g
<1>7. flying' \in [Requests -> Params]
  BY <1>1, <1>2 DEF TypeInv
<1>8. /\ num_query_in_progress'[r] = Cardinality(DOMAIN g)
      /\ num_query_in_progress'[r] = num_query_in_progress[r] - 1
      /\ num_query_in_progress' \in [Requests -> Nat]
      /\ \A s \in Requests \ {r} : num_query_in_progress'[s] = num_query_in_progress[s]
  BY <1>2, <1>3, <1>4, <1>5 DEF TypeInv
<1> QED
  BY <1>2, <1>3, <1>6, <1>7, <1>8 DEF f

\* A request that gets a row waits for it, and there is a place for it.
LEMMA RowFacts ==
  ASSUME TypeInv, NEW r \in Requests, Owned(r), Waiting(r), NEW i, Row(r, i)
  PROVE  /\ req[r] = "open" /\ ctx[r] = "live" /\ Querying(r)
         /\ i \in DOMAIN flying[r] /\ flying[r] \in Params
         /\ num_query[r] \in Nat /\ num_result[r] \in Nat
         /\ num_query_in_progress[r] \in Nat /\ num_query_in_progress[r] > 0
         /\ num_query_in_progress[r] = 1 => DOMAIN flying[r] = {i}
         /\ asked[r] \subseteq Int /\ res[r] \in Seq(Int)
         /\ num_result[r] + num_query_in_progress[r] <= num_query[r]
         /\ num_result'[r] = num_result[r] + 1
<1>1. /\ i \in DOMAIN flying[r] /\ flying[r][i] # Update
      /\ "DO_CLEANUP" \notin flags[r]
  BY DEF Row
<1>2. /\ flying[r] \in Params /\ req[r] \in {"none", "open", "sent", "gone"}
      /\ num_query[r] \in Nat /\ num_result[r] \in Nat
      /\ num_query_in_progress[r] \in Nat /\ res[r] \in Seq(Int)
      /\ num_result'[r] = num_result[r] + 1
  BY DEF TypeInv, Row
<1>3. req[r] = "open" /\ ctx[r] = "live"
  BY <1>1, <1>2 DEF Owned
<1>4. Querying(r)
  BY <1>1, <1>3 DEF Waiting, Updating
<1>5. num_query_in_progress[r] > 0 /\ (num_query_in_progress[r] = 1 => DOMAIN flying[r] = {i})
  <2>1. num_query_in_progress[r] = Cardinality(DOMAIN flying[r])
    BY DEF Owned
  <2>2. /\ Cardinality(DOMAIN flying[r]) = 0 <=> DOMAIN flying[r] = {}
        /\ Cardinality(DOMAIN flying[r]) = 1 => DOMAIN flying[r] = {i}
    BY <1>1, <1>2, ParamsFacts
  <2> QED
    BY <1>1, <1>2, <2>1, <2>2
<1>6. asked[r] \subseteq Int
  <2>1. asked[r] \subseteq Ids
    BY DEF TypeInv
  <2> QED
    BY <2>1, IdsAreIntegers
<1>7. num_result[r] + num_query_in_progress[r] <= num_query[r]
  BY <1>4 DEF Querying, AllThere
<1> QED
  BY <1>1, <1>2, <1>3, <1>4, <1>5, <1>6, <1>7

\* A query for an id is not the UPDATE.
LEMMA NotUpdate ==
  ASSUME NEW A, A \subseteq Ids, NEW f \in Params, NEW k, NEW p, NEW n, NEW s,
         AllThere(A, s, f, k, p, n), NEW j \in DOMAIN f
  PROVE  f[j] # Update
<1>1. -f[j] \in A /\ f[j] \in Int
  BY ParamsFacts DEF AllThere
<1>2. -f[j] \in Int /\ -f[j] # 0
  BY <1>1, UpdateIsNoId, Negation DEF Update
<1> QED
  BY <1>1, <1>2, Negation DEF Update

\* A request that waits for rows has no UPDATE in flight.
LEMMA NotUpdating ==
  ASSUME TypeInv, NEW r \in Requests, Querying(r)
  PROVE  \A j \in DOMAIN flying[r] : flying[r][j] # Update
<1>1. asked[r] \subseteq Ids /\ flying[r] \in Params
  BY DEF TypeInv
<1> QED
  BY <1>1, NotUpdate DEF Querying

\* res[] with the new row.
LEMMA WithRowFacts ==
  ASSUME TypeInv, NEW r \in Requests, Owned(r), Waiting(r), NEW i, Row(r, i)
  PROVE  /\ WithRow(r, i) \in Seq(Int)
         /\ Written(WithRow(r, i), res[r], num_result[r] + 1, -flying[r][i])
<1>1. /\ res[r] \in Seq(Int) /\ num_result[r] + 1 \in 1..Len(res[r]) /\ flying[r][i] \in Int
  BY RowFacts, ParamsFacts DEF Querying, AllThere
<1> QED
  BY <1>1 DEF WithRow, Ntohl, Written

\* With the last row, res[] has all ids that were drawn.
LEMMA LastRow ==
  ASSUME TypeInv, NEW r \in Requests, Owned(r), Waiting(r), NEW i, Row(r, i),
         Unsent(r) <= 0, num_result'[r] = num_query[r]
  PROVE  /\ DOMAIN flying[r] = {i} /\ num_query_in_progress[r] = 1
         /\ ToSet(WithRow(r, i)) = asked[r] /\ IsInjective(WithRow(r, i))
         /\ WithRow(r, i) \in Seq(Int)
<1>1. num_query[r] = num_result[r] + 1 /\ num_query_in_progress[r] = 1
  BY RowFacts DEF Unsent
<1>2. /\ DOMAIN flying[r] = {i} /\ flying[r] \in Params
      /\ AllThere(asked[r], res[r], flying[r], num_result[r], num_query_in_progress[r],
                  num_query[r])
      /\ num_query_in_progress[r] \in Nat /\ num_query[r] \in Nat
      /\ asked[r] \subseteq Int /\ res[r] \in Seq(Int) /\ num_result[r] \in Nat
  BY <1>1, RowFacts DEF Querying
<1>3. /\ WithRow(r, i) \in Seq(Int)
      /\ Written(WithRow(r, i), res[r], num_result[r] + 1, -flying[r][i])
  BY WithRowFacts
<1>4. ToSet(WithRow(r, i)) = asked[r] /\ IsInjective(WithRow(r, i))
  BY <1>1, <1>2, <1>3, LastKeepsIds
<1> QED
  BY <1>1, <1>2, <1>3, <1>4

\* The response is sent: with all ids and from a buffer that is kept, or
\* without a body.
SentWith(r, ids) ==
    /\ gen' \in [Requests -> BOOLEAN] /\ body' \in [Requests -> Seq(Int)]
    /\ \/ gen'[r] /\ body'[r] = ids
       \/ gen'[r] = gen[r] /\ body'[r] = body[r]
    /\ \A s \in Requests \ {r} : gen'[s] = gen[s] /\ body'[s] = body[s]

\* serialize_items sends the response.
LEMMA SerializeFacts ==
  ASSUME TypeInv, NEW r \in Requests, NEW ids \in Seq(Int),
         \/ /\ gen' = [gen EXCEPT ![r] = TRUE]
            /\ body' = [body EXCEPT ![r] = ids]
         \/ UNCHANGED <<gen, body>>
  PROVE  SentWith(r, ids)
<1>0. gen \in [Requests -> BOOLEAN] /\ body \in [Requests -> Seq(Int)]
  BY DEF TypeInv
<1>1. CASE gen' = [gen EXCEPT ![r] = TRUE] /\ body' = [body EXCEPT ![r] = ids]
  <2>1. gen' \in [Requests -> BOOLEAN] /\ gen'[r] /\ \A s \in Requests \ {r} : gen'[s] = gen[s]
    BY <1>0, <1>1
  <2>2. /\ body' \in [Requests -> Seq(Int)] /\ body'[r] = ids
        /\ \A s \in Requests \ {r} : body'[s] = body[s]
    BY <1>0, <1>1
  <2> QED
    BY <2>1, <2>2 DEF SentWith
<1>2. CASE UNCHANGED <<gen, body>>
  BY <1>0, <1>2 DEF SentWith
<1> QED
  BY <1>1, <1>2

-----------------------------------------------------------------------------
(* One lemma per action.                                                   *)

\* A callback without a row, or one that nobody waits for.
LEMMA NoRowStep ==
  ASSUME IInv, NEW r \in Requests, NEW i, NoRow(r, i)
  PROVE  IInv'
<1>0. TypeInv /\ Owned(r) /\ Waiting(r) /\ Kept(r) /\ i \in DOMAIN flying[r] /\ Land(r, i)
  BY DEF IInv, NoRow
<1>1. /\ flying' \in [Requests -> Params]
      /\ num_query_in_progress' \in [Requests -> Nat]
      /\ DOMAIN flying'[r] = DOMAIN flying[r] \ {i}
      /\ \A j \in DOMAIN flying[r] \ {i} : flying'[r][j] = flying[r][j]
      /\ num_query_in_progress'[r] = Cardinality(DOMAIN flying'[r])
      /\ num_query_in_progress'[r] = 0 <=> DOMAIN flying'[r] = {}
      /\ \A s \in Requests \ {r} : flying'[s] = flying[s]
           /\ num_query_in_progress'[s] = num_query_in_progress[s]
  BY <1>0, LandFacts
<1>2. /\ UNCHANGED <<num_query, num_result, res, body, asked>>
      /\ req[r] \in {"open", "sent", "gone"}
  BY <1>0 DEF NoRow, Owned, TypeInv
<1>3. CASE "DO_CLEANUP" \in flags[r]
  <2>1. UNCHANGED <<flags, req>> /\ Abandoned(r) /\ req[r] \in {"sent", "gone"}
    BY <1>0, <1>2, <1>3 DEF NoRow, Owned
  <2>2. TypeInv'
    BY <1>0, <1>1, <1>2, <2>1 DEF TypeInv, Abandoned, Cleanup
  <2>3. Owned(r)'
    BY <1>0, <1>1, <1>2, <2>1 DEF TypeInv, Abandoned, Cleanup, Owned
  <2>4. Waiting(r)' /\ Kept(r)'
    BY <1>0, <1>2, <2>1 DEF TypeInv, Abandoned, Cleanup, Waiting, Kept
  <2>5. \A s \in Requests \ {r} : Same(s)
    BY <1>0, <1>1, <1>2, <2>1 DEF TypeInv, Abandoned, Cleanup, Same
  <2> QED
    BY <2>2, <2>3, <2>4, <2>5, OthersKept
<1>4. CASE "DO_CLEANUP" \notin flags[r]
  <2>1. /\ UNCHANGED <<ctx, gen>> /\ GiveUp(r)
        /\ req[r] = "open" /\ ctx[r] = "live"
    BY <1>0, <1>2, <1>4 DEF NoRow, Owned
  <2>2. req' = [req EXCEPT ![r] = "sent"]
    BY <2>1 DEF GiveUp, Answered
  <2>3. TypeInv'
    BY <1>0, <1>1, <1>2, <2>1, <2>2 DEF TypeInv, GiveUp, Flags
  <2>4. Owned(r)'
    BY <1>0, <1>1, <1>2, <2>1, <2>2 DEF TypeInv, GiveUp, Owned
  <2>5. Waiting(r)' /\ Kept(r)'
    BY <1>0, <1>2, <2>1, <2>2 DEF TypeInv, Waiting, Kept
  <2>6. \A s \in Requests \ {r} : Same(s)
    BY <1>0, <1>1, <1>2, <2>1, <2>2 DEF TypeInv, GiveUp, Same
  <2> QED
    BY <2>3, <2>4, <2>5, <2>6, OthersKept
<1> QED
  BY <1>3, <1>4

\* h2o disposes of the request.
LEMMA CleanupRequestStep ==
  ASSUME IInv, NEW r \in Requests, CleanupRequest(r)
  PROVE  IInv'
<1>0. TypeInv /\ Owned(r) /\ Waiting(r) /\ Kept(r)
  BY DEF IInv
<1>1. /\ flying[r] \in Params
      /\ num_query_in_progress[r] = 0 <=> DOMAIN flying[r] = {}
  <2>1. flying[r] \in Params /\ num_query_in_progress[r] = Cardinality(DOMAIN flying[r])
    BY <1>0 DEF TypeInv, Owned
  <2> QED
    BY <2>1, ParamsFacts
<1>2. /\ UNCHANGED <<num_query, num_result, num_query_in_progress, res, flying, body, asked>>
      /\ req[r] \in {"open", "sent"} /\ req' = [req EXCEPT ![r] = "gone"]
      /\ flags' = [flags EXCEPT ![r] = @ \union {"IS_COMPLETED", "DO_CLEANUP"}]
  BY DEF CleanupRequest
<1>3. /\ ctx' = [ctx EXCEPT ![r] = IF DOMAIN flying[r] = {} THEN "freed" ELSE "live"]
      /\ gen' = IF DOMAIN flying[r] = {} THEN [gen EXCEPT ![r] = FALSE] ELSE gen
  BY <1>0, <1>1, <1>2 DEF CleanupRequest, Cleanup, Owned, TypeInv
<1>4. TypeInv'
  BY <1>0, <1>2, <1>3 DEF TypeInv, Flags
<1>5. Owned(r)'
  BY <1>0, <1>2, <1>3 DEF TypeInv, Owned
<1>6. Waiting(r)' /\ Kept(r)'
  BY <1>0, <1>2, <1>3 DEF TypeInv, Waiting, Kept, Owned
<1>7. \A s \in Requests \ {r} : Same(s)
  BY <1>0, <1>2, <1>3 DEF TypeInv, Same
<1> QED
  BY <1>4, <1>5, <1>6, <1>7, OthersKept

\* The last row of a request without updates.
LEMMA ResultLastStep ==
  ASSUME IInv, NEW r \in Requests, NEW i, ResultLast(r, i)
  PROVE  IInv'
<1>0. TypeInv /\ Owned(r) /\ Waiting(r) /\ Kept(r) /\ Row(r, i) /\ Land(r, i)
  BY DEF IInv, ResultLast
<1>1. req[r] = "open" /\ ctx[r] = "live" /\ i \in DOMAIN flying[r]
  BY <1>0, RowFacts DEF Owned
<1>2. /\ flying' \in [Requests -> Params]
      /\ num_query_in_progress' \in [Requests -> Nat]
      /\ DOMAIN flying'[r] = DOMAIN flying[r] \ {i}
      /\ \A j \in DOMAIN flying[r] \ {i} : flying'[r][j] = flying[r][j]
      /\ num_query_in_progress'[r] = Cardinality(DOMAIN flying'[r])
      /\ \A s \in Requests \ {r} : flying'[s] = flying[s]
           /\ num_query_in_progress'[s] = num_query_in_progress[s]
  BY <1>0, <1>1, LandFacts
<1>3. /\ DOMAIN flying[r] = {i} /\ ToSet(WithRow(r, i)) = asked[r]
      /\ IsInjective(WithRow(r, i)) /\ WithRow(r, i) \in Seq(Int)
  BY <1>0, LastRow DEF ResultLast
<1>4. /\ UNCHANGED <<num_query, ctx, asked>>
      /\ num_result' = [num_result EXCEPT ![r] = @ + 1]
      /\ res' = [res EXCEPT ![r] = WithRow(r, i)]
      /\ flags' = [flags EXCEPT ![r] = @ \union {"DO_CLEANUP"}]
      /\ Serialize(r, res'[r])
  BY DEF ResultLast, Row
<1>5. req' = [req EXCEPT ![r] = "sent"] /\ res'[r] = WithRow(r, i)
  BY <1>0, <1>1, <1>4 DEF Serialize, Answered, TypeInv
<1>6. SentWith(r, WithRow(r, i))
  BY <1>0, <1>3, <1>4, <1>5, SerializeFacts DEF Serialize
<1>7. TypeInv'
  <2>1. num_result' \in [Requests -> Nat] /\ res' \in [Requests -> Seq(Int)]
    BY <1>0, <1>3, <1>4 DEF TypeInv
  <2>2. flags' \in [Requests -> SUBSET Flags]
    BY <1>0, <1>4 DEF TypeInv, Flags
  <2> QED
    BY <1>0, <1>2, <1>4, <1>5, <1>6, <2>1, <2>2 DEF TypeInv, SentWith
<1>8. Owned(r)'
  BY <1>0, <1>1, <1>2, <1>3, <1>4, <1>5 DEF TypeInv, Owned
<1>9. Waiting(r)' /\ Kept(r)'
  BY <1>0, <1>1, <1>3, <1>4, <1>5, <1>6 DEF TypeInv, Waiting, Kept, SentWith
<1>10. \A s \in Requests \ {r} : Same(s)
  BY <1>0, <1>2, <1>4, <1>5, <1>6 DEF TypeInv, Same, SentWith
<1> QED
  BY <1>7, <1>8, <1>9, <1>10, OthersKept

\* The last results are on their way.
LEMMA ResultWaitStep ==
  ASSUME IInv, NEW r \in Requests, NEW i, ResultWait(r, i)
  PROVE  IInv'
<1>0. TypeInv /\ Owned(r) /\ Waiting(r) /\ Kept(r) /\ Row(r, i) /\ Land(r, i)
  BY DEF IInv, ResultWait
<1>1. /\ req[r] = "open" /\ ctx[r] = "live" /\ Querying(r)
      /\ i \in DOMAIN flying[r] /\ flying[r] \in Params
      /\ num_query[r] \in Nat /\ num_result[r] \in Nat
      /\ num_query_in_progress[r] \in Nat /\ num_query_in_progress[r] > 0
      /\ asked[r] \subseteq Int /\ res[r] \in Seq(Int)
      /\ num_result[r] + num_query_in_progress[r] <= num_query[r]
      /\ num_result'[r] = num_result[r] + 1
  BY <1>0, RowFacts
<1>2. /\ flying' \in [Requests -> Params]
      /\ num_query_in_progress' \in [Requests -> Nat]
      /\ DOMAIN flying'[r] = DOMAIN flying[r] \ {i}
      /\ \A j \in DOMAIN flying[r] \ {i} : flying'[r][j] = flying[r][j]
      /\ num_query_in_progress'[r] = num_query_in_progress[r] - 1
      /\ num_query_in_progress'[r] = Cardinality(DOMAIN flying'[r])
      /\ num_query_in_progress'[r] = 0 <=> DOMAIN flying'[r] = {}
      /\ \A s \in Requests \ {r} : flying'[s] = flying[s]
           /\ num_query_in_progress'[s] = num_query_in_progress[s]
  BY <1>0, <1>1, LandFacts
<1>3. /\ WithRow(r, i) \in Seq(Int)
      /\ Written(WithRow(r, i), res[r], num_result[r] + 1, -flying[r][i])
  BY <1>0, WithRowFacts
<1>4. /\ UNCHANGED <<num_query, ctx, asked, req, flags, gen, body>>
      /\ num_result' = [num_result EXCEPT ![r] = @ + 1]
      /\ res' = [res EXCEPT ![r] = WithRow(r, i)]
      /\ Unsent(r) <= 0 /\ num_result'[r] # num_query[r]
  BY DEF ResultWait, Row
<1>5. res'[r] = WithRow(r, i)
  BY <1>0, <1>4 DEF TypeInv
<1>6. /\ num_result[r] + num_query_in_progress[r] = num_query[r]
      /\ num_query_in_progress[r] > 1
  <2>1. /\ num_query[r] \in Nat /\ num_result[r] \in Nat
        /\ num_query_in_progress[r] \in Nat /\ num_query_in_progress[r] > 0
        /\ num_result[r] + num_query_in_progress[r] <= num_query[r]
        /\ num_result[r] + 1 # num_query[r]
    BY <1>1, <1>4
  <2>2. num_query[r] - num_result[r] - num_query_in_progress[r] <= 0
    BY <1>4 DEF Unsent
  <2> QED
    BY <2>1, <2>2
<1>7. TypeInv'
  <2>1. num_result' \in [Requests -> Nat] /\ res' \in [Requests -> Seq(Int)]
    BY <1>0, <1>3, <1>4 DEF TypeInv
  <2> QED
    BY <1>0, <1>2, <1>4, <2>1 DEF TypeInv
<1>8. Owned(r)'
  <2>1. \A j \in DOMAIN flying[r] : flying[r][j] # Update
    BY <1>0, <1>1, NotUpdating
  <2> QED
    BY <1>0, <1>1, <1>2, <1>4, <1>6, <2>1 DEF TypeInv, Owned
<1>9. AllThere(asked[r], res'[r], flying'[r], num_result[r] + 1,
               num_query_in_progress[r] - 1, num_query[r])
  <2>1. AllThere(asked[r], res[r], flying[r], num_result[r], num_query_in_progress[r],
                 num_query[r])
    BY <1>1 DEF Querying
  <2>2. Without(flying'[r], flying[r], i)
    BY <1>2 DEF Without
  <2> QED
    BY <1>1, <1>3, <1>5, <1>6, <2>1, <2>2, LandKeepsIds
<1>10. Waiting(r)' /\ Kept(r)'
  BY <1>0, <1>1, <1>2, <1>4, <1>9 DEF Waiting, Kept, Querying
<1>11. \A s \in Requests \ {r} : Same(s)
  BY <1>0, <1>2, <1>4 DEF TypeInv, Same
<1> QED
  BY <1>7, <1>8, <1>10, <1>11, OthersKept

\* The pool refuses the next query: the request is answered with an error.
LEMMA RefusedStep ==
  ASSUME IInv, NEW r \in Requests, NEW i, i \in DOMAIN flying[r], Land(r, i), GiveUp(r),
         req[r] = "open", UNCHANGED <<ctx, num_query, asked, gen, body>>,
         num_result' \in [Requests -> Nat], res' \in [Requests -> Seq(Int)],
         \A s \in Requests \ {r} : num_result'[s] = num_result[s] /\ res'[s] = res[s]
  PROVE  IInv'
<1>0. TypeInv /\ Owned(r) /\ Waiting(r) /\ Kept(r)
  BY DEF IInv
<1>1. /\ flying' \in [Requests -> Params]
      /\ num_query_in_progress' \in [Requests -> Nat]
      /\ DOMAIN flying'[r] = DOMAIN flying[r] \ {i}
      /\ \A j \in DOMAIN flying[r] \ {i} : flying'[r][j] = flying[r][j]
      /\ num_query_in_progress'[r] = Cardinality(DOMAIN flying'[r])
      /\ \A s \in Requests \ {r} : flying'[s] = flying[s]
           /\ num_query_in_progress'[s] = num_query_in_progress[s]
  BY <1>0, LandFacts
<1>2. /\ req' = [req EXCEPT ![r] = "sent"] /\ ctx[r] = "live"
      /\ flags' = [flags EXCEPT ![r] = @ \union {"DO_CLEANUP"}]
  BY <1>0 DEF GiveUp, Answered, Owned
<1>3. TypeInv'
  BY <1>0, <1>1, <1>2 DEF TypeInv, Flags
<1>4. Owned(r)'
  BY <1>0, <1>1, <1>2 DEF TypeInv, Owned
<1>5. Waiting(r)' /\ Kept(r)'
  BY <1>0, <1>2 DEF TypeInv, Waiting, Kept
<1>6. \A s \in Requests \ {r} : Same(s)
  BY <1>0, <1>1, <1>2 DEF TypeInv, Same
<1> QED
  BY <1>3, <1>4, <1>5, <1>6, OthersKept

\* A row with ids left to send.
LEMMA ResultNextStep ==
  ASSUME IInv, NEW r \in Requests, NEW i, ResultNext(r, i)
  PROVE  IInv'
<1>0. TypeInv /\ Owned(r) /\ Waiting(r) /\ Kept(r) /\ Row(r, i)
  BY DEF IInv, ResultNext
<1>1. /\ req[r] = "open" /\ ctx[r] = "live" /\ Querying(r)
      /\ i \in DOMAIN flying[r] /\ flying[r] \in Params
      /\ num_query[r] \in Nat /\ num_result[r] \in Nat
      /\ num_query_in_progress[r] \in Nat /\ num_query_in_progress[r] > 0
      /\ asked[r] \subseteq Int /\ res[r] \in Seq(Int)
      /\ num_result'[r] = num_result[r] + 1
  BY <1>0, RowFacts
<1>2. Written(WithRow(r, i), res[r], num_result[r] + 1, -flying[r][i])
  BY <1>0, WithRowFacts
<1>3. /\ UNCHANGED <<num_query, ctx, asked, gen, body>>
      /\ num_result' = [num_result EXCEPT ![r] = @ + 1]
      /\ res' = [res EXCEPT ![r] = WithRow(r, i)]
      /\ Unsent(r) > 0
      /\ \/ Resubmit(r, i, Htonl(NextId(r))) /\ UNCHANGED <<req, flags>>
         \/ Land(r, i) /\ GiveUp(r)
  BY DEF ResultNext, Row
<1>4. res'[r] = WithRow(r, i)
  BY <1>0, <1>3 DEF TypeInv
<1>5. num_result[r] + num_query_in_progress[r] < num_query[r]
  BY <1>1, <1>3 DEF Unsent
<1>6. num_result' \in [Requests -> Nat] /\ res' \in [Requests -> Seq(Int)]
  BY <1>0, <1>2, <1>3 DEF TypeInv, Written
<1>7. CASE Land(r, i) /\ GiveUp(r)
  <2>1. \A s \in Requests \ {r} : num_result'[s] = num_result[s] /\ res'[s] = res[s]
    BY <1>0, <1>3 DEF TypeInv
  <2> QED
    BY <1>1, <1>3, <1>6, <1>7, <2>1, RefusedStep
<1>8. CASE Resubmit(r, i, Htonl(NextId(r))) /\ UNCHANGED <<req, flags>>
  <2> DEFINE w == WithRow(r, i)
             g == [flying[r] EXCEPT ![i] = -w[num_result[r] + 1 + num_query_in_progress[r]]]
  <2>1. UNCHANGED num_query_in_progress /\ flying' = [flying EXCEPT ![r] = g]
    BY <1>1, <1>4, <1>8 DEF Resubmit, Htonl, NextId
  <2>2. w[num_result[r] + 1 + num_query_in_progress[r]] \in Int
    <3>1. w \in Seq(Int) /\ Len(w) = num_query[r]
      BY <1>1, <1>2 DEF Written, Querying, AllThere
    <3>2. num_result[r] + 1 + num_query_in_progress[r] \in 1..num_query[r]
      BY <1>1, <1>5
    <3> QED
      BY <3>1, <3>2
  <2>3. g \in [DOMAIN flying[r] -> Int] /\ DOMAIN flying[r] \subseteq 1..Window
    BY <1>1, <2>2, ParamsFacts
  <2>4. g \in Params /\ DOMAIN g = DOMAIN flying[r]
    BY <2>3 DEF Params
  <2>5. AllThere(asked[r], w, g, num_result[r] + 1, num_query_in_progress[r], num_query[r])
    <3>1. AllThere(asked[r], res[r], flying[r], num_result[r], num_query_in_progress[r],
                   num_query[r])
      BY <1>1 DEF Querying
    <3> HIDE DEF w
    <3> QED
      BY <1>1, <1>2, <1>5, <3>1, NextKeepsIds DEF w
  <2> HIDE DEF g, w
  <2>6. flying'[r] = g /\ \A s \in Requests \ {r} : flying'[s] = flying[s]
    BY <1>0, <2>1 DEF TypeInv
  <2>7. TypeInv'
    BY <1>0, <1>3, <1>6, <1>8, <2>1, <2>4 DEF TypeInv
  <2>8. Querying(r)'
    BY <1>1, <1>3, <1>4, <2>1, <2>5, <2>6 DEF Querying, w
  <2>9. \A j \in DOMAIN flying'[r] : flying'[r][j] # Update
    <3>1. asked[r] \subseteq Ids
      BY <1>0 DEF TypeInv
    <3> QED
      BY <2>4, <2>5, <2>6, <3>1, NotUpdate
  <2>10. Owned(r)'
    BY <1>0, <1>1, <1>3, <1>8, <2>1, <2>4, <2>6, <2>9 DEF TypeInv, Owned
  <2>11. Waiting(r)' /\ Kept(r)'
    BY <1>0, <1>1, <1>3, <1>8, <2>8 DEF Waiting, Kept
  <2>12. \A s \in Requests \ {r} : Same(s)
    BY <1>0, <1>3, <1>8, <2>1, <2>6 DEF TypeInv, Same
  <2> QED
    BY <2>7, <2>10, <2>11, <2>12, OthersKept
<1> QED
  BY <1>3, <1>7, <1>8

\* The last row of a request with updates.
LEMMA DoUpdatesStep ==
  ASSUME IInv, NEW r \in Requests, NEW i, DoUpdates(r, i)
  PROVE  IInv'
<1>0. TypeInv /\ Owned(r) /\ Waiting(r) /\ Kept(r) /\ Row(r, i)
  BY DEF IInv, DoUpdates
<1>1. req[r] = "open" /\ ctx[r] = "live" /\ i \in DOMAIN flying[r] /\ asked[r] \subseteq Int
  BY <1>0, RowFacts
<1>2. /\ DOMAIN flying[r] = {i} /\ num_query_in_progress[r] = 1
      /\ ToSet(WithRow(r, i)) = asked[r] /\ IsInjective(WithRow(r, i))
      /\ WithRow(r, i) \in Seq(Int)
  BY <1>0, LastRow DEF DoUpdates
<1>3. PICK rows \in Sorted(WithRow(r, i)) :
          res' = [res EXCEPT ![r] = [k \in DOMAIN rows |-> Htonl(rows[k])]]
  BY DEF DoUpdates
<1>4. /\ UNCHANGED <<num_query, ctx, asked, gen, body>>
      /\ num_result' = [num_result EXCEPT ![r] = @ + 1]
      /\ \/ /\ flying' = [flying EXCEPT ![r] = [q \in {1} |-> Update]]
            /\ UNCHANGED <<num_query_in_progress, req, flags>>
         \/ Land(r, i) /\ GiveUp(r)
  BY DEF DoUpdates, Row
<1> DEFINE n == Len(WithRow(r, i))
<1>5. /\ n \in Nat /\ rows \in [1..n -> Int] /\ IsInjective(rows)
      /\ ToSet(rows) = asked[r]
  BY <1>2, <1>3, SortedFacts
<1> HIDE DEF n
<1>6. /\ res'[r] \in [1..n -> Int] /\ \A a \in 1..n : res'[r][a] = -rows[a]
  BY <1>0, <1>3, <1>5 DEF TypeInv, Htonl
<1>7. num_result' \in [Requests -> Nat] /\ res' \in [Requests -> Seq(Int)]
  <2>1. res'[r] \in Seq(Int)
    BY <1>5, <1>6, FunctionIsSeq
  <2> QED
    BY <1>0, <1>3, <1>4, <2>1 DEF TypeInv
<1>8. \A s \in Requests \ {r} : num_result'[s] = num_result[s] /\ res'[s] = res[s]
  BY <1>0, <1>3, <1>4 DEF TypeInv
<1>9. CASE Land(r, i) /\ GiveUp(r)
  BY <1>1, <1>4, <1>7, <1>8, <1>9, RefusedStep
<1>10. CASE /\ flying' = [flying EXCEPT ![r] = [q \in {1} |-> Update]]
            /\ UNCHANGED <<num_query_in_progress, req, flags>>
  <2> DEFINE g == [q \in {1} |-> Update]
  <2>1. g \in [{1} -> Int] /\ DOMAIN g = {1} /\ g[1] = Update /\ {1} \subseteq 1..Window
    BY WorldAssumption DEF Update
  <2>2. g \in Params
    BY <2>1 DEF Params
  <2>3. flying'[r] = g /\ \A s \in Requests \ {r} : flying'[s] = flying[s]
    BY <1>0, <1>10 DEF TypeInv
  <2>4. flying' \in [Requests -> Params]
    BY <1>0, <1>10, <2>2 DEF TypeInv
  <2> HIDE DEF g
  <2>5. Cardinality({1}) = 1
    BY FS_Singleton
  <2>6. TypeInv'
    BY <1>0, <1>4, <1>7, <1>10, <2>4 DEF TypeInv
  <2>7. Owned(r)'
    BY <1>0, <1>1, <1>2, <1>10, <1>4, <2>1, <2>3, <2>5 DEF TypeInv, Owned
  <2>8. Updating(r)'
    <3>1. DOMAIN res'[r] = 1..n /\ DOMAIN rows = 1..n
      BY <1>5, <1>6
    <3>2. ASSUME NEW a \in 1..n
          PROVE  /\ rows[a] \in Int /\ rows[a] \in asked[r]
                 /\ res'[r][a] = -rows[a] /\ -res'[r][a] = rows[a]
      BY <1>5, <1>6, <3>1, Negation DEF ToSet
    <3>3. ASSUME NEW x \in asked[r] PROVE \E a \in 1..n : res'[r][a] = -x
      BY <1>5, <1>6, <3>1 DEF ToSet
    <3>4. ASSUME NEW a \in 1..n, NEW b \in 1..n, res'[r][a] = res'[r][b] PROVE a = b
      <4>1. rows[a] = rows[b]
        BY <3>2, <3>4
      <4> QED
        BY <1>5, <3>1, <4>1 DEF IsInjective
    <3>5. IsInjective(res'[r])
      BY <3>1, <3>4 DEF IsInjective
    <3> QED
      BY <1>4, <2>1, <2>3, <3>1, <3>2, <3>3, <3>5 DEF Updating
  <2>9. Waiting(r)' /\ Kept(r)'
    BY <1>0, <1>1, <1>4, <1>10, <2>8 DEF Waiting, Kept
  <2>10. \A s \in Requests \ {r} : Same(s)
    BY <1>0, <1>4, <1>8, <1>10, <2>3 DEF TypeInv, Same
  <2> QED
    BY <2>6, <2>7, <2>9, <2>10, OthersKept
<1> QED
  BY <1>4, <1>9, <1>10

\* The rows in host order again.
LEMMA HostOrder ==
  ASSUME NEW A, A \subseteq Int, NEW s \in Seq(Int), IsInjective(s),
         \A a \in DOMAIN s : -s[a] \in A, \A x \in A : \E a \in DOMAIN s : s[a] = -x,
         NEW t, t = [k \in DOMAIN s |-> Ntohl(s[k])]
  PROVE  t \in Seq(Int) /\ ToSet(t) = A /\ IsInjective(t)
<1>1. DOMAIN s = 1..Len(s) /\ Len(s) \in Nat /\ \A a \in DOMAIN s : s[a] \in Int
  OBVIOUS
<1>2. DOMAIN t = DOMAIN s /\ \A a \in DOMAIN s : t[a] = -s[a] /\ t[a] \in Int /\ t[a] \in A
  BY <1>1, Negation DEF Ntohl
<1>3. t \in [1..Len(s) -> Int]
  BY <1>1, <1>2
<1>4. t \in Seq(Int)
  BY <1>1, <1>3, FunctionIsSeq
<1>5. ASSUME NEW x \in A PROVE \E a \in DOMAIN s : t[a] = x
  <2>1. PICK a \in DOMAIN s : s[a] = -x
    OBVIOUS
  <2>2. x \in Int /\ -(-x) = x
    BY Negation
  <2> QED
    BY <1>2, <2>1, <2>2
<1>6. ToSet(t) = A
  <2>1. ToSet(t) \subseteq A
    BY <1>2 DEF ToSet
  <2>2. A \subseteq ToSet(t)
    BY <1>2, <1>5 DEF ToSet
  <2> QED
    BY <2>1, <2>2
<1>7. ASSUME NEW a \in DOMAIN s, NEW b \in DOMAIN s, t[a] = t[b] PROVE a = b
  <2>1. s[a] = s[b]
    BY <1>1, <1>2, <1>7, Negation
  <2> QED
    BY <2>1 DEF IsInjective
<1> QED
  BY <1>2, <1>4, <1>6, <1>7 DEF IsInjective

\* The UPDATE was executed, or failed.
LEMMA OnUpdateResultStep ==
  ASSUME IInv, NEW r \in Requests, OnUpdateResult(r)
  PROVE  IInv'
<1>0. /\ TypeInv /\ Owned(r) /\ Waiting(r) /\ Kept(r)
      /\ 1 \in DOMAIN flying[r] /\ flying[r][1] = Update /\ Land(r, 1)
  BY DEF IInv, OnUpdateResult
<1>1. /\ flying' \in [Requests -> Params]
      /\ num_query_in_progress' \in [Requests -> Nat]
      /\ DOMAIN flying'[r] = DOMAIN flying[r] \ {1}
      /\ num_query_in_progress'[r] = Cardinality(DOMAIN flying'[r])
      /\ \A s \in Requests \ {r} : flying'[s] = flying[s]
           /\ num_query_in_progress'[s] = num_query_in_progress[s]
  BY <1>0, LandFacts
<1>2. /\ DOMAIN flying'[r] = {} /\ req[r] # "sent" /\ req[r] # "none"
      /\ req[r] \in {"none", "open", "sent", "gone"}
  BY <1>0, <1>1 DEF Owned, TypeInv
<1>3. /\ UNCHANGED <<num_query, num_result, asked>>
      /\ flags' = [flags EXCEPT ![r] = @ \union {"DO_CLEANUP"}]
  BY DEF OnUpdateResult
<1>4. flags' \in [Requests -> SUBSET Flags]
  BY <1>0, <1>3 DEF TypeInv, Flags
<1>5. CASE /\ "DO_CLEANUP" \in flags[r]
           /\ Cleanup(r)
           /\ UNCHANGED <<req, res, body>>
  <2>1. req[r] = "gone"
    BY <1>0, <1>2, <1>5 DEF Owned
  <2>2. TypeInv'
    BY <1>0, <1>1, <1>3, <1>4, <1>5 DEF TypeInv, Cleanup
  <2>3. Owned(r)'
    BY <1>0, <1>1, <1>2, <1>3, <1>5, <2>1 DEF TypeInv, Cleanup, Owned
  <2>4. Waiting(r)' /\ Kept(r)'
    BY <1>0, <1>3, <1>5, <2>1 DEF TypeInv, Cleanup, Waiting, Kept
  <2>5. \A s \in Requests \ {r} : Same(s)
    BY <1>0, <1>1, <1>3, <1>5 DEF TypeInv, Cleanup, Same
  <2> QED
    BY <2>2, <2>3, <2>4, <2>5, OthersKept
<1>6. CASE "DO_CLEANUP" \notin flags[r]
  <2>1. /\ req[r] = "open" /\ ctx[r] = "live" /\ UNCHANGED ctx /\ req' = Answered(r)
    BY <1>0, <1>2, <1>6 DEF Owned, OnUpdateResult, Serialize
  <2>2. req' = [req EXCEPT ![r] = "sent"]
    BY <2>1 DEF Answered
  <2>3. Updating(r) /\ asked[r] \subseteq Int /\ res[r] \in Seq(Int)
    <3>1. Updating(r)
      BY <1>0, <2>1, NotUpdating DEF Waiting
    <3>2. asked[r] \subseteq Ids /\ res[r] \in Seq(Int)
      BY <1>0 DEF TypeInv
    <3> QED
      BY <3>1, <3>2, IdsAreIntegers
  <2> DEFINE t == [k \in DOMAIN res[r] |-> Ntohl(res[r][k])]
  <2>4. t \in Seq(Int) /\ ToSet(t) = asked[r] /\ IsInjective(t)
    BY <2>3, HostOrder DEF Updating
  <2>5. \/ /\ res' = [res EXCEPT ![r] = t] /\ Serialize(r, res'[r])
        \/ UNCHANGED <<res, gen, body>>
    BY <1>6 DEF OnUpdateResult
  <2> HIDE DEF t
  <2>6. /\ res' \in [Requests -> Seq(Int)]
        /\ \A s \in Requests \ {r} : res'[s] = res[s]
    BY <1>0, <2>4, <2>5 DEF TypeInv
  <2>7. SentWith(r, t)
    <3>1. CASE res' = [res EXCEPT ![r] = t] /\ Serialize(r, res'[r])
      <4>1. res'[r] = t
        BY <1>0, <3>1 DEF TypeInv
      <4> QED
        BY <1>0, <2>4, <3>1, <4>1, SerializeFacts DEF Serialize
    <3>2. CASE UNCHANGED <<res, gen, body>>
      BY <1>0, <2>4, <3>2, SerializeFacts
    <3> QED
      BY <2>5, <3>1, <3>2
  <2>8. TypeInv'
    BY <1>0, <1>1, <1>3, <1>4, <2>1, <2>2, <2>6, <2>7 DEF TypeInv, SentWith
  <2>9. Owned(r)'
    BY <1>0, <1>1, <1>2, <1>3, <2>1, <2>2 DEF TypeInv, Owned
  <2>10. Waiting(r)' /\ Kept(r)'
    BY <1>0, <1>3, <2>1, <2>2, <2>4, <2>7 DEF TypeInv, Waiting, Kept, SentWith
  <2>11. \A s \in Requests \ {r} : Same(s)
    BY <1>0, <1>1, <1>3, <2>1, <2>2, <2>6, <2>7 DEF TypeInv, Same, SentWith
  <2> QED
    BY <2>8, <2>9, <2>10, <2>11, OthersKept
<1> QED
  BY <1>5, <1>6 DEF OnUpdateResult

\* What initialize_ids draws.
LEMMA DrawnFacts ==
  ASSUME NEW n \in Nat, NEW ids \in Drawn(n)
  PROVE  /\ ids \in Seq(Int) /\ Len(ids) = n /\ DOMAIN ids = 1..n
         /\ ToSet(ids) \subseteq Ids /\ ToSet(ids) \subseteq Int
         /\ IsInjective(ids) /\ \A a \in 1..n : ids[a] \in Int
<1>1. ids \in [1..n -> Ids] /\ IsInjective(ids)
  BY DEF Drawn
<1>2. ids \in [1..n -> Int]
  <2>1. Ids \subseteq Int
    BY IdsAreIntegers
  <2> QED
    BY <1>1, <2>1
<1>3. ToSet(ids) \subseteq Ids
  BY <1>1 DEF ToSet
<1> QED
  BY <1>1, <1>2, <1>3, FunctionIsSeq, IdsAreIntegers

\* The ids of the first p queries are in flight.
LEMMA SendKeepsIds ==
  ASSUME NEW n \in Nat, NEW ids \in Drawn(n), NEW p \in Nat, p <= n, p <= Window,
         NEW f, f = [i \in 1..p |-> -ids[i]]
  PROVE  /\ f \in Params /\ DOMAIN f = 1..p
         /\ AllThere(ToSet(ids), ids, f, 0, p, n)
<1>1. /\ Len(ids) = n /\ DOMAIN ids = 1..n /\ IsInjective(ids)
      /\ \A a \in 1..n : ids[a] \in Int
  BY DrawnFacts
<1>2. DOMAIN f = 1..p /\ \A i \in 1..p : f[i] = -ids[i] /\ f[i] \in Int /\ -f[i] = ids[i]
  BY <1>1, Negation
<1>3. f \in Params
  <2>1. 1..p \in SUBSET (1..Window)
    BY WorldAssumption
  <2>2. f \in [1..p -> Int]
    BY <1>1
  <2> QED
    BY <2>1, <2>2 DEF Params
<1>4. Places(0, p, n) \subseteq 1..n /\ \A a \in 1..n : a \in Places(0, p, n) <=> a > p
  BY DEF Places
<1>5. \A i \in 1..p : i \in 1..n
  OBVIOUS
<1>6. \A a \in Places(0, p, n) : ids[a] \in ToSet(ids)
  BY <1>1, <1>4 DEF ToSet
<1>7. \A i \in DOMAIN f : -f[i] \in ToSet(ids)
  BY <1>1, <1>2, <1>5 DEF ToSet
<1>8. ASSUME NEW x \in ToSet(ids)
      PROVE  (\E a \in Places(0, p, n) : ids[a] = x) \/ (\E i \in DOMAIN f : f[i] = -x)
  <2>1. PICK a \in 1..n : ids[a] = x
    BY <1>1 DEF ToSet
  <2>2. CASE a > p
    BY <1>4, <2>1, <2>2
  <2>3. CASE a <= p
    <3>1. a \in 1..p
      BY <2>3
    <3> QED
      BY <1>2, <2>1, <3>1
  <2> QED
    BY <2>2, <2>3
<1>9. \A a, b \in 1..n : ids[a] = ids[b] => a = b
  BY <1>1 DEF IsInjective
<1>10. ASSUME NEW i \in DOMAIN f, NEW j \in DOMAIN f, f[i] = f[j] PROVE i = j
  <2>1. ids[i] = ids[j] /\ i \in 1..n /\ j \in 1..n
    BY <1>2, <1>5, <1>10
  <2> QED
    BY <1>9, <2>1
<1>11. ASSUME NEW a \in Places(0, p, n), NEW i \in DOMAIN f PROVE ids[a] # -f[i]
  <2>1. -f[i] = ids[i] /\ i \in 1..n /\ a \in 1..n /\ a # i
    BY <1>2, <1>4, <1>5
  <2> QED
    BY <1>9, <2>1
<1>12. \A a, b \in Places(0, p, n) : ids[a] = ids[b] => a = b
  BY <1>4, <1>9
<1>13. 0 + p <= n
  OBVIOUS
<1> QED
  BY <1>1, <1>2, <1>3, <1>6, <1>7, <1>8, <1>10, <1>11, <1>12, <1>13 DEF AllThere

\* A new request.
LEMMA NewContextFacts ==
  ASSUME TypeInv, NEW r \in Requests, Owned(r), Kept(r), NEW n \in Nat,
         NEW ids \in Drawn(n), NewContext(r, ids)
  PROVE  /\ req[r] = "none" /\ num_result[r] = 0 /\ body[r] = <<>>
         /\ ctx' = [ctx EXCEPT ![r] = "live"]
         /\ num_query' \in [Requests -> Nat] /\ num_query'[r] = n
         /\ res' \in [Requests -> Seq(Int)] /\ res'[r] = ids
         /\ asked' \in [Requests -> SUBSET Ids] /\ asked'[r] = ToSet(ids)
         /\ \A s \in Requests \ {r} :
              num_query'[s] = num_query[s] /\ res'[s] = res[s] /\ asked'[s] = asked[s]
<1>1. Len(ids) = n /\ ids \in Seq(Int) /\ ToSet(ids) \subseteq Ids
  BY DrawnFacts
<1>2. req[r] = "none" /\ num_result[r] = 0 /\ body[r] = <<>>
  BY DEF NewContext, Owned, Kept
<1>3. /\ ctx' = [ctx EXCEPT ![r] = "live"]
      /\ num_query' = [num_query EXCEPT ![r] = n]
      /\ res' = [res EXCEPT ![r] = ids]
      /\ asked' = [asked EXCEPT ![r] = ToSet(ids)]
  BY <1>1 DEF NewContext
<1> QED
  BY <1>1, <1>2, <1>3 DEF TypeInv

\* The first queries of a request.
LEMMA DoMultipleQueriesStep ==
  ASSUME IInv, NEW r \in Requests, NEW do_update \in BOOLEAN, NEW use_cache \in BOOLEAN,
         DoMultipleQueries(r, do_update, use_cache)
  PROVE  IInv'
<1>0. TypeInv /\ Owned(r) /\ Waiting(r) /\ Kept(r)
  BY DEF IInv
<1>1. PICK n \in 1..MaxQueries, accepted \in 0..MaxQueries : \E ids \in Drawn(n) :
        /\ NewContext(r, ids)
        /\ FetchMiss(use_cache)
        /\ SendWindow(r, n, accepted)
        /\ flags' = [flags EXCEPT ![r] =
              (IF do_update THEN {"DO_UPDATE"} ELSE {}) \union
              (IF use_cache THEN {"USE_CACHE"} ELSE {}) \union
              (IF req'[r] = "sent" THEN {"DO_CLEANUP"} ELSE {})]
        /\ UNCHANGED <<num_result, gen, body>>
  BY DEF DoMultipleQueries
<1>2. PICK ids \in Drawn(n) :
        /\ NewContext(r, ids)
        /\ SendWindow(r, n, accepted)
        /\ flags' = [flags EXCEPT ![r] =
              (IF do_update THEN {"DO_UPDATE"} ELSE {}) \union
              (IF use_cache THEN {"USE_CACHE"} ELSE {}) \union
              (IF req'[r] = "sent" THEN {"DO_CLEANUP"} ELSE {})]
        /\ UNCHANGED <<num_result, gen, body>>
  BY <1>1
<1>3. n \in Nat /\ n > 0 /\ accepted \in Nat
  BY WorldAssumption
<1>4. /\ req[r] = "none" /\ num_result[r] = 0 /\ body[r] = <<>>
      /\ ctx' = [ctx EXCEPT ![r] = "live"]
      /\ num_query' \in [Requests -> Nat] /\ num_query'[r] = n
      /\ res' \in [Requests -> Seq(Int)] /\ res'[r] = ids
      /\ asked' \in [Requests -> SUBSET Ids] /\ asked'[r] = ToSet(ids)
      /\ \A s \in Requests \ {r} :
           num_query'[s] = num_query[s] /\ res'[s] = res[s] /\ asked'[s] = asked[s]
  BY <1>0, <1>2, <1>3, NewContextFacts
<1> DEFINE f == [q \in 1..accepted |-> -ids[q]]
           last == IF n < Window THEN n ELSE Window
<1>5. /\ accepted <= last
      /\ num_query_in_progress' = [num_query_in_progress EXCEPT ![r] = accepted]
      /\ flying' = [flying EXCEPT ![r] = f]
      /\ req' = [req EXCEPT ![r] = IF accepted = last THEN "open" ELSE "sent"]
  BY <1>2, <1>4 DEF SendWindow, Htonl
<1>6. accepted <= n /\ accepted <= Window /\ last > 0
  BY <1>3, <1>5, WorldAssumption
<1>7. /\ f \in Params /\ DOMAIN f = 1..accepted
      /\ AllThere(ToSet(ids), ids, f, 0, accepted, n)
  BY <1>3, <1>6, SendKeepsIds
<1> HIDE DEF f, last
<1>8. /\ flying'[r] = f /\ flying' \in [Requests -> Params]
      /\ num_query_in_progress'[r] = accepted
      /\ num_query_in_progress' \in [Requests -> Nat]
      /\ \A s \in Requests \ {r} : flying'[s] = flying[s]
           /\ num_query_in_progress'[s] = num_query_in_progress[s]
  BY <1>0, <1>3, <1>5, <1>7 DEF TypeInv
<1>9. /\ req'[r] = IF accepted = last THEN "open" ELSE "sent"
      /\ req' \in [Requests -> {"none", "open", "sent", "gone"}]
      /\ \A s \in Requests \ {r} : req'[s] = req[s]
  BY <1>0, <1>5 DEF TypeInv
<1>10. /\ flags' \in [Requests -> SUBSET Flags]
       /\ "DO_CLEANUP" \in flags'[r] <=> req'[r] = "sent"
       /\ "IS_COMPLETED" \notin flags'[r]
       /\ \A s \in Requests \ {r} : flags'[s] = flags[s]
  BY <1>0, <1>2 DEF TypeInv, Flags
<1>11. TypeInv'
  BY <1>0, <1>2, <1>4, <1>8, <1>9, <1>10 DEF TypeInv
<1>12. Owned(r)'
  <2>1. Cardinality(1..accepted) = accepted
    BY <1>3, FS_Interval
  <2>2. req'[r] = "open" => 1..accepted # {}
    BY <1>3, <1>6, <1>9
  <2>3. \A j \in DOMAIN f : f[j] # Update
    <3>1. ToSet(ids) \subseteq Ids
      BY <1>3, DrawnFacts
    <3> QED
      BY <1>7, <3>1, NotUpdate
  <2>4. ctx'[r] = "live"
    BY <1>0, <1>4 DEF TypeInv
  <2> QED
    BY <1>7, <1>8, <1>9, <1>10, <2>1, <2>2, <2>3, <2>4 DEF Owned
<1>13. Waiting(r)'
  <2>1. num_result'[r] = 0
    BY <1>2, <1>4
  <2> QED
    BY <1>4, <1>7, <1>8, <2>1 DEF Waiting, Querying
<1>14. Kept(r)'
  BY <1>2, <1>4 DEF Kept
<1>15. \A s \in Requests \ {r} : Same(s)
  BY <1>0, <1>2, <1>4, <1>8, <1>9, <1>10 DEF TypeInv, Same
<1> QED
  BY <1>11, <1>12, <1>13, <1>14, <1>15, OthersKept

\* The cache has the rows.
LEMMA CachedQueriesStep ==
  ASSUME IInv, NEW r \in Requests, CachedQueries(r)
  PROVE  IInv'
<1>0. TypeInv /\ Owned(r) /\ Waiting(r) /\ Kept(r)
  BY DEF IInv
<1>1. PICK n \in 1..MaxQueries : \E ids \in Drawn(n) :
        /\ NewContext(r, ids)
        /\ num_result' = [num_result EXCEPT ![r] = n]
        /\ flags' = [flags EXCEPT ![r] = {"USE_CACHE", "DO_CLEANUP"}]
        /\ req' = [req EXCEPT ![r] = "sent"]
        /\ \/ /\ gen' = [gen EXCEPT ![r] = TRUE]
              /\ body' = [body EXCEPT ![r] = ids]
           \/ UNCHANGED <<gen, body>>
        /\ UNCHANGED <<num_query_in_progress, flying>>
  BY DEF CachedQueries
<1>2. PICK ids \in Drawn(n) :
        /\ NewContext(r, ids)
        /\ num_result' = [num_result EXCEPT ![r] = n]
        /\ flags' = [flags EXCEPT ![r] = {"USE_CACHE", "DO_CLEANUP"}]
        /\ req' = [req EXCEPT ![r] = "sent"]
        /\ \/ /\ gen' = [gen EXCEPT ![r] = TRUE]
              /\ body' = [body EXCEPT ![r] = ids]
           \/ UNCHANGED <<gen, body>>
        /\ UNCHANGED <<num_query_in_progress, flying>>
  BY <1>1
<1>3. n \in Nat /\ ids \in Seq(Int) /\ IsInjective(ids)
  BY DrawnFacts, WorldAssumption
<1>4. /\ req[r] = "none" /\ body[r] = <<>>
      /\ ctx' = [ctx EXCEPT ![r] = "live"]
      /\ num_query' \in [Requests -> Nat] /\ num_query'[r] = n
      /\ res' \in [Requests -> Seq(Int)] /\ res'[r] = ids
      /\ asked' \in [Requests -> SUBSET Ids] /\ asked'[r] = ToSet(ids)
      /\ \A s \in Requests \ {r} :
           num_query'[s] = num_query[s] /\ res'[s] = res[s] /\ asked'[s] = asked[s]
  BY <1>0, <1>2, <1>3, NewContextFacts
<1>5. SentWith(r, ids)
  BY <1>0, <1>2, <1>3, SerializeFacts
<1>6. num_result' \in [Requests -> Nat] /\ flags' \in [Requests -> SUBSET Flags]
  BY <1>0, <1>2, <1>3 DEF TypeInv, Flags
<1>7. TypeInv'
  BY <1>0, <1>2, <1>4, <1>5, <1>6 DEF TypeInv, SentWith
<1>8. Owned(r)'
  BY <1>0, <1>2, <1>4 DEF TypeInv, Owned
<1>9. Waiting(r)' /\ Kept(r)'
  BY <1>0, <1>2, <1>3, <1>4, <1>5 DEF TypeInv, Waiting, Kept, SentWith
<1>10. \A s \in Requests \ {r} : Same(s)
  BY <1>0, <1>2, <1>4, <1>5 DEF TypeInv, Same, SentWith
<1> QED
  BY <1>7, <1>8, <1>9, <1>10, OthersKept

\* A step that concerns only the cache.
LEMMA CacheStep ==
  ASSUME IInv, UNCHANGED <<req, ctx, ctxVars, flying, body, asked>>
  PROVE  IInv'
<1>1. TypeInv' /\ \A s \in Requests : Same(s)
  BY DEF IInv, TypeInv, Same, ctxVars
<1>2. ASSUME NEW s \in Requests PROVE Owned(s)' /\ Waiting(s)' /\ Kept(s)'
  <2>1. Owned(s) /\ Waiting(s) /\ Kept(s) /\ Same(s)
    BY <1>1 DEF IInv
  <2>2. Owned(s)'
    BY <2>1 DEF Owned, Same
  <2>3. Waiting(s)'
    BY <2>1 DEF Waiting, Querying, Updating, Same
  <2>4. Kept(s)'
    BY <2>1 DEF Kept, Same
  <2> QED
    BY <2>2, <2>3, <2>4
<1> QED
  BY <1>1, <1>2 DEF IInv

\* A query's callback.
LEMMA CallbackStep ==
  ASSUME IInv, NEW r \in Requests, Callback(r)
  PROVE  IInv'
BY NoRowStep, ResultNextStep, ResultWaitStep, ResultLastStep, DoUpdatesStep,
   OnUpdateResultStep
DEF Callback, OnMultipleQueryError, OnMultipleQueryTimeout, ResultUnused

\* The invariant is kept by every step.
LEMMA NextIInv == IInv /\ [Next]_vars => IInv'
<1> SUFFICES ASSUME IInv, [Next]_vars PROVE IInv'
  OBVIOUS
<1>1. ASSUME NEW r \in Requests, NEW do_update \in BOOLEAN, NEW use_cache \in BOOLEAN,
             DoMultipleQueries(r, do_update, use_cache)
      PROVE  IInv'
  BY <1>1, DoMultipleQueriesStep
<1>2. ASSUME NEW r \in Requests, CachedQueries(r) \/ Callback(r) \/ CleanupRequest(r)
      PROVE  IInv'
  BY <1>2, CachedQueriesStep, CallbackStep, CleanupRequestStep
<1>3. CASE PopulateResult \/ PopulateError \/ CacheExpires
  BY <1>3, CacheStep DEF PopulateResult, PopulateError, CacheExpires
<1>4. CASE UNCHANGED vars
  BY <1>4, CacheStep DEF vars
<1> QED
  BY <1>1, <1>2, <1>3, <1>4 DEF Next

-----------------------------------------------------------------------------
(* Theorems.                                                               *)

\* The inductive invariant holds in every reachable state.
THEOREM Invariance == Spec => []IInv
BY InitIInv, NextIInv, PTL DEF Spec

\* num_query_in_progress counts the queries in flight, which have query_params
\* of their own.
THEOREM InProgressAlwaysCounted == Spec => []InProgressCounted
<1>1. ASSUME IInv, NEW r \in Requests
      PROVE  /\ num_query_in_progress[r] = Cardinality(DOMAIN flying[r])
             /\ DOMAIN flying[r] \subseteq 1..Window
  <2>1. flying[r] \in Params
    BY <1>1 DEF IInv, TypeInv
  <2> QED
    BY <1>1, <2>1, ParamsFacts DEF IInv, Owned
<1>2. IInv => InProgressCounted
  BY <1>1 DEF InProgressCounted
<1> QED
  BY <1>2, Invariance, PTL

\* A 200 response holds each id that was drawn exactly once, in whichever order
\* the results arrive.
THEOREM ResponsesHaveTheIds == Spec => []ResultIds
<1>1. IInv => ResultIds
  BY DEF IInv, Kept, ResultIds
<1> QED
  BY <1>1, Invariance, PTL

\* The generator with the body is kept until the request is disposed of.
THEOREM BodyStaysAlive == Spec => []BodyAlive
<1>1. IInv => BodyAlive
  BY DEF IInv, Owned, Kept, BodyAlive
<1> QED
  BY <1>1, Invariance, PTL

CacheInv ==
    /\ cache \in {"null", "empty", "full"}
    /\ populating \in {0, 1} /\ (populating = 1 => cache = "empty")

\* There is never more than one query that fills the cache, and it finds the
\* cache that it was sent for.
THEOREM PopulatesOnce == Spec => []PopulateOnce
<1>1. Init => CacheInv
  BY DEF Init, CacheInv
<1>2. CacheInv /\ [Next]_vars => CacheInv'
  <2> SUFFICES ASSUME CacheInv, [Next]_vars PROVE CacheInv'
    OBVIOUS
  <2>1. ASSUME NEW use_cache \in BOOLEAN, FetchMiss(use_cache) PROVE CacheInv'
    BY <2>1 DEF FetchMiss, CacheInv, cacheVars
  <2>2. ASSUME NEW r \in Requests, NEW do_update \in BOOLEAN, NEW use_cache \in BOOLEAN,
               DoMultipleQueries(r, do_update, use_cache)
        PROVE  CacheInv'
    BY <2>1, <2>2 DEF DoMultipleQueries
  <2>3. ASSUME NEW r \in Requests, CachedQueries(r) \/ Callback(r) \/ CleanupRequest(r)
        PROVE  UNCHANGED cacheVars
    BY <2>3 DEF CachedQueries, Callback, CleanupRequest, OnUpdateResult, NoRow,
       OnMultipleQueryError, OnMultipleQueryTimeout, ResultUnused, ResultNext,
       ResultWait, ResultLast, DoUpdates, Row
  <2>4. CASE PopulateResult \/ PopulateError \/ CacheExpires
    BY <2>4 DEF PopulateResult, PopulateError, CacheExpires, CacheInv
  <2>5. ASSUME UNCHANGED cacheVars PROVE CacheInv'
    BY <2>5 DEF CacheInv, cacheVars
  <2>6. CASE UNCHANGED vars
    BY <2>5, <2>6 DEF vars
  <2> QED
    BY <2>2, <2>3, <2>4, <2>5, <2>6 DEF Next
<1>3. CacheInv => PopulateOnce
  BY DEF CacheInv, PopulateOnce
<1> QED
  BY <1>1, <1>2, <1>3, PTL DEF Spec

-----------------------------------------------------------------------------
(* Refinement: one lemma per kind of step of the lifecycle.                *)

\* The counter is the number of queries that the lifecycle sees.
LEMMA CountedOutstanding == IInv => Outstanding = num_query_in_progress
<1> SUFFICES ASSUME IInv PROVE Outstanding = num_query_in_progress
  OBVIOUS
<1>1. num_query_in_progress \in [Requests -> Nat]
  BY DEF IInv, TypeInv
<1>2. \A r \in Requests : num_query_in_progress[r] = Cardinality(DOMAIN flying[r])
  BY DEF IInv, Owned
<1> QED
  BY <1>1, <1>2 DEF Outstanding

\* A step of the handlers in terms of the counter.
Becomes(r, state, n) ==
    /\ req' = [req EXCEPT ![r] = state]
    /\ num_query_in_progress' = [num_query_in_progress EXCEPT ![r] = n]
    /\ ctx' = [ctx EXCEPT ![r] = IF state = "gone" /\ n = 0 THEN "freed" ELSE "live"]

\* It is one of the lifecycle.
LEMMA BecomesRefines ==
  ASSUME IInv, IInv', NEW r \in Requests, NEW state, NEW n, Becomes(r, state, n)
  PROVE  Lifecycle!Become(r, state, n)
<1>1. Outstanding = num_query_in_progress
  BY CountedOutstanding
<1>2. Outstanding' = num_query_in_progress'
  <2>1. num_query_in_progress' \in [Requests -> Nat]
    BY DEF IInv, TypeInv
  <2>2. \A s \in Requests : num_query_in_progress'[s] = Cardinality(DOMAIN flying'[s])
    BY DEF IInv, Owned
  <2> QED
    BY <2>1, <2>2 DEF Outstanding
<1> QED
  BY <1>1, <1>2 DEF Becomes, Lifecycle!Become

\* The window of queries is sent, as far as the pool accepts them.
LEMMA DoMultipleQueriesRefines ==
  ASSUME IInv, IInv', NEW r \in Requests, NEW do_update \in BOOLEAN,
         NEW use_cache \in BOOLEAN, DoMultipleQueries(r, do_update, use_cache)
  PROVE  Lifecycle!Handle(r)
<1>1. PICK n \in 1..MaxQueries, accepted \in 0..MaxQueries :
        \E ids \in Drawn(n) : NewContext(r, ids) /\ SendWindow(r, n, accepted)
  BY DEF DoMultipleQueries
<1> DEFINE last == IF n < Window THEN n ELSE Window
           state == IF accepted = last THEN "open" ELSE "sent"
<1>2. /\ req[r] = "none" /\ ctx' = [ctx EXCEPT ![r] = "live"]
      /\ accepted <= last
      /\ num_query_in_progress' = [num_query_in_progress EXCEPT ![r] = accepted]
      /\ req' = [req EXCEPT ![r] = state]
  BY <1>1 DEF NewContext, SendWindow
<1>3. accepted \in 0..Window /\ (state = "open" => accepted > 0)
  BY <1>2, WorldAssumption
<1>4. state \in {"open", "sent"}
  OBVIOUS
<1> HIDE DEF last, state
<1>5. Becomes(r, state, accepted)
  BY <1>2, <1>4 DEF Becomes
<1> QED
  BY <1>2, <1>3, <1>4, <1>5, BecomesRefines DEF Lifecycle!Handle

\* A request that the cache answers sends no query.
LEMMA CachedQueriesRefines ==
  ASSUME IInv, IInv', NEW r \in Requests, CachedQueries(r)
  PROVE  Lifecycle!Handle(r)
<1>1. /\ req[r] = "none" /\ ctx' = [ctx EXCEPT ![r] = "live"]
      /\ req' = [req EXCEPT ![r] = "sent"] /\ UNCHANGED num_query_in_progress
  BY DEF CachedQueries, NewContext
<1>2. num_query_in_progress \in [Requests -> Nat] /\ num_query_in_progress[r] = 0
  <2>1. DOMAIN flying[r] = {} /\ num_query_in_progress[r] = Cardinality(DOMAIN flying[r])
    BY <1>1 DEF IInv, Owned
  <2> QED
    BY <2>1, FS_EmptySet DEF IInv, TypeInv
<1>3. Becomes(r, "sent", 0)
  BY <1>1, <1>2 DEF Becomes
<1>4. 0 \in 0..Window
  BY WorldAssumption
<1> QED
  BY <1>1, <1>3, <1>4, BecomesRefines DEF Lifecycle!Handle

\* A callback, seen from the lifecycle.
LEMMA CallbackRefines ==
  ASSUME IInv, IInv', NEW r \in Requests, num_query_in_progress[r] > 0,
         NEW state \in {req[r], "sent"},
         NEW n \in {num_query_in_progress[r] - 1, num_query_in_progress[r]},
         state # req[r] \/ n = num_query_in_progress[r] => req[r] = "open",
         state = "open" => n > 0, Becomes(r, state, n)
  PROVE  Lifecycle!Callback(r)
<1>1. Lifecycle!Become(r, state, n)
  BY BecomesRefines
<1>2. Outstanding = num_query_in_progress
  BY CountedOutstanding
<1> QED
  BY <1>1, <1>2 DEF Lifecycle!Callback

\* Whoever has a query in flight is counted.
LEMMA FlightCounted ==
  ASSUME IInv, NEW r \in Requests, NEW i \in DOMAIN flying[r]
  PROVE  num_query_in_progress[r] \in Nat /\ num_query_in_progress[r] > 0
<1>1. /\ flying[r] \in Params /\ num_query_in_progress[r] \in Nat
      /\ num_query_in_progress[r] = Cardinality(DOMAIN flying[r])
  BY DEF IInv, TypeInv, Owned
<1>2. Cardinality(DOMAIN flying[r]) = 0 <=> DOMAIN flying[r] = {}
  BY <1>1, ParamsFacts
<1> QED
  BY <1>1, <1>2

\* A callback that answers the request, and sends nothing.
LEMMA AnswerRefines ==
  ASSUME IInv, IInv', NEW r \in Requests, NEW i \in DOMAIN flying[r], Land(r, i),
         req[r] = "open", req' = Answered(r), UNCHANGED ctx
  PROVE  Lifecycle!Callback(r)
<1>1. ctx[r] = "live" /\ ctx \in [Requests -> {"none", "live", "freed"}]
  BY DEF IInv, Owned, TypeInv
<1>2. num_query_in_progress[r] \in Nat /\ num_query_in_progress[r] > 0
  BY FlightCounted
<1>3. Becomes(r, "sent", num_query_in_progress[r] - 1)
  BY <1>1, <1>2 DEF Becomes, Answered, Land
<1> QED
  BY <1>2, <1>3, CallbackRefines

\* A callback that nobody waits for.
LEMMA NoRowRefines ==
  ASSUME IInv, IInv', NEW r \in Requests, NEW i, NoRow(r, i)
  PROVE  Lifecycle!Callback(r)
<1>0. i \in DOMAIN flying[r] /\ Land(r, i) /\ Owned(r) /\ TypeInv
  BY DEF NoRow, IInv
<1>1. CASE "DO_CLEANUP" \notin flags[r]
  <2>1. req[r] = "open"
    BY <1>0, <1>1 DEF Owned, TypeInv
  <2> QED
    BY <1>0, <1>1, <2>1, AnswerRefines DEF NoRow, GiveUp
<1>2. CASE "DO_CLEANUP" \in flags[r]
  <2>1. num_query_in_progress[r] \in Nat /\ num_query_in_progress[r] > 0
    BY <1>0, FlightCounted
  <2>2. /\ UNCHANGED req /\ Abandoned(r) /\ req[r] \in {"sent", "gone"}
        /\ ctx[r] = "live" /\ (req[r] = "gone" <=> "IS_COMPLETED" \in flags[r])
    BY <1>0, <1>2 DEF NoRow, Owned, TypeInv
  <2>3. num_query_in_progress'[r] = num_query_in_progress[r] - 1
    BY <1>0, <2>1 DEF Land, TypeInv
  <2>4. Becomes(r, req[r], num_query_in_progress[r] - 1)
    BY <1>0, <2>1, <2>2, <2>3 DEF Becomes, Abandoned, Cleanup, Land, TypeInv
  <2>5. num_query_in_progress[r] - 1 # num_query_in_progress[r]
    BY <2>1
  <2> QED
    BY <2>1, <2>2, <2>4, <2>5, CallbackRefines
<1> QED
  BY <1>1, <1>2

\* A row.
LEMMA RowRefines ==
  ASSUME IInv, IInv', NEW r \in Requests, NEW i, Row(r, i),
         \/ ResultNext(r, i) \/ ResultWait(r, i) \/ ResultLast(r, i) \/ DoUpdates(r, i)
  PROVE  Lifecycle!Callback(r)
<1>0. TypeInv /\ Owned(r) /\ Waiting(r)
  BY DEF IInv
<1>1. /\ req[r] = "open" /\ ctx[r] = "live" /\ i \in DOMAIN flying[r] /\ UNCHANGED ctx
      /\ num_query_in_progress[r] \in Nat /\ num_query_in_progress[r] > 0
      /\ num_query[r] \in Nat /\ num_result[r] \in Nat
      /\ num_result[r] + num_query_in_progress[r] <= num_query[r]
      /\ num_result'[r] = num_result[r] + 1
  BY <1>0, RowFacts DEF Row
<1>2. CASE Land(r, i) /\ req' = Answered(r)
  BY <1>1, <1>2, AnswerRefines
<1>3. CASE UNCHANGED <<num_query_in_progress, req>>
  <2>1. Becomes(r, "open", num_query_in_progress[r])
    BY <1>0, <1>1, <1>3 DEF Becomes, TypeInv
  <2> QED
    BY <1>1, <2>1, CallbackRefines
<1>4. CASE ResultWait(r, i)
  <2>1. Unsent(r) <= 0 /\ num_result'[r] # num_query[r] /\ Land(r, i) /\ UNCHANGED req
    BY <1>4 DEF ResultWait
  <2>2. num_query_in_progress[r] - 1 > 0
    <3>1. num_query[r] - num_result[r] - num_query_in_progress[r] <= 0
      BY <2>1 DEF Unsent
    <3>2. num_result[r] + 1 # num_query[r]
      BY <1>1, <2>1
    <3> QED
      BY <1>1, <3>1, <3>2
  <2>3. Becomes(r, "open", num_query_in_progress[r] - 1)
    BY <1>0, <1>1, <2>1 DEF Becomes, Land, TypeInv
  <2>4. num_query_in_progress[r] - 1 # num_query_in_progress[r]
    BY <1>1
  <2> QED
    BY <1>1, <2>2, <2>3, <2>4, CallbackRefines
<1> QED
  BY <1>2, <1>3, <1>4 DEF ResultNext, ResultLast, DoUpdates, Resubmit, GiveUp, Serialize

\* The reply to the UPDATE.
LEMMA OnUpdateResultRefines ==
  ASSUME IInv, IInv', NEW r \in Requests, OnUpdateResult(r)
  PROVE  Lifecycle!Callback(r)
<1>0. /\ TypeInv /\ Owned(r) /\ Waiting(r)
      /\ 1 \in DOMAIN flying[r] /\ flying[r][1] = Update /\ Land(r, 1)
  BY DEF IInv, OnUpdateResult
<1>1. CASE "DO_CLEANUP" \notin flags[r]
  <2>1. req[r] = "open" /\ req' = Answered(r) /\ UNCHANGED ctx
    BY <1>0, <1>1 DEF Owned, TypeInv, OnUpdateResult, Serialize
  <2> QED
    BY <1>0, <2>1, AnswerRefines
<1>2. CASE "DO_CLEANUP" \in flags[r]
  <2>1. /\ req[r] = "gone" /\ UNCHANGED req /\ Cleanup(r)
        /\ DOMAIN flying[r] = {1}
    BY <1>0, <1>2 DEF Owned, TypeInv, OnUpdateResult
  <2>2. num_query_in_progress[r] = 1
    BY <1>0, <2>1, FS_Singleton DEF Owned
  <2>3. Becomes(r, "gone", 0)
    BY <1>0, <2>1, <2>2 DEF Becomes, Cleanup, Land, TypeInv
  <2> QED
    BY <2>1, <2>2, <2>3, CallbackRefines
<1> QED
  BY <1>1, <1>2

\* Disposing of the request: the flags and the counter tell whether a query
\* still needs the context.
LEMMA CleanupRequestRefines ==
  ASSUME IInv, IInv', NEW r \in Requests, CleanupRequest(r)
  PROVE  Lifecycle!Dispose(r)
<1>0. TypeInv /\ Owned(r)
  BY DEF IInv
<1>1. /\ req[r] \in {"open", "sent"} /\ req' = [req EXCEPT ![r] = "gone"]
      /\ UNCHANGED num_query_in_progress
  BY DEF CleanupRequest
<1>2. flying[r] \in Params /\ num_query_in_progress[r] = Cardinality(DOMAIN flying[r])
  BY <1>0 DEF TypeInv, Owned
<1>3. num_query_in_progress[r] = 0 <=> DOMAIN flying[r] = {}
  BY <1>2, ParamsFacts
<1>4. ctx' = [ctx EXCEPT ![r] = IF num_query_in_progress[r] = 0 THEN "freed" ELSE "live"]
  BY <1>0, <1>1, <1>3 DEF CleanupRequest, Cleanup, Owned, TypeInv
<1>5. Becomes(r, "gone", num_query_in_progress[r])
  BY <1>0, <1>1, <1>4 DEF Becomes, TypeInv
<1>6. Lifecycle!Become(r, "gone", num_query_in_progress[r])
  BY <1>5, BecomesRefines
<1> QED
  BY <1>1, <1>6, CountedOutstanding DEF Lifecycle!Dispose

\* Every step of the handlers is a step of the lifecycle or leaves it alone.
LEMMA NextRefines == IInv /\ IInv' /\ [Next]_vars => [Lifecycle!Next]_(Lifecycle!vars)
<1> SUFFICES ASSUME IInv, IInv', [Next]_vars PROVE [Lifecycle!Next]_(Lifecycle!vars)
  OBVIOUS
<1>1. ASSUME NEW r \in Requests, NEW do_update \in BOOLEAN, NEW use_cache \in BOOLEAN,
             DoMultipleQueries(r, do_update, use_cache)
      PROVE  Lifecycle!Handle(r)
  BY <1>1, DoMultipleQueriesRefines
<1>2. ASSUME NEW r \in Requests, CachedQueries(r) PROVE Lifecycle!Handle(r)
  BY <1>2, CachedQueriesRefines
<1>3. ASSUME NEW r \in Requests, Callback(r) PROVE Lifecycle!Callback(r)
  <2>1. ASSUME NEW i, ResultNext(r, i) \/ ResultWait(r, i) \/ ResultLast(r, i) \/ DoUpdates(r, i)
        PROVE  Lifecycle!Callback(r)
    BY <2>1, RowRefines DEF ResultNext, ResultWait, ResultLast, DoUpdates
  <2>2. ASSUME NEW i, NoRow(r, i) PROVE Lifecycle!Callback(r)
    BY <2>2, NoRowRefines
  <2> QED
    BY <1>3, <2>1, <2>2, OnUpdateResultRefines
    DEF Callback, OnMultipleQueryError, OnMultipleQueryTimeout, ResultUnused
<1>4. ASSUME NEW r \in Requests, CleanupRequest(r) PROVE Lifecycle!Dispose(r)
  BY <1>4, CleanupRequestRefines
<1>5. ASSUME UNCHANGED <<req, ctx, flying>> PROVE UNCHANGED Lifecycle!vars
  BY <1>5 DEF Lifecycle!vars, Outstanding
<1>6. CASE PopulateResult \/ PopulateError \/ CacheExpires
  BY <1>5, <1>6 DEF PopulateResult, PopulateError, CacheExpires
<1>7. CASE UNCHANGED vars
  BY <1>5, <1>7 DEF vars
<1> QED
  BY <1>1, <1>2, <1>3, <1>4, <1>6, <1>7 DEF Next, Lifecycle!Next

\* /queries, /updates and /cached-worlds answer every request at most once, and
\* free its context exactly when the request and all of its queries are gone.
THEOREM WorldQueriesRefines == Spec => LifecycleSpec
<1>1. Init => Lifecycle!Init
  <2>1. DOMAIN <<>> = {} /\ Cardinality({}) = 0
    BY FS_EmptySet
  <2> QED
    BY <2>1 DEF Init, Lifecycle!Init, Outstanding
<1> QED
  BY <1>1, NextRefines, Invariance, PTL DEF Spec, LifecycleSpec, Lifecycle!Spec

=============================================================================
