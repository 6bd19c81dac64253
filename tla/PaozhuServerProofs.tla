------------------------- MODULE PaozhuServerProofs -------------------------
(***************************************************************************)
(* Proofs about the request handlers of the paozhu benchmark, for any      *)
(* number of coroutines, any table and any limit.  The properties are about*)
(* the time before a handler that locks its connections catches an         *)
(* exception; as long as none did, no connection outside of the call that  *)
(* uses it has an unread reply.                                            *)
(***************************************************************************)
EXTENDS PaozhuServer, FiniteSetTheorems, SequenceTheorems, TLAPS

Rec == [id : Ids \cup Fortunes, value : Nat]
Replies == BOOLEAN \cup Seq(Rec)

\* No connection, one without unread replies, and one with a reply to take.
Clean == {None, <<<<>>>>}
Links == Clean \cup {<<<<reply>>>> : reply \in Replies}

Reasons == {"duplicate", "failed", "expired"}

RequestType ==
    [kind : {"none", "plaintext", "json", "db", "fortunes", "queries", "updates",
             "cached_queries", "cached_db"},
     pc : {"done", "answer", "fetch", "fetched", "update", "updated", "checkAll",
           "getAll", "makeAll", "checkMy", "getMy", "pick", "saveMy"},
     n : Nat, i : Nat, record : Seq(Rec), effect : Nat, iserror : BOOLEAN,
     all : Seq(Rec), conn : [Sides -> Links], asked : Seq(Ids), wrote : SUBSET Rec,
     unsure : SUBSET Rec, fault : BOOLEAN, short : SUBSET Reasons]

\* Where the handlers are.
Places(kind) ==
    CASE kind = "none"                -> {"done"}
      [] kind \in {"plaintext", "json"} -> {"answer"}
      [] kind \in {"db", "fortunes"}  -> {"fetch", "fetched", "answer"}
      [] kind = "queries"             -> {"fetch", "fetched", "answer"}
      [] kind = "updates"             -> {"fetch", "fetched", "update", "updated", "answer"}
      [] kind = "cached_queries"      -> {"checkAll", "getAll", "makeAll", "checkMy",
                                          "getMy", "pick", "answer"}
      [] OTHER                        -> {"checkMy", "getMy", "fetch", "fetched", "saveMy",
                                          "answer"}

\* Where a handler may go on after a call of the ORM.
Resumed == {"fetch", "update", "saveMy", "answer"}

\* The reply on a connection is the one that its call waits for.
Linked(me) ==
    /\ me.pc \in {"checkAll", "getAll", "makeAll", "checkMy", "fetch"} =>
         me.conn["select"] \in Clean
    /\ me.pc = "fetched" => \E reply \in Seq(Rec) : me.conn["select"] = <<<<reply>>>>
    /\ me.pc = "updated" => \E ok \in BOOLEAN : me.conn["edit"] = <<<<ok>>>>
    /\ me.kind \in Locking =>
         /\ me.pc # "fetched" => me.conn["select"] \in Clean
         /\ me.pc # "updated" => me.conn["edit"] \in Clean

Received(me) == me.conn["select"][1][1]

\* The loops of /queries and /updates: one id is asked for in each round and, as
\* long as nothing fails, brings the row with this id.
Looping(me) ==
    /\ me.pc # "answer" => me.i < me.n
    /\ Len(me.asked) = CASE me.pc = "fetch"  -> me.i
                         [] me.pc = "answer" -> me.n
                         [] OTHER            -> me.i + 1
    /\ me.pc = "fetched" =>
         Len(Received(me)) = 1 /\ Received(me)[1].id = me.asked[Len(me.asked)]
    /\ ~me.fault =>
         /\ Len(me.record) = IF me.pc = "fetched" THEN me.i ELSE Len(me.asked)
         /\ \A k \in 1..Len(me.record) : me.record[k].id = me.asked[k]

\* /updates: each row was written, or its update failed, but for the one whose
\* turn it is, which is the one that was asked for last.
Updating(me) ==
    LET known == me.wrote \cup me.unsure
        len == Len(me.record)
    IN  IF me.pc = "update"
        THEN /\ len > 0 /\ me.record[len].id = me.asked[Len(me.asked)]
             /\ \A k \in 1..(len - 1) : me.record[k] \in known
        ELSE \A k \in 1..len : me.record[k] \in known

\* /db: one row.
Single(me) ==
    /\ me.n = 1
    /\ me.pc = "fetch" => me.asked = <<>>
    /\ me.pc # "fetch" => Len(me.asked) = 1
    /\ me.pc # "answer" => me.record = <<>>
    /\ me.pc = "fetched" => Len(Received(me)) = 1 /\ Received(me)[1].id = me.asked[1]
    /\ me.pc = "answer" /\ ~me.fault => Len(me.record) = 1 /\ me.record[1].id = me.asked[1]

FortuneRows == {Row(f, Message[f]) : f \in Fortunes}

\* /fortunes: all of them.
Listing(me) ==
    /\ me.pc # "answer" => me.record = <<>>
    /\ me.pc = "fetched" => Range(Received(me)) = FortuneRows
    /\ me.pc = "answer" /\ ~me.fault => Range(me.record) = FortuneRows

\* The cached handlers: as many rows as asked for, or a reason.
Caching(me) ==
    /\ me.pc \in {"checkAll", "getAll", "makeAll", "checkMy", "fetch"} => ~me.iserror
    /\ me.pc \in {"checkAll", "getAll", "makeAll", "checkMy", "fetch", "fetched"} =>
         me.record = <<>>
    /\ me.pc = "fetched" => Len(Received(me)) = me.n \/ me.short # {}
    /\ me.pc \in {"saveMy", "answer"} => Len(me.record) = me.n \/ me.short # {}

Sound(me) ==
    /\ me \in RequestType
    /\ me.pc \in Places(me.kind)
    /\ me.iserror => me.fault
    /\ me.kind \in Locking => Looping(me)
    /\ me.kind = "updates" => Updating(me)
    /\ me.kind = "db" => Single(me)
    /\ me.kind = "fortunes" => Listing(me)
    /\ me.kind \in Cached => Caching(me)

Good(me) == Sound(me) /\ Linked(me)

GoodEntry(key, entry) ==
    /\ entry.rows \in Seq(Rec) /\ entry.short \in SUBSET Reasons
    /\ \A n \in Nat : key = My(n) => Len(entry.rows) = n \/ entry.short # {}

Untainted ==
    /\ pool = [s \in Sides |-> {}]
    /\ table \in [Ids -> Nat]
    /\ \A key \in DOMAIN cache : GoodEntry(key, cache[key])
    /\ \A w \in Workers : Good(work[w])

IInv == tainted \in BOOLEAN /\ (~tainted => Untainted)

-----------------------------------------------------------------------------
(* Replies.                                                                *)

\* The reply to a SELECT has one row for each key that it selects.
LEMMA RowsOK ==
    ASSUME NEW S \in SUBSET (Ids \cup Fortunes), NEW value, \A x \in S : value[x] \in Nat,
           NEW reply \in Rows(S, value)
    PROVE  /\ reply \in Seq(Rec) /\ Len(reply) = Cardinality(S)
           /\ Range(reply) = {Row(x, value[x]) : x \in S}
<1>1. IsFiniteSet(S)
    BY ServerAssumption, FS_Subset
<1>2. Cardinality(S) \in Nat
    BY <1>1, FS_CardinalityType
<1>3. PICK s \in [1..Cardinality(S) -> S] :
        /\ \A j, k \in DOMAIN s : j < k => s[j] < s[k]
        /\ reply = [k \in DOMAIN s |-> Row(s[k], value[s[k]])]
    BY DEF Rows
<1>4. s \in Injection(1..Cardinality(S), S)
  <2>1. \A j, k \in 1..Cardinality(S) : s[j] \in Nat /\ s[k] \in Nat
      BY ServerAssumption
  <2>2. \A j, k \in 1..Cardinality(S) : s[j] = s[k] => j = k
      BY <1>2, <1>3, <2>1
  <2>. QED
      BY <2>2 DEF Injection, IsInjective
<1>5. s \in Surjection(1..Cardinality(S), S)
  <2>1. Cardinality(1..Cardinality(S)) = Cardinality(S)
      BY <1>2, FS_Interval
  <2>. QED
      BY <1>1, <1>4, <2>1, FS_Injection
<1>6. \A k \in 1..Cardinality(S) : Row(s[k], value[s[k]]) \in Rec
    BY <1>3 DEF Row, Rec
<1>7. reply \in [1..Cardinality(S) -> Rec]
    BY <1>3, <1>6
<1>8. reply \in Seq(Rec) /\ Len(reply) = Cardinality(S)
    BY <1>2, <1>7
<1>9. Range(reply) = {Row(x, value[x]) : x \in S}
  <2>1. \A x \in S : \E k \in 1..Cardinality(S) : s[k] = x
      BY <1>5 DEF Surjection
  <2>2. \A k \in 1..Cardinality(S) : reply[k] = Row(s[k], value[s[k]])
      BY <1>3
  <2>3. Range(reply) = {reply[k] : k \in 1..Cardinality(S)}
      BY <1>7 DEF Range
  <2>. QED
      BY <2>1, <2>2, <2>3
<1>. QED
    BY <1>8, <1>9

\* The reply to a SELECT of these ids.
LEMMA ReplyOK ==
    ASSUME NEW me, NEW ids \in Wanted(me), me.n \in Nat, table \in [Ids -> Nat],
           NEW reply \in Reply(me, ids)
    PROVE  /\ reply \in Seq(Rec)
           /\ me.kind = "fortunes" => Range(reply) = FortuneRows
           /\ me.kind \in Locking \cup {"db"} => Len(reply) = 1 /\ reply[1].id = ids[1]
           /\ me.kind = "cached_db" /\ IsInjective(ids) => Len(reply) = me.n
<1>1. CASE me.kind = "fortunes"
  <2>1. reply \in Rows(Fortunes, Message)
      BY <1>1 DEF Reply
  <2>2. \A x \in Fortunes : Message[x] \in Nat
      BY ServerAssumption
  <2>3. reply \in Seq(Rec) /\ Range(reply) = {Row(x, Message[x]) : x \in Fortunes}
      BY <2>1, <2>2, RowsOK
  <2>. QED
      BY <1>1, <2>3 DEF FortuneRows, Locking
<1>2. CASE me.kind # "fortunes"
  <2>. DEFINE m == IF me.kind = "cached_db" THEN me.n ELSE 1
              S == ToSet(ids)
  <2>1. m \in Nat /\ ids \in [1..m -> Ids]
      BY <1>2 DEF Wanted
  <2>. HIDE DEF m
  <2>2. S = {ids[k] : k \in 1..m}
      BY <2>1 DEF ToSet
  <2>3. S \in SUBSET Ids
      BY <2>1, <2>2
  <2>4. reply \in Rows(S, table)
      BY <1>2 DEF Reply
  <2>. HIDE DEF S
  <2>5. /\ reply \in Seq(Rec) /\ Len(reply) = Cardinality(S)
        /\ Range(reply) = {Row(x, table[x]) : x \in S}
    <3>1. S \in SUBSET (Ids \cup Fortunes) /\ \A x \in S : table[x] \in Nat
        BY <2>3
    <3>. QED
        BY <2>4, <3>1, RowsOK
  <2>6. CASE me.kind = "cached_db" /\ IsInjective(ids)
    <3>1. ids \in Surjection(1..m, S)
        BY <2>1, <2>2 DEF Surjection
    <3>2. ids \in Injection(1..m, S)
        BY <2>6, <3>1 DEF Surjection, Injection
    <3>3. IsFiniteSet(1..m) /\ Cardinality(1..m) = m
        BY <2>1, FS_Interval
    <3>4. Cardinality(S) = m
        BY <3>1, <3>2, <3>3, FS_Surjection
    <3>. QED
        BY <1>2, <2>5, <2>6, <3>4 DEF m, Locking
  <2>7. CASE me.kind \in Locking \cup {"db"}
    <3>1. m = 1
        BY <2>7 DEF m, Locking
    <3>2. S = {ids[1]}
        BY <2>2, <3>1
    <3>3. Len(reply) = 1
        BY <2>5, <3>2, FS_Singleton
    <3>4. reply[1] \in Range(reply)
        BY <2>5, <3>3 DEF Range
    <3>5. reply[1].id = ids[1]
        BY <2>5, <3>2, <3>4 DEF Row
    <3>. QED
        BY <1>2, <2>5, <2>7, <3>3, <3>5 DEF Locking
  <2>. QED
      BY <1>2, <2>5, <2>6, <2>7
<1>. QED
    BY <1>1, <1>2

-----------------------------------------------------------------------------
(* Connections.                                                            *)

\* Where no connection of the pools has an unread reply, no call finds one.
LEMMA ConnectionsClean ==
    ASSUME pool = [s \in Sides |-> {}], NEW me, NEW side \in Sides, me.conn[side] \in Clean,
           NEW got \in Connections(me, side)
    PROVE  got.c = <<>> /\ got.rest = pool
<1>1. CASE me.conn[side] # None
  <2>1. me.conn[side] = <<<<>>>>
      BY <1>1 DEF Clean
  <2>2. got = [c |-> me.conn[side][1], rest |-> pool]
      BY <1>1 DEF Connections
  <2>. QED
      BY <2>1, <2>2
<1>2. CASE me.conn[side] = None
  <2>1. PICK c \in pool[side] \cup {<<>>} : got = [c |-> c, rest |-> [pool EXCEPT ![side] = @ \ {c}]]
      BY <1>2 DEF Connections
  <2>2. c = <<>>
      OBVIOUS
  <2>3. [pool EXCEPT ![side] = @ \ {c}] = pool
    <3>1. pool[side] \ {c} = pool[side]
        OBVIOUS
    <3>. QED
        BY <3>1
  <2>. QED
      BY <2>1, <2>2, <2>3
<1>. QED
    BY <1>1, <1>2

\* Giving back a connection without unread replies does not change the pool.
LEMMA GiveBackClean ==
    ASSUME NEW side, NEW held \in Clean
    PROVE  GiveBack(side, held) = pool[side]
BY DEF GiveBack, Clean

\* The connections of a request at another place than those that wait.
LEMMA Relink ==
    ASSUME NEW me, Sound(me), me.pc \in Resumed, NEW side \in Sides,
           NEW c \in Links,
           me.kind \in Locking \/ me.pc = "fetch" =>
              c \in Clean /\ \A s \in Sides : s # side => me.conn[s] \in Clean
    PROVE  Good([me EXCEPT !.conn[side] = c])
<1>. DEFINE new == [me EXCEPT !.conn[side] = c]
<1>1. me \in RequestType
    BY DEF Sound
<1>2. new \in RequestType
    BY <1>1 DEF RequestType
<1>3. /\ new.kind = me.kind /\ new.pc = me.pc /\ new.n = me.n /\ new.i = me.i
      /\ new.record = me.record /\ new.iserror = me.iserror /\ new.asked = me.asked
      /\ new.wrote = me.wrote /\ new.unsure = me.unsure /\ new.fault = me.fault
      /\ new.short = me.short
    BY <1>1 DEF RequestType
<1>4. new.conn[side] = c /\ \A s \in Sides : s # side => new.conn[s] = me.conn[s]
    BY <1>1 DEF RequestType
<1>. HIDE DEF new
<1>5. Sound(new)
    BY <1>2, <1>3 DEF Sound, Looping, Updating, Single, Listing, Caching, Resumed
<1>6. Linked(new)
    BY <1>3, <1>4 DEF Linked, Sides, Resumed
<1>. QED
    BY <1>5, <1>6 DEF Good, new

-----------------------------------------------------------------------------
(* Steps of one coroutine.                                                 *)

\* A step of one request leaves the others as they were.
LEMMA WorkKeeps ==
    ASSUME Untainted, NEW w \in Workers, NEW me, Good(me),
           work' = [work EXCEPT ![w] = me], pool' = pool, table' \in [Ids -> Nat],
           \A key \in DOMAIN cache' : GoodEntry(key, cache'[key])
    PROVE  Untainted'
<1>1. DOMAIN work' = DOMAIN work /\ \A v \in Workers : work'[v] = me \/ work'[v] = work[v]
    OBVIOUS
<1>. QED
    BY <1>1 DEF Untainted

\* A request starts without connections.
LEMMA NoConnections ==
    [s \in Sides |-> None] \in [Sides -> Links] /\ \A s \in Sides : [t \in Sides |-> None][s] \in Clean
BY DEF Links, Clean

\* The number of queries is at least one.
LEMMA GetNum == \A c \in Counts : get_num(c) \in Nat \ {0}
BY ServerAssumption DEF get_num

\* A request at its first step.
LEMMA RequestGood ==
    ASSUME NEW kind, NEW pc, NEW n \in Nat,
           \/ kind = "none" /\ pc = "done"
           \/ kind \in {"plaintext", "json"} /\ pc = "answer"
           \/ kind = "db" /\ pc = "fetch" /\ n = 1
           \/ kind = "fortunes" /\ pc = "fetch"
           \/ kind \in Locking /\ pc = "fetch" /\ n > 0
           \/ kind = "cached_queries" /\ pc = "checkAll"
           \/ kind = "cached_db" /\ pc = "checkMy"
    PROVE  Good(Request(kind, pc, n))
<1>. DEFINE me == Request(kind, pc, n)
<1>1. /\ me.kind = kind /\ me.pc = pc /\ me.n = n /\ me.i = 0 /\ me.record = <<>>
      /\ me.iserror = FALSE /\ me.asked = <<>> /\ me.fault = FALSE
      /\ me.conn = [s \in Sides |-> None]
    BY DEF Request
<1>2. me \in RequestType
  <2>1. <<>> \in Seq(Rec) /\ <<>> \in Seq(Ids)
      OBVIOUS
  <2>2. kind \in {"none", "plaintext", "json", "db", "fortunes", "queries", "updates",
             "cached_queries", "cached_db"}
      BY DEF Locking
  <2>3. pc \in {"done", "answer", "fetch", "checkAll", "checkMy"}
      OBVIOUS
  <2>. QED
      BY <2>1, <2>2, <2>3, NoConnections DEF Request, RequestType
<1>3. \A s \in Sides : me.conn[s] \in Clean
    BY <1>1, NoConnections
<1>. HIDE DEF me
<1>4. Linked(me)
    BY <1>1, <1>3 DEF Linked, Sides
<1>5. pc \in Places(kind)
    BY DEF Places, Locking
<1>6. kind \in Locking => Looping(me)
    BY <1>1 DEF Looping, Locking
<1>7. kind = "updates" => Updating(me)
    BY <1>1 DEF Updating, Locking
<1>8. kind = "db" => Single(me)
    BY <1>1 DEF Single, Locking
<1>9. kind = "fortunes" => Listing(me)
    BY <1>1 DEF Listing, Locking
<1>10. kind \in Cached => Caching(me)
    BY <1>1 DEF Caching, Cached, Locking
<1>. QED
    BY <1>1, <1>2, <1>4, <1>5, <1>6, <1>7, <1>8, <1>9, <1>10 DEF Good, Sound, me

\* What the loops need at the end of a round.
Round(me) ==
    /\ me.kind \in Locking
    /\ me.i < me.n /\ Len(me.asked) = me.i + 1
    /\ ~me.fault => /\ Len(me.record) = me.i + 1
                    /\ \A k \in 1..Len(me.record) : me.record[k].id = me.asked[k]
    /\ me.kind = "updates" =>
         \A k \in 1..Len(me.record) : me.record[k] \in me.wrote \cup me.unsure

\* After a whole round a loop goes on with the next one, or ends.
LEMMA NextIterationSound ==
    ASSUME NEW me \in RequestType, me.iserror => me.fault, Round(me)
    PROVE  LET new == NextIteration(me) IN
           /\ Sound(new) /\ new.kind = me.kind /\ new.conn = me.conn
           /\ new.iserror = me.iserror /\ new.fault = me.fault
           /\ new.pc \in {"fetch", "answer"}
<1>. DEFINE new == NextIteration(me)
<1>1. me.i \in Nat /\ me.n \in Nat /\ me.record \in Seq(Rec)
    BY DEF RequestType
<1>2. new \in RequestType
  <2>. DEFINE pc == IF me.i + 1 < me.n THEN "fetch" ELSE "answer"
  <2>1. pc \in {"fetch", "answer"} /\ me.i + 1 \in Nat
      BY <1>1
  <2>2. new = [me EXCEPT !.i = @ + 1, !.pc = pc]
      BY DEF NextIteration
  <2>. HIDE DEF pc, new
  <2>. QED
      BY <2>1, <2>2 DEF RequestType
<1>3. /\ new.kind = me.kind /\ new.conn = me.conn /\ new.iserror = me.iserror
      /\ new.fault = me.fault /\ new.n = me.n /\ new.record = me.record
      /\ new.asked = me.asked /\ new.wrote = me.wrote /\ new.unsure = me.unsure
      /\ new.i = me.i + 1 /\ new.pc = IF me.i + 1 < me.n THEN "fetch" ELSE "answer"
    BY DEF NextIteration, RequestType
<1>. HIDE DEF new
<1>4. new.pc \in {"fetch", "answer"}
    BY <1>3
<1>5. Looping(new)
  <2>1. new.pc # "answer" => new.i < new.n
      BY <1>1, <1>3
  <2>2. new.pc = "answer" => me.i + 1 = me.n
      BY <1>1, <1>3 DEF Round
  <2>3. Len(new.asked) = CASE new.pc = "fetch"  -> new.i
                           [] new.pc = "answer" -> new.n
                           [] OTHER             -> new.i + 1
      BY <1>3, <1>4, <2>2 DEF Round
  <2>4. ~new.fault =>
          /\ Len(new.record) = Len(new.asked)
          /\ \A k \in 1..Len(new.record) : new.record[k].id = new.asked[k]
      BY <1>3 DEF Round
  <2>. QED
      BY <1>4, <2>1, <2>3, <2>4 DEF Looping
<1>6. new.kind = "updates" => Updating(new)
    BY <1>3, <1>4 DEF Updating, Round
<1>7. new.pc \in Places(new.kind)
    BY <1>3, <1>4 DEF Places, Round, Locking
<1>8. new.kind \notin {"db", "fortunes"} \cup Cached
    BY <1>3 DEF Round, Locking, Cached
<1>9. Sound(new)
    BY <1>2, <1>3, <1>5, <1>6, <1>7, <1>8 DEF Sound
<1>. QED
    BY <1>3, <1>4, <1>9 DEF new

Fetching == {"db", "fortunes", "queries", "updates", "cached_db"}

\* What a fetch has to bring.
Taken(me) ==
    /\ me.kind \in Fetching
    /\ me.kind \in Locking =>
         /\ me.i < me.n /\ Len(me.asked) = me.i + 1
         /\ ~me.fault => /\ Len(me.record) = me.i + 1
                         /\ \A k \in 1..Len(me.record) : me.record[k].id = me.asked[k]
    /\ me.kind = "updates" =>
         /\ \A k \in 1..(Len(me.record) - 1) : me.record[k] \in me.wrote \cup me.unsure
         /\ IF me.effect > 0
            THEN /\ Len(me.record) > 0
                 /\ me.record[Len(me.record)].id = me.asked[Len(me.asked)]
            ELSE \A k \in 1..Len(me.record) : me.record[k] \in me.wrote \cup me.unsure
    /\ me.kind = "db" =>
         /\ me.n = 1 /\ Len(me.asked) = 1
         /\ ~me.fault => Len(me.record) = 1 /\ me.record[1].id = me.asked[1]
    /\ me.kind = "fortunes" => (~me.fault => Range(me.record) = FortuneRows)
    /\ me.kind = "cached_db" => Len(me.record) = me.n \/ me.short # {}

\* A request goes to another place and keeps everything else.
LEMMA PcSound ==
    ASSUME NEW me \in RequestType,
           NEW pc \in {"answer", "fetch", "update", "saveMy", "getMy", "pick", "checkMy",
                       "getAll", "makeAll"}
    PROVE  LET new == [me EXCEPT !.pc = pc] IN
           /\ new \in RequestType /\ new.pc = pc
           /\ new.kind = me.kind /\ new.n = me.n /\ new.i = me.i
           /\ new.record = me.record /\ new.effect = me.effect /\ new.iserror = me.iserror
           /\ new.conn = me.conn /\ new.asked = me.asked /\ new.wrote = me.wrote
           /\ new.unsure = me.unsure /\ new.fault = me.fault /\ new.short = me.short
           /\ new.all = me.all
BY DEF RequestType

\* Where a handler goes on when its rows are there or its fetch has failed.
LEMMA AfterFetchSound ==
    ASSUME NEW me \in RequestType, me.iserror => me.fault, Taken(me)
    PROVE  LET new == AfterFetch(me) IN
           /\ Sound(new) /\ new.kind = me.kind /\ new.conn = me.conn
           /\ new.iserror = me.iserror /\ new.fault = me.fault
           /\ new.pc \in {"fetch", "answer", "update", "saveMy"}
           /\ new.kind \notin Locking => new.pc # "fetch"
<1>. DEFINE new == AfterFetch(me)
<1>1. CASE me.kind = "updates" /\ me.effect > 0
  <2>1. new = [me EXCEPT !.pc = "update"]
      BY <1>1 DEF AfterFetch
  <2>2. /\ new \in RequestType /\ new.pc = "update"
        /\ new.kind = me.kind /\ new.n = me.n /\ new.i = me.i
        /\ new.record = me.record /\ new.effect = me.effect /\ new.iserror = me.iserror
        /\ new.conn = me.conn /\ new.asked = me.asked /\ new.wrote = me.wrote
        /\ new.unsure = me.unsure /\ new.fault = me.fault /\ new.short = me.short
    <3>. HIDE DEF new
    <3>. QED
        BY <2>1, PcSound
  <2>. HIDE DEF new
  <2>3. Looping(new)
      BY <1>1, <2>2 DEF Looping, Taken, Locking
  <2>4. Updating(new)
      BY <1>1, <2>2 DEF Updating, Taken
  <2>5. Sound(new)
      BY <1>1, <2>2, <2>3, <2>4 DEF Sound, Places, Cached, Locking
  <2>. QED
      BY <1>1, <2>2, <2>5 DEF new, Locking
<1>2. CASE me.kind \in Locking /\ ~(me.kind = "updates" /\ me.effect > 0)
  <2>1. new = NextIteration(me)
      BY <1>2 DEF AfterFetch, Locking
  <2>2. Round(me)
      BY <1>2 DEF Round, Taken
  <2>3. /\ Sound(new) /\ new.kind = me.kind /\ new.conn = me.conn
        /\ new.iserror = me.iserror /\ new.fault = me.fault
        /\ new.pc \in {"fetch", "answer"}
    <3>. HIDE DEF new
    <3>. QED
        BY <2>1, <2>2, NextIterationSound
  <2>. QED
      BY <1>2, <2>3
<1>3. CASE me.kind \notin Locking
  <2>. DEFINE pc == IF me.kind = "cached_db" THEN "saveMy" ELSE "answer"
  <2>1. new = [me EXCEPT !.pc = pc]
      BY <1>3 DEF AfterFetch, Locking
  <2>2. /\ new \in RequestType /\ new.pc = pc
        /\ new.kind = me.kind /\ new.n = me.n /\ new.i = me.i
        /\ new.record = me.record /\ new.effect = me.effect /\ new.iserror = me.iserror
        /\ new.conn = me.conn /\ new.asked = me.asked /\ new.wrote = me.wrote
        /\ new.unsure = me.unsure /\ new.fault = me.fault /\ new.short = me.short
    <3>. HIDE DEF new
    <3>1. CASE me.kind = "cached_db"
      <4>1. pc = "saveMy"
          BY <3>1
      <4>. HIDE DEF pc
      <4>2. new = [me EXCEPT !.pc = "saveMy"]
          BY <2>1, <4>1
      <4>. QED
          BY <4>1, <4>2, PcSound
    <3>2. CASE me.kind # "cached_db"
      <4>1. pc = "answer"
          BY <3>2
      <4>. HIDE DEF pc
      <4>2. new = [me EXCEPT !.pc = "answer"]
          BY <2>1, <4>1
      <4>. QED
          BY <4>1, <4>2 DEF RequestType
    <3>. QED
        BY <3>1, <3>2
  <2>. HIDE DEF new
  <2>3. me.kind \in {"db", "fortunes", "cached_db"}
      BY <1>3 DEF Taken, Fetching, Locking
  <2>4. new.kind = "db" => Single(new)
      BY <2>2 DEF Single, Taken
  <2>5. new.kind = "fortunes" => Listing(new)
      BY <2>2 DEF Listing, Taken
  <2>6. new.kind \in Cached => Caching(new)
      BY <2>2, <2>3 DEF Caching, Taken, Cached
  <2>7. Sound(new)
      BY <1>3, <2>2, <2>3, <2>4, <2>5, <2>6 DEF Sound, Places, Locking
  <2>. QED
      BY <1>3, <2>2, <2>7 DEF new, Locking
<1>. QED
    BY <1>1, <1>2, <1>3

-----------------------------------------------------------------------------
(* fetch.                                                                  *)

\* Asking for ids changes what was asked for, and notes duplicates.
LEMMA AskingOK ==
    ASSUME NEW me, Good(me), me.pc = "fetch", NEW ids \in Wanted(me)
    PROVE  LET new == Asking(me, ids) IN
           /\ me.kind \in Fetching
           /\ new \in RequestType
           /\ new.kind = me.kind /\ new.pc = me.pc /\ new.n = me.n /\ new.i = me.i
           /\ new.record = me.record /\ new.effect = 0 /\ new.iserror = me.iserror
           /\ new.conn = me.conn /\ new.wrote = me.wrote /\ new.unsure = me.unsure
           /\ new.fault = me.fault
           /\ new.asked = me.asked \o ids
           /\ me.kind \in Locking \cup {"db"} =>
                Len(new.asked) = Len(me.asked) + 1 /\ new.asked[Len(new.asked)] = ids[1]
           /\ \A k \in 1..Len(me.asked) : new.asked[k] = me.asked[k]
           /\ ~IsInjective(ids) => new.short # {}
<1>. DEFINE new == Asking(me, ids)
            why == IF IsInjective(ids) THEN {} ELSE {"duplicate"}
<1>1. me \in RequestType /\ me.kind \in Fetching
    BY DEF Good, Sound, Places, Fetching, RequestType
<1>2. ids \in Seq(Ids) /\ (me.kind \in Locking \cup {"db"} => Len(ids) = 1)
  <2>1. me.n \in Nat
      BY <1>1 DEF RequestType
  <2>2. CASE me.kind = "fortunes"
      BY <2>2 DEF Wanted, Locking
  <2>3. CASE me.kind = "cached_db"
      BY <2>1, <2>3 DEF Wanted, Locking
  <2>4. CASE me.kind \notin {"fortunes", "cached_db"}
    <3>. DEFINE m == 1
    <3>1. m \in Nat /\ ids \in [1..m -> Ids]
        BY <2>4 DEF Wanted
    <3>. HIDE DEF m
    <3>2. ids \in Seq(Ids) /\ Len(ids) = m
        BY <3>1
    <3>. QED
        BY <3>2 DEF m
  <2>. QED
      BY <2>2, <2>3, <2>4
<1>3. me.asked \in Seq(Ids) /\ me.asked \o ids \in Seq(Ids)
    BY <1>1, <1>2 DEF RequestType
<1>4. why \in SUBSET Reasons /\ (~IsInjective(ids) => why # {})
    BY DEF Reasons
<1>. HIDE DEF why
<1>5. new = [me EXCEPT !.asked = @ \o ids, !.effect = 0, !.short = @ \cup why]
    BY DEF Asking, why
<1>. HIDE DEF new
<1>6. new \in RequestType
    BY <1>1, <1>3, <1>4, <1>5 DEF RequestType
<1>7. /\ new.kind = me.kind /\ new.pc = me.pc /\ new.n = me.n /\ new.i = me.i
      /\ new.record = me.record /\ new.effect = 0 /\ new.iserror = me.iserror
      /\ new.conn = me.conn /\ new.wrote = me.wrote /\ new.unsure = me.unsure
      /\ new.fault = me.fault
      /\ new.asked = me.asked \o ids /\ new.short = me.short \cup why
    BY <1>1, <1>5 DEF RequestType
<1>8. me.kind \in Locking \cup {"db"} =>
        Len(new.asked) = Len(me.asked) + 1 /\ new.asked[Len(new.asked)] = ids[1]
  <2>1. /\ Len(me.asked) \in Nat /\ Len(me.asked \o ids) = Len(me.asked) + Len(ids)
        /\ \A k \in 1..Len(ids) : (me.asked \o ids)[Len(me.asked) + k] = ids[k]
      BY <1>2, <1>3, ConcatProperties
  <2>. QED
      BY <1>2, <1>7, <2>1
<1>9. \A k \in 1..Len(me.asked) : new.asked[k] = me.asked[k]
    BY <1>2, <1>3, <1>7
<1>. QED
    BY <1>1, <1>4, <1>6, <1>7, <1>8, <1>9 DEF new

\* A fetch that brings nothing, because of a failure.
LEMMA NothingTaken ==
    ASSUME NEW me, Good(me), me.pc = "fetch", NEW ids \in Wanted(me),
           NEW new \in RequestType, NEW asking, asking = Asking(me, ids),
           new.kind = me.kind, new.n = me.n, new.i = me.i, new.record = me.record,
           new.effect = 0, new.wrote = me.wrote, new.unsure = me.unsure,
           new.asked = asking.asked, new.fault,
           me.kind = "cached_db" => new.short # {}
    PROVE  Taken(new)
<1>1. /\ me.kind \in Fetching
      /\ me.kind \in Locking \cup {"db"} => Len(new.asked) = Len(me.asked) + 1
    BY AskingOK
<1>2. me.kind \in Locking => me.i < me.n /\ Len(me.asked) = me.i
    BY DEF Good, Sound, Looping
<1>3. me.kind = "updates" =>
        \A k \in 1..Len(me.record) : me.record[k] \in me.wrote \cup me.unsure
    BY DEF Good, Sound, Updating
<1>4. me.kind = "db" => me.n = 1 /\ Len(me.asked) = 0
    BY DEF Good, Sound, Single
<1>5. Len(me.record) \in Nat
    BY DEF Good, Sound, RequestType
<1>6. me.kind = "updates" =>
        /\ \A k \in 1..(Len(new.record) - 1) : new.record[k] \in new.wrote \cup new.unsure
        /\ \A k \in 1..Len(new.record) : new.record[k] \in new.wrote \cup new.unsure
    BY <1>3, <1>5
<1>7. new.kind \in Locking =>
        /\ new.i < new.n /\ Len(new.asked) = new.i + 1
        /\ ~new.fault => /\ Len(new.record) = new.i + 1
                         /\ \A k \in 1..Len(new.record) : new.record[k].id = new.asked[k]
    BY <1>1, <1>2
<1>8. new.kind = "db" => new.n = 1 /\ Len(new.asked) = 1
  <2>. SUFFICES ASSUME me.kind = "db" PROVE new.n = 1 /\ Len(new.asked) = 1
      OBVIOUS
  <2>1. Len(me.asked) = 0 /\ Len(new.asked) = Len(me.asked) + 1
      BY <1>1, <1>4
  <2>2. Len(new.asked) = 0 + 1
      BY <2>1
  <2>. QED
      BY <1>4, <2>2
<1>9. ~(new.effect > 0)
    OBVIOUS
<1>10. new.kind = "cached_db" => new.short # {}
    OBVIOUS
<1>. QED
    BY <1>1, <1>6, <1>7, <1>8, <1>9, <1>10 DEF Taken

\* The statement was sent.
LEMMA SentGood ==
    ASSUME NEW me, Good(me), me.pc = "fetch", NEW ids \in Wanted(me), ~me.iserror,
           table \in [Ids -> Nat], NEW reply \in Reply(me, ids)
    PROVE  Good([Asking(me, ids) EXCEPT !.pc = "fetched", !.conn["select"] = <<<<reply>>>>])
<1>. DEFINE mid == Asking(me, ids)
            new == [mid EXCEPT !.pc = "fetched", !.conn["select"] = <<<<reply>>>>]
<1>1. /\ me.kind \in Fetching
      /\ mid \in RequestType
      /\ mid.kind = me.kind /\ mid.n = me.n /\ mid.i = me.i
      /\ mid.record = me.record /\ mid.iserror = me.iserror
      /\ mid.conn = me.conn /\ mid.wrote = me.wrote /\ mid.unsure = me.unsure
      /\ mid.fault = me.fault
      /\ me.kind \in Locking \cup {"db"} =>
           Len(mid.asked) = Len(me.asked) + 1 /\ mid.asked[Len(mid.asked)] = ids[1]
      /\ \A k \in 1..Len(me.asked) : mid.asked[k] = me.asked[k]
      /\ ~IsInjective(ids) => mid.short # {}
    BY AskingOK
<1>2. me \in RequestType /\ me.n \in Nat /\ me.i \in Nat /\ Len(me.record) \in Nat
    BY DEF Good, Sound, RequestType
<1>3. /\ reply \in Seq(Rec)
      /\ me.kind = "fortunes" => Range(reply) = FortuneRows
      /\ me.kind \in Locking \cup {"db"} => Len(reply) = 1 /\ reply[1].id = ids[1]
      /\ me.kind = "cached_db" /\ IsInjective(ids) => Len(reply) = me.n
    BY <1>2, ReplyOK
<1>. HIDE DEF mid
<1>4. <<<<reply>>>> \in Links /\ "select" \in Sides
    BY <1>3 DEF Links, Replies, Sides
<1>5. new \in RequestType
    BY <1>1, <1>4 DEF RequestType
<1>6. /\ new.kind = me.kind /\ new.pc = "fetched" /\ new.n = me.n /\ new.i = me.i
      /\ new.record = me.record /\ new.iserror = me.iserror
      /\ new.wrote = me.wrote /\ new.unsure = me.unsure
      /\ new.fault = me.fault /\ new.asked = mid.asked /\ new.short = mid.short
    BY <1>1 DEF RequestType
<1>7. /\ new.conn["select"] = <<<<reply>>>>
      /\ \A s \in Sides : s # "select" => new.conn[s] = me.conn[s]
    BY <1>1, <1>4 DEF RequestType
<1>. HIDE DEF new
<1>8. Received(new) = reply
    BY <1>7 DEF Received
<1>9. Linked(new)
  <2>1. me.kind \in Locking => me.conn["edit"] \in Clean
      BY DEF Good, Linked
  <2>2. new.conn["edit"] = me.conn["edit"]
      BY <1>7 DEF Sides
  <2>. QED
      BY <1>3, <1>6, <1>7, <2>1, <2>2 DEF Linked
<1>10. me.kind \in Locking => Looping(new)
  <2>. SUFFICES ASSUME me.kind \in Locking PROVE Looping(new)
      OBVIOUS
  <2>1. /\ me.i < me.n /\ Len(me.asked) = me.i
        /\ ~me.fault => /\ Len(me.record) = Len(me.asked)
                        /\ \A k \in 1..Len(me.record) : me.record[k].id = me.asked[k]
      BY DEF Good, Sound, Looping
  <2>2. Len(new.asked) = new.i + 1 /\ new.i < new.n
      BY <1>1, <1>6, <2>1
  <2>3. ~new.fault =>
           /\ Len(new.record) = new.i
           /\ \A k \in 1..Len(new.record) : new.record[k].id = new.asked[k]
      BY <1>1, <1>6, <2>1
  <2>4. Len(reply) = 1 /\ reply[1].id = new.asked[Len(new.asked)]
      BY <1>1, <1>3, <1>6
  <2>. QED
      BY <1>6, <1>8, <2>2, <2>3, <2>4 DEF Looping
<1>11. me.kind = "updates" => Updating(new)
    BY <1>6 DEF Good, Sound, Updating
<1>12. me.kind = "db" => Single(new)
  <2>. SUFFICES ASSUME me.kind = "db" PROVE Single(new)
      OBVIOUS
  <2>1. me.n = 1 /\ Len(me.asked) = 0 /\ me.record = <<>>
      BY DEF Good, Sound, Single
  <2>2. Len(new.asked) = 1 /\ Len(reply) = 1 /\ reply[1].id = new.asked[1]
      BY <1>1, <1>3, <1>6, <2>1
  <2>. QED
      BY <1>6, <1>8, <2>1, <2>2 DEF Single
<1>13. me.kind = "fortunes" => Listing(new)
    BY <1>3, <1>6, <1>8 DEF Good, Sound, Listing
<1>14. me.kind \in Cached => Caching(new)
  <2>. SUFFICES ASSUME me.kind \in Cached PROVE Caching(new)
      OBVIOUS
  <2>1. me.kind = "cached_db"
      BY <1>1 DEF Fetching, Cached
  <2>2. me.record = <<>>
      BY DEF Good, Sound, Caching
  <2>3. Len(reply) = me.n \/ new.short # {}
      BY <1>1, <1>3, <1>6, <2>1
  <2>. QED
      BY <1>6, <1>8, <2>2, <2>3 DEF Caching
<1>15. new.pc \in Places(new.kind)
    BY <1>1, <1>6 DEF Places, Fetching
<1>16. Sound(new)
    BY <1>5, <1>6, <1>10, <1>11, <1>12, <1>13, <1>14, <1>15 DEF Sound
<1>. QED
    BY <1>9, <1>16 DEF Good, new, mid

\* A handler that goes on waits for no reply.
LEMMA LinkedAfter ==
    ASSUME NEW new, new.pc \in Resumed,
           new.kind \in Locking \/ new.pc = "fetch" => \A s \in Sides : new.conn[s] \in Clean
    PROVE  Linked(new)
BY DEF Linked, Sides, Resumed

\* The statement was not sent.
LEMMA NotSentGood ==
    ASSUME pool = [s \in Sides |-> {}], NEW after, Sound(after),
           after.pc \in Resumed,
           after.kind \in Locking \/ after.pc = "fetch" => \A s \in Sides : after.conn[s] \in Clean,
           NEW side \in Sides, after.conn[side] \in Clean,
           NEW got \in Connections(after, side), NEW c \in {None, <<got.c>>}
    PROVE  Good([after EXCEPT !.fault = TRUE, !.conn[side] = c]) /\ got.rest = pool
<1>1. got.c = <<>> /\ got.rest = pool
    BY ConnectionsClean
<1>2. c \in Clean /\ c \in Links
    BY <1>1 DEF Clean, Links
<1>. DEFINE f == [after EXCEPT !.fault = TRUE]
<1>3. after \in RequestType /\ f \in RequestType
    BY DEF Sound, RequestType
<1>4. /\ f.kind = after.kind /\ f.pc = after.pc /\ f.n = after.n /\ f.i = after.i
      /\ f.record = after.record /\ f.iserror = after.iserror /\ f.conn = after.conn
      /\ f.asked = after.asked /\ f.wrote = after.wrote /\ f.unsure = after.unsure
      /\ f.short = after.short /\ f.fault = TRUE
    BY <1>3 DEF RequestType
<1>5. [after EXCEPT !.fault = TRUE, !.conn[side] = c] = [f EXCEPT !.conn[side] = c]
    BY <1>3 DEF RequestType
<1>. HIDE DEF f
<1>6. Sound(f)
    BY <1>3, <1>4 DEF Sound, Looping, Updating, Single, Listing, Caching, Received
<1>7. Good([f EXCEPT !.conn[side] = c])
    BY <1>2, <1>4, <1>6, Relink
<1>. QED
    BY <1>1, <1>5, <1>7

\* A SELECT is sent, or cannot be: the reply on the connection is its own.
LEMMA FetchStep ==
    ASSUME Untainted, NEW w \in Workers, fetch(w)
    PROVE  Untainted' /\ tainted' = tainted
<1>. DEFINE me == work[w]
<1>1. /\ Good(me) /\ me.pc = "fetch" /\ pool = [s \in Sides |-> {}] /\ table \in [Ids -> Nat]
      /\ \A key \in DOMAIN cache : GoodEntry(key, cache[key])
    BY DEF Untainted, fetch
<1>2. PICK ids \in Wanted(me) :
        LET mid == Asking(me, ids) IN
        \/ /\ mid.iserror
           /\ work' = [work EXCEPT ![w] = AfterFetch(mid)]
           /\ UNCHANGED <<table, pool, cache, tainted, requests, faults>>
        \/ /\ ~mid.iserror
           /\ \E reply \in Reply(mid, ids) : Send(w, mid, "select", "fetched", reply)
           /\ UNCHANGED <<table, faults>>
        \/ ~mid.iserror /\ NotSent(w, "select", AfterFetch(Failing(mid)))
    BY DEF fetch
<1>. DEFINE mid == Asking(me, ids)
<1>3. /\ me.kind \in Fetching
      /\ mid \in RequestType
      /\ mid.kind = me.kind /\ mid.pc = me.pc /\ mid.n = me.n /\ mid.i = me.i
      /\ mid.record = me.record /\ mid.effect = 0 /\ mid.iserror = me.iserror
      /\ mid.conn = me.conn /\ mid.wrote = me.wrote /\ mid.unsure = me.unsure
      /\ mid.fault = me.fault
  <2>. HIDE DEF me
  <2>. QED
      BY <1>1, AskingOK
<1>4. /\ me \in RequestType /\ "select" \in Sides /\ me.conn["select"] \in Clean
      /\ me.iserror => me.fault
      /\ me.kind = "cached_db" => ~me.iserror
      /\ me.kind \in Locking => \A s \in Sides : me.conn[s] \in Clean
    BY <1>1 DEF Good, Sound, Linked, Sides, Caching, Cached
<1>5. CASE /\ mid.iserror
           /\ work' = [work EXCEPT ![w] = AfterFetch(mid)]
           /\ UNCHANGED <<table, pool, cache, tainted, requests, faults>>
  <2>. DEFINE new == AfterFetch(mid)
  <2>1. Taken(mid) /\ mid.fault
    <3>1. mid.fault /\ me.kind # "cached_db"
        BY <1>3, <1>4, <1>5
    <3>. HIDE DEF me
    <3>. QED
        BY <1>1, <1>3, <3>1, NothingTaken
  <2>. HIDE DEF mid, me
  <2>2. /\ Sound(new) /\ new.kind = mid.kind /\ new.conn = mid.conn
        /\ new.pc \in {"fetch", "answer", "update", "saveMy"}
        /\ new.kind \notin Locking => new.pc # "fetch"
      BY <1>3, <2>1, AfterFetchSound
  <2>. HIDE DEF new
  <2>3. Linked(new)
      BY <1>3, <1>4, <2>2, LinkedAfter DEF Resumed
  <2>4. Good(new) /\ work' = [work EXCEPT ![w] = new]
      BY <1>5, <2>2, <2>3 DEF Good, new
  <2>. QED
      BY <1>1, <1>5, <2>4, WorkKeeps
<1>6. CASE /\ ~mid.iserror
           /\ \E reply \in Reply(mid, ids) : Send(w, mid, "select", "fetched", reply)
           /\ UNCHANGED <<table, faults>>
  <2>1. PICK reply \in Reply(mid, ids) : Send(w, mid, "select", "fetched", reply)
      BY <1>6
  <2>2. reply \in Reply(me, ids)
      BY <1>3, <2>1 DEF Reply
  <2>. DEFINE new == [mid EXCEPT !.pc = "fetched", !.conn["select"] = <<<<reply>>>>]
  <2>3. Good(new)
    <3>. HIDE DEF me
    <3>. QED
        BY <1>1, <1>3, <1>6, <2>2, SentGood
  <2>4. PICK got \in Connections(mid, "select") :
          /\ work' = [work EXCEPT ![w] =
                        [mid EXCEPT !.pc = "fetched", !.conn["select"] = <<Append(got.c, reply)>>]]
          /\ pool' = got.rest
          /\ UNCHANGED <<cache, tainted, requests>>
      BY <2>1 DEF Send
  <2>. HIDE DEF mid
  <2>5. got.c = <<>> /\ got.rest = pool
    <3>. HIDE DEF me, new
    <3>1. mid.conn["select"] \in Clean /\ got \in Connections(mid, "select")
        BY <1>3, <1>4, <2>4
    <3>2. pool = [s \in Sides |-> {}] /\ "select" \in Sides
        BY <1>1, <1>4
    <3>. QED
        BY ONLY <3>1, <3>2, ConnectionsClean
  <2>6. Append(got.c, reply) = <<reply>>
      BY <2>5
  <2>7. work' = [work EXCEPT ![w] = new] /\ pool' = pool
      BY <2>4, <2>5, <2>6
  <2>. HIDE DEF new, me
  <2>. QED
      BY <1>1, <1>6, <2>3, <2>4, <2>7, WorkKeeps
<1>7. CASE ~mid.iserror /\ NotSent(w, "select", AfterFetch(Failing(mid)))
  <2>. DEFINE failing == Failing(mid)
              after == AfterFetch(failing)
  <2>. HIDE DEF me, mid
  <2>1. failing \in RequestType
      BY <1>3 DEF Failing, RequestType, Reasons
  <2>2. /\ failing.kind = me.kind /\ failing.n = me.n /\ failing.i = me.i
        /\ failing.record = me.record /\ failing.effect = 0 /\ failing.iserror = me.iserror
        /\ failing.conn = me.conn /\ failing.wrote = me.wrote /\ failing.unsure = me.unsure
        /\ failing.fault = TRUE /\ failing.asked = mid.asked /\ failing.short # {}
      BY <1>3 DEF Failing, RequestType
  <2>. HIDE DEF failing
  <2>3. Taken(failing)
      BY <1>1, <2>1, <2>2, NothingTaken DEF mid
  <2>4. /\ Sound(after) /\ after.kind = failing.kind /\ after.conn = failing.conn
        /\ after.fault = failing.fault
        /\ after.pc \in {"fetch", "answer", "update", "saveMy"}
        /\ after.kind \notin Locking => after.pc # "fetch"
      BY <2>1, <2>2, <2>3, AfterFetchSound
  <2>5. PICK got \in Connections(after, "select") : \E c \in {None, <<got.c>>} :
          /\ work' = [work EXCEPT ![w] = [after EXCEPT !.fault = TRUE, !.conn["select"] = c]]
          /\ pool' = got.rest
      BY <1>7 DEF NotSent, failing
  <2>6. UNCHANGED <<table, cache, tainted>>
      BY <1>7 DEF NotSent
  <2>. HIDE DEF after
  <2>7. PICK c \in {None, <<got.c>>} :
          /\ work' = [work EXCEPT ![w] = [after EXCEPT !.fault = TRUE, !.conn["select"] = c]]
          /\ pool' = got.rest
      BY <2>5
  <2>. DEFINE new == [after EXCEPT !.fault = TRUE, !.conn["select"] = c]
  <2>8. Good(new) /\ got.rest = pool
    <3>1. /\ after.pc \in Resumed
          /\ after.conn["select"] \in Clean
          /\ after.kind \in Locking \/ after.pc = "fetch" => \A s \in Sides : after.conn[s] \in Clean
        BY <1>4, <2>2, <2>4 DEF Resumed
    <3>2. Sound(after) /\ got \in Connections(after, "select") /\ c \in {None, <<got.c>>}
        BY <2>4, <2>5, <2>7
    <3>. QED
        BY <1>1, <1>4, <3>1, <3>2, NotSentGood
  <2>. HIDE DEF new
  <2>9. work' = [work EXCEPT ![w] = new]
      BY <2>7 DEF new
  <2>. QED
      BY <1>1, <2>6, <2>7, <2>8, <2>9, WorkKeeps
<1>. HIDE DEF me
<1>. QED
    BY <1>2, <1>5, <1>6, <1>7

-----------------------------------------------------------------------------
(* Taking replies.                                                         *)

\* How a handler may go on when its call has returned.
Onward(me, f) ==
    /\ Sound(f) /\ f.kind = me.kind /\ f.conn = me.conn
    /\ f.pc \in Resumed
    /\ f.kind \notin Locking => f.pc # "fetch"

\* A request that went on, with the connection it keeps.
LEMMA OnwardGood ==
    ASSUME NEW me, NEW f, Onward(me, f), NEW side \in Sides, NEW c \in Links,
           me.kind \in Locking =>
              c \in Clean /\ \A s \in Sides : s # side => me.conn[s] \in Clean
    PROVE  Good([f EXCEPT !.conn[side] = c])
<1>1. f.kind \in Locking \/ f.pc = "fetch" =>
         c \in Clean /\ \A s \in Sides : s # side => f.conn[s] \in Clean
    BY DEF Onward
<1>. QED
    BY <1>1, Relink DEF Onward

\* A reply is taken, breaks off, or is left by an exception, which taints the pools
\* if the handler keeps its connections.
LEMMA ReceiveKeeps ==
    ASSUME Untainted, ~tainted, tainted \in BOOLEAN, NEW w \in Workers, NEW side \in Sides,
           NEW reply \in Replies, work[w].conn[side] = <<<<reply>>>>,
           work[w].kind \in Locking => \A s \in Sides : s # side => work[w].conn[s] \in Clean,
           NEW taken, Onward(work[w], taken),
           NEW failed, \A f \in failed : Onward(work[w], f),
           Receive(w, side, taken, failed)
    PROVE  tainted' \in BOOLEAN /\ (~tainted' => Untainted')
<1>. DEFINE me == work[w]
            c == me.conn[side][1]
            keeps == me.kind \in Locking
<1>1. c = <<reply>> /\ Tail(c) = <<>>
    OBVIOUS
<1>2. <<<<>>>> \in Clean /\ None \in Clean /\ <<<<reply>>>> \in Links /\ Clean \subseteq Links
    BY DEF Clean, Links
<1>3. /\ table \in [Ids -> Nat] /\ \A key \in DOMAIN cache : GoodEntry(key, cache[key])
      /\ pool = [s \in Sides |-> {}]
    BY DEF Untainted
<1>4. ASSUME NEW f, Onward(me, f), NEW d \in Clean,
             work' = [work EXCEPT ![w] = [f EXCEPT !.conn[side] = d]], pool' = pool,
             UNCHANGED <<table, cache>>
      PROVE  Untainted'
  <2>. DEFINE new == [f EXCEPT !.conn[side] = d]
  <2>1. Good(new)
    <3>. HIDE DEF me
    <3>1. me.kind \in Locking => \A s \in Sides : s # side => me.conn[s] \in Clean
        BY DEF me
    <3>. QED
        BY <1>2, <1>4, <3>1, OnwardGood
  <2>2. work' = [work EXCEPT ![w] = new]
      BY <1>4
  <2>. HIDE DEF new, me
  <2>. QED
      BY <1>3, <1>4, <2>1, <2>2, WorkKeeps
<1>5. CASE /\ work' = [work EXCEPT ![w] =
                        [taken EXCEPT !.conn[side] = IF keeps THEN <<Tail(c)>> ELSE None]]
           /\ pool' = IF keeps THEN pool ELSE [pool EXCEPT ![side] = GiveBack(side, <<Tail(c)>>)]
           /\ UNCHANGED <<table, cache, tainted, requests, faults>>
  <2>. DEFINE d == IF keeps THEN <<Tail(c)>> ELSE None
  <2>1. d \in Clean /\ <<Tail(c)>> \in Clean
      BY <1>1, <1>2
  <2>2. [pool EXCEPT ![side] = GiveBack(side, <<Tail(c)>>)] = pool
    <3>. HIDE DEF c
    <3>1. GiveBack(side, <<Tail(c)>>) = pool[side]
        BY <2>1, GiveBackClean
    <3>. QED
        BY <1>3, <3>1
  <2>3. pool' = pool /\ work' = [work EXCEPT ![w] = [taken EXCEPT !.conn[side] = d]]
      BY <1>5, <2>2
  <2>. HIDE DEF d
  <2>. QED
      BY <1>4, <1>5, <2>1, <2>3
<1>6. ASSUME NEW f \in failed, UNCHANGED <<table, pool, cache, requests>>,
             work' = [work EXCEPT ![w] = [f EXCEPT !.conn[side] = None]], UNCHANGED tainted
      PROVE  tainted' \in BOOLEAN /\ (~tainted' => Untainted')
    BY <1>2, <1>4, <1>6
<1>7. ASSUME NEW f \in failed, UNCHANGED <<table, pool, cache, requests>>,
             NEW rest \in {c, Tail(c)},
             work' = [work EXCEPT ![w] = [f EXCEPT !.conn[side] = <<rest>>]],
             tainted' = (tainted \/ keeps)
      PROVE  tainted' \in BOOLEAN /\ (~tainted' => Untainted')
  <2>1. tainted' \in BOOLEAN /\ (~tainted' => ~keeps)
      BY <1>7
  <2>2. SUFFICES ASSUME ~keeps PROVE Untainted'
      BY <2>1
  <2>. DEFINE new == [f EXCEPT !.conn[side] = <<rest>>]
  <2>3. <<rest>> \in Links
      BY <1>1, <1>2, <1>7
  <2>4. Good(new)
    <3>1. me.kind \notin Locking /\ Onward(me, f)
        BY <2>2, <1>7
    <3>. HIDE DEF me
    <3>. QED
        BY <2>3, <3>1, OnwardGood
  <2>5. work' = [work EXCEPT ![w] = new]
      BY <1>7
  <2>. HIDE DEF new, me
  <2>. QED
      BY <1>3, <1>7, <2>4, <2>5, WorkKeeps
<1>. QED
    BY <1>5, <1>6, <1>7 DEF Receive

\* What TakeRows makes of a reply, or of its first rows before a failure.
LEMMA RowsTaken ==
    ASSUME NEW me, Good(me), me.pc = "fetched", NEW reply \in Seq(Rec), Received(me) = reply,
           NEW rows \in Seq(Rec), Len(rows) <= Len(reply),
           \A k \in 1..Len(rows) : rows[k] = reply[k],
           NEW new, new.kind = me.kind, new.n = me.n, new.i = me.i, new.asked = me.asked,
           new.wrote = me.wrote, new.unsure = me.unsure,
           new.record = me.record \o rows, new.effect = Len(rows),
           \/ rows = reply /\ new.fault = me.fault /\ new.short = me.short
           \/ new.fault /\ new.short # {}
    PROVE  Taken(new)
<1>1. /\ me \in RequestType /\ me.record \in Seq(Rec) /\ me.i \in Nat /\ me.n \in Nat
      /\ me.kind \in Fetching
    BY DEF Good, Sound, RequestType, Places, Fetching
<1>2. /\ Len(me.record) \in Nat /\ Len(rows) \in Nat
      /\ Len(new.record) = Len(me.record) + Len(rows)
      /\ \A k \in 1..Len(me.record) : new.record[k] = me.record[k]
      /\ \A k \in 1..Len(rows) : new.record[Len(me.record) + k] = rows[k]
    BY <1>1, ConcatProperties
<1>3. new.kind \in Locking =>
        /\ new.i < new.n /\ Len(new.asked) = new.i + 1
        /\ ~new.fault => /\ Len(new.record) = new.i + 1
                         /\ \A k \in 1..Len(new.record) : new.record[k].id = new.asked[k]
  <2>. SUFFICES ASSUME me.kind \in Locking
               PROVE /\ new.i < new.n /\ Len(new.asked) = new.i + 1
                     /\ ~new.fault =>
                          /\ Len(new.record) = new.i + 1
                          /\ \A k \in 1..Len(new.record) : new.record[k].id = new.asked[k]
      OBVIOUS
  <2>1. /\ me.i < me.n /\ Len(me.asked) = me.i + 1
        /\ Len(reply) = 1 /\ reply[1].id = me.asked[Len(me.asked)]
        /\ ~me.fault => /\ Len(me.record) = me.i
                        /\ \A k \in 1..Len(me.record) : me.record[k].id = me.asked[k]
      BY DEF Good, Sound, Looping
  <2>2. ASSUME ~new.fault
        PROVE  /\ Len(new.record) = new.i + 1
               /\ \A k \in 1..Len(new.record) : new.record[k].id = new.asked[k]
    <3>1. rows = reply /\ ~me.fault /\ Len(rows) = 1
        BY <2>1, <2>2
    <3>2. Len(new.record) = me.i + 1 /\ new.record[me.i + 1] = reply[1]
      <4>1. Len(me.record) = me.i /\ Len(reply) = 1 /\ Len(rows) = 1
          BY <2>1, <3>1
      <4>2. new.record[Len(me.record) + 1] = rows[1]
          BY <1>2, <4>1
      <4>. QED
          BY <1>1, <1>2, <3>1, <4>1, <4>2
    <3>3. \A k \in 1..Len(new.record) : k \in 1..me.i \/ k = me.i + 1
        BY <1>1, <3>2
    <3>. QED
        BY <1>1, <1>2, <2>1, <3>1, <3>2, <3>3
  <2>. QED
      BY <2>1, <2>2
<1>4. new.kind = "updates" =>
        /\ \A k \in 1..(Len(new.record) - 1) : new.record[k] \in new.wrote \cup new.unsure
        /\ IF new.effect > 0
           THEN /\ Len(new.record) > 0
                /\ new.record[Len(new.record)].id = new.asked[Len(new.asked)]
           ELSE \A k \in 1..Len(new.record) : new.record[k] \in new.wrote \cup new.unsure
  <2>. SUFFICES ASSUME me.kind = "updates"
               PROVE /\ \A k \in 1..(Len(new.record) - 1) :
                           new.record[k] \in new.wrote \cup new.unsure
                     /\ IF new.effect > 0
                        THEN /\ Len(new.record) > 0
                             /\ new.record[Len(new.record)].id = new.asked[Len(new.asked)]
                        ELSE \A k \in 1..Len(new.record) :
                               new.record[k] \in new.wrote \cup new.unsure
      OBVIOUS
  <2>1. /\ Len(reply) = 1 /\ reply[1].id = me.asked[Len(me.asked)]
        /\ \A k \in 1..Len(me.record) : me.record[k] \in me.wrote \cup me.unsure
      BY DEF Good, Sound, Looping, Updating, Locking
  <2>2. Len(rows) \in {0, 1}
      BY <1>2, <2>1
  <2>3. \A k \in 1..Len(me.record) : new.record[k] \in new.wrote \cup new.unsure
      BY <1>2, <2>1
  <2>4. CASE Len(rows) = 0
      BY <1>2, <2>3, <2>4
  <2>5. CASE Len(rows) = 1
    <3>1. Len(new.record) = Len(me.record) + 1 /\ new.record[Len(me.record) + 1] = reply[1]
        BY <1>2, <2>5
    <3>. QED
        BY <1>2, <2>1, <2>3, <2>5, <3>1
  <2>. QED
      BY <2>2, <2>4, <2>5
<1>5. me.record = <<>> => new.record = rows
    BY ConcatEmptySeq
<1>6. new.kind = "db" =>
        /\ new.n = 1 /\ Len(new.asked) = 1
        /\ ~new.fault => Len(new.record) = 1 /\ new.record[1].id = new.asked[1]
    BY <1>5 DEF Good, Sound, Single
<1>7. new.kind = "fortunes" => (~new.fault => Range(new.record) = FortuneRows)
    BY <1>5 DEF Good, Sound, Listing
<1>8. new.kind = "cached_db" => Len(new.record) = new.n \/ new.short # {}
    BY <1>5 DEF Good, Sound, Caching, Cached
<1>. QED
    BY <1>1, <1>3, <1>4, <1>6, <1>7, <1>8 DEF Taken

\* The reply to a SELECT arrives.
LEMMA FetchedStep ==
    ASSUME Untainted, ~tainted, tainted \in BOOLEAN, NEW w \in Workers, fetched(w)
    PROVE  tainted' \in BOOLEAN /\ (~tainted' => Untainted')
<1>. DEFINE me == work[w]
            reply == Head(me.conn["select"][1])
            part(k, error) ==
                [Failing(TakeRows(me, SubSeq(reply, 1, k))) EXCEPT !.iserror = error]
<1>1. Good(me) /\ me.pc = "fetched" /\ me \in RequestType
    BY DEF Untainted, fetched, Good, Sound
<1>2. reply \in Seq(Rec) /\ me.conn["select"] = <<<<reply>>>> /\ Received(me) = reply
  <2>1. PICK rows \in Seq(Rec) : me.conn["select"] = <<<<rows>>>>
      BY <1>1 DEF Good, Linked
  <2>2. Received(me) = rows /\ reply = rows
      BY <2>1 DEF Received
  <2>. QED
      BY <2>1, <2>2
<1>3. /\ reply \in Replies /\ "select" \in Sides
      /\ me.kind \in Locking => \A s \in Sides : s # "select" => me.conn[s] \in Clean
  <2>1. reply \in Replies /\ "select" \in Sides
      BY <1>2 DEF Replies, Sides
  <2>2. me.kind \in Locking => \A s \in Sides : s # "select" => me.conn[s] \in Clean
      BY <1>1 DEF Good, Linked, Sides
  <2>. QED
      BY <2>1, <2>2
<1>4. me.iserror => me.fault
    BY <1>1 DEF Good, Sound
<1>. DEFINE taken == AfterFetch(TakeRows(me, reply))
            failed == {AfterFetch(part(k, error)) : k \in 0..Len(reply), error \in BOOLEAN}
<1>5. Receive(w, "select", taken, failed)
    BY DEF fetched
<1>. HIDE DEF reply
<1>6. ASSUME NEW mid \in RequestType, mid.iserror => mid.fault, Taken(mid),
             mid.kind = me.kind, mid.conn = me.conn
      PROVE  Onward(me, AfterFetch(mid))
  <2>. HIDE DEF me
  <2>. QED
      BY <1>6, AfterFetchSound DEF Onward, Resumed
<1>7. Onward(me, taken)
  <2>. DEFINE mid == TakeRows(me, reply)
  <2>. HIDE DEF me
  <2>1. mid \in RequestType
    <3>1. me.record \o reply \in Seq(Rec) /\ Len(reply) \in Nat
        BY <1>1, <1>2 DEF RequestType
    <3>. QED
        BY <1>1, <3>1 DEF TakeRows, RequestType
  <2>2. /\ mid.kind = me.kind /\ mid.n = me.n /\ mid.i = me.i /\ mid.asked = me.asked
        /\ mid.wrote = me.wrote /\ mid.unsure = me.unsure /\ mid.conn = me.conn
        /\ mid.record = me.record \o reply /\ mid.effect = Len(reply)
        /\ mid.fault = me.fault /\ mid.short = me.short /\ mid.iserror = me.iserror
      BY <1>1 DEF TakeRows, RequestType
  <2>. HIDE DEF mid
  <2>3. Taken(mid)
    <3>1. Len(reply) <= Len(reply)
        BY <1>2
    <3>. QED
        BY <1>1, <1>2, <2>2, <3>1, RowsTaken
  <2>. QED
      BY <1>4, <1>6, <2>1, <2>2, <2>3 DEF mid
<1>8. ASSUME NEW k \in 0..Len(reply), NEW error \in BOOLEAN
      PROVE  Onward(me, AfterFetch(part(k, error)))
  <2>. DEFINE rows == SubSeq(reply, 1, k)
              mid == part(k, error)
  <2>. HIDE DEF me
  <2>1. rows \in Seq(Rec) /\ Len(rows) <= Len(reply) /\ \A j \in 1..Len(rows) : rows[j] = reply[j]
      BY <1>2
  <2>2. mid = [[TakeRows(me, rows) EXCEPT !.fault = TRUE, !.short = @ \cup {"failed"}]
                 EXCEPT !.iserror = error]
      BY DEF Failing
  <2>. HIDE DEF rows, part, mid
  <2>3. mid \in RequestType
    <3>1. me.record \o rows \in Seq(Rec) /\ Len(rows) \in Nat
        BY <1>1, <2>1 DEF RequestType
    <3>2. TakeRows(me, rows) \in RequestType
        BY <1>1, <3>1 DEF TakeRows, RequestType
    <3>. QED
        BY <2>2, <3>2 DEF RequestType, Reasons
  <2>4. /\ mid.kind = me.kind /\ mid.n = me.n /\ mid.i = me.i /\ mid.asked = me.asked
        /\ mid.wrote = me.wrote /\ mid.unsure = me.unsure /\ mid.conn = me.conn
        /\ mid.record = me.record \o rows /\ mid.effect = Len(rows)
        /\ mid.fault = TRUE /\ mid.short # {}
      BY <1>1, <2>2 DEF TakeRows, RequestType
  <2>5. Taken(mid)
      BY <1>1, <1>2, <2>1, <2>4, RowsTaken
  <2>. QED
      BY <1>6, <2>3, <2>4, <2>5 DEF mid
<1>9. \A f \in failed : Onward(me, f)
  <2>. HIDE DEF part, me
  <2>. QED
      BY <1>8
<1>. HIDE DEF taken, failed
<1>. QED
    BY <1>2, <1>3, <1>5, <1>7, <1>9, ReceiveKeeps

-----------------------------------------------------------------------------
(* update.                                                                 *)

\* /updates changes the number of the last row, which is the one it asked for last.
LEMMA RenumberOK ==
    ASSUME NEW me, Good(me), me.pc = "update", NEW n \in Numbers
    PROVE  LET new == Renumber(me, n)
               row == Row(Last(me.asked), n)
           IN  /\ me.kind = "updates" /\ row \in Rec /\ Last(me.asked) \in Ids
               /\ new \in RequestType
               /\ new.kind = me.kind /\ new.n = me.n /\ new.i = me.i
               /\ new.iserror = me.iserror /\ new.conn = me.conn /\ new.asked = me.asked
               /\ new.wrote = me.wrote /\ new.unsure = me.unsure /\ new.fault = me.fault
               /\ Len(new.record) = Len(me.record)
               /\ Last(new.record) = row
               /\ \A k \in 1..Len(new.record) :
                    \/ k \in 1..(Len(me.record) - 1) /\ new.record[k] = me.record[k]
                    \/ new.record[k] = row /\ me.record[k].id = row.id
<1>. DEFINE new == Renumber(me, n)
            len == Len(me.record)
            id == Last(me.asked)
            row == Row(Last(me.asked), n)
<1>1. me \in RequestType /\ me.kind = "updates" /\ me.record \in Seq(Rec) /\ me.asked \in Seq(Ids)
    BY DEF Good, Sound, RequestType, Places
<1>2. len \in Nat /\ len > 0 /\ me.record[len].id = me.asked[Len(me.asked)] /\ me.i \in Nat
    BY <1>1 DEF Good, Sound, Updating, RequestType
<1>3. Len(me.asked) = me.i + 1
    BY <1>1 DEF Good, Sound, Looping, Locking
<1>4. id \in Ids /\ me.record[len].id = id
    BY <1>1, <1>2, <1>3 DEF Last
<1>5. n \in Nat
    BY ServerAssumption
<1>6. row \in Rec /\ row.id = id /\ Row(Last(me.record).id, n) = row
    BY <1>1, <1>2, <1>4, <1>5 DEF Rec, Row, Last
<1>. HIDE DEF row, id
<1>7. new = [me EXCEPT !.record[len] = row]
    BY <1>6 DEF Renumber
<1>. DEFINE record == [me.record EXCEPT ![len] = row]
<1>8. record \in Seq(Rec) /\ Len(record) = len
    BY <1>1, <1>2, <1>6
<1>9. record[len] = row /\ \A k \in 1..len : k # len => record[k] = me.record[k]
    BY <1>1, <1>2
<1>10. new = [me EXCEPT !.record = record]
    BY <1>7
<1>. HIDE DEF record, new
<1>11. /\ new \in RequestType /\ new.kind = me.kind /\ new.n = me.n /\ new.i = me.i
       /\ new.iserror = me.iserror /\ new.conn = me.conn /\ new.asked = me.asked
       /\ new.wrote = me.wrote /\ new.unsure = me.unsure /\ new.fault = me.fault
       /\ new.record = record
    BY <1>1, <1>8, <1>10 DEF RequestType
<1>12. Last(new.record) = row
    BY <1>8, <1>9, <1>11 DEF Last
<1>13. \A k \in 1..Len(new.record) :
         \/ k \in 1..(len - 1) /\ new.record[k] = me.record[k]
         \/ new.record[k] = row /\ me.record[k].id = row.id
    BY <1>2, <1>4, <1>6, <1>8, <1>9, <1>11
<1>. QED
    BY <1>1, <1>4, <1>6, <1>8, <1>11, <1>12, <1>13 DEF new, row, id

\* The row got its number, and it is written or its update failed.
Renumbered(me, new) ==
    /\ new \in RequestType
    /\ new.kind = me.kind /\ new.n = me.n /\ new.i = me.i
    /\ new.iserror = me.iserror /\ new.conn = me.conn /\ new.asked = me.asked
    /\ new.fault = me.fault /\ Len(new.record) = Len(me.record)
    /\ \A k \in 1..Len(new.record) :
         new.record[k].id = me.record[k].id /\ new.record[k] \in new.wrote \cup new.unsure

\* With the row renumbered, a round of /updates is complete.
LEMMA RenumberedRound ==
    ASSUME NEW me, Good(me), me.pc = "update", NEW new, Renumbered(me, new)
    PROVE  Round(new) /\ new.kind = "updates" /\ (new.iserror => new.fault)
<1>1. me \in RequestType /\ me.kind = "updates" /\ me.i \in Nat
    BY DEF Good, Sound, RequestType, Places
<1>2. /\ me.i < me.n /\ Len(me.asked) = me.i + 1
      /\ ~me.fault => /\ Len(me.record) = Len(me.asked)
                      /\ \A k \in 1..Len(me.record) : me.record[k].id = me.asked[k]
      /\ me.iserror => me.fault
    BY <1>1 DEF Good, Sound, Looping, Locking
<1>. QED
    BY <1>1, <1>2 DEF Round, Renumbered, Locking

\* The UPDATE was sent.
LEMMA UpdateSentGood ==
    ASSUME NEW me, Good(me), me.pc = "update", NEW mid, Renumbered(me, mid), NEW ok \in BOOLEAN
    PROVE  Good([mid EXCEPT !.pc = "updated", !.conn["edit"] = <<<<ok>>>>])
<1>. DEFINE new == [mid EXCEPT !.pc = "updated", !.conn["edit"] = <<<<ok>>>>]
<1>1. mid \in RequestType /\ <<<<ok>>>> \in Links /\ "edit" \in Sides
    BY DEF Renumbered, Links, Replies, Sides
<1>2. new \in RequestType
    BY <1>1 DEF RequestType
<1>3. /\ new.kind = mid.kind /\ new.pc = "updated" /\ new.n = mid.n /\ new.i = mid.i
      /\ new.record = mid.record /\ new.iserror = mid.iserror /\ new.asked = mid.asked
      /\ new.wrote = mid.wrote /\ new.unsure = mid.unsure /\ new.fault = mid.fault
    BY <1>1 DEF RequestType
<1>4. new.conn["edit"] = <<<<ok>>>> /\ \A s \in Sides : s # "edit" => new.conn[s] = mid.conn[s]
    BY <1>1 DEF RequestType
<1>. HIDE DEF new
<1>5. Round(mid) /\ mid.kind = "updates" /\ (mid.iserror => mid.fault)
    BY RenumberedRound
<1>6. Linked(new)
  <2>1. mid.conn["select"] \in Clean
      BY <1>5 DEF Good, Linked, Renumbered, Locking
  <2>2. new.conn["select"] \in Clean
      BY <1>4, <2>1 DEF Sides
  <2>. QED
      BY <1>3, <1>4, <2>2 DEF Linked
<1>7. Looping(new)
    BY <1>3, <1>5 DEF Looping, Round
<1>8. Updating(new)
    BY <1>3, <1>5 DEF Updating, Round
<1>9. Sound(new)
    BY <1>2, <1>3, <1>5, <1>7, <1>8 DEF Sound, Places, Cached
<1>. QED
    BY <1>6, <1>9 DEF Good, new

\* An UPDATE is sent, or cannot be.
LEMMA UpdateStep ==
    ASSUME Untainted, NEW w \in Workers, update(w)
    PROVE  Untainted' /\ tainted' = tainted
<1>. DEFINE me == work[w]
            id == Last(me.asked)
<1>1. Good(me) /\ me.pc = "update"
    BY DEF Untainted, update
<1>2. pool = [s \in Sides |-> {}] /\ "edit" \in Sides
    BY DEF Untainted, Sides
<1>3. table \in [Ids -> Nat] /\ \A key \in DOMAIN cache : GoodEntry(key, cache[key])
    BY DEF Untainted
<1>4. \A s \in Sides : me.conn[s] \in Clean
    BY <1>1 DEF Good, Sound, Places, RequestType, Linked, Locking, Sides
<1>5. PICK n \in Numbers :
        LET new == Renumber(me, n)
            lost == [new EXCEPT !.unsure = @ \cup {Last(new.record)}]
        IN
        \/ /\ me.iserror
           /\ work' = [work EXCEPT ![w] = NextIteration(lost)]
           /\ UNCHANGED <<table, pool, cache, tainted, requests, faults>>
        \/ /\ ~me.iserror
           /\ Send(w, [new EXCEPT !.wrote = @ \cup {Row(id, n)}], "edit", "updated", TRUE)
           /\ table' = [table EXCEPT ![id] = n]
           /\ UNCHANGED faults
        \/ /\ ~me.iserror /\ Fault
           /\ Send(w, lost, "edit", "updated", FALSE)
           /\ UNCHANGED table
        \/ ~me.iserror /\ NotSent(w, "edit", NextIteration(lost))
    BY DEF update
<1>. DEFINE new == Renumber(me, n)
            row == Row(id, n)
            lost == [new EXCEPT !.unsure = @ \cup {Last(new.record)}]
            wrote == [new EXCEPT !.wrote = @ \cup {row}]
<1>6. /\ me.kind = "updates" /\ row \in Rec /\ id \in Ids
      /\ new \in RequestType
      /\ new.kind = me.kind /\ new.n = me.n /\ new.i = me.i
      /\ new.iserror = me.iserror /\ new.conn = me.conn /\ new.asked = me.asked
      /\ new.wrote = me.wrote /\ new.unsure = me.unsure /\ new.fault = me.fault
      /\ Len(new.record) = Len(me.record)
      /\ Last(new.record) = row
      /\ \A k \in 1..Len(new.record) :
           \/ k \in 1..(Len(me.record) - 1) /\ new.record[k] = me.record[k]
           \/ new.record[k] = row /\ me.record[k].id = row.id
  <2>. HIDE DEF me
  <2>. QED
      BY <1>1, RenumberOK
<1>7. \A k \in 1..(Len(me.record) - 1) : me.record[k] \in me.wrote \cup me.unsure
    BY <1>1, <1>6 DEF Good, Sound, Updating
<1>. HIDE DEF me, row, id, new
<1>8. Renumbered(me, lost)
  <2>1. /\ lost \in RequestType /\ lost.kind = new.kind /\ lost.n = new.n /\ lost.i = new.i
        /\ lost.iserror = new.iserror /\ lost.conn = new.conn /\ lost.asked = new.asked
        /\ lost.wrote = new.wrote /\ lost.unsure = new.unsure \cup {row}
        /\ lost.fault = new.fault /\ lost.record = new.record
      BY <1>6 DEF RequestType
  <2>. HIDE DEF lost
  <2>. QED
      BY <1>6, <1>7, <2>1 DEF Renumbered
<1>9. Renumbered(me, wrote)
  <2>1. /\ wrote \in RequestType /\ wrote.kind = new.kind /\ wrote.n = new.n /\ wrote.i = new.i
        /\ wrote.iserror = new.iserror /\ wrote.conn = new.conn /\ wrote.asked = new.asked
        /\ wrote.unsure = new.unsure /\ wrote.wrote = new.wrote \cup {row}
        /\ wrote.fault = new.fault /\ wrote.record = new.record
      BY <1>6 DEF RequestType
  <2>. HIDE DEF wrote
  <2>. QED
      BY <1>6, <1>7, <2>1 DEF Renumbered
<1>. DEFINE after == NextIteration(lost)
<1>10. /\ Sound(after) /\ after.pc \in {"fetch", "answer"}
       /\ \A s \in Sides : after.conn[s] \in Clean
  <2>. HIDE DEF lost
  <2>1. Round(lost) /\ lost \in RequestType /\ (lost.iserror => lost.fault) /\ lost.conn = me.conn
      BY <1>1, <1>8, RenumberedRound DEF Renumbered
  <2>. HIDE DEF after
  <2>2. Sound(after) /\ after.pc \in {"fetch", "answer"} /\ after.conn = lost.conn
      BY <2>1, NextIterationSound DEF after
  <2>. QED
      BY <1>4, <2>1, <2>2
\* The statement is sent, by an object that holds mid.
<1>11. ASSUME NEW mid, Renumbered(me, mid), NEW ok \in BOOLEAN, NEW got \in Connections(mid, "edit"),
              work' = [work EXCEPT ![w] =
                         [mid EXCEPT !.pc = "updated", !.conn["edit"] = <<Append(got.c, ok)>>]],
              pool' = got.rest, UNCHANGED cache, table' \in [Ids -> Nat]
       PROVE  Untainted'
  <2>. DEFINE sent == [mid EXCEPT !.pc = "updated", !.conn["edit"] = <<<<ok>>>>]
  <2>1. Good(sent)
      BY <1>1, <1>11, UpdateSentGood
  <2>2. mid.conn["edit"] \in Clean
      BY <1>2, <1>4, <1>11 DEF Renumbered
  <2>3. got.c = <<>> /\ got.rest = pool
    <3>1. got \in Connections(mid, "edit")
        OBVIOUS
    <3>. QED
        BY ONLY <1>2, <2>2, <3>1, ConnectionsClean
  <2>4. Append(got.c, ok) = <<ok>>
      BY <2>3
  <2>5. work' = [work EXCEPT ![w] = sent] /\ pool' = pool
      BY <1>11, <2>3, <2>4
  <2>. HIDE DEF sent
  <2>. QED
      BY <1>3, <1>11, <2>1, <2>5, WorkKeeps
<1>12. CASE /\ me.iserror
            /\ work' = [work EXCEPT ![w] = after]
            /\ UNCHANGED <<table, pool, cache, tainted, requests, faults>>
  <2>. HIDE DEF after
  <2>1. Good(after)
      BY <1>10, LinkedAfter DEF Good, Resumed
  <2>. QED
      BY <1>3, <1>12, <2>1, WorkKeeps
<1>13. CASE /\ ~me.iserror
            /\ Send(w, wrote, "edit", "updated", TRUE)
            /\ table' = [table EXCEPT ![id] = n]
            /\ UNCHANGED faults
  <2>. HIDE DEF wrote
  <2>1. PICK got \in Connections(wrote, "edit") :
          /\ work' = [work EXCEPT ![w] =
                        [wrote EXCEPT !.pc = "updated", !.conn["edit"] = <<Append(got.c, TRUE)>>]]
          /\ pool' = got.rest
          /\ UNCHANGED <<cache, tainted, requests>>
      BY <1>13 DEF Send
  <2>2. table' \in [Ids -> Nat]
      BY <1>3, <1>6, <1>13, ServerAssumption
  <2>. QED
      BY <1>9, <1>11, <2>1, <2>2
<1>14. CASE /\ ~me.iserror /\ Fault
            /\ Send(w, lost, "edit", "updated", FALSE)
            /\ UNCHANGED table
  <2>. HIDE DEF lost
  <2>1. PICK got \in Connections(lost, "edit") :
          /\ work' = [work EXCEPT ![w] =
                        [lost EXCEPT !.pc = "updated", !.conn["edit"] = <<Append(got.c, FALSE)>>]]
          /\ pool' = got.rest
          /\ UNCHANGED <<cache, tainted, requests>>
      BY <1>14 DEF Send
  <2>. QED
      BY <1>3, <1>8, <1>11, <1>14, <2>1
<1>15. CASE ~me.iserror /\ NotSent(w, "edit", after)
  <2>. HIDE DEF after
  <2>1. PICK got \in Connections(after, "edit") : \E c \in {None, <<got.c>>} :
          /\ work' = [work EXCEPT ![w] = [after EXCEPT !.fault = TRUE, !.conn["edit"] = c]]
          /\ pool' = got.rest
      BY <1>15 DEF NotSent
  <2>2. UNCHANGED <<table, cache, tainted>>
      BY <1>15 DEF NotSent
  <2>3. PICK c \in {None, <<got.c>>} :
          /\ work' = [work EXCEPT ![w] = [after EXCEPT !.fault = TRUE, !.conn["edit"] = c]]
          /\ pool' = got.rest
      BY <2>1
  <2>. DEFINE sent == [after EXCEPT !.fault = TRUE, !.conn["edit"] = c]
  <2>4. Good(sent) /\ got.rest = pool
    <3>1. after.pc \in Resumed /\ after.conn["edit"] \in Clean
        BY <1>2, <1>10 DEF Resumed
    <3>2. Sound(after) /\ got \in Connections(after, "edit") /\ c \in {None, <<got.c>>}
        BY <1>10, <2>1, <2>3
    <3>. QED
        BY <1>2, <1>10, <3>1, <3>2, NotSentGood
  <2>5. work' = [work EXCEPT ![w] = sent]
      BY <2>3
  <2>. HIDE DEF sent
  <2>. QED
      BY <1>3, <2>2, <2>3, <2>4, <2>5, WorkKeeps
<1>. QED
    BY <1>5, <1>12, <1>13, <1>14, <1>15 DEF new, row

\* The reply to an UPDATE arrives.
LEMMA UpdatedStep ==
    ASSUME Untainted, ~tainted, tainted \in BOOLEAN, NEW w \in Workers, updated(w)
    PROVE  tainted' \in BOOLEAN /\ (~tainted' => Untainted')
<1>. DEFINE me == work[w]
            ok == Head(me.conn["edit"][1])
            right == [me EXCEPT !.iserror = ~ok, !.fault = @ \/ ~ok]
            wrong == [me EXCEPT !.fault = TRUE]
<1>1. Good(me) /\ me.pc = "updated" /\ me \in RequestType /\ me.kind = "updates"
    BY DEF Untainted, updated, Good, Sound, RequestType, Places
<1>2. Receive(w, "edit", NextIteration(right), {NextIteration(wrong)})
    BY DEF updated
<1>3. ok \in BOOLEAN /\ me.conn["edit"] = <<<<ok>>>>
  <2>1. PICK answered \in BOOLEAN : me.conn["edit"] = <<<<answered>>>>
      BY <1>1 DEF Good, Linked
  <2>2. ok = answered
      BY <2>1
  <2>. QED
      BY <2>1, <2>2
<1>4. /\ ok \in Replies /\ "edit" \in Sides
      /\ \A s \in Sides : s # "edit" => me.conn[s] \in Clean
    BY <1>1, <1>3 DEF Replies, Sides, Good, Linked, Locking
<1>5. Round(me) /\ (me.iserror => me.fault)
  <2>1. /\ me.i < me.n /\ Len(me.asked) = me.i + 1
        /\ ~me.fault => /\ Len(me.record) = Len(me.asked)
                        /\ \A k \in 1..Len(me.record) : me.record[k].id = me.asked[k]
        /\ \A k \in 1..Len(me.record) : me.record[k] \in me.wrote \cup me.unsure
        /\ me.iserror => me.fault
      BY <1>1 DEF Good, Sound, Looping, Updating, Locking
  <2>. QED
      BY <1>1, <2>1 DEF Round, Locking
<1>. HIDE DEF me, ok
<1>6. ASSUME NEW mid, mid \in RequestType, mid.iserror => mid.fault, me.fault => mid.fault,
             mid.kind = me.kind, mid.i = me.i, mid.n = me.n, mid.asked = me.asked,
             mid.record = me.record, mid.wrote = me.wrote, mid.unsure = me.unsure,
             mid.conn = me.conn
      PROVE  Onward(me, NextIteration(mid))
  <2>1. Round(mid)
      BY <1>5, <1>6 DEF Round
  <2>. QED
      BY <1>1, <1>6, <2>1, NextIterationSound DEF Onward, Locking, Resumed
<1>7. Onward(me, NextIteration(right))
  <2>. DEFINE bad == ~ok
              fault == me.fault \/ ~ok
  <2>1. bad \in BOOLEAN /\ fault \in BOOLEAN /\ (bad => fault) /\ (me.fault => fault)
      BY <1>1, <1>3 DEF RequestType
  <2>2. right = [me EXCEPT !.iserror = bad, !.fault = fault]
      BY <1>1 DEF RequestType
  <2>. HIDE DEF bad, fault, right
  <2>3. /\ right \in RequestType /\ right.iserror = bad /\ right.fault = fault
        /\ right.kind = me.kind /\ right.i = me.i /\ right.n = me.n /\ right.asked = me.asked
        /\ right.record = me.record /\ right.wrote = me.wrote /\ right.unsure = me.unsure
        /\ right.conn = me.conn
      BY <1>1, <2>1, <2>2 DEF RequestType
  <2>. QED
      BY <1>6, <2>1, <2>3
<1>8. Onward(me, NextIteration(wrong))
  <2>1. /\ wrong \in RequestType /\ wrong.fault = TRUE /\ wrong.kind = me.kind
        /\ wrong.i = me.i /\ wrong.n = me.n /\ wrong.asked = me.asked
        /\ wrong.record = me.record /\ wrong.wrote = me.wrote /\ wrong.unsure = me.unsure
        /\ wrong.conn = me.conn
      BY <1>1 DEF RequestType
  <2>. HIDE DEF wrong
  <2>. QED
      BY <1>6, <2>1
<1>. DEFINE taken == NextIteration(right)
            failed == {NextIteration(wrong)}
<1>9. \A f \in failed : Onward(me, f)
    BY <1>8
<1>. HIDE DEF taken, failed
<1>. QED
    BY <1>2, <1>3, <1>4, <1>7, <1>9, ReceiveKeeps DEF me, taken, failed

-----------------------------------------------------------------------------
(* The cache.                                                              *)

\* What is to be shown of a cached handler.
LEMMA CachedGood ==
    ASSUME NEW new \in RequestType, new.kind \in Cached, new.pc \in Places(new.kind),
           new.iserror => new.fault, Caching(new), new.pc # "fetched",
           new.pc \in {"checkAll", "getAll", "makeAll", "checkMy", "fetch"} =>
             new.conn["select"] \in Clean
    PROVE  Good(new)
<1>1. new.kind \notin Locking \cup {"updates", "db", "fortunes"} /\ new.pc # "updated"
    BY DEF Cached, Locking, Places
<1>. QED
    BY <1>1 DEF Good, Sound, Linked

\* A handler that uses the cache, before it has any rows.
Early == {"checkAll", "getAll", "makeAll", "checkMy"}

\* A cached handler before its first statement.
LEMMA EarlyOK ==
    ASSUME NEW me, Good(me), me.pc \in Early
    PROVE  /\ me \in RequestType /\ me.kind \in Cached
           /\ me.pc # "checkMy" => me.kind = "cached_queries"
           /\ ~me.iserror /\ me.record = <<>> /\ me.conn["select"] \in Clean
<1>1. me \in RequestType /\ me.kind \in Cached
    BY DEF Good, Sound, RequestType, Places, Cached, Early
<1>. QED
    BY <1>1 DEF Good, Sound, Places, Linked, Caching, Cached, Early

\* Another place, and perhaps another local copy of all rows.
LEMMA EarlyMoves ==
    ASSUME NEW me, Good(me), me.pc \in Early, NEW pc \in Early \cup {"getMy", "pick", "fetch"},
           pc \in Places(me.kind), NEW all \in Seq(Rec)
    PROVE  Good([me EXCEPT !.pc = pc, !.all = all])
<1>. DEFINE new == [me EXCEPT !.pc = pc, !.all = all]
<1>1. /\ me \in RequestType /\ me.kind \in Cached
      /\ ~me.iserror /\ me.record = <<>> /\ me.conn["select"] \in Clean
    BY EarlyOK
<1>2. new \in RequestType
    BY <1>1 DEF RequestType, Early
<1>3. /\ new.kind = me.kind /\ new.pc = pc /\ new.iserror = me.iserror
      /\ new.record = me.record /\ new.conn = me.conn
    BY <1>1 DEF RequestType
<1>. HIDE DEF new
<1>4. Caching(new)
    BY <1>1, <1>3 DEF Caching, Early
<1>. QED
    BY <1>1, <1>2, <1>3, <1>4, CachedGood DEF new, Early

\* What get returns is whole, or has a reason not to be.
LEMMA GetOK ==
    ASSUME Untainted, NEW key
    PROVE  GoodEntry(key, get(key))
<1>1. CASE key \in DOMAIN cache
    BY <1>1 DEF Untainted, get
<1>2. CASE key \notin DOMAIN cache
  <2>1. get(key) = [rows |-> <<>>, short |-> {"expired"}]
      BY <1>2 DEF get, Entry
  <2>. QED
      BY <2>1 DEF GoodEntry, Reasons
<1>. QED
    BY <1>1, <1>2

\* A cache with one more entry that is whole or has a reason.
LEMMA SaveOK ==
    ASSUME Untainted, NEW key, NEW entry, GoodEntry(key, entry), cache' = save(key, entry)
    PROVE  \A k \in DOMAIN cache' : GoodEntry(k, cache'[k])
BY DEF Untainted, save

\* The cached handlers look for the list of all rows and for their own.
LEMMA EarlySteps ==
    ASSUME Untainted, NEW w \in Workers, checkAll(w) \/ getAll(w) \/ makeAll(w) \/ checkMy(w)
    PROVE  Untainted' /\ tainted' = tainted
<1>. DEFINE me == work[w]
<1>1. /\ Good(me) /\ me.pc \in Early /\ pool' = pool /\ table' \in [Ids -> Nat]
      /\ tainted' = tainted
    BY DEF Untainted, Early, checkAll, getAll, makeAll, checkMy, Goes
<1>2. \A key \in DOMAIN cache : GoodEntry(key, cache[key])
    BY DEF Untainted
<1>3. /\ me \in RequestType /\ me.all \in Seq(Rec) /\ me.kind \in Cached
      /\ me.pc # "checkMy" => me.kind = "cached_queries"
  <2>. HIDE DEF me
  <2>. QED
      BY <1>1, EarlyOK DEF RequestType
<1>4. ASSUME NEW pc \in Early \cup {"getMy", "pick", "fetch"}, pc \in Places(me.kind),
             NEW all \in Seq(Rec), work' = [work EXCEPT ![w] = [me EXCEPT !.pc = pc, !.all = all]],
             \A key \in DOMAIN cache' : GoodEntry(key, cache'[key])
      PROVE  Untainted'
  <2>. DEFINE new == [me EXCEPT !.pc = pc, !.all = all]
  <2>1. Good(new)
    <3>. HIDE DEF me
    <3>. QED
        BY <1>1, <1>4, EarlyMoves
  <2>2. work' = [work EXCEPT ![w] = new]
      BY <1>4
  <2>. HIDE DEF new, me
  <2>. QED
      BY <1>1, <1>4, <2>1, <2>2, WorkKeeps
<1>5. CASE checkAll(w)
  <2>. DEFINE pc == IF AllData \in DOMAIN cache THEN "getAll" ELSE "makeAll"
  <2>1. work' = [work EXCEPT ![w] = [me EXCEPT !.pc = pc]] /\ UNCHANGED cache
      BY <1>5 DEF checkAll, Goes
  <2>2. pc \in Early /\ pc \in Places(me.kind)
      BY <1>3, <1>5 DEF checkAll, Early, Places
  <2>. HIDE DEF pc, me
  <2>3. [me EXCEPT !.pc = pc] = [me EXCEPT !.pc = pc, !.all = me.all]
      BY <1>3 DEF RequestType
  <2>. QED
      BY <1>1, <1>2, <1>3, <1>4, <2>1, <2>2, <2>3
<1>6. CASE getAll(w)
  <2>1. /\ work' = [work EXCEPT ![w] = [me EXCEPT !.pc = "checkMy", !.all = get(AllData).rows]]
        /\ UNCHANGED cache
      BY <1>6 DEF getAll, Goes
  <2>2. get(AllData).rows \in Seq(Rec)
      BY GetOK DEF GoodEntry
  <2>3. "checkMy" \in Early /\ "checkMy" \in Places(me.kind)
      BY <1>3 DEF Early, Places, Cached
  <2>. HIDE DEF me
  <2>. QED
      BY <1>1, <1>2, <1>4, <2>1, <2>2, <2>3
<1>7. CASE makeAll(w)
  <2>1. PICK all \in Rows(Ids, [id \in Ids |-> 0]) :
          /\ work' = [work EXCEPT ![w] = [me EXCEPT !.pc = "checkMy", !.all = all]]
          /\ cache' = save(AllData, Entry(all, {}))
      BY <1>7 DEF makeAll, Goes
  <2>2. all \in Seq(Rec)
    <3>. DEFINE value == [id \in Ids |-> 0]
    <3>1. \A x \in Ids : value[x] \in Nat
        OBVIOUS
    <3>. HIDE DEF value
    <3>. QED
        BY <2>1, <3>1, RowsOK DEF value
  <2>3. GoodEntry(AllData, Entry(all, {}))
      BY <2>2 DEF GoodEntry, Entry, AllData, My
  <2>4. \A k \in DOMAIN cache' : GoodEntry(k, cache'[k])
      BY <2>1, <2>3, SaveOK
  <2>5. "checkMy" \in Early /\ "checkMy" \in Places(me.kind)
      BY <1>3 DEF Early, Places, Cached
  <2>. HIDE DEF me
  <2>. QED
      BY <1>1, <1>4, <2>1, <2>2, <2>4, <2>5
<1>8. CASE checkMy(w)
  <2>. DEFINE pc == IF My(me.n) \in DOMAIN cache THEN "getMy"
                    ELSE IF me.kind = "cached_db" THEN "fetch" ELSE "pick"
  <2>1. work' = [work EXCEPT ![w] = [me EXCEPT !.pc = pc]] /\ UNCHANGED cache
      BY <1>8 DEF checkMy, Goes
  <2>2. pc \in {"getMy", "pick", "fetch"} /\ pc \in Places(me.kind)
      BY <1>3 DEF Places, Cached
  <2>. HIDE DEF pc, me
  <2>3. [me EXCEPT !.pc = pc] = [me EXCEPT !.pc = pc, !.all = me.all]
      BY <1>3 DEF RequestType
  <2>. QED
      BY <1>1, <1>2, <1>3, <1>4, <2>1, <2>2, <2>3
<1>. HIDE DEF me
<1>. QED
    BY <1>1, <1>5, <1>6, <1>7, <1>8

\* A handler that uses the cache, at its answer.
LEMMA AnswerGood ==
    ASSUME NEW me, Good(me), me.kind \in Cached, NEW record \in Seq(Rec),
           NEW short \in SUBSET Reasons, Len(record) = me.n \/ short # {}
    PROVE  Good([me EXCEPT !.pc = "answer", !.record = record, !.short = short])
<1>. DEFINE new == [me EXCEPT !.pc = "answer", !.record = record, !.short = short]
<1>1. me \in RequestType /\ (me.iserror => me.fault)
    BY DEF Good, Sound
<1>2. new \in RequestType
    BY <1>1 DEF RequestType
<1>3. /\ new.kind = me.kind /\ new.pc = "answer" /\ new.iserror = me.iserror
      /\ new.record = record /\ new.short = short /\ new.n = me.n /\ new.fault = me.fault
    BY <1>1 DEF RequestType
<1>. HIDE DEF new
<1>4. Caching(new)
    BY <1>3 DEF Caching
<1>5. new.pc \in Places(new.kind)
    BY <1>3 DEF Places, Cached
<1>. QED
    BY <1>1, <1>2, <1>3, <1>4, <1>5, CachedGood DEF new

\* They take their list, pick it from all rows, or save what was fetched.
LEMMA LateSteps ==
    ASSUME Untainted, NEW w \in Workers, getMy(w) \/ pick(w) \/ saveMy(w)
    PROVE  Untainted' /\ tainted' = tainted
<1>. DEFINE me == work[w]
<1>1. /\ Good(me) /\ me.pc \in {"getMy", "pick", "saveMy"}
      /\ pool' = pool /\ table' \in [Ids -> Nat] /\ tainted' = tainted
    BY DEF Untainted, getMy, pick, saveMy, Goes
<1>2. /\ me \in RequestType /\ me.kind \in Cached /\ me.n \in Nat /\ me.all \in Seq(Rec)
      /\ me.record \in Seq(Rec) /\ me.short \in SUBSET Reasons
    BY <1>1 DEF Good, Sound, RequestType, Places, Cached
<1>3. \A key \in DOMAIN cache : GoodEntry(key, cache[key])
    BY DEF Untainted
<1>4. ASSUME NEW record \in Seq(Rec), NEW short \in SUBSET Reasons,
             Len(record) = me.n \/ short # {},
             work' = [work EXCEPT ![w] =
                        [me EXCEPT !.pc = "answer", !.record = record, !.short = short]],
             UNCHANGED cache \/ cache' = save(My(me.n), Entry(record, short))
      PROVE  Untainted'
  <2>. DEFINE new == [me EXCEPT !.pc = "answer", !.record = record, !.short = short]
  <2>1. Good(new)
    <3>. HIDE DEF me
    <3>. QED
        BY <1>1, <1>2, <1>4, AnswerGood
  <2>2. work' = [work EXCEPT ![w] = new]
      BY <1>4
  <2>. HIDE DEF new, me
  <2>3. GoodEntry(My(me.n), Entry(record, short))
    <3>1. \A n \in Nat : My(me.n) = My(n) => n = me.n
        BY DEF My
    <3>2. Entry(record, short).rows = record /\ Entry(record, short).short = short
        BY DEF Entry
    <3>. QED
        BY <1>4, <3>1, <3>2 DEF GoodEntry
  <2>4. \A k \in DOMAIN cache' : GoodEntry(k, cache'[k])
      BY <1>3, <1>4, <2>3, SaveOK
  <2>. QED
      BY <1>1, <2>1, <2>2, <2>4, WorkKeeps
<1>5. CASE getMy(w)
  <2>. DEFINE entry == get(My(me.n))
  <2>1. /\ work' = [work EXCEPT ![w] =
                      [me EXCEPT !.pc = "answer", !.record = entry.rows, !.short = entry.short]]
        /\ UNCHANGED cache
      BY <1>5 DEF getMy, Goes
  <2>2. GoodEntry(My(me.n), entry)
      BY GetOK
  <2>. HIDE DEF entry, me
  <2>3. /\ entry.rows \in Seq(Rec) /\ entry.short \in SUBSET Reasons
        /\ Len(entry.rows) = me.n \/ entry.short # {}
      BY <1>2, <2>2 DEF GoodEntry
  <2>. QED
      BY <1>1, <1>4, <2>1, <2>3
<1>6. CASE pick(w)
  <2>. DEFINE whole == Len(me.all) = Cardinality(Ids)
              short == IF whole THEN {} ELSE {"expired"}
              picked(at) == [k \in DOMAIN at |-> me.all[at[k]]]
  <2>1. PICK at \in IF whole THEN [1..me.n -> 1..Len(me.all)] ELSE {<<>>} :
          /\ work' = [work EXCEPT ![w] =
                        [me EXCEPT !.pc = "answer", !.record = picked(at), !.short = short]]
          /\ cache' = save(My(me.n), Entry(picked(at), short))
      BY <1>6 DEF pick, Goes
  <2>. DEFINE rows == picked(at)
  <2>. HIDE DEF me, whole
  <2>2. /\ rows \in Seq(Rec) /\ short \in SUBSET Reasons
        /\ Len(rows) = me.n \/ short # {}
    <3>1. CASE whole
      <4>1. at \in [1..me.n -> 1..Len(me.all)]
          BY <2>1, <3>1
      <4>2. rows \in [1..me.n -> Rec]
          BY <1>2, <4>1
      <4>3. short = {}
          BY <3>1
      <4>. HIDE DEF rows, short
      <4>4. rows \in Seq(Rec) /\ Len(rows) = me.n
          BY <1>2, <4>2
      <4>. QED
          BY <4>3, <4>4
    <3>2. CASE ~whole
      <4>1. at = <<>>
          BY <2>1, <3>2
      <4>2. rows = <<>>
          BY <4>1
      <4>3. short = {"expired"}
          BY <3>2
      <4>. HIDE DEF rows, short
      <4>. QED
          BY <4>2, <4>3 DEF Reasons
    <3>. QED
        BY <3>1, <3>2
  <2>. HIDE DEF rows, short
  <2>. QED
      BY <1>1, <1>4, <2>1, <2>2 DEF rows
<1>7. CASE saveMy(w)
  <2>1. /\ work' = [work EXCEPT ![w] = [me EXCEPT !.pc = "answer"]]
        /\ cache' = save(My(me.n), Entry(me.record, me.short))
      BY <1>7 DEF saveMy, Goes
  <2>2. Len(me.record) = me.n \/ me.short # {}
      BY <1>1, <1>2, <1>7 DEF saveMy, Good, Sound, Caching
  <2>. HIDE DEF me
  <2>3. [me EXCEPT !.pc = "answer"] =
           [me EXCEPT !.pc = "answer", !.record = me.record, !.short = me.short]
      BY <1>2 DEF RequestType
  <2>. QED
      BY <1>1, <1>2, <1>4, <2>1, <2>2, <2>3
<1>. HIDE DEF me
<1>. QED
    BY <1>1, <1>5, <1>6, <1>7

-----------------------------------------------------------------------------
(* The ends of a handler, and the invariant.                               *)

\* A coroutine that waits for a request.
LEMMA WaitingGood == Good(Waiting)
BY RequestGood DEF Waiting

\* A request is accepted.
LEMMA AcceptKeeps ==
    ASSUME Untainted, NEW w \in Workers, NEW kind, NEW pc, NEW n, Accept(w, kind, pc, n),
           Good(Request(kind, pc, n))
    PROVE  Untainted' /\ tainted' = tainted
<1>. DEFINE new == Request(kind, pc, n)
<1>1. /\ work' = [work EXCEPT ![w] = new] /\ pool' = pool /\ table' = table
      /\ cache' = cache /\ tainted' = tainted
    BY DEF Accept
<1>2. Good(new)
    OBVIOUS
<1>3. table' \in [Ids -> Nat] /\ \A key \in DOMAIN cache' : GoodEntry(key, cache'[key])
    BY <1>1 DEF Untainted
<1>. HIDE DEF new
<1>. QED
    BY <1>1, <1>2, <1>3, WorkKeeps

\* A request of any kind arrives.
LEMMA ArriveStep ==
    ASSUME Untainted, NEW w \in Workers, Arrive(w)
    PROVE  Untainted' /\ tainted' = tainted
<1>1. CASE techempowerplaintext(w)
  <2>1. Good(Request("plaintext", "answer", 0))
      BY RequestGood
  <2>. QED
      BY <1>1, <2>1, AcceptKeeps DEF techempowerplaintext
<1>2. CASE techempowerjson(w)
  <2>1. Good(Request("json", "answer", 0))
      BY RequestGood
  <2>. QED
      BY <1>2, <2>1, AcceptKeeps DEF techempowerjson
<1>3. CASE techempowerdb(w)
  <2>1. Good(Request("db", "fetch", 1))
      BY RequestGood
  <2>. QED
      BY <1>3, <2>1, AcceptKeeps DEF techempowerdb
<1>4. CASE techempowerfortunes(w)
  <2>1. Good(Request("fortunes", "fetch", 0))
      BY RequestGood
  <2>. QED
      BY <1>4, <2>1, AcceptKeeps DEF techempowerfortunes
<1>5. ASSUME NEW c \in Counts
      PROVE  /\ Good(Request("queries", "fetch", get_num(c)))
             /\ Good(Request("updates", "fetch", get_num(c)))
             /\ Good(Request("cached_queries", "checkAll", get_num(c)))
             /\ Good(Request("cached_db", "checkMy", get_num(c)))
  <2>. DEFINE n == get_num(c)
  <2>1. n \in Nat /\ n > 0
      BY GetNum
  <2>. HIDE DEF n
  <2>2. Good(Request("queries", "fetch", n)) /\ Good(Request("updates", "fetch", n))
      BY <2>1, RequestGood DEF Locking
  <2>3. Good(Request("cached_queries", "checkAll", n)) /\ Good(Request("cached_db", "checkMy", n))
      BY <2>1, RequestGood
  <2>. QED
      BY <2>2, <2>3 DEF n
<1>6. CASE techempowerqueries(w)
    BY <1>5, <1>6, AcceptKeeps DEF techempowerqueries
<1>7. CASE techempowerupdates(w)
    BY <1>5, <1>7, AcceptKeeps DEF techempowerupdates
<1>8. CASE techempowercached_queries(w)
    BY <1>5, <1>8, AcceptKeeps DEF techempowercached_queries
<1>9. CASE techempowercached_db(w)
    BY <1>5, <1>9, AcceptKeeps DEF techempowercached_db
<1>. QED
    BY <1>1, <1>2, <1>3, <1>4, <1>6, <1>7, <1>8, <1>9 DEF Arrive

\* A request is answered; what its object held is given back clean.
LEMMA AnswerStep ==
    ASSUME Untainted, NEW w \in Workers, answer(w)
    PROVE  Untainted' /\ tainted' = tainted
<1>. DEFINE me == work[w]
<1>1. /\ me.pc = "answer" /\ work' = [work EXCEPT ![w] = Waiting]
      /\ pool' = IF me.kind \in Locking
                 THEN [s \in Sides |-> GiveBack(s, me.conn[s])] ELSE pool
      /\ UNCHANGED <<table, cache, tainted>>
    BY DEF answer
<1>2. /\ Good(me) /\ pool = [s \in Sides |-> {}] /\ table' \in [Ids -> Nat]
      /\ \A key \in DOMAIN cache' : GoodEntry(key, cache'[key])
    BY <1>1 DEF Untainted
<1>3. pool' = pool
  <2>1. CASE me.kind \in Locking
    <3>1. \A s \in Sides : me.conn[s] \in Clean
        BY <1>1, <1>2, <2>1 DEF Good, Linked, Sides
    <3>2. \A s \in Sides : GiveBack(s, me.conn[s]) = pool[s]
        BY <3>1, GiveBackClean
    <3>. QED
        BY <1>1, <1>2, <2>1, <3>2
  <2>. QED
      BY <1>1, <2>1
<1>. QED
    BY <1>1, <1>2, <1>3, WaitingGood, WorkKeeps

\* An entry of the cache goes.
LEMMA ExpireStep ==
    ASSUME Untainted, expire
    PROVE  Untainted' /\ tainted' = tainted
BY DEF Untainted, expire

\* The server starts with clean pools and an empty cache.
LEMMA Establish == Init => IInv
<1>. SUFFICES ASSUME Init PROVE Untainted /\ tainted = FALSE
    BY DEF IInv
<1>1. DOMAIN cache = {}
    BY DEF Init
<1>. QED
    BY <1>1, WaitingGood DEF Init, Untainted

\* An exception of a handler that locks is for ever.
LEMMA StaysTainted ==
    ASSUME IInv, tainted, [Next]_vars
    PROVE  tainted' = TRUE
<1>1. tainted = TRUE
    BY DEF IInv
<1>2. CASE UNCHANGED vars
    BY <1>1, <1>2 DEF vars
<1>3. CASE expire
    BY <1>1, <1>3 DEF expire
<1>4. ASSUME NEW w \in Workers, Arrive(w)
      PROVE  tainted' = TRUE
    BY <1>1, <1>4
       DEF Arrive, Accept, techempowerplaintext, techempowerjson, techempowerdb,
           techempowerfortunes, techempowerqueries, techempowerupdates,
           techempowercached_queries, techempowercached_db
<1>5. ASSUME NEW w \in Workers, Step(w)
      PROVE  tainted' = TRUE
  <2>1. CASE fetch(w) \/ update(w)
      BY <1>1, <2>1 DEF fetch, update, Send, NotSent
  <2>2. CASE fetched(w) \/ updated(w)
    <3>1. ASSUME NEW side, NEW taken, NEW failed, Receive(w, side, taken, failed)
          PROVE  tainted' = TRUE
      <4>1. tainted' = tainted \/ tainted' = (tainted \/ work[w].kind \in Locking)
          BY <3>1 DEF Receive
      <4>. QED
          BY <1>1, <4>1
    <3>. DEFINE me == work[w]
                reply == Head(me.conn["select"][1])
                ok == Head(me.conn["edit"][1])
                part(k, error) ==
                    [Failing(TakeRows(me, SubSeq(reply, 1, k))) EXCEPT !.iserror = error]
                rows == AfterFetch(TakeRows(me, reply))
                parts == {AfterFetch(part(k, error)) : k \in 0..Len(reply), error \in BOOLEAN}
                right == NextIteration([me EXCEPT !.iserror = ~ok, !.fault = @ \/ ~ok])
                wrong == {NextIteration([me EXCEPT !.fault = TRUE])}
    <3>2. CASE fetched(w)
      <4>1. Receive(w, "select", rows, parts)
          BY <3>2 DEF fetched
      <4>. HIDE DEF rows, parts
      <4>. QED
          BY <3>1, <4>1
    <3>3. CASE updated(w)
      <4>1. Receive(w, "edit", right, wrong)
          BY <3>3 DEF updated
      <4>. HIDE DEF right, wrong
      <4>. QED
          BY <3>1, <4>1
    <3>. QED
        BY <2>2, <3>2, <3>3
  <2>3. CASE checkAll(w) \/ getAll(w) \/ makeAll(w) \/ checkMy(w)
      BY <1>1, <2>3 DEF checkAll, getAll, makeAll, checkMy, Goes
  <2>4. CASE getMy(w) \/ pick(w) \/ saveMy(w) \/ answer(w)
      BY <1>1, <2>4 DEF getMy, pick, saveMy, answer, Goes
  <2>. QED
      BY <1>5, <2>1, <2>2, <2>3, <2>4 DEF Step
<1>. QED
    BY <1>2, <1>3, <1>4, <1>5 DEF Next

\* Every step keeps the invariant.
LEMMA Preserve == IInv /\ [Next]_vars => IInv'
<1>. SUFFICES ASSUME IInv, [Next]_vars PROVE IInv'
    OBVIOUS
<1>1. CASE tainted
    BY <1>1, StaysTainted DEF IInv
<1>2. CASE ~tainted
  <2>1. Untainted /\ tainted \in BOOLEAN
      BY <1>2 DEF IInv
  <2>2. CASE UNCHANGED vars
      BY <1>2, <2>1, <2>2 DEF IInv, Untainted, vars
  <2>3. CASE expire
      BY <2>1, <2>3, ExpireStep DEF IInv
  <2>4. ASSUME NEW w \in Workers, Arrive(w)
        PROVE  IInv'
      BY <2>1, <2>4, ArriveStep DEF IInv
  <2>5. ASSUME NEW w \in Workers, Step(w)
        PROVE  IInv'
    <3>1. CASE fetch(w)
        BY <2>1, <3>1, FetchStep DEF IInv
    <3>2. CASE fetched(w)
        BY <1>2, <2>1, <3>2, FetchedStep DEF IInv
    <3>3. CASE update(w)
        BY <2>1, <3>3, UpdateStep DEF IInv
    <3>4. CASE updated(w)
        BY <1>2, <2>1, <3>4, UpdatedStep DEF IInv
    <3>5. CASE checkAll(w) \/ getAll(w) \/ makeAll(w) \/ checkMy(w)
        BY <2>1, <3>5, EarlySteps DEF IInv
    <3>6. CASE getMy(w) \/ pick(w) \/ saveMy(w)
        BY <2>1, <3>6, LateSteps DEF IInv
    <3>7. CASE answer(w)
        BY <2>1, <3>7, AnswerStep DEF IInv
    <3>. QED
        BY <2>5, <3>1, <3>2, <3>3, <3>4, <3>5, <3>6, <3>7 DEF Step
  <2>. QED
      BY <2>2, <2>3, <2>4, <2>5 DEF Next
<1>. QED
    BY <1>1, <1>2

\* Until a handler that locks its connections catches an exception, every
\* request is where its handler can be, with the rows it should have by then.
THEOREM Invariance == Spec => []IInv
BY Establish, Preserve, PTL DEF Spec

-----------------------------------------------------------------------------
(* What the invariant says of the answers.                                 *)

\* std::sort neither adds nor drops a row.
LEMMA SortedKeeps ==
    ASSUME NEW rows, NEW out \in Sorted(rows)
    PROVE  /\ DOMAIN out = DOMAIN rows /\ Range(out) = Range(rows)
           /\ \A j, k \in DOMAIN out : j < k => out[j].value <= out[k].value
<1>1. PICK p \in Bijection(DOMAIN rows, DOMAIN rows) :
        out = [k \in DOMAIN rows |-> rows[p[k]]]
    BY DEF Sorted
<1>2. DOMAIN out = DOMAIN rows
    BY <1>1
<1>3. /\ \A k \in DOMAIN rows : p[k] \in DOMAIN rows
      /\ \A k \in DOMAIN rows : \E j \in DOMAIN rows : p[j] = k
    BY <1>1 DEF Bijection, Surjection, Injection
<1>4. Range(out) = Range(rows)
    BY <1>1, <1>2, <1>3 DEF Range
<1>. QED
    BY <1>2, <1>4 DEF Sorted

\* What a sound request puts out when nothing failed.
LEMMA OwnRowsOK ==
    ASSUME NEW me, Good(me), me.pc = "answer", ~me.fault, NEW out \in Output(me)
    PROVE  /\ me.kind \in Locking => Len(me.asked) = me.n
           /\ me.kind \in Locking \cup {"db"} => IdsOf(out) = me.asked
           /\ me.kind = "fortunes" =>
                /\ ToSet(out) = {Row(f, Message[f]) : f \in Fortunes \cup {0}}
                /\ \A j, k \in DOMAIN out : j < k => out[j].value <= out[k].value
<1>1. me \in RequestType /\ me.record \in Seq(Rec) /\ me.asked \in Seq(Ids)
    BY DEF Good, Sound, RequestType
<1>2. me.kind \in Locking =>
        /\ Len(me.asked) = me.n /\ Len(me.record) = Len(me.asked)
        /\ \A k \in 1..Len(me.record) : me.record[k].id = me.asked[k]
    BY DEF Good, Sound, Looping
<1>3. me.kind = "db" =>
        /\ Len(me.record) = Len(me.asked) /\ me.record # <<>>
        /\ \A k \in 1..Len(me.record) : me.record[k].id = me.asked[k]
  <2>. SUFFICES ASSUME me.kind = "db"
               PROVE  /\ Len(me.record) = Len(me.asked) /\ me.record # <<>>
                      /\ \A k \in 1..Len(me.record) : me.record[k].id = me.asked[k]
      OBVIOUS
  <2>1. Len(me.asked) = 1 /\ Len(me.record) = 1 /\ me.record[1].id = me.asked[1]
      BY DEF Good, Sound, Single
  <2>. QED
      BY <1>1, <2>1
<1>4. ASSUME me.kind \in Locking \cup {"db"}
      PROVE  IdsOf(out) = me.asked
  <2>1. out = me.record
      BY <1>3, <1>4 DEF Output, Locking
  <2>2. /\ Len(me.record) = Len(me.asked)
        /\ \A k \in 1..Len(me.record) : me.record[k].id = me.asked[k]
      BY <1>2, <1>3, <1>4
  <2>3. IdsOf(out) = [k \in 1..Len(me.asked) |-> me.record[k].id]
      BY <1>1, <2>1, <2>2 DEF IdsOf
  <2>4. me.asked = [k \in 1..Len(me.asked) |-> me.asked[k]]
      BY <1>1
  <2>5. [k \in 1..Len(me.asked) |-> me.record[k].id] = [k \in 1..Len(me.asked) |-> me.asked[k]]
      BY <2>2
  <2>. QED
      BY <2>3, <2>4, <2>5
<1>5. ASSUME me.kind = "fortunes"
      PROVE  /\ ToSet(out) = {Row(f, Message[f]) : f \in Fortunes \cup {0}}
             /\ \A j, k \in DOMAIN out : j < k => out[j].value <= out[k].value
  <2>. DEFINE none == Row(0, Message[0])
              rows == Append(me.record, none)
  <2>1. Range(me.record) = FortuneRows
      BY <1>5 DEF Good, Sound, Listing
  <2>2. out \in Sorted(rows)
      BY <1>5 DEF Output
  <2>. HIDE DEF none
  <2>3. Range(rows) = FortuneRows \cup {none}
    <3>1. /\ Len(me.record) \in Nat /\ DOMAIN me.record = 1..Len(me.record)
          /\ DOMAIN rows = 1..(Len(me.record) + 1)
          /\ \A k \in 1..Len(me.record) : rows[k] = me.record[k]
          /\ rows[Len(me.record) + 1] = none
        BY <1>1
    <3>. HIDE DEF rows
    <3>2. DOMAIN rows = DOMAIN me.record \cup {Len(me.record) + 1}
        BY <3>1
    <3>3. Range(rows) = Range(me.record) \cup {none}
        BY <3>1, <3>2 DEF Range
    <3>. QED
        BY <2>1, <3>3
  <2>. HIDE DEF rows
  <2>4. /\ Range(out) = Range(rows)
        /\ \A j, k \in DOMAIN out : j < k => out[j].value <= out[k].value
      BY <2>2, SortedKeeps
  <2>5. FortuneRows \cup {none} = {Row(f, Message[f]) : f \in Fortunes \cup {0}}
      BY DEF FortuneRows, none
  <2>6. ToSet(out) = Range(out)
      BY DEF ToSet, Range
  <2>. QED
      BY <2>3, <2>4, <2>5, <2>6
<1>. QED
    BY <1>2, <1>4, <1>5

\* What fails for one request is not seen by another: until a /queries or an
\* /updates catches an exception, every request that met no failure of its own
\* answers exactly the rows it asked for, in order, and /fortunes all of them,
\* sorted (OwnRows), for any number of coroutines, any table and any limit.
THEOREM OwnRowsAnswered == Spec => []OwnRows
<1>1. IInv => OwnRows
  <2>. SUFFICES ASSUME IInv, NEW w \in Workers, NEW out \in Output(work[w]),
                       work[w].pc = "answer", ~work[w].fault, ~tainted
               PROVE  /\ work[w].kind \in Locking => Len(work[w].asked) = work[w].n
                      /\ work[w].kind \in Locking \cup {"db"} => IdsOf(out) = work[w].asked
                      /\ work[w].kind = "fortunes" =>
                           /\ ToSet(out) = {Row(f, Message[f]) : f \in Fortunes \cup {0}}
                           /\ \A j, k \in DOMAIN out : j < k => out[j].value <= out[k].value
      BY DEF OwnRows
  <2>1. Good(work[w])
      BY DEF IInv, Untainted
  <2>. QED
      BY <2>1, OwnRowsOK
<1>. QED
    BY <1>1, Invariance, PTL

\* Every row of an /updates answer was written with the number it shows, or its
\* own UPDATE failed (UpdatesWritten).
THEOREM UpdatesAreWritten == Spec => []UpdatesWritten
<1>1. IInv => UpdatesWritten
  <2>. SUFFICES ASSUME IInv, NEW w \in Workers, Answers(w, {"updates"}), ~tainted,
                       NEW out \in Output(work[w])
               PROVE  ToSet(out) \subseteq work[w].wrote \cup work[w].unsure
      BY DEF UpdatesWritten
  <2>. DEFINE me == work[w]
  <2>1. Good(me) /\ me.pc = "answer" /\ me.kind = "updates"
      BY DEF IInv, Untainted, Answers
  <2>2. out = me.record
      BY <2>1 DEF Output
  <2>3. /\ me.record \in Seq(Rec)
        /\ \A k \in 1..Len(me.record) : me.record[k] \in me.wrote \cup me.unsure
      BY <2>1 DEF Good, Sound, RequestType, Updating
  <2>. HIDE DEF me
  <2>4. ToSet(out) \subseteq me.wrote \cup me.unsure
      BY <2>2, <2>3 DEF ToSet
  <2>. QED
      BY <2>4 DEF me
<1>. QED
    BY <1>1, Invariance, PTL

\* A cached answer has as many rows as asked for, or there is a reason that goes
\* back to the request that saved the entry (CachedAnswers).
THEOREM CachedAnswersWhole == Spec => []CachedAnswers
<1>1. IInv => CachedAnswers
  <2>. SUFFICES ASSUME IInv, NEW w \in Workers, Answers(w, Cached), ~tainted,
                       NEW out \in Output(work[w])
               PROVE  Len(out) = work[w].n \/ work[w].short # {}
      BY DEF CachedAnswers
  <2>. DEFINE me == work[w]
  <2>1. Good(me) /\ me.pc = "answer" /\ me.kind \in Cached
      BY DEF IInv, Untainted, Answers
  <2>2. out = me.record
      BY <2>1 DEF Output, Cached
  <2>3. Len(me.record) = me.n \/ me.short # {}
      BY <2>1 DEF Good, Sound, Caching
  <2>. QED
      BY <2>2, <2>3
<1>. QED
    BY <1>1, Invariance, PTL

=============================================================================
