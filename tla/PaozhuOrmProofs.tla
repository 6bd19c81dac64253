-------------------------- MODULE PaozhuOrmProofs --------------------------
(***************************************************************************)
(* Proofs about the operations of paozhu's ORM, for any number of objects, *)
(* any table, any conditions and any arguments of page().                  *)
(***************************************************************************)
EXTENDS PaozhuOrm, FiniteSetTheorems, SequenceTheorems, WellFoundedInduction, TLAPS

Keys == Ids \cup {0}
Limits == {<<>>} \cup (Nat \X Nat)
Links == {"null", "clean", "unread"}
Readers ==
    {"fetch_obj", "fetch_row", "fetch", "fetch_append", "fetch_one", "fetch_one_append",
     "get_one", "fetch_json", "query"}

Object ==
    [where : Seq(SUBSET Ids), limit : Limits, record : Seq(Ids), data : Keys,
     iserror : BOOLEAN, islock : BOOLEAN, iscommit : BOOLEAN, iscache : BOOLEAN,
     exptime : Nat, conn : [Sides -> Links], pool : BOOLEAN]

\* A member that is filled from a cache gets what is of its type.
Entry(key, value) ==
    /\ key[1] = "record" => value \in Seq(Ids)
    /\ key[1] = "data" => value \in Keys

Ghosts ==
    [unread : BOOLEAN, locked : BOOLEAN, begun : BOOLEAN, misread : BOOLEAN,
     wrongly : SUBSET Readers]

\* Types.
TypeInv ==
    /\ obj \in [Objs -> Object]
    /\ idle \in [Sides -> BOOLEAN]
    /\ table \in SUBSET Ids
    /\ \A key \in DOMAIN cache : Entry(key, cache[key])
    /\ ghost \in Ghosts
    /\ calls \in Nat

\* Where a connection with an unread reply can be: with the object whose call
\* threw or, once a program locks or unlocks or begin_commit locks, with a locked
\* object or in the pool.  An object keeps a connection, and begin_commit can use
\* it, only after an exception or a lock.
Locking(g) == g.locked \/ g.begun
Holding(g) == g.unread \/ g.locked
LinkOK(c, g) == (c = "unread" => g.unread) /\ (c # "null" => Holding(g))

Contained ==
    /\ \A o \in Objs : obj[o].islock => Locking(ghost)
    /\ \A o \in Objs, s \in Sides : LinkOK(obj[o].conn[s], ghost)
    /\ \A s \in Sides : idle[s] => ghost.unread /\ Locking(ghost)
    /\ ghost.begun => Holding(ghost)
    /\ MixedUpOnlyAfterLock

IInv == TypeInv /\ Contained /\ CachedIsReply /\ PageInWindow

USE DEF Ghosts, Locking, Holding, LinkOK

-----------------------------------------------------------------------------
(* Rows.                                                                   *)

Statement == [form : {"list", "one", "get", "raw"}, where : Seq(SUBSET Ids), limit : Limits]

\* The rows of a result are keys of the table.
LEMMA RowsAreIds ==
    ASSUME NEW S \in SUBSET Ids, NEW s \in Rows(S)
    PROVE  s \in Seq(Ids)
<1>1. IsFiniteSet(S)
    BY OrmAssumption, FS_Subset
<1>2. Cardinality(S) \in Nat
    BY <1>1, FS_CardinalityType
<1>3. s \in [1..Cardinality(S) -> S]
    BY DEF Rows
<1>4. s \in Seq(S)
    BY <1>2, <1>3
<1>. QED
    BY <1>4

\* LIMIT takes a part of them.
LEMMA LimitedAreIds ==
    ASSUME NEW s \in Seq(Ids), NEW limit \in Limits
    PROVE  Limited(s, limit) \in Seq(Ids)
<1>1. CASE limit = <<>>
    BY <1>1 DEF Limited
<1>2. CASE limit # <<>>
  <2>1. limit[1] \in Nat /\ limit[2] \in Nat
      BY <1>2 DEF Limits
  <2>. DEFINE to == IF limit[1] + limit[2] < Len(s) THEN limit[1] + limit[2] ELSE Len(s)
  <2>2. to \in Nat /\ to <= Len(s)
      BY <2>1
  <2>3. SubSeq(s, limit[1] + 1, to) \in Seq(Ids)
      BY <2>1, <2>2
  <2>. QED
      BY <1>2, <2>3 DEF Limited
<1>. QED
    BY <1>1, <1>2

\* What a call reads, its own reply or one that was left, are keys.
LEMMA RepliesAreIds ==
    ASSUME TypeInv, NEW q \in Statement, NEW c,
           NEW rows \in IF c = "clean" THEN Answer(q) ELSE Leftovers
    PROVE  rows \in Seq(Ids)
<1>1. CASE c = "clean"
  <2>1. Matching(q.where) \in SUBSET Ids
      BY DEF Matching, TypeInv
  <2>2. PICK s \in Rows(Matching(q.where)) : rows = Limited(s, q.limit)
      BY <1>1 DEF Answer
  <2>3. s \in Seq(Ids)
      BY <2>1, <2>2, RowsAreIds
  <2>4. q.limit \in Limits
      BY DEF Statement
  <2>. QED
      BY <2>2, <2>3, <2>4, LimitedAreIds
<1>2. CASE c # "clean"
  <2>1. PICK S \in SUBSET Ids : rows \in Rows(S)
      BY <1>2 DEF Leftovers
  <2>. QED
      BY <2>1, RowsAreIds
<1>. QED
    BY <1>1, <1>2

-----------------------------------------------------------------------------
(* Objects.                                                                *)

\* What the calls leave alone, but for the connections.
SameLinks(me, old) == me.conn = old.conn /\ me.islock = old.islock
SameFlags(me, old) ==
    me.iserror = old.iserror /\ me.pool = old.pool /\ me.iscache = old.iscache

\* Emptying members leaves the connections and the flags alone.
LEMMA EmptyObject ==
    ASSUME NEW me \in Object, NEW what
    PROVE  /\ Empty(me, what) \in Object
           /\ SameLinks(Empty(me, what), me) /\ SameFlags(Empty(me, what), me)
           /\ "record" \in what => Empty(me, what).record = <<>>
           /\ "data" \in what => Empty(me, what).data = 0
<1>1. <<>> \in Seq(Ids) /\ 0 \in Keys
    BY DEF Keys
<1>. QED
    BY <1>1 DEF Empty, Object, SameLinks, SameFlags

\* The last of some rows is a key.
LEMMA LastIsKey ==
    ASSUME NEW rows \in Seq(Ids), rows # <<>>
    PROVE  Last(rows) \in Ids
BY DEF Last

\* Rows go to the member that the call fills.
LEMMA FillObject ==
    ASSUME NEW me \in Object, NEW f, NEW rows \in Seq(Ids)
    PROVE  /\ Fill(me, f, rows) \in Object
           /\ SameLinks(Fill(me, f, rows), me) /\ SameFlags(Fill(me, f, rows), me)
           /\ f.into = "record" => Fill(me, f, rows).record = me.record \o rows
           /\ f.into = "data" /\ rows # <<>> => Fill(me, f, rows).data = Last(rows)
           /\ ~(f.into = "data" /\ rows # <<>>) => Fill(me, f, rows).data = me.data
<1>1. me.record \o rows \in Seq(Ids)
    BY DEF Object
<1>2. rows # <<>> => Last(rows) \in Keys
    BY LastIsKey DEF Keys
<1>. QED
    BY <1>1, <1>2 DEF Fill, Object, SameLinks, SameFlags

\* A connection of an object changes, and nothing else of it.
LEMMA LinkObject ==
    ASSUME NEW me \in Object, NEW side \in Sides, NEW c \in Links
    PROVE  LET new == [me EXCEPT !.conn[side] = c] IN
           /\ new \in Object /\ new.islock = me.islock /\ SameFlags(new, me)
           /\ new.record = me.record /\ new.data = me.data
           /\ new.conn[side] = c
           /\ \A s \in Sides : s # side => new.conn[s] = me.conn[s]
BY DEF Object, SameFlags

-----------------------------------------------------------------------------
(* Window.                                                                 *)

\* The arithmetic of page(): the window has the width asked for, lies within the
\* pages there are and holds the current one.
LEMMA WindowHoldsPage ==
    ASSUME NEW n \in Nat, NEW p \in Nat, NEW per_page \in Nat, NEW list_num \in Nat
    PROVE  LET w == Window(n, p, per_page, list_num) IN
           /\ w[1] \in Nat /\ w[2] \in Nat /\ w[3] \in Nat /\ w[4] \in Nat
           /\ 1 <= w[1] /\ w[1] <= w[3] /\ w[3] <= w[2] /\ w[2] <= w[4]
           /\ w[2] - w[1] + 1 = AtMost(AtLeast(list_num, 1), w[4])
<1>. DEFINE per == IF per_page = 0 THEN 10 ELSE per_page
            pages == (n + per - 1) \div per
            total == AtLeast(pages, 1)
            wide == AtLeast(list_num, 1)
            mid == wide \div 2
            at == AtLeast(AtMost(p, total), 1)
            minpage == AtLeast(at - mid, 1)
            w == Window(n, p, per_page, list_num)
<1>1. per \in Nat /\ per > 0
    OBVIOUS
<1>2. pages \in Int
  <2>. HIDE DEF per
  <2>. QED
      BY <1>1
<1>3. total \in Nat /\ total >= 1
  <2>. HIDE DEF pages
  <2>. QED
      BY <1>2 DEF AtLeast
<1>4. wide \in Nat /\ wide >= 1
    BY DEF AtLeast
<1>5. mid \in Nat /\ mid <= wide - 1
  <2>. HIDE DEF wide
  <2>. QED
      BY <1>4
<1>6. at \in Nat /\ 1 <= at /\ at <= total
  <2>. HIDE DEF total
  <2>. QED
      BY <1>3 DEF AtLeast, AtMost
<1>7. minpage \in Nat /\ 1 <= minpage /\ minpage <= at /\ (minpage = 1 \/ minpage = at - mid)
  <2>. HIDE DEF at, mid
  <2>. QED
      BY <1>5, <1>6 DEF AtLeast
<1>8. w = IF minpage + (wide - 1) > total
          THEN <<AtLeast(total - (wide - 1), 1), total, at, total>>
          ELSE <<minpage, minpage + (wide - 1), at, total>>
    BY DEF Window
<1>9. minpage = 1 => at - mid <= 1
  <2>. HIDE DEF at, mid
  <2>. QED
      BY <1>5, <1>6 DEF AtLeast
<1>. HIDE DEF per, pages, total, wide, mid, at, minpage, w
<1>10. CASE minpage + (wide - 1) > total
  <2>1. w = <<AtLeast(total - (wide - 1), 1), total, at, total>>
      BY <1>8, <1>10
  <2>2. AtLeast(total - (wide - 1), 1) <= at /\ AtLeast(total - (wide - 1), 1) \in Nat
      BY <1>10, <1>3, <1>4, <1>5, <1>6, <1>7 DEF AtLeast
  <2>3. total - AtLeast(total - (wide - 1), 1) + 1 = AtMost(wide, total)
      BY <1>3, <1>4 DEF AtLeast, AtMost
  <2>4. 1 <= AtLeast(total - (wide - 1), 1)
      BY <1>3, <1>4 DEF AtLeast
  <2>. QED
      BY <2>1, <2>2, <2>3, <2>4, <1>6, <1>3 DEF w, wide
<1>11. CASE ~(minpage + (wide - 1) > total)
  <2>1. w = <<minpage, minpage + (wide - 1), at, total>>
      BY <1>8, <1>11
  <2>2. at <= minpage + (wide - 1)
      BY <1>4, <1>5, <1>6, <1>7, <1>9
  <2>3. minpage + (wide - 1) - minpage + 1 = AtMost(wide, total)
      BY <1>11, <1>3, <1>4, <1>7 DEF AtMost
  <2>. QED
      BY <2>1, <2>2, <2>3, <1>11, <1>3, <1>4, <1>6, <1>7 DEF w, wide
<1>. QED
    BY <1>10, <1>11

-----------------------------------------------------------------------------
(* Steps.                                                                  *)

\* A call of o leaves o as me: what remains to be shown.
LEMMA CalledKeeps ==
    ASSUME IInv, NEW o \in Objs, NEW me \in Object, NEW op, NEW verb,
           Called(o, me, op, verb),
           idle' \in [Sides -> BOOLEAN], table' \in SUBSET Ids,
           \A key \in DOMAIN cache' : Entry(key, cache'[key]),
           ghost' \in Ghosts,
           ghost.unread => ghost'.unread, ghost.locked => ghost'.locked,
           ghost.begun => ghost'.begun, ghost'.begun => ghost.begun \/ Holding(ghost'),
           me.islock => Locking(ghost'),
           \A s \in Sides : LinkOK(me.conn[s], ghost'),
           \A s \in Sides : idle'[s] => ghost'.unread /\ Locking(ghost'),
           MixedUpOnlyAfterLock', CachedIsReply'
    PROVE  IInv'
<1>1. obj' = [obj EXCEPT ![o] = me] /\ last'.window = NoWindow /\ calls' = calls + 1
    BY DEF Called
<1>2. obj' \in [Objs -> Object] /\ \A p \in Objs : obj'[p] = IF p = o THEN me ELSE obj[p]
    BY <1>1 DEF IInv, TypeInv
<1>3. TypeInv'
    BY <1>1, <1>2 DEF IInv, TypeInv
<1>4. Contained'
    BY <1>2 DEF IInv, Contained
<1>5. PageInWindow'
    BY <1>1 DEF PageInWindow
<1>. QED
    BY <1>3, <1>4, <1>5 DEF IInv

\* A call that returns without using a connection.
LEMMA ReturnsKeeps ==
    ASSUME IInv, NEW o \in Objs, NEW me \in Object, NEW op,
           SameLinks(me, obj[o]), Returns(o, me, op)
    PROVE  IInv'
<1>1. Called(o, me, op, "none") /\ idle' = idle /\ table' = table /\ cache' = cache /\ ghost' = ghost
    BY DEF Returns
<1>2. /\ me.islock => Locking(ghost)
      /\ \A s \in Sides : LinkOK(me.conn[s], ghost)
      /\ \A s \in Sides : idle[s] => ghost.unread /\ Locking(ghost)
    BY DEF SameLinks, IInv, Contained
<1>3. MixedUpOnlyAfterLock' /\ CachedIsReply'
    BY <1>1 DEF IInv, Contained, MixedUpOnlyAfterLock, CachedIsReply
<1>. QED
    BY <1>1, <1>2, <1>3, CalledKeeps DEF IInv, TypeInv

\* The object has its type.
LEMMA ObjType ==
    ASSUME IInv, NEW o \in Objs
    PROVE  obj[o] \in Object /\ SameLinks(obj[o], obj[o])
BY DEF IInv, TypeInv, SameLinks

\* The error flag is set or cleared, and nothing else changes.
LEMMA ErrorObject ==
    ASSUME NEW me \in Object, NEW b \in BOOLEAN
    PROVE  LET new == [me EXCEPT !.iserror = b] IN
           /\ new \in Object /\ SameLinks(new, me)
           /\ new.iserror = b /\ new.record = me.record /\ new.data = me.data
BY DEF Object, SameLinks

\* conn_empty: a call of an object without a pool.
LEMMA RefusedKeeps ==
    ASSUME IInv, NEW o \in Objs, NEW me \in Object, NEW op,
           SameLinks(me, obj[o]), Refused(o, me, op)
    PROVE  IInv'
<1>1. [me EXCEPT !.iserror = TRUE] \in Object /\ SameLinks([me EXCEPT !.iserror = TRUE], obj[o])
    BY ErrorObject DEF SameLinks
<1>. QED
    BY <1>1, ReturnsKeeps DEF Refused

\* What a call may find on its connection.
LEMMA ConnectionsOK ==
    ASSUME IInv, NEW o \in Objs, NEW me \in Object, SameLinks(me, obj[o]),
           NEW side \in Sides, NEW got \in Connections(me, side)
    PROVE  /\ got.c \in {"clean", "unread"}
           /\ got.c = "unread" => ghost.unread /\ Locking(ghost)
           /\ got.idle \in [Sides -> BOOLEAN]
           /\ \A s \in Sides : got.idle[s] => ghost.unread /\ Locking(ghost)
           /\ me.islock => Locking(ghost)
           /\ \A s \in Sides : LinkOK(me.conn[s], ghost)
<1>1. idle \in [Sides -> BOOLEAN] /\ me.conn \in [Sides -> Links]
    BY DEF IInv, TypeInv, Object
<1>2. /\ me.islock => Locking(ghost)
      /\ \A s \in Sides : LinkOK(me.conn[s], ghost)
      /\ \A s \in Sides : idle[s] => ghost.unread /\ Locking(ghost)
    BY DEF SameLinks, IInv, Contained
<1>3. CASE me.islock /\ me.conn[side] # "null"
  <2>1. got = [c |-> me.conn[side], idle |-> idle]
      BY <1>3 DEF Connections
  <2>. QED
      BY <2>1, <1>1, <1>2, <1>3 DEF Links
<1>4. CASE ~(me.islock /\ me.conn[side] # "null")
  <2>1. /\ got \in {[c |-> "clean", idle |-> idle],
                   [c |-> "unread", idle |-> [idle EXCEPT ![side] = FALSE]]}
        /\ got.c = "unread" => idle[side]
      BY <1>4 DEF Connections
  <2>2. CASE got = [c |-> "clean", idle |-> idle]
      BY <2>2, <1>1, <1>2
  <2>3. CASE got = [c |-> "unread", idle |-> [idle EXCEPT ![side] = FALSE]]
      BY <2>1, <2>3, <1>1, <1>2
  <2>. QED
      BY <2>1, <2>2, <2>3
<1>. QED
    BY <1>3, <1>4

\* What it leaves there and in the pool.
LEMMA KeepOK ==
    ASSUME IInv, NEW o \in Objs, NEW me \in Object, SameLinks(me, obj[o]),
           NEW side \in Sides, NEW got \in Connections(me, side),
           NEW mine \in Object, SameLinks(mine, me)
    PROVE  LET new == Keep(mine, side, got) IN
           /\ new \in Object /\ SameFlags(new, mine)
           /\ new.record = mine.record /\ new.data = mine.data
           /\ new.islock = me.islock
           /\ \A s \in Sides : LinkOK(new.conn[s], ghost)
           /\ Back(me, side, got) \in [Sides -> BOOLEAN]
           /\ \A s \in Sides : Back(me, side, got)[s] => ghost.unread /\ Locking(ghost)
<1>. DEFINE c == IF mine.islock THEN got.c ELSE "null"
<1>1. /\ got.c \in {"clean", "unread"}
      /\ got.c = "unread" => ghost.unread /\ Locking(ghost)
      /\ got.idle \in [Sides -> BOOLEAN]
      /\ \A s \in Sides : got.idle[s] => ghost.unread /\ Locking(ghost)
      /\ me.islock => Locking(ghost)
      /\ \A s \in Sides : LinkOK(me.conn[s], ghost)
    BY ConnectionsOK
<1>2. c \in Links
    BY <1>1 DEF Links
<1>3. Keep(mine, side, got) = [mine EXCEPT !.conn[side] = c]
    BY DEF Keep
<1>4. /\ Keep(mine, side, got) \in Object /\ SameFlags(Keep(mine, side, got), mine)
      /\ Keep(mine, side, got).record = mine.record /\ Keep(mine, side, got).data = mine.data
      /\ Keep(mine, side, got).islock = mine.islock
      /\ Keep(mine, side, got).conn[side] = c
      /\ \A s \in Sides : s # side => Keep(mine, side, got).conn[s] = mine.conn[s]
    BY <1>2, <1>3, LinkObject
<1>5. LinkOK(c, ghost)
  <2>1. mine.islock => Holding(ghost)
      BY <1>1 DEF SameLinks, IInv, Contained
  <2>. QED
      BY <1>1, <2>1
<1>6. \A s \in Sides : LinkOK(Keep(mine, side, got).conn[s], ghost)
    BY <1>1, <1>4, <1>5 DEF SameLinks
<1>7. /\ Back(me, side, got) \in [Sides -> BOOLEAN]
      /\ \A s \in Sides : Back(me, side, got)[s] => ghost.unread /\ Locking(ghost)
    BY <1>1 DEF Back
<1>. QED
    BY <1>4, <1>6, <1>7 DEF SameLinks

\* The connection is dropped.
LEMMA DropKeeps ==
    ASSUME IInv, NEW o \in Objs, NEW me \in Object, SameLinks(me, obj[o]),
           NEW side \in Sides, NEW got \in Connections(me, side),
           NEW mine \in Object, SameLinks(mine, Drop(me, side)), NEW op, NEW verb,
           Called(o, mine, op, verb), idle' = got.idle, table' \in SUBSET Ids,
           UNCHANGED <<cache, ghost>>
    PROVE  IInv'
<1>1. /\ got.idle \in [Sides -> BOOLEAN]
      /\ \A s \in Sides : got.idle[s] => ghost.unread /\ Locking(ghost)
      /\ me.islock => Locking(ghost)
      /\ \A s \in Sides : LinkOK(me.conn[s], ghost)
    BY ConnectionsOK
<1>2. Drop(me, side) = [me EXCEPT !.conn[side] = "null"] /\ "null" \in Links
    BY DEF Drop, Links
<1>3. /\ Drop(me, side).islock = me.islock
      /\ \A s \in Sides : s # side => Drop(me, side).conn[s] = me.conn[s]
      /\ Drop(me, side).conn[side] = "null"
    BY <1>2, LinkObject
<1>4. /\ mine.islock => Locking(ghost)
      /\ \A s \in Sides : LinkOK(mine.conn[s], ghost)
    BY <1>1, <1>3 DEF SameLinks
<1>5. MixedUpOnlyAfterLock' /\ CachedIsReply'
    BY DEF IInv, Contained, MixedUpOnlyAfterLock, CachedIsReply
<1>. QED
    BY <1>1, <1>4, <1>5, CalledKeeps DEF IInv, TypeInv

\* An object that gives up a connection is still one.
LEMMA DropObject ==
    ASSUME NEW me \in Object, NEW side \in Sides
    PROVE  Drop(me, side) \in Object /\ SameLinks(Drop(me, side), Drop(me, side))
BY LinkObject DEF Drop, Links, SameLinks

\* No connection is to be had, or the statement cannot be sent.
LEMMA NotSentKeeps ==
    ASSUME IInv, NEW o \in Objs, NEW me \in Object, SameLinks(me, obj[o]), NEW op,
           NEW side \in Sides, NotSent(o, me, op, side)
    PROVE  IInv'
<1>1. CASE Returns(o, me, op)
    BY <1>1, ReturnsKeeps
<1>2. ASSUME NEW got \in Connections(me, side), Called(o, Drop(me, side), op, "none"),
             idle' = got.idle, UNCHANGED <<table, cache, ghost>>
      PROVE  IInv'
  <2>1. table' \in SUBSET Ids
      BY <1>2 DEF IInv, TypeInv
  <2>. QED
      BY <1>2, <2>1, DropObject, DropKeeps
<1>. QED
    BY <1>1, <1>2 DEF NotSent

\* An exception while the reply is outstanding: it stays unread.
LEMMA ThrownKeeps ==
    ASSUME IInv, NEW o \in Objs, NEW me \in Object, SameLinks(me, obj[o]), NEW op, NEW verb,
           NEW side \in Sides, NEW result \in SUBSET Ids, Thrown(o, me, op, verb, side, result)
    PROVE  IInv'
<1>1. PICK got \in Connections(me, side) :
        /\ Called(o, [me EXCEPT !.conn[side] = "unread"], op, verb)
        /\ idle' = got.idle /\ table' \in {table, result}
        /\ ghost' = [ghost EXCEPT !.unread = TRUE]
        /\ UNCHANGED cache
    BY DEF Thrown
<1>2. /\ got.idle \in [Sides -> BOOLEAN]
      /\ \A s \in Sides : got.idle[s] => ghost.unread /\ Locking(ghost)
      /\ me.islock => Locking(ghost)
    BY ConnectionsOK
<1>. DEFINE new == [me EXCEPT !.conn[side] = "unread"]
<1>3. new \in Object /\ new.islock = me.islock
    BY LinkObject DEF Links
<1>4. /\ ghost' \in Ghosts
      /\ ghost'.unread = TRUE /\ ghost'.locked = ghost.locked /\ ghost'.begun = ghost.begun
      /\ ghost'.misread = ghost.misread /\ ghost'.wrongly = ghost.wrongly
    BY <1>1 DEF IInv, TypeInv
<1>5. MixedUpOnlyAfterLock' /\ CachedIsReply'
    BY <1>4 DEF IInv, Contained, MixedUpOnlyAfterLock, CachedIsReply
<1>6. table' \in SUBSET Ids /\ \A key \in DOMAIN cache' : Entry(key, cache'[key])
    BY <1>1 DEF IInv, TypeInv
<1>. HIDE DEF new
<1>. QED
    BY <1>1, <1>2, <1>3, <1>4, <1>5, <1>6, CalledKeeps DEF new

-----------------------------------------------------------------------------
(* Calls that read.                                                        *)

Kind ==
    [op : Readers, store : {"none", "row", "record", "data"}, looks : BOOLEAN,
     saves : BOOLEAN, into : {"result", "record", "data"},
     resets : SUBSET {"record", "data"}, error : BOOLEAN]

\* The calls that save what they read: the member that they save is the one that
\* they fill, and it is empty before.
SavesReply(f) ==
    f.saves /\ f.store \in {"record", "data"} =>
        f.into = f.store /\ (f.store \in f.resets \/ f.looks)

\* A cache with one more entry.
LEMMA PutKeeps ==
    ASSUME IInv, NEW key, NEW value, Entry(key, value)
    PROVE  \A k \in DOMAIN Put(key, value) : Entry(k, Put(key, value)[k])
BY DEF IInv, TypeInv, Put

\* The reply is read to the end; what is saved is the reply if the member was empty.
LEMMA ReadKeeps ==
    ASSUME IInv, NEW o \in Objs, NEW f \in Kind, NEW q,
           SavesReply(f) \/ f.op \in {"fetch_obj", "fetch_one_append"},
           NEW me \in Object, SameLinks(me, obj[o]),
           SavesReply(f) /\ me.iscache /\ f.saves /\ f.store = "record" => me.record = <<>>,
           SavesReply(f) /\ me.iscache /\ f.saves /\ f.store = "data" => me.data = 0,
           NEW got \in Connections(me, "select"), NEW rows \in Seq(Ids),
           Read(o, f, q, me, got, rows)
    PROVE  IInv'
<1>. DEFINE filled == Fill(me, f, rows)
            new == Keep(filled, "select", got)
            saving == Saving(me, f, rows)
            value == ToSave(new, f, rows)
            done == [new EXCEPT !.iscache = @ /\ ~saving, !.exptime = IF saving THEN 0 ELSE @]
<1>1. /\ Called(o, done, f.op, "SELECT")
      /\ idle' = Back(me, "select", got)
      /\ cache' = IF saving THEN Put(<<f.store, q>>, value) ELSE cache
      /\ ghost' = [ghost EXCEPT
               !.misread = @ \/ got.c = "unread",
               !.wrongly = @ \cup (IF saving /\ value # TrueResult(f, rows) THEN {f.op} ELSE {})]
      /\ table' = table
    BY DEF Read
<1>2. /\ filled \in Object /\ SameLinks(filled, me)
      /\ f.into = "record" => filled.record = me.record \o rows
      /\ f.into = "data" /\ rows # <<>> => filled.data = Last(rows)
      /\ ~(f.into = "data" /\ rows # <<>>) => filled.data = me.data
    BY FillObject
<1>3. "select" \in Sides
    BY DEF Sides
<1>4. /\ new \in Object /\ new.record = filled.record /\ new.data = filled.data
      /\ new.islock = me.islock
      /\ \A s \in Sides : LinkOK(new.conn[s], ghost)
      /\ Back(me, "select", got) \in [Sides -> BOOLEAN]
      /\ \A s \in Sides : Back(me, "select", got)[s] => ghost.unread /\ Locking(ghost)
  <2>. HIDE DEF filled
  <2>. QED
      BY <1>2, <1>3, KeepOK
<1>. HIDE DEF filled, new
<1>5. saving \in BOOLEAN
    BY DEF Saving, Kind, Object
<1>6. done \in Object /\ SameLinks(done, new)
  <2>. HIDE DEF saving
  <2>. QED
      BY <1>4, <1>5 DEF Object, SameLinks
<1>7. /\ got.c = "unread" => ghost.unread /\ Locking(ghost)
      /\ me.islock => Locking(ghost)
    BY <1>3, ConnectionsOK
<1>8. saving /\ SavesReply(f) => value = TrueResult(f, rows)
  <2>. SUFFICES ASSUME saving, SavesReply(f) PROVE value = TrueResult(f, rows)
      OBVIOUS
  <2>1. me.iscache /\ f.saves
      BY DEF Saving
  <2>2. CASE f.store = "record"
    <3>1. f.into = "record" /\ me.record = <<>>
        BY <2>1, <2>2 DEF SavesReply
    <3>2. new.record = rows
        BY <1>2, <1>4, <3>1
    <3>. QED
        BY <2>2, <3>2 DEF ToSave, TrueResult
  <2>3. CASE f.store = "data"
    <3>1. f.into = "data" /\ me.data = 0
        BY <2>1, <2>3 DEF SavesReply
    <3>2. new.data = IF rows = <<>> THEN 0 ELSE Last(rows)
        BY <1>2, <1>4, <3>1
    <3>. QED
        BY <2>3, <3>2 DEF ToSave, TrueResult
  <2>4. CASE f.store \notin {"record", "data"}
      BY <2>4 DEF ToSave, TrueResult
  <2>. QED
      BY <2>2, <2>3, <2>4
<1>9. Entry(<<f.store, q>>, value)
  <2>1. new.record \in Seq(Ids) /\ new.data \in Keys
      BY <1>4 DEF Object
  <2>2. <<f.store, q>>[1] = f.store
      OBVIOUS
  <2>3. f.store = "record" => value = new.record
      BY DEF ToSave
  <2>4. f.store = "data" => value = new.data
      BY DEF ToSave
  <2>. HIDE DEF value
  <2>. QED
      BY <2>1, <2>2, <2>3, <2>4 DEF Entry
<1>. HIDE DEF saving, value, done
<1>10. \A key \in DOMAIN cache' : Entry(key, cache'[key])
  <2>1. CASE saving
      BY <2>1, <1>1, <1>9, PutKeeps
  <2>2. CASE ~saving
      BY <2>2, <1>1 DEF IInv, TypeInv
  <2>. QED
      BY <2>1, <2>2
<1>. DEFINE w == IF saving /\ value # TrueResult(f, rows) THEN {f.op} ELSE {}
<1>11. w \subseteq {"fetch_obj", "fetch_one_append"} /\ w \subseteq Readers
    BY <1>8 DEF Kind
<1>12. ghost' = [ghost EXCEPT !.misread = @ \/ got.c = "unread", !.wrongly = @ \cup w]
    BY <1>1
<1>. HIDE DEF w
<1>13. /\ ghost' \in Ghosts
       /\ ghost'.unread = ghost.unread /\ ghost'.locked = ghost.locked
       /\ ghost'.begun = ghost.begun
       /\ ghost'.misread = (ghost.misread \/ got.c = "unread")
       /\ ghost'.wrongly = ghost.wrongly \cup w
    BY <1>11, <1>12 DEF IInv, TypeInv
<1>14. MixedUpOnlyAfterLock'
    BY <1>7, <1>13 DEF IInv, Contained, MixedUpOnlyAfterLock
<1>15. CachedIsReply'
    BY <1>11, <1>13 DEF IInv, CachedIsReply
<1>16. /\ done.islock => Locking(ghost')
       /\ \A s \in Sides : LinkOK(done.conn[s], ghost')
       /\ \A s \in Sides : idle'[s] => ghost'.unread /\ Locking(ghost')
    BY <1>1, <1>4, <1>6, <1>7, <1>13 DEF SameLinks
<1>17. idle' \in [Sides -> BOOLEAN] /\ table' \in SUBSET Ids
    BY <1>1, <1>4 DEF IInv, TypeInv
<1>. QED
    BY <1>1, <1>6, <1>10, <1>13, <1>14, <1>15, <1>16, <1>17, CalledKeeps

\* The reply breaks off, or it is an error.
LEMMA ReadFailsKeeps ==
    ASSUME IInv, NEW o \in Objs, NEW f \in Kind, NEW q,
           NEW me \in Object, SameLinks(me, obj[o]),
           NEW got \in Connections(me, "select"), NEW rows \in Seq(Ids),
           ReadFails(o, f, q, me, got, rows)
    PROVE  IInv'
<1>1. PICK k \in 0..Len(rows), error \in BOOLEAN :
        LET new == Drop(Fill(me, f, SubSeq(rows, 1, k)), "select") IN
        /\ Called(o, [new EXCEPT !.iserror = error \/ f.error], f.op, "SELECT")
        /\ idle' = got.idle
        /\ UNCHANGED <<table, cache, ghost>>
    BY DEF ReadFails
<1>. DEFINE filled == Fill(me, f, SubSeq(rows, 1, k))
            new == Drop(filled, "select")
            done == [new EXCEPT !.iserror = error \/ f.error]
<1>2. SubSeq(rows, 1, k) \in Seq(Ids)
    OBVIOUS
<1>3. filled \in Object /\ SameLinks(filled, me)
    BY <1>2, FillObject
<1>4. "select" \in Sides /\ (error \/ f.error) \in BOOLEAN
    BY DEF Sides, Kind
<1>. HIDE DEF filled
<1>5. new \in Object
    BY <1>3, <1>4, DropObject
<1>6. SameLinks(new, Drop(me, "select"))
    BY <1>3 DEF Drop, SameLinks, Object
<1>. HIDE DEF new
<1>7. done \in Object /\ SameLinks(done, new)
    BY <1>4, <1>5, ErrorObject
<1>8. SameLinks(done, Drop(me, "select"))
    BY <1>6, <1>7 DEF SameLinks
<1>9. /\ Called(o, done, f.op, "SELECT") /\ idle' = got.idle
      /\ UNCHANGED <<cache, ghost>> /\ table' \in SUBSET Ids
    BY <1>1 DEF new, filled, IInv, TypeInv
<1>. HIDE DEF done
<1>. QED
    BY <1>4, <1>7, <1>8, <1>9, DropKeeps

\* The code that all fetches share.
LEMMA SelectCallKeeps ==
    ASSUME IInv, NEW o \in Objs, NEW f \in Kind, NEW q \in Statement,
           SavesReply(f) \/ f.op \in {"fetch_obj", "fetch_one_append"},
           SelectCall(o, f, q)
    PROVE  IInv'
<1>. DEFINE me0 == obj[o]
            looks == f.looks /\ me0.iscache
            key == <<f.store, q>>
            hit == looks /\ key \in DOMAIN cache
            what == f.resets \cup (IF looks THEN {f.store} ELSE {})
            me == Empty(me0, what)
            found == [me0 EXCEPT !.iscache = FALSE,
                                 !.record = IF f.store = "record" THEN cache[key] ELSE @,
                                 !.data = IF f.store = "data" THEN cache[key] ELSE @]
<1>1. me0 \in Object
    BY ObjType
<1>2. /\ me \in Object /\ SameLinks(me, me0) /\ SameFlags(me, me0)
      /\ "record" \in what => me.record = <<>>
      /\ "data" \in what => me.data = 0
  <2>. HIDE DEF what, me0
  <2>. QED
      BY <1>1, EmptyObject
<1>3. \/ hit /\ Returns(o, found, f.op)
      \/ Refused(o, me, f.op)
      \/ NotSent(o, me, f.op, "select")
      \/ Thrown(o, me, f.op, "SELECT", "select", table)
      \/ \E got \in Connections(me, "select") :
         \E rows \in IF got.c = "clean" THEN Answer(q) ELSE Leftovers :
             Read(o, f, q, me, got, rows) \/ ReadFails(o, f, q, me, got, rows)
    BY DEF SelectCall
<1>4. "select" \in Sides /\ table \in SUBSET Ids
    BY DEF Sides, IInv, TypeInv
<1>5. CASE hit /\ Returns(o, found, f.op)
  <2>1. Entry(key, cache[key])
      BY <1>5 DEF IInv, TypeInv
  <2>2. /\ f.store = "record" => cache[key] \in Seq(Ids)
        /\ f.store = "data" => cache[key] \in Keys
      BY <2>1 DEF Entry
  <2>3. found \in Object /\ SameLinks(found, obj[o])
    <3>. HIDE DEF key
    <3>. QED
        BY <1>1, <2>2 DEF Object, SameLinks
  <2>. HIDE DEF found
  <2>. QED
      BY <1>5, <2>3, ReturnsKeeps
<1>6. ASSUME NEW got \in Connections(me, "select"),
             NEW rows \in IF got.c = "clean" THEN Answer(q) ELSE Leftovers,
             Read(o, f, q, me, got, rows) \/ ReadFails(o, f, q, me, got, rows)
      PROVE  IInv'
  <2>1. rows \in Seq(Ids)
      BY RepliesAreIds DEF IInv
  <2>2. /\ SavesReply(f) /\ me.iscache /\ f.saves /\ f.store = "record" => me.record = <<>>
        /\ SavesReply(f) /\ me.iscache /\ f.saves /\ f.store = "data" => me.data = 0
    <3>. HIDE DEF me
    <3>. QED
        BY <1>2 DEF SavesReply, SameFlags
  <2>. HIDE DEF me
  <2>3. CASE Read(o, f, q, me, got, rows)
      BY <2>1, <2>2, <2>3, <1>2, ReadKeeps
  <2>4. CASE ReadFails(o, f, q, me, got, rows)
      BY <2>1, <2>4, <1>2, ReadFailsKeeps
  <2>. QED
      BY <1>6, <2>3, <2>4
<1>. HIDE DEF me, found, hit
<1>. QED
    BY <1>2, <1>3, <1>4, <1>5, <1>6, RefusedKeeps, NotSentKeeps, ThrownKeeps

\* The statements of the fetches have the types of their parts.
LEMMA Statements ==
    ASSUME IInv, NEW o \in Objs
    PROVE  /\ List(o) \in Statement /\ One(o) \in Statement
           /\ \A id \in Ids : Get(id) \in Statement
           /\ \A S \in Conditions : Select("raw", <<S>>, <<>>) \in Statement
<1>1. obj[o].where \in Seq(SUBSET Ids) /\ obj[o].limit \in Limits
    BY ObjType DEF Object
<1>2. <<0, 1>> \in Limits /\ <<>> \in Limits
    BY DEF Limits
<1>3. \A S \in SUBSET Ids : <<S>> \in Seq(SUBSET Ids)
    OBVIOUS
<1>4. \A S \in Conditions : S \in SUBSET Ids
    BY OrmAssumption
<1>. QED
    BY <1>1, <1>2, <1>3, <1>4 DEF List, One, Get, Select, Statement

\* The kinds of the calls.
LEMMA Kinds ==
    /\ \A op \in Readers, store \in {"none", "row", "record", "data"},
          into \in {"result", "record", "data"} : Fetch(op, store, into) \in Kind
    /\ \A f \in Kind, b \in BOOLEAN : [f EXCEPT !.looks = b] \in Kind
    /\ \A f \in Kind, S \in SUBSET {"record", "data"} : [f EXCEPT !.resets = S] \in Kind
    /\ \A f \in Kind, b \in BOOLEAN : [f EXCEPT !.error = b] \in Kind
<1>1. \A op \in Readers, store \in {"none", "row", "record", "data"},
         into \in {"result", "record", "data"} : Fetch(op, store, into) \in Kind
    BY DEF Fetch, Kind
<1>2. \A f \in Kind, b \in BOOLEAN : [f EXCEPT !.looks = b] \in Kind
    BY DEF Kind
<1>3. \A f \in Kind, S \in SUBSET {"record", "data"} : [f EXCEPT !.resets = S] \in Kind
    BY DEF Kind
<1>4. \A f \in Kind, b \in BOOLEAN : [f EXCEPT !.error = b] \in Kind
    BY DEF Kind
<1>. QED
    BY <1>1, <1>2, <1>3, <1>4

\* Every call that reads rows.
LEMMA ReadsOne ==
    ASSUME IInv, NEW o \in Objs,
           \/ fetch_obj(o) \/ fetch_row(o) \/ fetch(o) \/ async_fetch(o)
           \/ fetch_append(o) \/ async_fetch_append(o)
           \/ \E b \in BOOLEAN : fetch_one(o, b) \/ async_fetch_one(o, b)
           \/ \E id \in Ids : get_one(o, id) \/ async_get_one(o, id)
           \/ fetch_json(o) \/ async_fetch_json(o)
           \/ \E S \in Conditions : query(o, S) \/ async_query(o, S)
    PROVE  IInv'
<1>1. List(o) \in Statement /\ One(o) \in Statement
    BY Statements
<1>2. CASE fetch_obj(o)
  <2>. DEFINE f0 == Fetch("fetch_obj", "record", "result")
              f == [f0 EXCEPT !.looks = FALSE]
  <2>1. f0 \in Kind
      BY Kinds DEF Readers
  <2>2. f \in Kind
    <3>. HIDE DEF f0
    <3>. QED
        BY <2>1, Kinds
  <2>3. f.op = "fetch_obj"
      BY DEF Fetch
  <2>4. SelectCall(o, f, List(o))
      BY <1>2 DEF fetch_obj
  <2>. HIDE DEF f
  <2>. QED
      BY <1>1, <2>2, <2>3, <2>4, SelectCallKeeps
<1>3. CASE fetch_row(o)
  <2>. DEFINE f == Fetch("fetch_row", "row", "result")
  <2>1. CASE Returns(o, obj[o], "fetch_row")
      BY <2>1, ObjType, ReturnsKeeps
  <2>2. CASE SelectCall(o, f, List(o))
    <3>1. f \in Kind
        BY Kinds DEF Readers
    <3>2. SavesReply(f)
        BY DEF Fetch, SavesReply
    <3>. HIDE DEF f
    <3>. QED
        BY <1>1, <2>2, <3>1, <3>2, SelectCallKeeps
  <2>. QED
      BY <1>3, <2>1, <2>2 DEF fetch_row
<1>4. CASE fetch(o) \/ async_fetch(o)
  <2>. DEFINE f0 == Fetch("fetch", "record", "record")
              f == [f0 EXCEPT !.resets = {"record"}]
              g == [f0 EXCEPT !.resets = {"record"}, !.error = TRUE]
  <2>1. f0 \in Kind
      BY Kinds DEF Readers
  <2>2. f \in Kind
    <3>. HIDE DEF f0
    <3>. QED
        BY <2>1, Kinds
  <2>3. g \in Kind
    <3>1. g = [f EXCEPT !.error = TRUE]
        OBVIOUS
    <3>. HIDE DEF f, g
    <3>. QED
        BY <2>2, <3>1, Kinds
  <2>4. SavesReply(f) /\ SavesReply(g)
      BY DEF Fetch, SavesReply
  <2>5. SelectCall(o, f, List(o)) \/ SelectCall(o, g, List(o))
      BY <1>4 DEF fetch, async_fetch
  <2>. HIDE DEF f, g
  <2>. QED
      BY <1>1, <2>2, <2>3, <2>4, <2>5, SelectCallKeeps
<1>5. CASE fetch_append(o) \/ async_fetch_append(o)
  <2>. DEFINE f == Fetch("fetch_append", "record", "record")
  <2>1. f \in Kind
      BY Kinds DEF Readers
  <2>2. SavesReply(f)
      BY DEF Fetch, SavesReply
  <2>3. SelectCall(o, f, List(o))
      BY <1>5 DEF fetch_append, async_fetch_append
  <2>. HIDE DEF f
  <2>. QED
      BY <1>1, <2>1, <2>2, <2>3, SelectCallKeeps
<1>6. CASE \E b \in BOOLEAN : fetch_one(o, b) \/ async_fetch_one(o, b)
  <2>1. PICK b \in BOOLEAN : fetch_one(o, b) \/ async_fetch_one(o, b)
      BY <1>6
  <2>. DEFINE op == IF b THEN "fetch_one_append" ELSE "fetch_one"
              into == IF b THEN "record" ELSE "data"
              f0 == Fetch(op, "data", into)
              f == [f0 EXCEPT !.resets = {"data"}]
  <2>2. SelectCall(o, f, One(o))
      BY <2>1 DEF fetch_one, async_fetch_one
  <2>3. op \in Readers /\ into \in {"result", "record", "data"}
      BY DEF Readers
  <2>4. SavesReply(f) \/ f.op \in {"fetch_obj", "fetch_one_append"}
      BY DEF Fetch, SavesReply
  <2>. HIDE DEF op, into
  <2>5. f0 \in Kind
      BY <2>3, Kinds
  <2>6. f \in Kind
    <3>. HIDE DEF f0
    <3>. QED
        BY <2>5, Kinds
  <2>. HIDE DEF f
  <2>. QED
      BY <1>1, <2>2, <2>4, <2>6, SelectCallKeeps
<1>7. CASE \E id \in Ids : get_one(o, id) \/ async_get_one(o, id)
  <2>1. PICK id \in Ids : get_one(o, id) \/ async_get_one(o, id)
      BY <1>7
  <2>. DEFINE f0 == Fetch("get_one", "data", "data")
              f == [f0 EXCEPT !.resets = {"data"}]
  <2>2. Get(id) \in Statement
      BY Statements
  <2>3. f0 \in Kind
      BY Kinds DEF Readers
  <2>4. f \in Kind
    <3>. HIDE DEF f0
    <3>. QED
        BY <2>3, Kinds
  <2>5. SavesReply(f)
      BY DEF Fetch, SavesReply
  <2>6. SelectCall(o, f, Get(id))
      BY <2>1 DEF get_one, async_get_one
  <2>. HIDE DEF f
  <2>. QED
      BY <2>2, <2>4, <2>5, <2>6, SelectCallKeeps
<1>8. CASE fetch_json(o) \/ async_fetch_json(o)
  <2>. DEFINE f == Fetch("fetch_json", "none", "result")
  <2>1. f \in Kind
      BY Kinds DEF Readers
  <2>2. SavesReply(f)
      BY DEF Fetch, SavesReply
  <2>3. SelectCall(o, f, List(o))
      BY <1>8 DEF fetch_json, async_fetch_json
  <2>. HIDE DEF f
  <2>. QED
      BY <1>1, <2>1, <2>2, <2>3, SelectCallKeeps
<1>9. CASE \E S \in Conditions : query(o, S) \/ async_query(o, S)
  <2>1. PICK S \in Conditions : query(o, S) \/ async_query(o, S)
      BY <1>9
  <2>. DEFINE f == Fetch("query", "none", "result")
  <2>2. Select("raw", <<S>>, <<>>) \in Statement
      BY Statements
  <2>3. CASE SelectCall(o, f, Select("raw", <<S>>, <<>>))
    <3>1. f \in Kind
        BY Kinds DEF Readers
    <3>2. SavesReply(f)
        BY DEF Fetch, SavesReply
    <3>. HIDE DEF f
    <3>. QED
        BY <2>2, <2>3, <3>1, <3>2, SelectCallKeeps
  <2>4. CASE Returns(o, [obj[o] EXCEPT !.iserror = TRUE], "query")
    <3>1. [obj[o] EXCEPT !.iserror = TRUE] \in Object
          /\ SameLinks([obj[o] EXCEPT !.iserror = TRUE], obj[o])
        BY ObjType, ErrorObject
    <3>. QED
        BY <2>4, <3>1, ReturnsKeeps
  <2>. QED
      BY <2>1, <2>3, <2>4 DEF query, async_query
<1>. QED
    BY <1>2, <1>3, <1>4, <1>5, <1>6, <1>7, <1>8, <1>9

-----------------------------------------------------------------------------
(* count() and page().                                                     *)

\* What a count leaves behind.
CountOK(o, x) ==
    /\ x.me \in Object /\ x.me.islock = obj[o].islock
    /\ x.idle \in [Sides -> BOOLEAN]
    /\ x.n \in Nat
    /\ x.unread \in BOOLEAN /\ x.misread \in BOOLEAN
    /\ \A s \in Sides : x.unread \/ LinkOK(x.me.conn[s], ghost)
    /\ \A s \in Sides : x.idle[s] => ghost.unread /\ Locking(ghost)
    /\ x.misread => ghost.unread /\ Locking(ghost)

\* The database counts its rows.
LEMMA CountAnswerNat ==
    ASSUME TypeInv, NEW q
    PROVE  CountAnswer(q) \in Nat
<1>1. Matching(q.where) \in SUBSET Ids
    BY DEF TypeInv, Matching
<1>2. IsFiniteSet(Matching(q.where))
    BY <1>1, OrmAssumption, FS_Subset
<1>. QED
    BY <1>2, FS_CardinalityType DEF CountAnswer

\* What count() leaves behind, however it ends.
LEMMA CountsOK ==
    ASSUME IInv, NEW o \in Objs, NEW x \in Counts(o)
    PROVE  CountOK(o, x)
<1>. DEFINE me == obj[o]
            error == [me EXCEPT !.iserror = TRUE]
            dropped == Drop(me, "select")
            failed == [dropped EXCEPT !.iserror = TRUE]
            thrown == [me EXCEPT !.conn["select"] = "unread"]
<1>1. me \in Object /\ SameLinks(me, obj[o])
    BY ObjType
<1>2. error \in Object /\ SameLinks(error, me)
    BY <1>1, ErrorObject
<1>3. "select" \in Sides
    BY DEF Sides
<1>4. dropped \in Object /\ dropped.islock = me.islock
      /\ \A s \in Sides : dropped.conn[s] \in {"null", me.conn[s]}
  <2>1. dropped = [me EXCEPT !.conn["select"] = "null"] /\ "null" \in Links
      BY DEF Drop, Links
  <2>2. /\ dropped \in Object /\ dropped.islock = me.islock
        /\ dropped.conn["select"] = "null"
        /\ \A s \in Sides : s # "select" => dropped.conn[s] = me.conn[s]
    <3>. HIDE DEF dropped, me
    <3>. QED
        BY <1>1, <1>3, <2>1, LinkObject
  <2>. HIDE DEF dropped, me
  <2>. QED
      BY <2>2
<1>5. failed \in Object /\ SameLinks(failed, dropped)
  <2>. HIDE DEF dropped
  <2>. QED
      BY <1>4, ErrorObject
<1>6. thrown \in Object /\ thrown.islock = me.islock
    BY <1>1, <1>3, LinkObject DEF Links
<1>7. /\ idle \in [Sides -> BOOLEAN]
      /\ \A s \in Sides : LinkOK(me.conn[s], ghost)
      /\ \A s \in Sides : idle[s] => ghost.unread /\ Locking(ghost)
    BY DEF IInv, TypeInv, Contained
<1>8. \/ x = Counted(me, idle, 0, "none")
      \/ x = Counted(error, idle, 0, "none")
      \/ \E got \in Connections(me, "select") :
           \/ x = Counted(dropped, got.idle, 0, "none")
           \/ x = Counted(dropped, got.idle, 0, "SELECT")
           \/ x = Counted(failed, got.idle, 0, "SELECT")
           \/ x = [Counted(thrown, got.idle, 0, "SELECT") EXCEPT !.unread = TRUE]
           \/ \E n \in IF got.c = "clean" THEN {CountAnswer(List(o))} ELSE 0..Cardinality(Ids) :
                x = [Counted(Keep(me, "select", got), Back(me, "select", got), n, "SELECT")
                       EXCEPT !.misread = got.c = "unread"]
  <2>. DEFINE ends(got) ==
            {Counted(dropped, got.idle, 0, "none"),
             Counted(dropped, got.idle, 0, "SELECT"),
             Counted(failed, got.idle, 0, "SELECT"),
             [Counted(thrown, got.idle, 0, "SELECT") EXCEPT !.unread = TRUE]}
            \cup {[Counted(Keep(me, "select", got), Back(me, "select", got), n, "SELECT")
                       EXCEPT !.misread = got.c = "unread"] :
                  n \in IF got.c = "clean" THEN {CountAnswer(List(o))} ELSE 0..Cardinality(Ids)}
  <2>1. x \in IF me.iserror THEN {Counted(me, idle, 0, "none")}
             ELSE IF ~me.pool THEN {Counted(error, idle, 0, "none")}
             ELSE {Counted(me, idle, 0, "none")}
                  \cup UNION {ends(got) : got \in Connections(me, "select")}
      BY Zenon DEF Counts
  <2>2. ASSUME NEW got \in Connections(me, "select"), x \in ends(got)
        PROVE  \/ x = Counted(dropped, got.idle, 0, "none")
               \/ x = Counted(dropped, got.idle, 0, "SELECT")
               \/ x = Counted(failed, got.idle, 0, "SELECT")
               \/ x = [Counted(thrown, got.idle, 0, "SELECT") EXCEPT !.unread = TRUE]
               \/ \E n \in IF got.c = "clean" THEN {CountAnswer(List(o))}
                         ELSE 0..Cardinality(Ids) :
                    x = [Counted(Keep(me, "select", got), Back(me, "select", got), n, "SELECT")
                           EXCEPT !.misread = got.c = "unread"]
    <3>. HIDE DEF me, dropped, failed, thrown
    <3>. QED
        BY <2>2
  <2>. HIDE DEF me, error, dropped, failed, thrown, ends
  <2>3. \/ x = Counted(me, idle, 0, "none")
        \/ x = Counted(error, idle, 0, "none")
        \/ \E got \in Connections(me, "select") : x \in ends(got)
      BY <2>1
  <2>. QED
      BY <2>2, <2>3
<1>. HIDE DEF me, error, dropped, failed, thrown
<1>9. CASE x = Counted(me, idle, 0, "none")
    BY <1>1, <1>7, <1>9 DEF Counted, CountOK, SameLinks
<1>10. CASE x = Counted(error, idle, 0, "none")
    BY <1>1, <1>2, <1>7, <1>10 DEF Counted, CountOK, SameLinks
<1>11. ASSUME NEW got \in Connections(me, "select"),
              \/ x = Counted(dropped, got.idle, 0, "none")
              \/ x = Counted(dropped, got.idle, 0, "SELECT")
              \/ x = Counted(failed, got.idle, 0, "SELECT")
              \/ x = [Counted(thrown, got.idle, 0, "SELECT") EXCEPT !.unread = TRUE]
       PROVE  CountOK(o, x)
  <2>1. /\ got.idle \in [Sides -> BOOLEAN]
        /\ \A s \in Sides : got.idle[s] => ghost.unread /\ Locking(ghost)
      BY <1>1, <1>3, ConnectionsOK
  <2>2. CASE x = [Counted(thrown, got.idle, 0, "SELECT") EXCEPT !.unread = TRUE]
      BY <2>1, <2>2, <1>1, <1>6 DEF Counted, CountOK, SameLinks
  <2>3. CASE x = Counted(failed, got.idle, 0, "SELECT")
      BY <2>1, <2>3, <1>1, <1>4, <1>5, <1>7 DEF Counted, CountOK, SameLinks
  <2>4. CASE x = Counted(dropped, got.idle, 0, "none")
      BY <2>1, <2>4, <1>1, <1>4, <1>7 DEF Counted, CountOK, SameLinks
  <2>5. CASE x = Counted(dropped, got.idle, 0, "SELECT")
      BY <2>1, <2>5, <1>1, <1>4, <1>7 DEF Counted, CountOK, SameLinks
  <2>. QED
      BY <1>11, <2>2, <2>3, <2>4, <2>5
<1>12. ASSUME NEW got \in Connections(me, "select"),
              NEW n \in IF got.c = "clean" THEN {CountAnswer(List(o))} ELSE 0..Cardinality(Ids),
              x = [Counted(Keep(me, "select", got), Back(me, "select", got), n, "SELECT")
                     EXCEPT !.misread = got.c = "unread"]
       PROVE  CountOK(o, x)
  <2>1. /\ Keep(me, "select", got) \in Object
        /\ Keep(me, "select", got).islock = me.islock
        /\ \A s \in Sides : LinkOK(Keep(me, "select", got).conn[s], ghost)
        /\ Back(me, "select", got) \in [Sides -> BOOLEAN]
        /\ \A s \in Sides : Back(me, "select", got)[s] => ghost.unread /\ Locking(ghost)
    <3>1. SameLinks(me, me)
        BY DEF SameLinks
    <3>. QED
        BY <1>1, <1>3, <3>1, KeepOK
  <2>2. got.c = "unread" => ghost.unread /\ Locking(ghost)
      BY <1>1, <1>3, ConnectionsOK
  <2>3. Cardinality(Ids) \in Nat
      BY OrmAssumption, FS_CardinalityType
  <2>4. n \in Nat
      BY <2>3, CountAnswerNat DEF IInv
  <2>. QED
      BY <1>1, <1>12, <2>1, <2>2, <2>4 DEF Counted, CountOK, SameLinks
<1>. QED
    BY <1>8, <1>9, <1>10, <1>11, <1>12

\* What both leave of the ghost.
LEMMA CountGhost ==
    ASSUME IInv, NEW o \in Objs, NEW x, CountOK(o, x),
           ghost' = [ghost EXCEPT !.unread = @ \/ x.unread, !.misread = @ \/ x.misread]
    PROVE  /\ ghost' \in Ghosts
           /\ ghost'.unread = (ghost.unread \/ x.unread) /\ ghost'.locked = ghost.locked
           /\ ghost'.begun = ghost.begun
           /\ MixedUpOnlyAfterLock' /\ CachedIsReply'
<1>1. /\ ghost' \in Ghosts
      /\ ghost'.unread = (ghost.unread \/ x.unread) /\ ghost'.locked = ghost.locked
      /\ ghost'.begun = ghost.begun
      /\ ghost'.misread = (ghost.misread \/ x.misread) /\ ghost'.wrongly = ghost.wrongly
    BY DEF IInv, TypeInv, CountOK
<1>. QED
    BY <1>1 DEF IInv, Contained, MixedUpOnlyAfterLock, CachedIsReply, CountOK

\* count and async_count.
LEMMA CountKeeps ==
    ASSUME IInv, NEW o \in Objs, count(o) \/ async_count(o)
    PROVE  IInv'
<1>1. PICK x \in Counts(o) : CountStep(o, "count", x, x.me)
    BY DEF count, async_count
<1>2. CountOK(o, x)
    BY CountsOK
<1>3. /\ Called(o, x.me, "count", x.verb) /\ idle' = x.idle
      /\ ghost' = [ghost EXCEPT !.unread = @ \/ x.unread, !.misread = @ \/ x.misread]
      /\ table' = table /\ cache' = cache
    BY <1>1 DEF CountStep
<1>4. /\ ghost' \in Ghosts
      /\ ghost'.unread = (ghost.unread \/ x.unread) /\ ghost'.locked = ghost.locked
      /\ ghost'.begun = ghost.begun
      /\ MixedUpOnlyAfterLock' /\ CachedIsReply'
    BY <1>2, <1>3, CountGhost
<1>5. /\ x.me \in Object /\ idle' \in [Sides -> BOOLEAN] /\ table' \in SUBSET Ids
      /\ \A key \in DOMAIN cache' : Entry(key, cache'[key])
      /\ ghost.unread => ghost'.unread
      /\ ghost.locked => ghost'.locked
      /\ ghost'.begun = ghost.begun
      /\ x.me.islock => Locking(ghost')
      /\ \A s \in Sides : LinkOK(x.me.conn[s], ghost')
      /\ \A s \in Sides : idle'[s] => ghost'.unread /\ Locking(ghost')
    BY <1>2, <1>3, <1>4 DEF CountOK, IInv, TypeInv, Contained
<1>. QED
    BY <1>3, <1>4, <1>5, CalledKeeps

\* page: a count, then the window.
LEMMA PageKeeps ==
    ASSUME IInv, NEW o \in Objs, NEW p \in Pages, NEW per_page \in PerPages,
           NEW list_num \in ListNums, PageStep(o, p, per_page, list_num)
    PROVE  IInv'
<1>1. PICK x \in Counts(o) :
        LET w == Window(x.n, p, per_page, list_num) IN
        /\ calls' = calls + 1
        /\ obj' = [obj EXCEPT ![o] = [x.me EXCEPT !.limit = PageLimit(w, per_page)]]
        /\ last' = [by |-> o, sent |-> Sent("page", x.verb), window |-> w]
        /\ idle' = x.idle
        /\ ghost' = [ghost EXCEPT !.unread = @ \/ x.unread, !.misread = @ \/ x.misread]
        /\ UNCHANGED <<table, cache, crashed>>
    BY DEF PageStep
<1>. DEFINE w == Window(x.n, p, per_page, list_num)
            me == [x.me EXCEPT !.limit = PageLimit(w, per_page)]
<1>2. CountOK(o, x)
    BY CountsOK
<1>3. p \in Nat /\ per_page \in Nat /\ list_num \in Nat /\ x.n \in Nat
    BY <1>2, OrmAssumption DEF CountOK
<1>4. /\ w[1] \in Nat /\ w[2] \in Nat /\ w[3] \in Nat /\ w[4] \in Nat
      /\ 1 <= w[1] /\ w[1] <= w[3] /\ w[3] <= w[2] /\ w[2] <= w[4]
      /\ w[2] - w[1] + 1 = AtMost(AtLeast(list_num, 1), w[4])
    BY <1>3, WindowHoldsPage
<1>5. last'.window = w
    BY <1>1
<1>. HIDE DEF w
<1>6. PageInWindow'
    BY <1>4, <1>5 DEF PageInWindow
<1>7. PageLimit(w, per_page) \in Limits
  <2>. DEFINE per == IF per_page = 0 THEN 10 ELSE per_page
  <2>1. per \in Nat /\ w[3] - 1 \in Nat
      BY <1>3, <1>4
  <2>. HIDE DEF per
  <2>2. \A i, j \in Nat : i * j \in Nat
      OBVIOUS
  <2>3. (w[3] - 1) * per \in Nat
      BY <2>1, <2>2
  <2>. QED
      BY <2>1, <2>3 DEF PageLimit, Limits, per
<1>8. me \in Object /\ SameLinks(me, x.me)
    BY <1>2, <1>7 DEF CountOK, Object, SameLinks
<1>9. /\ ghost' \in Ghosts
      /\ ghost'.unread = (ghost.unread \/ x.unread) /\ ghost'.locked = ghost.locked
      /\ ghost'.begun = ghost.begun
      /\ MixedUpOnlyAfterLock' /\ CachedIsReply'
    BY <1>1, <1>2, CountGhost
<1>10. obj' = [obj EXCEPT ![o] = me]
    BY <1>1 DEF w
<1>. HIDE DEF me
<1>11. /\ obj' \in [Objs -> Object]
       /\ \A i \in Objs : obj'[i] = IF i = o THEN me ELSE obj[i]
    BY <1>8, <1>10 DEF IInv, TypeInv
<1>12. TypeInv'
    BY <1>1, <1>2, <1>9, <1>11 DEF IInv, TypeInv, CountOK
<1>13. Contained'
  <2>1. /\ me.islock => Locking(ghost')
        /\ \A s \in Sides : LinkOK(me.conn[s], ghost')
        /\ \A s \in Sides : idle'[s] => ghost'.unread /\ Locking(ghost')
      BY <1>1, <1>2, <1>8, <1>9 DEF CountOK, SameLinks, IInv, Contained
  <2>. QED
      BY <2>1, <1>9, <1>11 DEF IInv, Contained
<1>. QED
    BY <1>6, <1>9, <1>12, <1>13 DEF IInv

\* Every reading call keeps the invariant.
LEMMA ReadsKeep ==
    ASSUME IInv, NEW o \in Objs, Reads(o)
    PROVE  IInv'
BY ReadsOne, CountKeeps, PageKeeps DEF Reads, page

-----------------------------------------------------------------------------
(* Calls that write.                                                       *)

Result == [ok : BOOLEAN, table : SUBSET Ids, id : Keys]

\* The members that an OK or error packet changes.
LEMMA DoneObject ==
    ASSUME NEW me \in Object, NEW f, NEW r, NEW ok \in BOOLEAN, NEW id \in Keys,
           f.error \in BOOLEAN, f.setPK \in BOOLEAN
    PROVE  Done(me, f, r, ok, id) \in Object /\ SameLinks(Done(me, f, r, ok, id), me)
BY DEF Done, Object, SameLinks

\* A statement that writes, and its reply.
LEMMA ExchangeKeeps ==
    ASSUME IInv, NEW o \in Objs, NEW f, f.error \in BOOLEAN, f.setPK \in BOOLEAN,
           NEW me \in Object, SameLinks(me, obj[o]), NEW verb, NEW r \in Result,
           Exchange(o, f, me, verb, r)
    PROVE  IInv'
<1>1. "edit" \in Sides /\ r.table \in SUBSET Ids /\ table \in SUBSET Ids
    BY DEF Sides, Result, IInv, TypeInv
<1>2. ASSUME NEW got \in Connections(me, "edit"), Called(o, Drop(me, "edit"), f.op, verb),
             idle' = got.idle, table' \in {table, r.table}, UNCHANGED <<cache, ghost>>
      PROVE  IInv'
    BY <1>1, <1>2, DropObject, DropKeeps
<1>3. ASSUME NEW got \in Connections(me, "edit"),
             NEW ok \in IF got.c = "clean" THEN {r.ok} ELSE BOOLEAN,
             NEW id \in IF got.c = "clean" THEN {r.id} ELSE Ids,
             Called(o, Keep(Done(me, f, r, ok, id), "edit", got), f.op, verb),
             idle' = Back(me, "edit", got), table' \in {table, r.table},
             ghost' = [ghost EXCEPT !.misread = @ \/ got.c = "unread"],
             UNCHANGED cache
      PROVE  IInv'
  <2>. DEFINE mine == Done(me, f, r, ok, id)
              new == Keep(mine, "edit", got)
  <2>1. ok \in BOOLEAN /\ id \in Keys
      BY DEF Result, Keys
  <2>2. mine \in Object /\ SameLinks(mine, me)
      BY <2>1, DoneObject
  <2>. HIDE DEF mine
  <2>3. /\ new \in Object /\ new.islock = me.islock
        /\ \A s \in Sides : LinkOK(new.conn[s], ghost)
        /\ Back(me, "edit", got) \in [Sides -> BOOLEAN]
        /\ \A s \in Sides : Back(me, "edit", got)[s] => ghost.unread /\ Locking(ghost)
      BY <1>1, <2>2, KeepOK
  <2>4. /\ got.c = "unread" => ghost.unread /\ Locking(ghost)
        /\ me.islock => Locking(ghost)
      BY <1>1, ConnectionsOK
  <2>5. /\ ghost' \in Ghosts
        /\ ghost'.unread = ghost.unread /\ ghost'.locked = ghost.locked
        /\ ghost'.begun = ghost.begun
        /\ ghost'.misread = (ghost.misread \/ got.c = "unread")
        /\ ghost'.wrongly = ghost.wrongly
      BY <1>3 DEF IInv, TypeInv
  <2>6. MixedUpOnlyAfterLock' /\ CachedIsReply'
      BY <2>4, <2>5 DEF IInv, Contained, MixedUpOnlyAfterLock, CachedIsReply
  <2>7. Called(o, new, f.op, verb)
      BY <1>3 DEF mine
  <2>8. \A key \in DOMAIN cache' : Entry(key, cache'[key])
      BY <1>3 DEF IInv, TypeInv
  <2>. HIDE DEF new
  <2>. QED
      BY <1>1, <1>3, <2>3, <2>4, <2>5, <2>6, <2>7, <2>8, CalledKeeps
<1>4. CASE NotSent(o, me, f.op, "edit")
    BY <1>1, <1>4, NotSentKeeps
<1>5. CASE Thrown(o, me, f.op, verb, "edit", r.table)
    BY <1>1, <1>5, ThrownKeeps
<1>. QED
    BY <1>2, <1>3, <1>4, <1>5 DEF Exchange

\* The code that all writing calls share, from the error flag on.
LEMMA AttemptKeeps ==
    ASSUME IInv, NEW o \in Objs, NEW f, f.error \in BOOLEAN, f.setPK \in BOOLEAN,
           NEW me \in Object, SameLinks(me, obj[o]), NEW verb, NEW r \in Result,
           Attempt(o, f, me, verb, r)
    PROVE  IInv'
BY RefusedKeeps, ExchangeKeeps DEF Attempt

\* The same, with the write that begin_commit made the object forget.
LEMMA EditCallKeeps ==
    ASSUME IInv, NEW o \in Objs, NEW f, f.error \in BOOLEAN, f.setPK \in BOOLEAN,
           NEW me \in Object, SameLinks(me, obj[o]), NEW verb, NEW r \in Result,
           EditCall(o, f, me, verb, r)
    PROVE  IInv'
<1>. DEFINE mine == [me EXCEPT !.iscommit = FALSE]
<1>1. mine \in Object /\ SameLinks(mine, obj[o])
    BY DEF Object, SameLinks
<1>2. Returns(o, mine, f.op) \/ Attempt(o, f, me, verb, r)
    BY DEF EditCall
<1>. HIDE DEF mine
<1>. QED
    BY <1>1, <1>2, ReturnsKeeps, AttemptKeeps

\* The condition made of the object's own key.
LEMMA KeepWhereObject ==
    ASSUME NEW me \in Object, Keyed(me)
    PROVE  KeepWhere(me) \in Object /\ SameLinks(KeepWhere(me), me)
<1>1. Where(me) \in Seq(SUBSET Ids)
  <2>1. CASE me.where = <<>>
    <3>1. me.data \in Ids
        BY <2>1 DEF Keyed, Object, Keys
    <3>2. {me.data} \in SUBSET Ids
        BY <3>1
    <3>3. <<{me.data}>> \in Seq(SUBSET Ids)
        BY <3>2
    <3>. QED
        BY <2>1, <3>3 DEF Where
  <2>2. CASE me.where # <<>>
      BY <2>2 DEF Where, Object
  <2>. QED
      BY <2>1, <2>2
<1>. QED
    BY <1>1 DEF KeepWhere, Object, SameLinks

\* What the statements do.
LEMMA ResultsTyped ==
    ASSUME IInv
    PROVE  /\ Fails \in Result
           /\ \A S \in SUBSET Ids : Leaves(S) \in Result
           /\ \A me : \A S \in SUBSET Ids : Edited(me, S) \in Result
           /\ \A me, where : SetsOther(me, where) \in Result
           /\ \A me, where : Deletes(me, where) \in Result
           /\ \A me \in Object : \A where : SetAll(me, where) \in Result
<1>1. table \in SUBSET Ids
    BY DEF IInv, TypeInv
<1>2. 0 \in Keys
    BY DEF Keys
<1>3. Fails \in Result
    BY <1>1, <1>2 DEF Fails, Result
<1>4. \A S \in SUBSET Ids : Leaves(S) \in Result
    BY <1>2 DEF Leaves, Result
<1>5. \A me : \A S \in SUBSET Ids : Edited(me, S) \in Result
    BY <1>3, <1>4 DEF Edited
<1>6. \A me, where : SetsOther(me, where) \in Result
    BY <1>1, <1>3, <1>4 DEF SetsOther, Edited
<1>7. \A me, where : Deletes(me, where) \in Result
  <2>1. \A where : table \ Matching(where) \in SUBSET Ids
      BY <1>1
  <2>. QED
      BY <2>1, <1>3, <1>4 DEF Deletes, Edited
<1>8. ASSUME NEW me \in Object, NEW where
      PROVE  SetAll(me, where) \in Result
  <2>. DEFINE hit == Matching(where)
              rest == table \ hit
  <2>1. rest \in SUBSET Ids
      BY <1>1
  <2>2. me.data # 0 => rest \cup {me.data} \in SUBSET Ids
      BY <2>1 DEF Object, Keys
  <2>3. SetAll(me, where) \in
          {Edited(me, table), Fails} \cup {Edited(me, S) : S \in SUBSET Ids}
    <3>. HIDE DEF hit
    <3>1. SetAll(me, where) =
            IF hit = {} THEN Edited(me, table)
            ELSE IF Cardinality(hit) = 1 /\ me.data \notin rest /\ me.data # 0
                 THEN Edited(me, rest \cup {me.data}) ELSE Fails
        BY DEF SetAll, hit
    <3>. QED
        BY <2>2, <3>1
  <2>4. Edited(me, table) \in Result /\ \A S \in SUBSET Ids : Edited(me, S) \in Result
      BY <1>1, <1>3, <1>4 DEF Edited
  <2>. QED
      BY <1>3, <2>3, <2>4
<1>. QED
    BY <1>3, <1>4, <1>5, <1>6, <1>7, <1>8

\* The first free key.
LEMMA SmallestKey ==
    ASSUME NEW S \in SUBSET Ids, S # {}
    PROVE  (CHOOSE i \in S : \A j \in S : i <= j) \in S
<1>1. S \in SUBSET Nat
    BY OrmAssumption
<1>2. PICK x \in S : \A y \in S : ~ (<<y, x>> \in OpToRel(<, Nat))
    BY <1>1, NatLessThanWellFounded, WFMin
<1>3. \A y \in S : x <= y
  <2>. SUFFICES ASSUME NEW y \in S PROVE x <= y
      OBVIOUS
  <2>1. x \in Nat /\ y \in Nat
      BY <1>1
  <2>2. ~ (y < x)
    <3>. SUFFICES ASSUME y < x PROVE FALSE
        OBVIOUS
    <3>1. <<y, x>> \in OpToRel(<, Nat)
        BY <2>1 DEF OpToRel
    <3>. QED
        BY <1>2, <3>1
  <2>. QED
      BY <2>1, <2>2
<1>. QED
    BY <1>3

\* What INSERT does to the table.
LEMMA InsertsTyped ==
    ASSUME IInv
    PROVE  /\ \A id \in Keys : Inserts(id) \subseteq Result
           /\ \A S \in SUBSET Ids : InsertsAll(S) \in Result
<1>1. table \in SUBSET Ids /\ Fails \in Result
    BY ResultsTyped DEF IInv, TypeInv
<1>2. ASSUME NEW id \in Keys, NEW r \in Inserts(id)
      PROVE  r \in Result
  <2>1. CASE r = Fails
      BY <1>1, <2>1
  <2>2. CASE r # Fails
    <3>1. PICK i \in (IF id = 0 THEN Ids ELSE {id}) \ table :
            r = [ok |-> TRUE, table |-> table \cup {i}, id |-> i]
        BY <2>2 DEF Inserts
    <3>2. i \in Ids
        BY DEF Keys
    <3>. QED
        BY <1>1, <3>1, <3>2 DEF Result, Keys
  <2>. QED
      BY <2>1, <2>2
<1>3. ASSUME NEW S \in SUBSET Ids
      PROVE  InsertsAll(S) \in Result
  <2>. DEFINE i == CHOOSE i \in S : \A j \in S : i <= j
  <2>1. S # {} => i \in Keys
      BY SmallestKey DEF Keys
  <2>. HIDE DEF i
  <2>2. InsertsAll(S) = IF S # {} /\ S \cap table = {}
                        THEN [ok |-> TRUE, table |-> table \cup S, id |-> i] ELSE Fails
      BY DEF InsertsAll, i
  <2>. QED
      BY <1>1, <2>1, <2>2 DEF Result
<1>. QED
    BY <1>2, <1>3

\* A call with a condition, once its statement is known.
KeyCall(o, f, me, verb, r) ==
    \/ ~Keyed(obj[o]) /\ Returns(o, obj[o], f.op)
    \/ Keyed(obj[o]) /\ EditCall(o, f, me, verb, r)

\* A call that needs a condition and has one, or returns.
LEMMA KeyCallKeeps ==
    ASSUME IInv, NEW o \in Objs, NEW f, f.error \in BOOLEAN, f.setPK \in BOOLEAN,
           NEW me \in {obj[o], KeepWhere(obj[o])}, NEW verb, NEW r,
           Keyed(obj[o]) => r \in Result, KeyCall(o, f, me, verb, r)
    PROVE  IInv'
<1>1. obj[o] \in Object /\ SameLinks(obj[o], obj[o])
    BY ObjType
<1>2. Keyed(obj[o]) => me \in Object /\ SameLinks(me, obj[o])
    BY <1>1, KeepWhereObject
<1>3. CASE ~Keyed(obj[o]) /\ Returns(o, obj[o], f.op)
    BY <1>1, <1>3, ReturnsKeeps
<1>4. CASE Keyed(obj[o]) /\ EditCall(o, f, me, verb, r)
    BY <1>2, <1>4, EditCallKeeps
<1>. QED
    BY <1>3, <1>4 DEF KeyCall

\* What tells the writing calls apart are flags.
LEMMA WriteKinds ==
    /\ \A op : Write(op).error \in BOOLEAN /\ Write(op).setPK \in BOOLEAN
    /\ \A op : /\ [Write(op) EXCEPT !.error = TRUE].error \in BOOLEAN
               /\ [Write(op) EXCEPT !.error = TRUE].setPK \in BOOLEAN
    /\ \A op : /\ [Write(op) EXCEPT !.setPK = TRUE].error \in BOOLEAN
               /\ [Write(op) EXCEPT !.setPK = TRUE].setPK \in BOOLEAN
BY DEF Write

\* The result of a call with a condition.
LEMMA KeyedResult ==
    ASSUME IInv, NEW o \in Objs, NEW me \in {obj[o], KeepWhere(obj[o])}, NEW where,
           Keyed(obj[o])
    PROVE  /\ SetsOther(me, where) \in Result
           /\ SetAll(me, where) \in Result
           /\ Deletes(me, where) \in Result
<1>1. me \in Object
    BY ObjType, KeepWhereObject
<1>. QED
    BY <1>1, ResultsTyped

\* Updates and removals by condition.
LEMMA KeyedWritesKeep ==
    ASSUME IInv, NEW o \in Objs,
           \/ update_col(o) \/ async_update_col(o) \/ replace_col(o)
           \/ update(o) \/ async_update(o) \/ update_field(o) \/ async_update_field(o)
           \/ remove(o) \/ async_remove(o)
    PROVE  IInv'
<1>1. CASE update_col(o)
  <2>. DEFINE f == Write("update_col")
              r == SetsOther(obj[o], Where(obj[o]))
  <2>1. KeyCall(o, f, obj[o], "UPDATE", r)
      BY <1>1 DEF update_col, WithKey, KeyCall
  <2>2. f.error \in BOOLEAN /\ f.setPK \in BOOLEAN
      BY WriteKinds
  <2>3. Keyed(obj[o]) => r \in Result
      BY KeyedResult
  <2>. HIDE DEF f, r
  <2>. QED
      BY <2>1, <2>2, <2>3, KeyCallKeeps
<1>2. CASE async_update_col(o)
  <2>. DEFINE f == Write("update_col")
              r == SetsOther(obj[o], Where(obj[o]))
  <2>1. KeyCall(o, f, obj[o], "UPDATE", r)
      BY <1>2 DEF async_update_col, WithKey, KeyCall
  <2>2. f.error \in BOOLEAN /\ f.setPK \in BOOLEAN
      BY WriteKinds
  <2>3. Keyed(obj[o]) => r \in Result
      BY KeyedResult
  <2>. HIDE DEF f, r
  <2>. QED
      BY <2>1, <2>2, <2>3, KeyCallKeeps
<1>3. CASE replace_col(o)
  <2>. DEFINE f == Write("replace_col")
              r == SetsOther(obj[o], Where(obj[o]))
  <2>1. KeyCall(o, f, obj[o], "UPDATE", r)
      BY <1>3 DEF replace_col, WithKey, KeyCall
  <2>2. f.error \in BOOLEAN /\ f.setPK \in BOOLEAN
      BY WriteKinds
  <2>3. Keyed(obj[o]) => r \in Result
      BY KeyedResult
  <2>. HIDE DEF f, r
  <2>. QED
      BY <2>1, <2>2, <2>3, KeyCallKeeps
<1>4. CASE update_field(o)
  <2>. DEFINE f == Write("update")
              r == SetsOther(KeepWhere(obj[o]), Where(obj[o]))
  <2>1. KeyCall(o, f, KeepWhere(obj[o]), "UPDATE", r)
      BY <1>4 DEF update_field, WithKey, KeyCall
  <2>2. f.error \in BOOLEAN /\ f.setPK \in BOOLEAN
      BY WriteKinds
  <2>3. Keyed(obj[o]) => r \in Result
      BY KeyedResult
  <2>. HIDE DEF f, r
  <2>. QED
      BY <2>1, <2>2, <2>3, KeyCallKeeps
<1>5. CASE async_update_field(o)
  <2>. DEFINE f == [Write("async_update") EXCEPT !.error = TRUE]
              r == SetsOther(KeepWhere(obj[o]), Where(obj[o]))
  <2>1. KeyCall(o, f, KeepWhere(obj[o]), "UPDATE", r)
      BY <1>5 DEF async_update_field, WithKey, KeyCall
  <2>2. f.error \in BOOLEAN /\ f.setPK \in BOOLEAN
      BY WriteKinds
  <2>3. Keyed(obj[o]) => r \in Result
      BY KeyedResult
  <2>. HIDE DEF f, r
  <2>. QED
      BY <2>1, <2>2, <2>3, KeyCallKeeps
<1>6. CASE update(o)
  <2>. DEFINE f == Write("update")
              r == SetAll(KeepWhere(obj[o]), Where(obj[o]))
  <2>1. KeyCall(o, f, KeepWhere(obj[o]), "UPDATE", r)
      BY <1>6 DEF update, WithKey, KeyCall
  <2>2. f.error \in BOOLEAN /\ f.setPK \in BOOLEAN
      BY WriteKinds
  <2>3. Keyed(obj[o]) => r \in Result
      BY KeyedResult
  <2>. HIDE DEF f, r
  <2>. QED
      BY <2>1, <2>2, <2>3, KeyCallKeeps
<1>7. CASE async_update(o)
  <2>. DEFINE f == [Write("async_update") EXCEPT !.error = TRUE]
              r == SetAll(KeepWhere(obj[o]), Where(obj[o]))
  <2>1. KeyCall(o, f, KeepWhere(obj[o]), "UPDATE", r)
      BY <1>7 DEF async_update, WithKey, KeyCall
  <2>2. f.error \in BOOLEAN /\ f.setPK \in BOOLEAN
      BY WriteKinds
  <2>3. Keyed(obj[o]) => r \in Result
      BY KeyedResult
  <2>. HIDE DEF f, r
  <2>. QED
      BY <2>1, <2>2, <2>3, KeyCallKeeps
<1>8. CASE remove(o)
  <2>. DEFINE f == Write("remove")
              r == Deletes(KeepWhere(obj[o]), Where(obj[o]))
  <2>1. KeyCall(o, f, KeepWhere(obj[o]), "DELETE", r)
      BY <1>8 DEF remove, WithKey, KeyCall
  <2>2. f.error \in BOOLEAN /\ f.setPK \in BOOLEAN
      BY WriteKinds
  <2>3. Keyed(obj[o]) => r \in Result
      BY KeyedResult
  <2>. HIDE DEF f, r
  <2>. QED
      BY <2>1, <2>2, <2>3, KeyCallKeeps
<1>9. CASE async_remove(o)
  <2>. DEFINE f == Write("remove")
              r == Deletes(KeepWhere(obj[o]), Where(obj[o]))
  <2>1. KeyCall(o, f, KeepWhere(obj[o]), "DELETE", r)
      BY <1>9 DEF async_remove, WithKey, KeyCall
  <2>2. f.error \in BOOLEAN /\ f.setPK \in BOOLEAN
      BY WriteKinds
  <2>3. Keyed(obj[o]) => r \in Result
      BY KeyedResult
  <2>. HIDE DEF f, r
  <2>. QED
      BY <2>1, <2>2, <2>3, KeyCallKeeps
<1>. QED
    BY <1>1, <1>2, <1>3, <1>4, <1>5, <1>6, <1>7, <1>8, <1>9

\* Inserts of a row, of several and of the object's own.
LEMMA InsertsKeep ==
    ASSUME IInv, NEW o \in Objs,
           \/ \E id \in Ids \cup {0} : insert_data(o, id) \/ async_insert_data(o, id)
           \/ \E S \in Conditions \cup {{}} : insert_vector(o, S) \/ async_insert_vector(o, S)
           \/ insert(o) \/ async_insert(o)
    PROVE  IInv'
<1>1. obj[o] \in Object /\ SameLinks(obj[o], obj[o]) /\ obj[o].data \in Keys
    BY ObjType DEF Object
<1>. DEFINE f == [Write("insert") EXCEPT !.setPK = TRUE]
<1>2. f.error \in BOOLEAN /\ f.setPK \in BOOLEAN
    BY WriteKinds
<1>3. ASSUME NEW id \in Keys, Insert(o, "insert", id)
      PROVE  IInv'
  <2>1. PICK r \in Inserts(id) : EditCall(o, f, obj[o], "INSERT", r)
      BY <1>3 DEF Insert
  <2>2. r \in Result
      BY InsertsTyped
  <2>. HIDE DEF f
  <2>. QED
      BY <1>1, <1>2, <2>1, <2>2, EditCallKeeps
<1>4. ASSUME NEW S \in SUBSET Ids, InsertAll(o, S)
      PROVE  IInv'
  <2>1. EditCall(o, f, obj[o], "INSERT", InsertsAll(S))
      BY <1>4 DEF InsertAll
  <2>2. InsertsAll(S) \in Result
      BY InsertsTyped
  <2>. HIDE DEF f
  <2>. QED
      BY <1>1, <1>2, <2>1, <2>2, EditCallKeeps
<1>5. \A S \in Conditions \cup {{}} : S \in SUBSET Ids
    BY OrmAssumption
<1>. QED
    BY <1>1, <1>3, <1>4, <1>5
    DEF insert_data, async_insert_data, insert_vector, async_insert_vector,
        insert, async_insert, Keys

\* save() updates a row that has a key and inserts one that has none.
LEMMA SaveKeeps ==
    ASSUME IInv, NEW o \in Objs, NEW new \in BOOLEAN, save(o, new) \/ async_save(o, new)
    PROVE  IInv'
<1>. DEFINE g == Write("save")
            h == [Write("save") EXCEPT !.error = TRUE]
            r == SetAll(KeepWhere(obj[o]), Where(obj[o]))
<1>1. /\ g.error \in BOOLEAN /\ g.setPK \in BOOLEAN
      /\ h.error \in BOOLEAN /\ h.setPK \in BOOLEAN
      /\ Keyed(obj[o]) => r \in Result
    BY WriteKinds, KeyedResult
<1>2. \/ KeyCall(o, g, KeepWhere(obj[o]), "UPDATE", r)
      \/ KeyCall(o, h, KeepWhere(obj[o]), "UPDATE", r)
      \/ SaveNew(o, "save")
    BY DEF save, async_save, WithKey, KeyCall
<1>. HIDE DEF g, h, r
<1>4. CASE KeyCall(o, g, KeepWhere(obj[o]), "UPDATE", r)
    BY <1>1, <1>4, KeyCallKeeps
<1>5. CASE KeyCall(o, h, KeepWhere(obj[o]), "UPDATE", r)
    BY <1>1, <1>5, KeyCallKeeps
<1>3. CASE SaveNew(o, "save")
  <2>. DEFINE f == [Write("save") EXCEPT !.setPK = TRUE]
  <2>1. f.error \in BOOLEAN /\ f.setPK \in BOOLEAN
      BY WriteKinds
  <2>2. obj[o] \in Object /\ SameLinks(obj[o], obj[o]) /\ obj[o].data \in Keys
      BY ObjType DEF Object
  <2>3. CASE Returns(o, [obj[o] EXCEPT !.iserror = TRUE], "save")
    <3>1. /\ [obj[o] EXCEPT !.iserror = TRUE] \in Object
          /\ SameLinks([obj[o] EXCEPT !.iserror = TRUE], obj[o])
        BY <2>2, ErrorObject
    <3>. QED
        BY <2>3, <3>1, ReturnsKeeps
  <2>4. ASSUME NEW x \in Inserts(obj[o].data), Exchange(o, f, obj[o], "INSERT", x)
        PROVE  IInv'
    <3>1. x \in Result
        BY <2>2, InsertsTyped
    <3>. HIDE DEF f
    <3>. QED
        BY <2>1, <2>2, <2>4, <3>1, ExchangeKeeps
  <2>. QED
      BY <1>3, <2>3, <2>4 DEF SaveNew
<1>. QED
    BY <1>2, <1>3, <1>4, <1>5

\* Replacing a batch, removing by key, and soft removal.
LEMMA OtherWritesKeep ==
    ASSUME IInv, NEW o \in Objs,
           \/ update_batch(o)
           \/ \E id \in Ids : remove_id(o, id) \/ async_remove_id(o, id)
           \/ soft_remove(o) \/ soft_remove_field(o)
    PROVE  IInv'
<1>1. obj[o] \in Object /\ SameLinks(obj[o], obj[o])
    BY ObjType
<1>2. table \in SUBSET Ids
    BY DEF IInv, TypeInv
<1>3. CASE update_batch(o)
  <2>1. ToSet(obj[o].record) \in SUBSET Ids
      BY <1>1 DEF Object, ToSet
  <2>2. Leaves(table \cup ToSet(obj[o].record)) \in Result /\ Fails \in Result
      BY <1>2, <2>1, ResultsTyped
  <2>3. \/ Returns(o, obj[o], "update_batch")
        \/ \E r \in Result : Attempt(o, Write("update_batch"), obj[o], "REPLACE", r)
      BY <1>3, <2>2 DEF update_batch
  <2>. QED
      BY <1>1, <2>3, WriteKinds, ReturnsKeeps, AttemptKeeps
<1>4. CASE \E id \in Ids : remove_id(o, id) \/ async_remove_id(o, id)
  <2>1. PICK id \in Ids : EditCall(o, Write("remove_id"), obj[o], "DELETE", Leaves(table \ {id}))
      BY <1>4 DEF remove_id, async_remove_id
  <2>2. table \ {id} \in SUBSET Ids
      BY <1>2
  <2>3. Leaves(table \ {id}) \in Result
      BY <2>2, ResultsTyped
  <2>. QED
      BY <1>1, <2>1, <2>3, WriteKinds, EditCallKeeps
<1>5. CASE soft_remove(o) \/ soft_remove_field(o)
  <2>. DEFINE me == IF Keyed(obj[o]) THEN KeepWhere(obj[o]) ELSE obj[o]
  <2>1. me \in Object /\ SameLinks(me, obj[o])
      BY <1>1, KeepWhereObject
  <2>2. Returns(o, me, "soft_remove")
      BY <1>5 DEF soft_remove, soft_remove_field, SoftRemove
  <2>. HIDE DEF me
  <2>. QED
      BY <2>1, <2>2, ReturnsKeeps
<1>. QED
    BY <1>3, <1>4, <1>5

\* Every writing call keeps the invariant.
LEMMA WritesKeep ==
    ASSUME IInv, NEW o \in Objs, Writes(o)
    PROVE  IInv'
BY KeyedWritesKeep, InsertsKeep, SaveKeeps, OtherWritesKeep DEF Writes

-----------------------------------------------------------------------------
(* The other calls.                                                        *)

\* A step that changes none of this.
LEMMA UnchangedKeeps ==
    ASSUME IInv, UNCHANGED <<obj, idle, table, cache, last, ghost, calls>>
    PROVE  IInv'
<1>1. TypeInv'
    BY DEF IInv, TypeInv
<1>2. Contained' /\ CachedIsReply' /\ PageInWindow'
    BY DEF IInv, Contained, MixedUpOnlyAfterLock, CachedIsReply, PageInWindow
<1>. QED
    BY <1>1, <1>2 DEF IInv

\* An entry of a cache goes.
LEMMA expireKeeps ==
    ASSUME IInv, expire
    PROVE  IInv'
<1>1. PICK k \in DOMAIN cache :
        /\ cache' = [j \in DOMAIN cache \ {k} |-> cache[j]]
        /\ UNCHANGED <<obj, idle, table, crashed, last, ghost, calls>>
    BY DEF expire
<1>2. \A key \in DOMAIN cache' : Entry(key, cache'[key])
    BY <1>1 DEF IInv, TypeInv
<1>3. TypeInv'
    BY <1>1, <1>2 DEF IInv, TypeInv
<1>4. Contained' /\ CachedIsReply' /\ PageInWindow'
    BY <1>1 DEF IInv, Contained, MixedUpOnlyAfterLock, CachedIsReply, PageInWindow
<1>. QED
    BY <1>3, <1>4 DEF IInv

\* Calls that change members of the object only.
LEMMA MembersKeep ==
    ASSUME IInv, NEW o \in Objs,
           \/ \E time \in {0, 1} : use_cache(o, time)
           \/ \E both \in BOOLEAN : clear(o, both)
           \/ clearWhere(o)
           \/ \E id \in Ids \cup {0} : set_data(o, id)
           \/ \E S \in Conditions : SetWhere(o, S)
    PROVE  IInv'
<1>1. obj[o] \in Object
    BY ObjType
<1>2. CASE \E time \in {0, 1} : use_cache(o, time)
  <2>1. PICK time \in {0, 1} :
          Returns(o, [obj[o] EXCEPT !.iscache = TRUE, !.exptime = time], "use_cache")
      BY <1>2 DEF use_cache
  <2>2. /\ [obj[o] EXCEPT !.iscache = TRUE, !.exptime = time] \in Object
        /\ SameLinks([obj[o] EXCEPT !.iscache = TRUE, !.exptime = time], obj[o])
    <3>1. time \in Nat
        OBVIOUS
    <3>. QED
        BY <1>1, <3>1 DEF Object, SameLinks
  <2>. QED
      BY <2>1, <2>2, ReturnsKeeps
<1>3. CASE clearWhere(o) \/ \E both \in BOOLEAN : clear(o, both)
  <2>. DEFINE me == [obj[o] EXCEPT !.where = <<>>, !.limit = <<>>, !.iscache = FALSE,
                                   !.iscommit = FALSE, !.iserror = FALSE]
              bare == Empty(me, {"record", "data"})
  <2>1. <<>> \in Seq(SUBSET Ids) /\ <<>> \in Limits
      BY DEF Limits
  <2>2. me \in Object /\ SameLinks(me, obj[o])
      BY <1>1, <2>1 DEF Object, SameLinks
  <2>3. Returns(o, me, "clear") \/ Returns(o, bare, "clear")
      BY <1>3 DEF clear, clearWhere
  <2>. HIDE DEF me
  <2>4. bare \in Object /\ SameLinks(bare, obj[o])
      BY <2>2, EmptyObject DEF SameLinks
  <2>. HIDE DEF bare
  <2>. QED
      BY <2>2, <2>3, <2>4, ReturnsKeeps
<1>4. CASE \E id \in Ids \cup {0} : set_data(o, id)
  <2>1. PICK id \in Keys : Returns(o, [obj[o] EXCEPT !.data = id], "set_data")
      BY <1>4 DEF set_data, Keys
  <2>2. [obj[o] EXCEPT !.data = id] \in Object /\ SameLinks([obj[o] EXCEPT !.data = id], obj[o])
      BY <1>1 DEF Object, SameLinks
  <2>. QED
      BY <2>1, <2>2, ReturnsKeeps
<1>5. CASE \E S \in Conditions : SetWhere(o, S)
  <2>1. PICK S \in Conditions : Returns(o, [obj[o] EXCEPT !.where = <<S>>], "where")
      BY <1>5 DEF SetWhere
  <2>2. S \in SUBSET Ids
      BY OrmAssumption
  <2>3. <<S>> \in Seq(SUBSET Ids)
      BY <2>2
  <2>4. /\ [obj[o] EXCEPT !.where = <<S>>] \in Object
        /\ SameLinks([obj[o] EXCEPT !.where = <<S>>], obj[o])
      BY <1>1, <2>3 DEF Object, SameLinks
  <2>. QED
      BY <2>1, <2>4, ReturnsKeeps
<1>. QED
    BY <1>2, <1>3, <1>4, <1>5

\* begin_commit, rollback and commit of an object without a pool: its edit_conn
\* was left to it by an exception or by a lock.
LEMMA UnansweredKeeps ==
    ASSUME IInv, NEW o \in Objs, obj[o].conn["edit"] # "null",
           NEW me \in Object, me.conn = obj[o].conn, NEW op, NEW tables \in SUBSET SUBSET Ids,
           Unanswered(o, me, op, tables)
    PROVE  IInv'
<1>1. PICK sent \in BOOLEAN :
        /\ Called(o, [me EXCEPT !.conn["edit"] = IF sent THEN "unread" ELSE @], op,
                  IF sent THEN "TRANSACTION" ELSE "none")
        /\ table' \in IF sent THEN tables ELSE {table}
        /\ ghost' = [ghost EXCEPT !.unread = @ \/ sent, !.begun = TRUE]
        /\ idle' = idle /\ cache' = cache
    BY DEF Unanswered
<1>. DEFINE c == IF sent THEN "unread" ELSE me.conn["edit"]
            new == [me EXCEPT !.conn["edit"] = c]
            verb == IF sent THEN "TRANSACTION" ELSE "none"
<1>2. "edit" \in Sides /\ c \in Links
    BY DEF Sides, Links, Object
<1>3. Called(o, new, op, verb)
    BY <1>1
<1>4. /\ ghost' \in Ghosts
      /\ ghost'.unread = (ghost.unread \/ sent) /\ ghost'.locked = ghost.locked
      /\ ghost'.begun = TRUE
      /\ ghost'.misread = ghost.misread /\ ghost'.wrongly = ghost.wrongly
    BY <1>1 DEF IInv, TypeInv
<1>5. \A s \in Sides : LinkOK(me.conn[s], ghost)
    BY DEF IInv, Contained
<1>6. Holding(ghost) /\ LinkOK(c, ghost')
    BY <1>2, <1>4, <1>5
<1>. HIDE DEF c
<1>7. /\ new \in Object /\ new.conn["edit"] = c
      /\ \A s \in Sides : s # "edit" => new.conn[s] = me.conn[s]
    BY <1>2, LinkObject
<1>. HIDE DEF new, verb
<1>8. \A s \in Sides : LinkOK(new.conn[s], ghost')
    BY <1>4, <1>5, <1>6, <1>7
<1>9. MixedUpOnlyAfterLock' /\ CachedIsReply'
    BY <1>4 DEF IInv, Contained, MixedUpOnlyAfterLock, CachedIsReply
<1>10. /\ idle' \in [Sides -> BOOLEAN] /\ table' \in SUBSET Ids
       /\ \A key \in DOMAIN cache' : Entry(key, cache'[key])
    BY <1>1 DEF IInv, TypeInv
<1>11. \A s \in Sides : idle'[s] => ghost'.unread /\ Locking(ghost')
    BY <1>1, <1>4 DEF IInv, Contained
<1>12. Holding(ghost') /\ Locking(ghost')
    BY <1>4, <1>6
<1>. QED
    BY <1>3, <1>4, <1>7, <1>8, <1>9, <1>10, <1>11, <1>12, CalledKeeps

\* begin_commit.
LEMMA BeginCommitKeeps ==
    ASSUME IInv, NEW o \in Objs, BeginCommit(o)
    PROVE  IInv'
<1>1. obj[o] \in Object /\ SameLinks(obj[o], obj[o])
    BY ObjType
<1>2. ASSUME NEW thrown \in BOOLEAN, obj[o].conn["edit"] # "null",
             Unanswered(o, [obj[o] EXCEPT !.iserror = TRUE, !.islock = TRUE,
                                          !.iscommit = @ \/ ~thrown],
                        "begin_commit", SUBSET Ids)
      PROVE  IInv'
  <2>. DEFINE me == [obj[o] EXCEPT !.iserror = TRUE, !.islock = TRUE, !.iscommit = @ \/ ~thrown]
  <2>1. me \in Object /\ me.conn = obj[o].conn
      BY <1>1 DEF Object
  <2>2. SUBSET Ids \in SUBSET SUBSET Ids
      OBVIOUS
  <2>. HIDE DEF me
  <2>. QED
      BY <1>2, <2>1, <2>2, UnansweredKeeps DEF me
<1>3. CASE Crash
    BY <1>3, UnchangedKeeps DEF Crash
<1>4. CASE Returns(o, obj[o], "begin_commit")
    BY <1>1, <1>4, ReturnsKeeps
<1>. QED
    BY <1>2, <1>3, <1>4 DEF BeginCommit

\* rollback and commit.
LEMMA EndCommitKeeps ==
    ASSUME IInv, NEW o \in Objs, NEW op, NEW tables \in SUBSET SUBSET Ids,
           EndCommit(o, op, tables)
    PROVE  IInv'
<1>. DEFINE error == [obj[o] EXCEPT !.iserror = TRUE]
<1>1. obj[o] \in Object /\ SameLinks(obj[o], obj[o])
    BY ObjType
<1>2. error \in Object /\ SameLinks(error, obj[o])
    BY <1>1, ErrorObject
<1>3. \/ Returns(o, error, op)
      \/ Returns(o, obj[o], op)
      \/ Crash
      \/ /\ obj[o].conn["edit"] # "null"
         /\ \E thrown \in BOOLEAN :
              Unanswered(o, [error EXCEPT !.islock = thrown, !.iscommit = thrown], op, tables)
    BY DEF EndCommit
<1>. HIDE DEF error
<1>4. ASSUME NEW thrown \in BOOLEAN, obj[o].conn["edit"] # "null",
             Unanswered(o, [error EXCEPT !.islock = thrown, !.iscommit = thrown], op, tables)
      PROVE  IInv'
  <2>. DEFINE me == [error EXCEPT !.islock = thrown, !.iscommit = thrown]
  <2>1. me \in Object /\ me.conn = obj[o].conn
      BY <1>2 DEF Object, SameLinks
  <2>. HIDE DEF me
  <2>. QED
      BY <1>4, <2>1, UnansweredKeeps DEF me
<1>5. CASE Crash
    BY <1>5, UnchangedKeeps DEF Crash
<1>. QED
    BY <1>1, <1>2, <1>3, <1>4, <1>5, ReturnsKeeps

\* Transactions and a change of the database.
LEMMA CommitKeeps ==
    ASSUME IInv, NEW o \in Objs,
           \/ begin_commit(o) \/ async_begin_commit(o) \/ rollback(o) \/ async_rollback(o)
           \/ commit(o) \/ async_commit(o) \/ switchDB(o)
    PROVE  IInv'
<1>1. obj[o] \in Object /\ SameLinks(obj[o], obj[o])
    BY ObjType
<1>2. {table} \in SUBSET SUBSET Ids /\ SUBSET Ids \in SUBSET SUBSET Ids
    BY DEF IInv, TypeInv
<1>3. CASE BeginCommit(o)
    BY <1>3, BeginCommitKeeps
<1>4. CASE EndCommit(o, "rollback", {table}) \/ EndCommit(o, "commit", SUBSET Ids)
    BY <1>2, <1>4, EndCommitKeeps
<1>5. CASE switchDB(o)
  <2>1. ASSUME NEW found \in BOOLEAN,
               Returns(o, [obj[o] EXCEPT !.pool = found, !.iserror = @ \/ ~found], "switchDB")
        PROVE  IInv'
    <3>. DEFINE new == [obj[o] EXCEPT !.pool = found, !.iserror = @ \/ ~found]
    <3>1. new \in Object /\ SameLinks(new, obj[o])
        BY <1>1 DEF Object, SameLinks
    <3>. HIDE DEF new
    <3>. QED
        BY <2>1, <3>1, ReturnsKeeps DEF new
  <2>. QED
      BY <1>5, <2>1, UnchangedKeeps DEF switchDB, Crash
<1>. QED
    BY <1>3, <1>4, <1>5 DEF begin_commit, async_begin_commit, rollback, async_rollback,
                            commit, async_commit

\* A program that locks is remembered.
LEMMA lock_connKeeps ==
    ASSUME IInv, NEW o \in Objs, lock_conn(o)
    PROVE  IInv'
<1>. DEFINE me == [obj[o] EXCEPT !.islock = TRUE]
<1>1. /\ Called(o, me, "lock_conn", "none")
      /\ ghost' = [ghost EXCEPT !.locked = TRUE]
      /\ idle' = idle /\ table' = table /\ cache' = cache
    BY DEF lock_conn
<1>2. me \in Object /\ me.conn = obj[o].conn
    BY ObjType DEF Object
<1>3. /\ ghost' \in Ghosts
      /\ ghost'.unread = ghost.unread /\ ghost'.locked = TRUE /\ ghost'.begun = ghost.begun
      /\ ghost'.misread = ghost.misread /\ ghost'.wrongly = ghost.wrongly
    BY <1>1 DEF IInv, TypeInv
<1>4. MixedUpOnlyAfterLock' /\ CachedIsReply'
    BY <1>3 DEF IInv, Contained, MixedUpOnlyAfterLock, CachedIsReply
<1>. HIDE DEF me
<1>5. /\ \A s \in Sides : LinkOK(me.conn[s], ghost')
      /\ \A s \in Sides : idle'[s] => ghost'.unread /\ Locking(ghost')
    BY <1>1, <1>2, <1>3 DEF IInv, Contained
<1>6. /\ idle' \in [Sides -> BOOLEAN] /\ table' \in SUBSET Ids
      /\ \A key \in DOMAIN cache' : Entry(key, cache'[key])
    BY <1>1 DEF IInv, TypeInv
<1>. QED
    BY <1>1, <1>2, <1>3, <1>4, <1>5, <1>6, CalledKeeps

\* Unlocking gives a connection to the pool, also one with an unread reply.
LEMMA unlock_connKeeps ==
    ASSUME IInv, NEW o \in Objs, unlock_conn(o)
    PROVE  IInv'
<1>. DEFINE free == [obj[o] EXCEPT !.islock = FALSE]
            nulls == [s \in Sides |-> "null"]
            me == IF free.pool THEN [free EXCEPT !.conn = nulls] ELSE free
<1>1. /\ Called(o, me, "unlock_conn", "none")
      /\ idle' = [s \in Sides |-> idle[s] \/ (free.pool /\ free.conn[s] = "unread")]
      /\ ghost' = [ghost EXCEPT !.locked = TRUE]
      /\ table' = table /\ cache' = cache
    BY DEF unlock_conn
<1>2. obj[o] \in Object
    BY ObjType
<1>3. free \in Object /\ free.conn = obj[o].conn /\ ~free.islock
    BY <1>2 DEF Object
<1>4. nulls \in [Sides -> Links] /\ \A s \in Sides : nulls[s] = "null"
    BY DEF Links
<1>. HIDE DEF free, nulls
<1>5. me \in Object /\ me.conn \in {free.conn, nulls} /\ ~me.islock
    BY <1>3, <1>4 DEF Object
<1>. HIDE DEF me
<1>6. /\ ghost' \in Ghosts
      /\ ghost'.unread = ghost.unread /\ ghost'.locked = TRUE /\ ghost'.begun = ghost.begun
      /\ ghost'.misread = ghost.misread /\ ghost'.wrongly = ghost.wrongly
    BY <1>1 DEF IInv, TypeInv
<1>7. MixedUpOnlyAfterLock' /\ CachedIsReply'
    BY <1>6 DEF IInv, Contained, MixedUpOnlyAfterLock, CachedIsReply
<1>8. \A s \in Sides : LinkOK(me.conn[s], ghost')
    BY <1>3, <1>4, <1>5, <1>6 DEF IInv, Contained
<1>9. /\ idle' \in [Sides -> BOOLEAN]
      /\ \A s \in Sides : idle'[s] => ghost'.unread /\ Locking(ghost')
  <2>1. \A s \in Sides : idle[s] \in BOOLEAN /\ (free.pool /\ free.conn[s] = "unread") \in BOOLEAN
      BY <1>3 DEF IInv, TypeInv, Object
  <2>2. idle' \in [Sides -> BOOLEAN]
      BY <1>1, <2>1
  <2>3. \A s \in Sides : idle'[s] => idle[s] \/ free.conn[s] = "unread"
      BY <1>1
  <2>. QED
      BY <1>3, <1>6, <2>2, <2>3 DEF IInv, Contained
<1>10. /\ table' \in SUBSET Ids
       /\ \A key \in DOMAIN cache' : Entry(key, cache'[key])
    BY <1>1 DEF IInv, TypeInv
<1>. QED
    BY <1>1, <1>5, <1>6, <1>7, <1>8, <1>9, <1>10, CalledKeeps

\* clear_cache empties the cache of single rows.
LEMMA clear_cacheKeeps ==
    ASSUME IInv, NEW o \in Objs, clear_cache(o)
    PROVE  IInv'
<1>1. /\ Called(o, obj[o], "clear_cache", "none")
      /\ cache' = [k \in {k \in DOMAIN cache : k[1] # "data"} |-> cache[k]]
      /\ idle' = idle /\ table' = table /\ ghost' = ghost
    BY DEF clear_cache
<1>2. \A key \in DOMAIN cache' : Entry(key, cache'[key])
    BY <1>1 DEF IInv, TypeInv
<1>3. MixedUpOnlyAfterLock' /\ CachedIsReply'
    BY <1>1 DEF IInv, Contained, MixedUpOnlyAfterLock, CachedIsReply
<1>4. /\ obj[o].islock => Locking(ghost')
      /\ \A s \in Sides : LinkOK(obj[o].conn[s], ghost')
      /\ \A s \in Sides : idle'[s] => ghost'.unread /\ Locking(ghost')
    BY <1>1 DEF IInv, Contained
<1>5. obj[o] \in Object
    BY ObjType
<1>6. /\ idle' \in [Sides -> BOOLEAN] /\ table' \in SUBSET Ids
      /\ ghost' \in Ghosts
    BY <1>1 DEF IInv, TypeInv
<1>7. ghost'.unread = ghost.unread /\ ghost'.locked = ghost.locked /\ ghost'.begun = ghost.begun
    BY <1>1
<1>. QED
    BY <1>1, <1>2, <1>3, <1>4, <1>5, <1>6, <1>7, CalledKeeps

\* Every other call keeps the invariant.
LEMMA OthersKeep ==
    ASSUME IInv, NEW o \in Objs, Others(o)
    PROVE  IInv'
BY CommitKeeps, lock_connKeeps, unlock_connKeeps, MembersKeep, clear_cacheKeeps DEF Others

-----------------------------------------------------------------------------
(* Theorems.                                                               *)

\* The program starts without unread replies and cache entries.
LEMMA InitInv == Init => IInv
<1>. SUFFICES ASSUME Init PROVE IInv
    OBVIOUS
<1>1. PICK has \in [Objs -> BOOLEAN] : obj = [o \in Objs |-> NewObj(has[o])]
    BY DEF Init
<1>2. <<>> \in Seq(SUBSET Ids) /\ <<>> \in Seq(Ids) /\ <<>> \in Limits /\ 0 \in Keys
    BY DEF Limits, Keys
<1>3. \A pool \in BOOLEAN : NewObj(pool) \in Object
    BY <1>2 DEF NewObj, Object, Links
<1>4. \A o \in Objs : obj[o] = NewObj(has[o]) /\ has[o] \in BOOLEAN
    BY <1>1
<1>5. obj \in [Objs -> Object]
    BY <1>1, <1>3
<1>6. \A o \in Objs : obj[o].islock = FALSE /\ obj[o].conn = [s \in Sides |-> "null"]
  <2>1. \A pool : NewObj(pool).islock = FALSE /\ NewObj(pool).conn = [s \in Sides |-> "null"]
      BY DEF NewObj
  <2>. QED
      BY <1>4, <2>1
<1>7. TypeInv
    BY <1>5, OrmAssumption DEF Init, TypeInv
<1>8. Contained
    BY <1>6 DEF Init, Contained, MixedUpOnlyAfterLock
<1>9. CachedIsReply /\ PageInWindow
    BY DEF Init, CachedIsReply, PageInWindow
<1>. QED
    BY <1>7, <1>8, <1>9 DEF IInv

\* Every step keeps the invariant.
LEMMA NextInv == IInv /\ [Next]_vars => IInv'
<1>. SUFFICES ASSUME IInv, [Next]_vars PROVE IInv'
    OBVIOUS
<1>1. CASE UNCHANGED vars
    BY <1>1, UnchangedKeeps DEF vars
<1>2. CASE Next
    BY <1>2, expireKeeps, ReadsKeep, WritesKeep, OthersKeep DEF Next
<1>. QED
    BY <1>1, <1>2

\* The inductive invariant holds in every behaviour.
THEOREM Invariance == Spec => []IInv
BY InitInv, NextInv, PTL DEF Spec

\* A connection whose reply nobody read is used again only by programs that lock
\* or unlock their objects, or once begin_commit has locked one that lost its
\* pool, however the calls of any number of objects fail.
THEOREM RepliesNotMixedUp == Spec => []MixedUpOnlyAfterLock
<1>1. IInv => MixedUpOnlyAfterLock
    BY DEF IInv, Contained
<1>. QED
    BY <1>1, Invariance, PTL

\* The caches hold replies, but for what fetch_obj and fetch_one with isappend
\* store there.
THEOREM CacheHoldsReplies == Spec => []CachedIsReply
<1>1. IInv => CachedIsReply
    BY DEF IInv
<1>. QED
    BY <1>1, Invariance, PTL

\* page() returns a window of the right width that holds the page, for all
\* arguments and all numbers of rows.
THEOREM WindowIsRight == Spec => []PageInWindow
<1>1. IInv => PageInWindow
    BY DEF IInv
<1>. QED
    BY <1>1, Invariance, PTL

-----------------------------------------------------------------------------
(* Silence after an error.                                                 *)

QuietCall(o) ==
    /\ last'.by = o
    /\ obj[o].iserror => \/ last'.sent \in {"nothing", "insert by save"}
                         \/ /\ last'.sent = "transaction" /\ ~obj[o].pool
                            /\ ghost.unread \/ ghost.locked

\* A call is quiet if its object was not in error, it sent nothing, or it is the
\* insert of save().
LEMMA CalledQuiet ==
    ASSUME NEW o, NEW me, NEW op, NEW verb, Called(o, me, op, verb),
           \/ ~obj[o].iserror
           \/ verb = "none"
           \/ verb = "INSERT" /\ op = "save"
    PROVE  QuietCall(o)
<1>1. last'.by = o /\ last'.sent = Sent(op, verb)
    BY DEF Called
<1>2. verb = "none" => Sent(op, verb) = "nothing"
    BY DEF Sent
<1>3. verb = "INSERT" /\ op = "save" => Sent(op, verb) = "insert by save"
    BY DEF Sent
<1>. QED
    BY <1>1, <1>2, <1>3 DEF QuietCall

\* A call that returns early has sent nothing.
LEMMA ReturnsQuiet ==
    ASSUME NEW o, NEW me, NEW op, Returns(o, me, op)
    PROVE  QuietCall(o)
BY CalledQuiet DEF Returns

\* Nor has one without a pool.
LEMMA RefusedQuiet ==
    ASSUME NEW o, NEW me, NEW op, Refused(o, me, op)
    PROVE  QuietCall(o)
BY ReturnsQuiet DEF Refused

\* Nor has one whose statement could not be sent.
LEMMA NotSentQuiet ==
    ASSUME NEW o, NEW me, NEW op, NEW side, NotSent(o, me, op, side)
    PROVE  QuietCall(o)
BY CalledQuiet, ReturnsQuiet DEF NotSent

\* A call that throws was made by an object without error, or is that insert.
LEMMA ThrownQuiet ==
    ASSUME NEW o, NEW me, NEW op, NEW verb, NEW side, NEW result,
           Thrown(o, me, op, verb, side, result),
           ~obj[o].iserror \/ (verb = "INSERT" /\ op = "save")
    PROVE  QuietCall(o)
BY CalledQuiet DEF Thrown

\* The fetches look at the error flag before they send.
LEMMA SelectCallQuiet ==
    ASSUME IInv, NEW o \in Objs, NEW f, NEW q, SelectCall(o, f, q)
    PROVE  QuietCall(o)
<1>. DEFINE what == f.resets \cup (IF f.looks /\ obj[o].iscache THEN {f.store} ELSE {})
            me == Empty(obj[o], what)
<1>1. me.iserror = obj[o].iserror
  <2>. HIDE DEF what
  <2>. QED
      BY ObjType, EmptyObject DEF SameFlags
<1>2. \/ \E new : Returns(o, new, f.op)
      \/ Refused(o, me, f.op)
      \/ NotSent(o, me, f.op, "select")
      \/ Ready(me) /\ Thrown(o, me, f.op, "SELECT", "select", table)
      \/ Ready(me) /\ \E got, rows : Read(o, f, q, me, got, rows) \/ ReadFails(o, f, q, me, got, rows)
    BY DEF SelectCall
<1>. HIDE DEF me
<1>3. ASSUME Ready(me), NEW got, NEW rows, Read(o, f, q, me, got, rows)
      PROVE  QuietCall(o)
  <2>1. \E new : Called(o, new, f.op, "SELECT")
      BY <1>3 DEF Read
  <2>. QED
      BY <1>1, <1>3, <2>1, CalledQuiet DEF Ready
<1>4. ASSUME Ready(me), NEW got, NEW rows, ReadFails(o, f, q, me, got, rows)
      PROVE  QuietCall(o)
  <2>1. \E new : Called(o, new, f.op, "SELECT")
      BY <1>4 DEF ReadFails
  <2>. QED
      BY <1>1, <1>4, <2>1, CalledQuiet DEF Ready
<1>5. CASE Ready(me) /\ Thrown(o, me, f.op, "SELECT", "select", table)
    BY <1>1, <1>5, ThrownQuiet DEF Ready
<1>. QED
    BY <1>2, <1>3, <1>4, <1>5, ReturnsQuiet, RefusedQuiet, NotSentQuiet

\* So does count().
LEMMA CountsQuiet ==
    ASSUME NEW o, NEW x \in Counts(o), obj[o].iserror
    PROVE  x.verb = "none"
BY DEF Counts, Counted

\* All reading calls are quiet.
LEMMA ReadsQuiet ==
    ASSUME IInv, NEW o \in Objs, Reads(o)
    PROVE  QuietCall(o)
<1>1. CASE fetch_obj(o) \/ fetch_row(o) \/ fetch(o) \/ async_fetch(o)
           \/ fetch_append(o) \/ async_fetch_append(o)
           \/ fetch_json(o) \/ async_fetch_json(o)
    BY <1>1, SelectCallQuiet, ReturnsQuiet
    DEF fetch_obj, fetch_row, fetch, async_fetch, fetch_append, async_fetch_append,
        fetch_json, async_fetch_json
<1>2. CASE \E b \in BOOLEAN : fetch_one(o, b) \/ async_fetch_one(o, b)
    BY <1>2, SelectCallQuiet DEF fetch_one, async_fetch_one
<1>3. CASE \E id \in Ids : get_one(o, id) \/ async_get_one(o, id)
    BY <1>3, SelectCallQuiet DEF get_one, async_get_one
<1>4. CASE \E S \in Conditions : query(o, S) \/ async_query(o, S)
    BY <1>4, SelectCallQuiet, ReturnsQuiet DEF query, async_query
<1>5. CASE count(o) \/ async_count(o)
  <2>1. PICK x \in Counts(o) : Called(o, x.me, "count", x.verb)
      BY <1>5 DEF count, async_count, CountStep
  <2>. QED
      BY <2>1, CountsQuiet, CalledQuiet
<1>6. CASE \E p \in Pages, per \in PerPages, n \in ListNums : page(o, p, per, n)
  <2>1. PICK x \in Counts(o) : last'.by = o /\ last'.sent = Sent("page", x.verb)
    <3>1. PICK p \in Pages, per \in PerPages, n \in ListNums : PageStep(o, p, per, n)
        BY <1>6 DEF page
    <3>2. PICK x \in Counts(o) :
            last' = [by |-> o, sent |-> Sent("page", x.verb), window |-> Window(x.n, p, per, n)]
        BY <3>1 DEF PageStep
    <3>. QED
        BY <3>2
  <2>2. Sent("page", "none") = "nothing"
      BY DEF Sent
  <2>. QED
      BY <2>1, <2>2, CountsQuiet DEF QuietCall
<1>. QED
    BY <1>1, <1>2, <1>3, <1>4, <1>5, <1>6 DEF Reads

\* A statement that writes is quiet under the same conditions.
LEMMA ExchangeQuiet ==
    ASSUME NEW o, NEW f, NEW me, NEW verb, NEW r, Exchange(o, f, me, verb, r),
           ~obj[o].iserror \/ (verb = "INSERT" /\ f.op = "save")
    PROVE  QuietCall(o)
<1>1. \/ NotSent(o, me, f.op, "edit")
      \/ Thrown(o, me, f.op, verb, "edit", r.table)
      \/ \E new : Called(o, new, f.op, verb)
    BY DEF Exchange
<1>. QED
    BY <1>1, NotSentQuiet, ThrownQuiet, CalledQuiet

\* The writing calls look at the error flag before they send.
LEMMA EditCallQuiet ==
    ASSUME NEW o, NEW f, NEW me, NEW verb, NEW r, EditCall(o, f, me, verb, r),
           me.iserror = obj[o].iserror
    PROVE  QuietCall(o)
BY ReturnsQuiet, RefusedQuiet, ExchangeQuiet DEF EditCall, Attempt, Ready

\* Those with a condition too.
LEMMA KeyCallQuiet ==
    ASSUME IInv, NEW o \in Objs, NEW f, NEW me \in {obj[o], KeepWhere(obj[o])}, NEW verb, NEW r,
           KeyCall(o, f, me, verb, r)
    PROVE  QuietCall(o)
<1>1. KeepWhere(obj[o]).iserror = obj[o].iserror
    BY ObjType DEF KeepWhere, Object
<1>. QED
    BY <1>1, ReturnsQuiet, EditCallQuiet DEF KeyCall

\* save() does so for its update only.
LEMMA SaveQuiet ==
    ASSUME IInv, NEW o \in Objs, NEW new \in BOOLEAN, save(o, new) \/ async_save(o, new)
    PROVE  QuietCall(o)
<1>1. \/ \E f, r : KeyCall(o, f, KeepWhere(obj[o]), "UPDATE", r)
      \/ SaveNew(o, "save")
  <2>. DEFINE r == SetAll(KeepWhere(obj[o]), Where(obj[o]))
  <2>1. \/ KeyCall(o, Write("save"), KeepWhere(obj[o]), "UPDATE", r)
        \/ KeyCall(o, [Write("save") EXCEPT !.error = TRUE], KeepWhere(obj[o]), "UPDATE", r)
        \/ SaveNew(o, "save")
      BY DEF save, async_save, WithKey, KeyCall
  <2>. HIDE DEF r
  <2>. QED
      BY <2>1
<1>2. CASE SaveNew(o, "save")
  <2>. DEFINE f == [Write("save") EXCEPT !.setPK = TRUE]
  <2>1. f.op = "save"
      BY DEF Write
  <2>2. \/ Returns(o, [obj[o] EXCEPT !.iserror = TRUE], "save")
        \/ \E r : Exchange(o, f, obj[o], "INSERT", r)
      BY <1>2 DEF SaveNew
  <2>. HIDE DEF f
  <2>. QED
      BY <2>1, <2>2, ReturnsQuiet, ExchangeQuiet
<1>. QED
    BY <1>1, <1>2, KeyCallQuiet

\* All writing calls are quiet.
LEMMA WritesQuiet ==
    ASSUME IInv, NEW o \in Objs, Writes(o)
    PROVE  QuietCall(o)
<1>1. CASE \/ update_col(o) \/ async_update_col(o) \/ replace_col(o)
           \/ update(o) \/ async_update(o) \/ update_field(o) \/ async_update_field(o)
           \/ remove(o) \/ async_remove(o)
  <2>1. \E f, verb, r : \/ KeyCall(o, f, obj[o], verb, r)
                        \/ KeyCall(o, f, KeepWhere(obj[o]), verb, r)
    <3>. DEFINE mine == KeepWhere(obj[o])
                where == Where(obj[o])
                late == [Write("async_update") EXCEPT !.error = TRUE]
    <3>1. CASE update_col(o) \/ async_update_col(o)
      <4>1. KeyCall(o, Write("update_col"), obj[o], "UPDATE", SetsOther(obj[o], where))
          BY <3>1 DEF update_col, async_update_col, WithKey, KeyCall
      <4>. QED
          BY <4>1
    <3>2. CASE replace_col(o)
      <4>1. KeyCall(o, Write("replace_col"), obj[o], "UPDATE", SetsOther(obj[o], where))
          BY <3>2 DEF replace_col, WithKey, KeyCall
      <4>. QED
          BY <4>1
    <3>3. CASE update(o)
      <4>1. KeyCall(o, Write("update"), mine, "UPDATE", SetAll(mine, where))
          BY <3>3 DEF update, WithKey, KeyCall
      <4>. QED
          BY <4>1
    <3>4. CASE async_update(o)
      <4>1. KeyCall(o, late, mine, "UPDATE", SetAll(mine, where))
          BY <3>4 DEF async_update, WithKey, KeyCall
      <4>. QED
          BY <4>1
    <3>5. CASE update_field(o)
      <4>1. KeyCall(o, Write("update"), mine, "UPDATE", SetsOther(mine, where))
          BY <3>5 DEF update_field, WithKey, KeyCall
      <4>. QED
          BY <4>1
    <3>6. CASE async_update_field(o)
      <4>1. KeyCall(o, late, mine, "UPDATE", SetsOther(mine, where))
          BY <3>6 DEF async_update_field, WithKey, KeyCall
      <4>. QED
          BY <4>1
    <3>7. CASE remove(o) \/ async_remove(o)
      <4>1. KeyCall(o, Write("remove"), mine, "DELETE", Deletes(mine, where))
          BY <3>7 DEF remove, async_remove, WithKey, KeyCall
      <4>. QED
          BY <4>1
    <3>. QED
        BY <1>1, <3>1, <3>2, <3>3, <3>4, <3>5, <3>6, <3>7
  <2>. QED
      BY <2>1, KeyCallQuiet
<1>2. CASE update_batch(o)
    BY <1>2, ReturnsQuiet, RefusedQuiet, ExchangeQuiet DEF update_batch, Attempt, Ready
<1>3. CASE \E id \in Ids : remove_id(o, id) \/ async_remove_id(o, id)
    BY <1>3, EditCallQuiet DEF remove_id, async_remove_id
<1>4. CASE soft_remove(o) \/ soft_remove_field(o)
    BY <1>4, ReturnsQuiet DEF soft_remove, soft_remove_field, SoftRemove
<1>5. CASE \E id \in Ids \cup {0} : insert_data(o, id) \/ async_insert_data(o, id)
    BY <1>5, EditCallQuiet DEF insert_data, async_insert_data, Insert
<1>6. CASE \E S \in Conditions \cup {{}} : insert_vector(o, S) \/ async_insert_vector(o, S)
    BY <1>6, EditCallQuiet DEF insert_vector, async_insert_vector, InsertAll
<1>7. CASE insert(o) \/ async_insert(o)
    BY <1>7, EditCallQuiet DEF insert, async_insert, Insert
<1>8. CASE \E new \in BOOLEAN : save(o, new) \/ async_save(o, new)
    BY <1>8, SaveQuiet
<1>. QED
    BY <1>1, <1>2, <1>3, <1>4, <1>5, <1>6, <1>7, <1>8 DEF Writes

\* A call of begin_commit, rollback or commit that sends: the object had lost its
\* pool but kept a connection.
LEMMA UnansweredQuiet ==
    ASSUME IInv, NEW o \in Objs, ~obj[o].pool, obj[o].conn["edit"] # "null",
           NEW me, NEW op, NEW tables, Unanswered(o, me, op, tables)
    PROVE  QuietCall(o)
<1>1. ghost.unread \/ ghost.locked
    BY DEF IInv, Contained, Sides
<1>2. \E new : Called(o, new, op, "TRANSACTION") \/ Called(o, new, op, "none")
    BY DEF Unanswered
<1>3. \A new : Called(o, new, op, "TRANSACTION") => last'.by = o /\ last'.sent = "transaction"
    BY DEF Called, Sent
<1>. QED
    BY <1>1, <1>2, <1>3, CalledQuiet DEF QuietCall

\* The other calls send nothing but those, or are not calls of an object.
LEMMA OthersQuiet ==
    ASSUME IInv, NEW o \in Objs, Others(o)
    PROVE  QuietCall(o) \/ calls' = calls
<1>1. CASE lock_conn(o) \/ unlock_conn(o) \/ clear_cache(o)
  <2>1. \E me, op : Called(o, me, op, "none")
      BY <1>1 DEF lock_conn, unlock_conn, clear_cache
  <2>. QED
      BY <2>1, CalledQuiet
<1>2. CASE \/ \E time \in {0, 1} : use_cache(o, time)
           \/ \E both \in BOOLEAN : clear(o, both)
           \/ clearWhere(o)
           \/ \E id \in Ids \cup {0} : set_data(o, id)
           \/ switchDB(o)
           \/ \E S \in Conditions : SetWhere(o, S)
  <2>1. (\E me, op : Returns(o, me, op)) \/ calls' = calls
      BY <1>2 DEF use_cache, clear, clearWhere, set_data, switchDB, SetWhere, Crash
  <2>. QED
      BY <2>1, ReturnsQuiet
<1>3. CASE BeginCommit(o)
    BY <1>3, ReturnsQuiet, UnansweredQuiet DEF BeginCommit, Crash
<1>4. ASSUME NEW op, NEW tables, EndCommit(o, op, tables)
      PROVE  QuietCall(o) \/ calls' = calls
    BY <1>4, ReturnsQuiet, UnansweredQuiet DEF EndCommit, Crash
<1>. QED
    BY <1>1, <1>2, <1>3, <1>4 DEF Others, begin_commit, async_begin_commit, rollback,
       async_rollback, commit, async_commit

\* Every step is silent after an error.
LEMMA NextSilent ==
    ASSUME IInv, [Next]_vars, NEW o \in Objs, calls' > calls, last'.by = o, obj[o].iserror
    PROVE  \/ last'.sent \in {"nothing", "insert by save"}
           \/ /\ last'.sent = "transaction" /\ ~obj[o].pool
              /\ ghost.unread \/ ghost.locked
<1>1. calls \in Nat /\ calls' # calls
    BY DEF IInv, TypeInv
<1>2. Next /\ ~expire
    BY <1>1 DEF vars, expire
<1>3. PICK p \in Objs : Reads(p) \/ Writes(p) \/ Others(p)
    BY <1>2 DEF Next
<1>4. QuietCall(p)
    BY <1>1, <1>3, ReadsQuiet, WritesQuiet, OthersQuiet
<1>. QED
    BY <1>4 DEF QuietCall

\* After an error no call of the object sends a statement until it is cleared,
\* but for the insert of save() and for the transactions of an object that lost
\* its pool and kept a connection, which only an exception or a lock leaves to it.
THEOREM ErrorsSilence == Spec => SilentAfterError
<1>1. IInv /\ [Next]_vars =>
        [\A o \in Objs : calls' > calls /\ last'.by = o /\ obj[o].iserror
             => \/ last'.sent \in {"nothing", "insert by save"}
                \/ /\ last'.sent = "transaction" /\ ~obj[o].pool
                   /\ ghost.unread \/ ghost.locked]_vars
    BY NextSilent
<1>. QED
    BY <1>1, Invariance, PTL DEF Spec, SilentAfterError

=============================================================================
