----------------------------- MODULE PaozhuOrm -----------------------------
(***************************************************************************)
(* The operations of paozhu's ORM (orm/include/world_mysql.h): an object   *)
(* of a model class keeps the conditions of its next statement, the rows   *)
(* of its last one, its error and cache flags and up to two connections.   *)
(* Objects share the connection pool, the result caches and the table.     *)
(*                                                                         *)
(* A row is its key: the other columns play no part in the properties      *)
(* here.  A call is one step: what it shares with other calls is one       *)
(* statement, and the connection for it is nobody else's.  The functions   *)
(* come in pairs, plain and async_; where both do the same to the object   *)
(* they still are two actions.  async_page assigns an awaitable to a       *)
(* number, so no program that calls it compiles: it is left out.           *)
(***************************************************************************)
EXTENDS Integers, Sequences, FiniteSets, SequencesExt

CONSTANTS
    Objs,        \* objects of the model class
    Ids,         \* keys a row can have
    Tables,      \* keys of the rows there are at first: sets of keys
    Conditions,  \* what the callers' conditions select: sets of keys
    Pages,       \* arguments of page(): page, per_page and list_num
    PerPages,
    ListNums,
    MaxRecord,   \* bound: rows in the record member
    MaxCache,    \* bound: live entries of the caches
    MaxCalls     \* bound: calls

ASSUME OrmAssumption ==
    /\ Ids \subseteq Nat \ {0} /\ IsFiniteSet(Ids)
    /\ \A S \in Tables \cup Conditions : S \subseteq Ids
    /\ Pages \cup PerPages \cup ListNums \subseteq Nat

VARIABLES
    obj,      \* the objects
    idle,     \* does the pool hold a connection with an unread reply?
    table,    \* keys of the rows in the database
    cache,    \* model_meta_cache: <<store, statement>> -> what was saved
    crashed,  \* undefined behaviour ended the process
    last,     \* the last call: its object, what it sent, what page() returned
    ghost,    \* see Init
    calls

vars == <<obj, idle, table, cache, crashed, last, ghost, calls>>

Sides == {"select", "edit"}   \* select_conn and edit_conn

NewObj(pool) ==
    [where |-> <<>>, limit |-> <<>>, record |-> <<>>, data |-> 0,
     iserror |-> ~pool, islock |-> FALSE, iscommit |-> FALSE,
     iscache |-> FALSE, exptime |-> 0,
     conn |-> [s \in Sides |-> "null"], pool |-> pool]

NoWindow == <<>>

Init ==
    /\ \E has \in [Objs -> BOOLEAN] : obj = [o \in Objs |-> NewObj(has[o])]
    /\ idle = [s \in Sides |-> FALSE]
    /\ table \in Tables
    /\ cache = <<>>
    /\ crashed = FALSE
    /\ last = [by |-> "none", sent |-> "nothing", window |-> NoWindow]
    \* unread: a statement was sent and its reply not read, because of an exception
    \*   or because it was one of begin_commit, rollback or commit;
    \* locked: lock_conn or unlock_conn was called;
    \* begun: begin_commit locked an object that had lost its pool;
    \* misread: a call took the reply to another statement for its own;
    \* wrongly: the calls that saved something else than the reply.
    /\ ghost = [unread |-> FALSE, locked |-> FALSE, begun |-> FALSE, misread |-> FALSE,
                wrongly |-> {}]
    /\ calls = 0

-----------------------------------------------------------------------------
(* The database (external).                                                *)

\* The rows with these keys, in their order: there is one.
Rows(S) ==
    {s \in [1..Cardinality(S) -> S] : \A j, k \in DOMAIN s : j < k => s[j] < s[k]}

\* LIMIT a,n of a sequence of rows.
Limited(rows, limit) ==
    IF limit = <<>> THEN rows
    ELSE SubSeq(rows, limit[1] + 1, IF limit[1] + limit[2] < Len(rows)
                                    THEN limit[1] + limit[2] ELSE Len(rows))

\* The text of a statement, as the caches hash it.
Select(form, where, limit) == [form |-> form, where |-> where, limit |-> limit]

Matching(where) == IF where = <<>> THEN table ELSE table \cap where[1]

Answer(q) == {Limited(rows, q.limit) : rows \in Rows(Matching(q.where))}

\* What may be waiting on a connection whose last reply nobody read.
Leftovers == UNION {Rows(S) : S \in SUBSET Ids}

\* The count is one row: a LIMIT with an offset leaves none.
CountAnswer(q) ==
    IF q.limit # <<>> /\ q.limit[1] > 0 THEN 0 ELSE Cardinality(Matching(q.where))

-----------------------------------------------------------------------------
(* Connections.                                                            *)

\* get_select_conn and get_edit_conn: a locked object keeps its connection; else
\* an idle one or a new one replaces whatever the object held.
Connections(me, side) ==
    IF me.islock /\ me.conn[side] # "null"
    THEN {[c |-> me.conn[side], idle |-> idle]}
    ELSE {got \in {[c |-> "clean", idle |-> idle],
                   [c |-> "unread", idle |-> [idle EXCEPT ![side] = FALSE]]} :
             got.c = "unread" => idle[side]}

\* back_select_conn and back_edit_conn, unless the object is locked.
Keep(me, side, got) == [me EXCEPT !.conn[side] = IF me.islock THEN got.c ELSE "null"]
Back(me, side, got) ==
    IF ~me.islock /\ got.c = "unread" THEN [got.idle EXCEPT ![side] = TRUE] ELSE got.idle

Drop(me, side) == [me EXCEPT !.conn[side] = "null"]

-----------------------------------------------------------------------------
(* Steps.                                                                  *)

\* What is told apart of a statement.
Sent(op, verb) ==
    CASE verb = "none"                  -> "nothing"
      [] verb = "TRANSACTION"           -> "transaction"
      [] verb = "INSERT" /\ op = "save" -> "insert by save"
      [] OTHER                          -> "statement"

Called(o, me, op, verb) ==
    /\ calls' = calls + 1
    /\ obj' = [obj EXCEPT ![o] = me]
    /\ last' = [by |-> o, sent |-> Sent(op, verb), window |-> NoWindow]
    /\ UNCHANGED crashed

\* A call that sends nothing.
Returns(o, me, op) ==
    /\ Called(o, me, op, "none")
    /\ UNCHANGED <<idle, table, cache, ghost>>

\* The checks before every exchange: a sticky error, then conn_empty().
Refused(o, me, op) ==
    \/ me.iserror /\ Returns(o, me, op)
    \/ ~me.iserror /\ ~me.pool /\ Returns(o, [me EXCEPT !.iserror = TRUE], op)

Ready(me) == ~me.iserror /\ me.pool

\* No connection could be had (an exception), or it could not be written to.
NotSent(o, me, op, side) ==
    \/ Returns(o, me, op)
    \/ \E got \in Connections(me, side) :
         /\ Called(o, Drop(me, side), op, "none")
         /\ idle' = got.idle
         /\ UNCHANGED <<table, cache, ghost>>

\* Mutant of Thrown: the connection goes back to the pool.
ThrownGivingBack(o, me, op, verb, side, result) ==
    \E got \in Connections(me, side) :
        /\ Called(o, Drop(me, side), op, verb)
        /\ idle' = [got.idle EXCEPT ![side] = TRUE] /\ table' \in {table, result}
        /\ ghost' = [ghost EXCEPT !.unread = TRUE]
        /\ UNCHANGED cache
\* An exception while the reply was outstanding is caught and forgotten: the
\* connection stays with the object.
Thrown(o, me, op, verb, side, result) ==
    \E got \in Connections(me, side) :
        /\ Called(o, [me EXCEPT !.conn[side] = "unread"], op, verb)
        /\ idle' = got.idle /\ table' \in {table, result}
        /\ ghost' = [ghost EXCEPT !.unread = TRUE]
        /\ UNCHANGED cache

-----------------------------------------------------------------------------
(* Calls that read.  What tells them apart, f:                             *)
(*   store  the cache they use;  looks, saves: do they look there first,   *)
(*          and save their result there;                                   *)
(*   into   where the rows go;  resets: what they empty first;             *)
(*   error  do they set iserror when the reply breaks off?                 *)

Fetch(op, store, into) ==
    [op |-> op, store |-> store, looks |-> store # "none", saves |-> store # "none",
     into |-> into, resets |-> {}, error |-> FALSE]

Empty(me, what) ==
    [me EXCEPT !.record = IF "record" \in what THEN <<>> ELSE @,
               !.data = IF "data" \in what THEN 0 ELSE @]

Fill(me, f, rows) ==
    [me EXCEPT !.record = IF f.into = "record" THEN @ \o rows ELSE @,
               !.data = IF f.into = "data" /\ rows # <<>> THEN Last(rows) ELSE @]

\* save_cache and save_data_cache save the object's members.
ToSave(me, f, rows) ==
    CASE f.store = "record" -> me.record
      [] f.store = "data"   -> me.data
      [] OTHER              -> rows
\* What a later call with the same statement needs to find there.
TrueResult(f, rows) ==
    IF f.store = "data" THEN IF rows = <<>> THEN 0 ELSE Last(rows) ELSE rows

\* Bound: an entry more than MaxCache makes the others expire.
Put(key, value) ==
    IF key \in DOMAIN cache \/ Cardinality(DOMAIN cache) < MaxCache
    THEN [k \in DOMAIN cache \cup {key} |-> IF k = key THEN value ELSE cache[k]]
    ELSE [k \in {key} |-> value]

Saving(me, f, rows) ==
    me.iscache /\ me.exptime > 0 /\ f.saves /\ (f.store = "row" => rows # <<>>)

Read(o, f, q, me, got, rows) ==
    LET new == Keep(Fill(me, f, rows), "select", got)
        saving == Saving(me, f, rows)
        value == ToSave(new, f, rows)
    IN  /\ Len(new.record) <= MaxRecord
        /\ Called(o, [new EXCEPT !.iscache = @ /\ ~saving,
                                 !.exptime = IF saving THEN 0 ELSE @], f.op, "SELECT")
        /\ idle' = Back(me, "select", got)
        /\ cache' = IF saving THEN Put(<<f.store, q>>, value) ELSE cache
        /\ ghost' = [ghost EXCEPT
               !.misread = @ \/ got.c = "unread",
               !.wrongly = @ \cup (IF saving /\ value # TrueResult(f, rows) THEN {f.op} ELSE {})]
        /\ UNCHANGED table

\* The reply breaks off, or is an error, after some rows.
ReadFails(o, f, q, me, got, rows) ==
    \E k \in 0..Len(rows), error \in BOOLEAN :
        LET new == Drop(Fill(me, f, SubSeq(rows, 1, k)), "select") IN
        /\ Len(new.record) <= MaxRecord
        /\ Called(o, [new EXCEPT !.iserror = error \/ f.error], f.op, "SELECT")
        /\ idle' = got.idle
        /\ UNCHANGED <<table, cache, ghost>>

SelectCall(o, f, q) ==
    LET me0 == obj[o]
        looks == f.looks /\ me0.iscache
        key == <<f.store, q>>
        hit == looks /\ key \in DOMAIN cache
        \* get_record_cache and get_data_cache empty the member when they miss
        me == Empty(me0, f.resets \cup (IF looks THEN {f.store} ELSE {}))
    IN
    \/ /\ hit
       /\ Returns(o, [me0 EXCEPT !.iscache = FALSE,
                                 !.record = IF f.store = "record" THEN cache[key] ELSE @,
                                 !.data = IF f.store = "data" THEN cache[key] ELSE @], f.op)
    \/ ~hit /\ Refused(o, me, f.op)
    \/ /\ ~hit /\ Ready(me)
       /\ \/ NotSent(o, me, f.op, "select")
          \/ Thrown(o, me, f.op, "SELECT", "select", table)
          \/ \E got \in Connections(me, "select") :
             \E rows \in IF got.c = "clean" THEN Answer(q) ELSE Leftovers :
                 Read(o, f, q, me, got, rows) \/ ReadFails(o, f, q, me, got, rows)

List(o) == Select("list", obj[o].where, obj[o].limit)
One(o) == Select("one", obj[o].where, <<0, 1>>)
Get(id) == Select("get", <<{id}>>, <<0, 1>>)

\* fetch_obj returns the rows and, if asked to cache, saves the record member.
fetch_obj(o) ==
    SelectCall(o, [Fetch("fetch_obj", "record", "result") EXCEPT !.looks = FALSE], List(o))

\* Its cache is outside the try block: a miss may end the call with an exception.
fetch_row(o) ==
    \/ SelectCall(o, Fetch("fetch_row", "row", "result"), List(o))
    \/ /\ obj[o].iscache /\ <<"row", List(o)>> \notin DOMAIN cache
       /\ Returns(o, obj[o], "fetch_row")

fetch(o) ==
    SelectCall(o, [Fetch("fetch", "record", "record")
                      EXCEPT !.resets = {"record"}, !.error = TRUE], List(o))
async_fetch(o) ==
    SelectCall(o, [Fetch("fetch", "record", "record")
                      EXCEPT !.resets = {"record"}], List(o))

\* Mutant of fetch_append: the cache is written but not looked at.
fetch_appendUnlooked(o) ==
    SelectCall(o, [Fetch("fetch_append", "record", "record") EXCEPT !.looks = FALSE], List(o))
fetch_append(o) == SelectCall(o, Fetch("fetch_append", "record", "record"), List(o))
async_fetch_append(o) == SelectCall(o, Fetch("fetch_append", "record", "record"), List(o))

fetch_one(o, isappend) ==
    SelectCall(o, [Fetch(IF isappend THEN "fetch_one_append" ELSE "fetch_one", "data",
                         IF isappend THEN "record" ELSE "data")
                      EXCEPT !.resets = {"data"}], One(o))
async_fetch_one(o, isappend) ==
    SelectCall(o, [Fetch(IF isappend THEN "fetch_one_append" ELSE "fetch_one", "data",
                         IF isappend THEN "record" ELSE "data")
                      EXCEPT !.resets = {"data"}], One(o))

get_one(o, id) ==
    SelectCall(o, [Fetch("get_one", "data", "data") EXCEPT !.resets = {"data"}], Get(id))
async_get_one(o, id) ==
    SelectCall(o, [Fetch("get_one", "data", "data") EXCEPT !.resets = {"data"}], Get(id))

fetch_json(o) == SelectCall(o, Fetch("fetch_json", "none", "result"), List(o))
async_fetch_json(o) == SelectCall(o, Fetch("fetch_json", "none", "result"), List(o))

\* A raw statement; one that does not start with an s sets iserror.
query(o, S) ==
    \/ SelectCall(o, Fetch("query", "none", "result"), Select("raw", <<S>>, <<>>))
    \/ Returns(o, [obj[o] EXCEPT !.iserror = TRUE], "query")
async_query(o, S) ==
    \/ SelectCall(o, Fetch("query", "none", "result"), Select("raw", <<S>>, <<>>))
    \/ Returns(o, [obj[o] EXCEPT !.iserror = TRUE], "query")

-----------------------------------------------------------------------------
(* count() and page().                                                     *)

Counted(me, at, n, verb) ==
    [me |-> me, idle |-> at, n |-> n, verb |-> verb, unread |-> FALSE, misread |-> FALSE]

\* All ways in which count() can end: a failure of any kind gives 0.
Counts(o) ==
    LET me == obj[o]
    IN
    IF me.iserror THEN {Counted(me, idle, 0, "none")}
    ELSE IF ~me.pool THEN {Counted([me EXCEPT !.iserror = TRUE], idle, 0, "none")}
    ELSE {Counted(me, idle, 0, "none")} \cup UNION {
        {Counted(Drop(me, "select"), got.idle, 0, "none"),
         Counted(Drop(me, "select"), got.idle, 0, "SELECT"),
         Counted([Drop(me, "select") EXCEPT !.iserror = TRUE], got.idle, 0, "SELECT"),
         [Counted([me EXCEPT !.conn["select"] = "unread"], got.idle, 0, "SELECT")
             EXCEPT !.unread = TRUE]}
        \cup {[Counted(Keep(me, "select", got),
                       Back(me, "select", got), n, "SELECT")
                  EXCEPT !.misread = got.c = "unread"] :
              n \in IF got.c = "clean" THEN {CountAnswer(List(o))} ELSE 0..Cardinality(Ids)}
        : got \in Connections(me, "select")}

CountStep(o, op, x, me) ==
    /\ Called(o, me, op, x.verb)
    /\ idle' = x.idle
    /\ ghost' = [ghost EXCEPT !.unread = @ \/ x.unread, !.misread = @ \/ x.misread]
    /\ UNCHANGED <<table, cache>>

count(o) == \E x \in Counts(o) : CountStep(o, "count", x, x.me)
async_count(o) == \E x \in Counts(o) : CountStep(o, "count", x, x.me)

AtLeast(n, a) == IF n < a THEN a ELSE n
AtMost(n, a) == IF n > a THEN a ELSE n

\* Mutant of Window: one page too many.
WindowTooWide(n, page, per_page, list_num) ==
    LET per == IF per_page = 0 THEN 10 ELSE per_page
        total == AtLeast((n + per - 1) \div per, 1)
        at == AtLeast(AtMost(page, total), 1)
        minpage == AtLeast(at - AtLeast(list_num, 1) \div 2, 1)
    IN  <<minpage, minpage + AtLeast(list_num, 1), at, total>>
\* <<minpage, maxpage, page, total_page>> for n rows.
Window(n, page, per_page, list_num) ==
    LET per == IF per_page = 0 THEN 10 ELSE per_page
        last_num == AtLeast(list_num, 1) - 1
        mid_num == AtLeast(list_num, 1) \div 2
        total == AtLeast((n + per - 1) \div per, 1)
        at == AtLeast(AtMost(page, total), 1)
        minpage == AtLeast(at - mid_num, 1)
    IN  IF minpage + last_num > total
        THEN <<AtLeast(total - last_num, 1), total, at, total>>
        ELSE <<minpage, minpage + last_num, at, total>>

\* limit() of the page, for the next call that reads.
PageLimit(w, per_page) ==
    LET per == IF per_page = 0 THEN 10 ELSE per_page IN <<(w[3] - 1) * per, per>>

PageStep(o, page, per_page, list_num) ==
    \E x \in Counts(o) :
        LET w == Window(x.n, page, per_page, list_num) IN
        /\ calls' = calls + 1
        /\ obj' = [obj EXCEPT ![o] = [x.me EXCEPT !.limit = PageLimit(w, per_page)]]
        /\ last' = [by |-> o, sent |-> Sent("page", x.verb), window |-> w]
        /\ idle' = x.idle
        /\ ghost' = [ghost EXCEPT !.unread = @ \/ x.unread, !.misread = @ \/ x.misread]
        /\ UNCHANGED <<table, cache, crashed>>

page(o, p, per_page, list_num) == PageStep(o, p, per_page, list_num)

-----------------------------------------------------------------------------
(* Calls that write.  What tells them apart, f:                            *)
(*   error  does an error packet set iserror?  (Else only error_msg.)      *)
(*   setPK  does the new row's id go to data?                              *)
(* and r, what the statement does: [ok, table, id].                        *)

Write(op) == [op |-> op, error |-> FALSE, setPK |-> FALSE]

Done(me, f, r, ok, id) ==
    [me EXCEPT !.iserror = @ \/ (f.error /\ ~ok),
               !.data = IF f.setPK /\ ok THEN id ELSE @]

Exchange(o, f, me, verb, r) ==
    \/ NotSent(o, me, f.op, "edit")
    \/ Thrown(o, me, f.op, verb, "edit", r.table)
    \/ \E got \in Connections(me, "edit") :
        \* the reply broke off
        \/ /\ Called(o, Drop(me, "edit"), f.op, verb)
           /\ idle' = got.idle /\ table' \in {table, r.table}
           /\ UNCHANGED <<cache, ghost>>
        \* a reply, which is that of another statement on an "unread" connection
        \/ \E ok \in IF got.c = "clean" THEN {r.ok} ELSE BOOLEAN,
              id \in IF got.c = "clean" THEN {r.id} ELSE Ids :
             /\ Called(o, Keep(Done(me, f, r, ok, id), "edit", got), f.op, verb)
             /\ idle' = Back(me, "edit", got)
             \* where nobody read the reply, a transaction may hold the change back
             /\ table' \in IF got.c = "clean" THEN {r.table} ELSE {table, r.table}
             /\ ghost' = [ghost EXCEPT !.misread = @ \/ got.c = "unread"]
             /\ UNCHANGED cache

Attempt(o, f, me, verb, r) ==
    Refused(o, me, f.op) \/ (Ready(me) /\ Exchange(o, f, me, verb, r))

\* The first write after begin_commit builds its statement and forgets it.
EditCall(o, f, me, verb, r) ==
    \/ me.iscommit /\ Returns(o, [me EXCEPT !.iscommit = FALSE], f.op)
    \/ ~me.iscommit /\ Attempt(o, f, me, verb, r)

Fails == [ok |-> FALSE, table |-> table, id |-> 0]
Leaves(S) == [ok |-> TRUE, table |-> S, id |-> 0]

\* UPDATE and DELETE take no LIMIT with an offset.
Edited(me, S) == IF me.limit = <<>> THEN Leaves(S) ELSE Fails

\* All columns are set, the key too: two rows cannot get the same one.
SetAll(me, where) ==
    LET hit == Matching(where)
        rest == table \ hit
    IN  IF hit = {} THEN Edited(me, table)
        ELSE IF Cardinality(hit) = 1 /\ me.data \notin rest /\ me.data # 0
             THEN Edited(me, rest \cup {me.data}) ELSE Fails

\* The condition or, without one, the key of data; some calls keep the key as
\* their condition, for all later calls.
Keyed(me) == me.where # <<>> \/ me.data > 0
Where(me) == IF me.where = <<>> THEN <<{me.data}>> ELSE me.where
KeepWhere(me) == [me EXCEPT !.where = Where(me)]

\* Calls with a condition: they give up if there is neither it nor a key.
WithKey(o, f, verb, keeps, Result(_, _)) ==
    LET me0 == obj[o]
        me == IF keeps THEN KeepWhere(me0) ELSE me0
    IN  \/ ~Keyed(me0) /\ Returns(o, me0, f.op)
        \/ Keyed(me0) /\ EditCall(o, f, me, verb, Result(me, Where(me0)))

SetsOther(me, where) == Edited(me, table)   \* another column than the key
Deletes(me, where) == Edited(me, table \ Matching(where))

update_col(o) == WithKey(o, Write("update_col"), "UPDATE", FALSE, SetsOther)
async_update_col(o) == WithKey(o, Write("update_col"), "UPDATE", FALSE, SetsOther)
replace_col(o) == WithKey(o, Write("replace_col"), "UPDATE", FALSE, SetsOther)

update(o) == WithKey(o, Write("update"), "UPDATE", TRUE, SetAll)
async_update(o) ==
    WithKey(o, [Write("async_update") EXCEPT !.error = TRUE], "UPDATE", TRUE, SetAll)
update_field(o) == WithKey(o, Write("update"), "UPDATE", TRUE, SetsOther)
async_update_field(o) ==
    WithKey(o, [Write("async_update") EXCEPT !.error = TRUE], "UPDATE", TRUE, SetsOther)

\* REPLACE INTO, or INSERT ... ON DUPLICATE KEY UPDATE, of the record: the latter
\* fails if the caller names several columns (PaozhuBase).  It does not look at
\* iscommit.
update_batch(o) ==
    LET me == obj[o] IN
    \/ me.record = <<>> /\ Returns(o, me, "update_batch")
    \/ /\ me.record # <<>>
       /\ \E r \in {Leaves(table \cup ToSet(me.record)), Fails} :
            Attempt(o, Write("update_batch"), me, "REPLACE", r)

remove(o) == WithKey(o, Write("remove"), "DELETE", TRUE, Deletes)
async_remove(o) == WithKey(o, Write("remove"), "DELETE", TRUE, Deletes)
remove_id(o, id) ==
    EditCall(o, Write("remove_id"), obj[o], "DELETE", Leaves(table \ {id}))
async_remove_id(o, id) ==
    EditCall(o, Write("remove_id"), obj[o], "DELETE", Leaves(table \ {id}))

\* World has no column for it: the statement is empty and nothing is sent.
SoftRemove(o) ==
    LET me == obj[o] IN
    Returns(o, IF Keyed(me) THEN KeepWhere(me) ELSE me, "soft_remove")
soft_remove(o) == SoftRemove(o)
soft_remove_field(o) == SoftRemove(o)

\* An id of 0 lets the database choose one.
Inserts(id) ==
    {[ok |-> TRUE, table |-> table \cup {i}, id |-> i] :
        i \in (IF id = 0 THEN Ids ELSE {id}) \ table}
    \cup {r \in {Fails} : IF id = 0 THEN table = Ids ELSE id \in table}
\* Without any row "VALUES" has nothing to follow.
InsertsAll(S) ==
    IF S # {} /\ S \cap table = {} THEN [ok |-> TRUE, table |-> table \cup S,
                               id |-> CHOOSE i \in S : \A j \in S : i <= j]
    ELSE Fails

Insert(o, op, id) ==
    \E r \in Inserts(id) :
        EditCall(o, [Write(op) EXCEPT !.setPK = TRUE], obj[o],
                 "INSERT", r)
InsertAll(o, S) ==
    EditCall(o, [Write("insert") EXCEPT !.setPK = TRUE], obj[o],
             "INSERT", InsertsAll(S))

insert_data(o, id) == Insert(o, "insert", id)
async_insert_data(o, id) == Insert(o, "insert", id)
insert_vector(o, S) == InsertAll(o, S)
async_insert_vector(o, S) == InsertAll(o, S)
\* Mutant of insert: iserror is not looked at.
insertAnyway(o) ==
    /\ obj[o].pool
    /\ \E r \in Inserts(obj[o].data) :
         Exchange(o, [Write("insert") EXCEPT !.setPK = TRUE], obj[o], "INSERT", r)
insert(o) == Insert(o, "insert", obj[o].data)
async_insert(o) == Insert(o, "insert", obj[o].data)

\* save() updates a row that has a key and inserts any other; inserting, it looks
\* neither at iserror nor at iscommit.  Only conn_empty() can stop it.
SaveNew(o, op) ==
    LET me == obj[o] IN
    \/ ~me.pool /\ Returns(o, [me EXCEPT !.iserror = TRUE], op)
    \/ me.pool /\ \E r \in Inserts(me.data) :
                     Exchange(o, [Write(op) EXCEPT !.setPK = TRUE], me, "INSERT", r)

save(o, isrealnew) ==
    IF obj[o].data > 0 /\ ~isrealnew
    THEN WithKey(o, Write("save"), "UPDATE", TRUE, SetAll)
    ELSE SaveNew(o, "save")
async_save(o, isrealnew) ==
    IF obj[o].data > 0 /\ ~isrealnew
    THEN WithKey(o, [Write("save") EXCEPT !.error = TRUE], "UPDATE", TRUE, SetAll)
    ELSE SaveNew(o, "save")

-----------------------------------------------------------------------------
(* Transactions.  The test for a pool is the wrong way round: with a pool  *)
(* begin_commit, rollback and commit return at once.  Without one they go  *)
(* on, in spite of the error that conn_empty() has set, and use either the *)
(* edit_conn that the object still holds or the null pointer.              *)

\* Undefined behaviour.
Crash == crashed' = TRUE /\ UNCHANGED <<obj, idle, table, cache, last, ghost, calls>>

\* A statement whose reply is not read, and which may not have been sent; tables
\* are what it may leave: the end of a transaction can bring up older changes.
Unanswered(o, me, op, tables) ==
    \E sent \in BOOLEAN :
        /\ Called(o, [me EXCEPT !.conn["edit"] = IF sent THEN "unread" ELSE @], op,
                  IF sent THEN "TRANSACTION" ELSE "none")
        /\ table' \in IF sent THEN tables ELSE {table}
        /\ ghost' = [ghost EXCEPT !.unread = @ \/ sent, !.begun = TRUE]
        /\ UNCHANGED <<idle, cache>>

\* "start transaction" ends an open transaction.  An exception leaves iscommit.
BeginCommit(o) ==
    LET me == obj[o] IN
    \/ me.pool /\ Returns(o, me, "begin_commit")
    \/ ~me.pool /\ me.conn["edit"] = "null" /\ Crash
    \/ /\ ~me.pool /\ me.conn["edit"] # "null"
       /\ \E thrown \in BOOLEAN :
            Unanswered(o, [me EXCEPT !.iserror = TRUE, !.islock = TRUE,
                                     !.iscommit = @ \/ ~thrown],
                       "begin_commit", SUBSET Ids)

\* rollback and commit.  "not begin_commit" is an error: all later calls are
\* refused.  The lock ends with the transaction, but the connection is kept.
EndCommit(o, op, tables) ==
    LET me == obj[o]
        error == [me EXCEPT !.iserror = TRUE]
    IN
    \/ ~me.iscommit /\ Returns(o, error, op)
    \/ me.iscommit /\ me.pool /\ Returns(o, me, op)
    \/ /\ me.iscommit /\ ~me.pool /\ (~me.islock \/ me.conn["edit"] = "null")
       /\ Crash
    \/ /\ me.iscommit /\ ~me.pool /\ me.islock /\ me.conn["edit"] # "null"
       /\ \E thrown \in BOOLEAN :
            Unanswered(o, [error EXCEPT !.islock = thrown, !.iscommit = thrown], op, tables)

begin_commit(o) == BeginCommit(o)
async_begin_commit(o) == BeginCommit(o)
rollback(o) == EndCommit(o, "rollback", {table})
async_rollback(o) == EndCommit(o, "rollback", {table})
commit(o) == EndCommit(o, "commit", SUBSET Ids)
async_commit(o) == EndCommit(o, "commit", SUBSET Ids)

-----------------------------------------------------------------------------
(* Connections, caches and the members that callers set.                   *)

lock_conn(o) ==
    /\ Called(o, [obj[o] EXCEPT !.islock = TRUE], "lock_conn", "none")
    /\ ghost' = [ghost EXCEPT !.locked = TRUE]
    /\ UNCHANGED <<idle, table, cache>>

\* Gives back whatever connections the object holds.
unlock_conn(o) ==
    LET me == [obj[o] EXCEPT !.islock = FALSE] IN
    /\ Called(o, IF me.pool THEN [me EXCEPT !.conn = [s \in Sides |-> "null"]] ELSE me,
              "unlock_conn", "none")
    /\ idle' = [s \in Sides |-> idle[s] \/ (me.pool /\ me.conn[s] = "unread")]
    /\ ghost' = [ghost EXCEPT !.locked = TRUE]
    /\ UNCHANGED <<table, cache>>

use_cache(o, time) ==
    Returns(o, [obj[o] EXCEPT !.iscache = TRUE, !.exptime = time], "use_cache")

\* Empties the cache of single rows only.
clear_cache(o) ==
    /\ Called(o, obj[o], "clear_cache", "none")
    /\ cache' = [k \in {k \in DOMAIN cache : k[1] # "data"} |-> cache[k]]
    /\ UNCHANGED <<idle, table, ghost>>

\* An entry expires (external).
expire ==
    \E k \in DOMAIN cache :
        /\ cache' = [j \in DOMAIN cache \ {k} |-> cache[j]]
        /\ UNCHANGED <<obj, idle, table, crashed, last, ghost, calls>>

clear(o, both) ==
    LET me == [obj[o] EXCEPT !.where = <<>>, !.limit = <<>>, !.iscache = FALSE,
                             !.iscommit = FALSE, !.iserror = FALSE]
    IN  Returns(o, IF both THEN Empty(me, {"record", "data"}) ELSE me, "clear")
clearWhere(o) ==
    Returns(o, [obj[o] EXCEPT !.where = <<>>, !.limit = <<>>, !.iscache = FALSE,
                              !.iscommit = FALSE, !.iserror = FALSE], "clear")

set_data(o, id) == Returns(o, [obj[o] EXCEPT !.data = id], "set_data")

\* Another pool, or none; that it returns nothing is undefined behaviour.
switchDB(o) ==
    \/ \E found \in BOOLEAN :
         Returns(o, [obj[o] EXCEPT !.pool = found, !.iserror = @ \/ ~found], "switchDB")
    \/ Crash

\* A chain of calls of the builder (PaozhuWhere).
SetWhere(o, S) == Returns(o, [obj[o] EXCEPT !.where = <<S>>], "where")

-----------------------------------------------------------------------------
Reads(o) ==
    \/ fetch_obj(o) \/ fetch_row(o) \/ fetch(o) \/ async_fetch(o)
    \/ fetch_append(o) \/ async_fetch_append(o)
    \/ \E b \in BOOLEAN : fetch_one(o, b) \/ async_fetch_one(o, b)
    \/ \E id \in Ids : get_one(o, id) \/ async_get_one(o, id)
    \/ fetch_json(o) \/ async_fetch_json(o)
    \/ \E S \in Conditions : query(o, S) \/ async_query(o, S)
    \/ count(o) \/ async_count(o)
    \/ \E p \in Pages, per \in PerPages, n \in ListNums :
         page(o, p, per, n)

Writes(o) ==
    \/ update_col(o) \/ async_update_col(o) \/ replace_col(o)
    \/ update(o) \/ async_update(o) \/ update_field(o) \/ async_update_field(o)
    \/ update_batch(o)
    \/ remove(o) \/ async_remove(o)
    \/ \E id \in Ids : remove_id(o, id) \/ async_remove_id(o, id)
    \/ soft_remove(o) \/ soft_remove_field(o)
    \/ \E id \in Ids \cup {0} : insert_data(o, id) \/ async_insert_data(o, id)
    \/ \E S \in Conditions \cup {{}} : insert_vector(o, S) \/ async_insert_vector(o, S)
    \/ insert(o) \/ async_insert(o)
    \/ \E new \in BOOLEAN : save(o, new) \/ async_save(o, new)

Others(o) ==
    \/ begin_commit(o) \/ async_begin_commit(o) \/ rollback(o) \/ async_rollback(o)
    \/ commit(o) \/ async_commit(o)
    \/ lock_conn(o) \/ unlock_conn(o)
    \/ \E time \in {0, 1} : use_cache(o, time)
    \/ clear_cache(o)
    \/ \E both \in BOOLEAN : clear(o, both)
    \/ clearWhere(o)
    \/ \E id \in Ids \cup {0} : set_data(o, id)
    \/ switchDB(o)
    \/ \E S \in Conditions : SetWhere(o, S)

Next ==
    /\ ~crashed /\ calls < MaxCalls
    /\ expire \/ \E o \in Objs : Reads(o) \/ Writes(o) \/ Others(o)

Spec == Init /\ [][Next]_vars

-----------------------------------------------------------------------------
(* Properties.                                                             *)

\* Whatever fails, in whatever order: a call takes the reply to another
\* statement for its own only if a reply was left unread, in a program that calls
\* lock_conn or unlock_conn or in which begin_commit has locked an object that
\* had lost its pool.  Where nobody locks, a connection with an unread reply is
\* never used again.
MixedUpOnlyAfterLock == ghost.misread => ghost.unread /\ (ghost.locked \/ ghost.begun)

\* A cache entry is the reply to the statement that it is found by, unless
\* fetch_obj, which saves rows it did not read, or fetch_one with isappend,
\* which saves a row it did not fill, stored it.
CachedIsReply == ghost.wrongly \subseteq {"fetch_obj", "fetch_one_append"}

\* The window that page() returns holds the page, lies within the pages and is
\* as wide as asked for if there are enough pages.
PageInWindow ==
    last.window # NoWindow =>
        LET w == last.window IN
        /\ 1 <= w[1] /\ w[1] <= w[3] /\ w[3] <= w[2] /\ w[2] <= w[4]
        /\ \E n \in ListNums :
             w[2] - w[1] + 1 = AtMost(AtLeast(n, 1), w[4])

\* After an error an object sends nothing until it is cleared, but for save(),
\* which inserts all the same, and for begin_commit, rollback and commit of an
\* object that has lost its pool: they need a connection that was left to it by
\* an exception or by lock_conn.
SilentAfterError ==
    [][\A o \in Objs : calls' > calls /\ last'.by = o /\ obj[o].iserror
           => \/ last'.sent \in {"nothing", "insert by save"}
              \/ /\ last'.sent = "transaction" /\ ~obj[o].pool
                 /\ ghost.unread \/ ghost.locked]_vars

=============================================================================
