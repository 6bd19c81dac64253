---------------------------- MODULE PaozhuServer ----------------------------
(***************************************************************************)
(* The request handlers of the paozhu benchmark                            *)
(* (controller/src/techempower.cpp): coroutines that share the database,   *)
(* the two connection pools and the process-wide cache.  A handler is cut  *)
(* into steps where it awaits and between its calls of the cache, for      *)
(* other threads run in between.                                           *)
(*                                                                         *)
(* Of the ORM (PaozhuOrm) the handlers use the fetches and async_update;   *)
(* here each is a step that sends the statement and one that takes its     *)
(* result.  A connection is the sequence of the replies that nobody has    *)
(* read from it yet.                                                       *)
(***************************************************************************)
EXTENDS Integers, Sequences, FiniteSets, SequencesExt

CONSTANTS
    Workers,      \* coroutines that serve requests, one after the other
    Ids,          \* ids of World's rows: 1..10000
    Numbers,      \* random numbers of updates; 0 stands for any other number
    Fortunes,     \* ids of Fortune's rows
    Message,      \* [Fortunes \cup {0} -> place in the order of messages]
    Counts,       \* what clients pass as "queries" or "count"
    MaxQueries,   \* the limit of 500
    MaxRequests,  \* bound: requests
    MaxFaults     \* bound: failures of connections and of the database

ASSUME ServerAssumption ==
    /\ Counts \subseteq Int /\ MaxQueries \in Nat \ {0}
    /\ Ids \cup Fortunes \subseteq Nat \ {0} /\ IsFiniteSet(Ids \cup Fortunes)
    /\ Ids # {} /\ Numbers # {} /\ Numbers \subseteq Nat
    /\ Message \in [Fortunes \cup {0} -> Nat]

VARIABLES
    work,      \* what each coroutine is at
    table,     \* World: [Ids -> Numbers \cup {0}]
    pool,      \* connections of the pools that have unread replies; clean ones,
               \* old or new, can always be had
    cache,     \* pzcache: key -> [rows, short]; short is why rows may be missing
    tainted,   \* a handler that locks its connections caught an exception
    requests,
    faults

vars == <<work, table, pool, cache, tainted, requests, faults>>

Sides == {"select", "edit"}
None == <<>>   \* no connection; an object that has one holds <<it>>
Locking == {"queries", "updates"}
Cached == {"cached_queries", "cached_db"}

\* A row: its value is the random number or, for a fortune, the message.
Row(id, value) == [id |-> id, value |-> value]

\* queries= or count= as an unsigned number: a negative one is very large.
get_num(c) ==
    IF c = 0 THEN 1 ELSE IF c < 0 \/ c > MaxQueries THEN MaxQueries ELSE c

-----------------------------------------------------------------------------
(* A request: the arguments and locals of its handler, then, for the       *)
(* properties, the ids that it asked for, what it wrote, the updates that  *)
(* failed, whether it met a failure, and why its rows may be too few.      *)

Request(kind, pc, n) ==
    [kind |-> kind, pc |-> pc, n |-> n, i |-> 0, record |-> <<>>, effect |-> 0,
     iserror |-> FALSE, all |-> <<>>, conn |-> [s \in Sides |-> None],
     asked |-> <<>>, wrote |-> {}, unsure |-> {}, fault |-> FALSE, short |-> {}]

Waiting == Request("none", "done", 0)

Init ==
    /\ work = [w \in Workers |-> Waiting]
    /\ table = [id \in Ids |-> 0]
    /\ pool = [s \in Sides |-> {}]
    /\ cache = <<>>
    /\ tainted = FALSE
    /\ requests = 0 /\ faults = 0

\* A request comes in, at the first step of its handler.
Accept(w, kind, pc, n) ==
    /\ work[w].pc = "done" /\ requests < MaxRequests
    /\ requests' = requests + 1
    /\ work' = [work EXCEPT ![w] = Request(kind, pc, n)]
    /\ UNCHANGED <<table, pool, cache, tainted, faults>>

\* These two have nothing to wait for.
techempowerplaintext(w) == Accept(w, "plaintext", "answer", 0)
techempowerjson(w) == Accept(w, "json", "answer", 0)
techempowerdb(w) == Accept(w, "db", "fetch", 1)
techempowerfortunes(w) == Accept(w, "fortunes", "fetch", 0)
techempowerqueries(w) == \E c \in Counts : Accept(w, "queries", "fetch", get_num(c))
techempowerupdates(w) == \E c \in Counts : Accept(w, "updates", "fetch", get_num(c))
techempowercached_queries(w) ==
    \E c \in Counts : Accept(w, "cached_queries", "checkAll", get_num(c))
techempowercached_db(w) ==
    \E c \in Counts : Accept(w, "cached_db", "checkMy", get_num(c))

-----------------------------------------------------------------------------
(* The ORM's calls.                                                        *)

\* A locked object keeps its connection, an unlocked one holds none.
Connections(me, side) ==
    IF me.conn[side] # None THEN {[c |-> me.conn[side][1], rest |-> pool]}
    ELSE {[c |-> c, rest |-> [pool EXCEPT ![side] = @ \ {c}]] : c \in pool[side] \cup {<<>>}}

GiveBack(side, held) == IF held \in {None, <<<<>>>>} THEN pool[side] ELSE pool[side] \cup ToSet(held)

\* The call has sent its statement: reply is what the database answers.
Send(w, me, side, pc, reply) ==
    \E got \in Connections(me, side) :
        /\ work' = [work EXCEPT ![w] =
                      [me EXCEPT !.pc = pc, !.conn[side] = <<Append(got.c, reply)>>]]
        /\ pool' = got.rest
        /\ UNCHANGED <<cache, tainted, requests>>

Fault == faults < MaxFaults /\ faults' = faults + 1

\* No connection to be had, or it cannot be written to: then it is dropped,
\* unless that was an exception.  The handler goes on as in after.
NotSent(w, side, after) ==
    /\ Fault
    /\ \E got \in Connections(after, side) : \E c \in {None, <<got.c>>} :
         /\ work' = [work EXCEPT ![w] = [after EXCEPT !.fault = TRUE, !.conn[side] = c]]
         /\ pool' = got.rest
    /\ UNCHANGED <<table, cache, tainted, requests>>

\* The call takes the first reply off its connection and goes on as in taken, or
\* as in one of failed: it drops the connection where the data ends or is an
\* error; an exception keeps it, with the reply read or not.
Receive(w, side, taken, failed) ==
    LET c == work[w].conn[side][1]
        keeps == work[w].kind \in Locking
    IN
    \/ /\ work' = [work EXCEPT ![w] =
                     [taken EXCEPT !.conn[side] = IF keeps THEN <<Tail(c)>> ELSE None]]
       /\ pool' = IF keeps THEN pool ELSE [pool EXCEPT ![side] = GiveBack(side, <<Tail(c)>>)]
       /\ UNCHANGED <<table, cache, tainted, requests, faults>>
    \/ /\ Fault
       /\ \E f \in failed :
            \/ /\ work' = [work EXCEPT ![w] = [f EXCEPT !.conn[side] = None]]
               /\ UNCHANGED tainted
            \/ /\ ~f.iserror
               /\ \E rest \in {c, Tail(c)} :
                    work' = [work EXCEPT ![w] = [f EXCEPT !.conn[side] = <<rest>>]]
               /\ tainted' = (tainted \/ keeps)
       /\ UNCHANGED <<table, pool, cache, requests>>

-----------------------------------------------------------------------------
(* Reading rows.                                                           *)

\* The loops of /queries and /updates.
NextIteration(me) ==
    [me EXCEPT !.i = @ + 1, !.pc = IF me.i + 1 < me.n THEN "fetch" ELSE "answer"]

\* What follows a fetch.
AfterFetch(me) ==
    CASE me.kind = "updates" /\ me.effect > 0 -> [me EXCEPT !.pc = "update"]
      [] me.kind \in Locking /\ ~(me.kind = "updates" /\ me.effect > 0) -> NextIteration(me)
      [] me.kind = "cached_db"                -> [me EXCEPT !.pc = "saveMy"]
      [] OTHER                                -> [me EXCEPT !.pc = "answer"]

\* The ids of the statement: none, an IN list or one.
Wanted(me) ==
    CASE me.kind = "fortunes"  -> {<<>>}
      [] me.kind = "cached_db" -> [1..me.n -> Ids]
      [] OTHER                 -> [1..1 -> Ids]

\* The rows with these ids, in the order of the ids: there is one such sequence.
Rows(S, value) ==
    {[k \in DOMAIN s |-> Row(s[k], value[s[k]])] :
        s \in {s \in [1..Cardinality(S) -> S] : \A j, k \in DOMAIN s : j < k => s[j] < s[k]}}

Reply(me, ids) ==
    IF me.kind = "fortunes" THEN Rows(Fortunes, Message) ELSE Rows(ToSet(ids), table)

Asking(me, ids) ==
    [me EXCEPT !.asked = @ \o ids, !.effect = 0,
               !.short = @ \cup (IF IsInjective(ids) THEN {} ELSE {"duplicate"})]

Failing(me) == [me EXCEPT !.fault = TRUE, !.short = @ \cup {"failed"}]

fetch(w) ==
    /\ work[w].pc = "fetch"
    /\ \E ids \in Wanted(work[w]) :
        LET me == Asking(work[w], ids) IN
        \/ /\ me.iserror
           /\ work' = [work EXCEPT ![w] = AfterFetch(me)]
           /\ UNCHANGED <<table, pool, cache, tainted, requests, faults>>
        \/ /\ ~me.iserror
           /\ \E reply \in Reply(me, ids) : Send(w, me, "select", "fetched", reply)
           /\ UNCHANGED <<table, faults>>
        \/ ~me.iserror /\ NotSent(w, "select", AfterFetch(Failing(me)))

\* async_fetch_append and async_fetch add to the record, async_fetch_one fills
\* the data member, which is here the only row.
TakeRows(me, rows) == [me EXCEPT !.record = @ \o rows, !.effect = Len(rows)]

fetched(w) ==
    LET me == work[w]
        reply == Head(me.conn["select"][1])
        \* some rows may have come before the failure
        part(k, error) == [Failing(TakeRows(me, SubSeq(reply, 1, k))) EXCEPT !.iserror = error]
    IN
    /\ me.pc = "fetched"
    /\ Receive(w, "select", AfterFetch(TakeRows(me, reply)),
               {AfterFetch(part(k, error)) : k \in 0..Len(reply), error \in BOOLEAN})

-----------------------------------------------------------------------------
(* Updates.                                                                *)

\* Mutant of Renumber: the first row gets it.
RenumberFirst(me, n) ==
    [me EXCEPT !.record[1] = Row(me.record[1].id, n)]

\* The last row of the record gets the new number.
Renumber(me, n) ==
    [me EXCEPT !.record[Len(me.record)] = Row(Last(me.record).id, n)]

\* The UPDATE goes by the id that was asked for.  The database may refuse it.
update(w) ==
    LET me == work[w]
        id == Last(me.asked)
    IN
    /\ me.pc = "update"
    /\ \E n \in Numbers :
        LET new == Renumber(me, n)
            lost == [new EXCEPT !.unsure = @ \cup {Last(new.record)}]
        IN
        \/ /\ me.iserror
           /\ work' = [work EXCEPT ![w] = NextIteration(lost)]
           /\ UNCHANGED <<table, pool, cache, tainted, requests, faults>>
        \/ /\ ~me.iserror
           /\ Send(w, [new EXCEPT !.wrote = @ \cup {Row(id, n)}], "edit", "updated", TRUE)
           /\ table' = [table EXCEPT ![id] = n]
           /\ UNCHANGED faults
        \/ /\ ~me.iserror /\ Fault
           /\ Send(w, lost, "edit", "updated", FALSE)
           /\ UNCHANGED table
        \/ ~me.iserror /\ NotSent(w, "edit", NextIteration(lost))

\* Nobody looks at what async_update returns; an error is kept.
updated(w) ==
    LET me == work[w]
        ok == Head(me.conn["edit"][1])
    IN
    /\ me.pc = "updated"
    /\ Receive(w, "edit",
               NextIteration([me EXCEPT !.iserror = ~ok, !.fault = @ \/ ~ok]),
               {NextIteration([me EXCEPT !.fault = TRUE])})

-----------------------------------------------------------------------------
(* The cache (external): check, get and save are calls of their own.       *)

Entry(rows, short) == [rows |-> rows, short |-> short]
AllData == <<"alldatacache">>
\* Mutant of My: the same key for all numbers.
MyShared(n) == <<"my">>
My(n) == <<"my", n>>

\* An entry may be gone since it was checked: then get returns nothing.
get(key) == IF key \in DOMAIN cache THEN cache[key] ELSE Entry(<<>>, {"expired"})

save(key, entry) ==
    [k \in DOMAIN cache \cup {key} |-> IF k = key THEN entry ELSE cache[k]]

expire ==
    \E key \in DOMAIN cache :
        /\ cache' = [k \in DOMAIN cache \ {key} |-> cache[k]]
        /\ UNCHANGED <<work, table, pool, tainted, requests, faults>>

Goes(w, me) ==
    /\ work' = [work EXCEPT ![w] = me]
    /\ UNCHANGED <<table, pool, tainted, requests, faults>>

checkAll(w) ==
    /\ work[w].pc = "checkAll"
    /\ Goes(w, [work[w] EXCEPT !.pc = IF AllData \in DOMAIN cache THEN "getAll" ELSE "makeAll"])
    /\ UNCHANGED cache

getAll(w) ==
    /\ work[w].pc = "getAll"
    /\ Goes(w, [work[w] EXCEPT !.pc = "checkMy", !.all = get(AllData).rows])
    /\ UNCHANGED cache

\* Random numbers, not those of the database: which ones plays no part here.
makeAll(w) ==
    /\ work[w].pc = "makeAll"
    /\ \E all \in Rows(Ids, [id \in Ids |-> 0]) :
         /\ Goes(w, [work[w] EXCEPT !.pc = "checkMy", !.all = all])
         /\ cache' = save(AllData, Entry(all, {}))

\* Both cached handlers use this key.
checkMy(w) ==
    LET me == work[w] IN
    /\ me.pc = "checkMy"
    /\ Goes(w, [me EXCEPT !.pc = IF My(me.n) \in DOMAIN cache THEN "getMy"
                                 ELSE IF me.kind = "cached_db" THEN "fetch" ELSE "pick"])
    /\ UNCHANGED cache

getMy(w) ==
    LET entry == get(My(work[w].n)) IN
    /\ work[w].pc = "getMy"
    /\ Goes(w, [work[w] EXCEPT !.pc = "answer", !.record = entry.rows, !.short = entry.short])
    /\ UNCHANGED cache

\* cached_queries: n random rows of all of them, if they are there.
pick(w) ==
    LET me == work[w]
        whole == Len(me.all) = Cardinality(Ids)
    IN
    /\ me.pc = "pick"
    /\ \E at \in IF whole THEN [1..me.n -> 1..Len(me.all)] ELSE {<<>>} :
        LET picked == [k \in DOMAIN at |-> me.all[at[k]]]
            short == IF whole THEN {} ELSE {"expired"}
        IN  /\ Goes(w, [me EXCEPT !.pc = "answer", !.record = picked, !.short = short])
            /\ cache' = save(My(me.n), Entry(picked, short))

\* cached_db: whatever the database answered.
saveMy(w) ==
    LET me == work[w] IN
    /\ me.pc = "saveMy"
    /\ Goes(w, [me EXCEPT !.pc = "answer"])
    /\ cache' = save(My(me.n), Entry(me.record, me.short))

-----------------------------------------------------------------------------
(* The end of a handler.                                                   *)

\* std::sort by the message: rows with the same one come in any order.
Sorted(rows) ==
    {s \in {[k \in DOMAIN rows |-> rows[p[k]]] : p \in Bijection(DOMAIN rows, DOMAIN rows)} :
        \A j, k \in DOMAIN rows : j < k => s[j].value <= s[k].value}

\* What may be put out: /fortunes adds a row and sorts; a /db without a row shows
\* the empty one.
Output(me) ==
    CASE me.kind = "fortunes" -> Sorted(Append(me.record, Row(0, Message[0])))
      [] me.kind = "db" /\ me.record = <<>> -> {<<Row(0, 0)>>}
      [] OTHER -> {me.record}

\* Mutants of answer: one gives back what an object holds that is not locked, one
\* does not answer after an error.
answerGivingBack(w) ==
    LET me == work[w] IN
    /\ me.pc = "answer"
    /\ work' = [work EXCEPT ![w] = Waiting]
    /\ pool' = [s \in Sides |-> GiveBack(s, me.conn[s])]
    /\ UNCHANGED <<table, cache, tainted, requests, faults>>
answerIfFine(w) ==
    LET me == work[w] IN
    /\ me.pc = "answer" /\ ~me.iserror
    /\ work' = [work EXCEPT ![w] = Waiting]
    /\ pool' = IF me.kind \in Locking
               THEN [s \in Sides |-> GiveBack(s, me.conn[s])] ELSE pool
    /\ UNCHANGED <<table, cache, tainted, requests, faults>>
\* unlock_conn gives the connections back; else they go with the object.
answer(w) ==
    LET me == work[w] IN
    /\ me.pc = "answer"
    /\ work' = [work EXCEPT ![w] = Waiting]
    /\ pool' = IF me.kind \in Locking
               THEN [s \in Sides |-> GiveBack(s, me.conn[s])] ELSE pool
    /\ UNCHANGED <<table, cache, tainted, requests, faults>>

-----------------------------------------------------------------------------
Arrive(w) ==
    \/ techempowerplaintext(w) \/ techempowerjson(w)
    \/ techempowerdb(w) \/ techempowerfortunes(w)
    \/ techempowerqueries(w) \/ techempowerupdates(w)
    \/ techempowercached_queries(w) \/ techempowercached_db(w)

Step(w) ==
    \/ fetch(w) \/ fetched(w) \/ update(w) \/ updated(w)
    \/ checkAll(w) \/ getAll(w) \/ makeAll(w)
    \/ checkMy(w) \/ getMy(w) \/ pick(w) \/ saveMy(w)
    \/ answer(w)

Next == expire \/ \E w \in Workers : Arrive(w) \/ Step(w)

\* A coroutine that waits is resumed, with a reply or with a failure.
Spec == Init /\ [][Next]_vars /\ \A w \in Workers : WF_vars(Step(w))

-----------------------------------------------------------------------------
(* Properties.                                                             *)

Answers(w, kinds) == work[w].pc = "answer" /\ work[w].kind \in kinds
IdsOf(s) == [k \in DOMAIN s |-> s[k].id]

\* What fails for one request is not seen by another: one that met no failure
\* of its own answers exactly what it asked for, in order, as long as no
\* /queries or /updates, which hold on to their connections, caught an
\* exception.  After that the reply it left unread may reach anyone.
OwnRows ==
    \A w \in Workers : \A out \in Output(work[w]) :
        LET me == work[w]
        IN  me.pc = "answer" /\ ~me.fault /\ ~tainted =>
            /\ me.kind \in Locking => Len(me.asked) = me.n
            /\ me.kind \in Locking \cup {"db"} => IdsOf(out) = me.asked
            /\ me.kind = "fortunes" =>
                 /\ ToSet(out) = {Row(f, Message[f]) : f \in Fortunes \cup {0}}
                 /\ \A j, k \in DOMAIN out : j < k => out[j].value <= out[k].value

\* The rows of an /updates answer are in the database, or were, with these
\* numbers, but for those whose own update failed: again, unless an exception
\* made the handler take one row for another.
UpdatesWritten ==
    \A w \in Workers :
        Answers(w, {"updates"}) /\ ~tainted =>
            \A out \in Output(work[w]) : ToSet(out) \subseteq work[w].wrote \cup work[w].unsure

\* The cached handlers answer with as many rows as asked for, unless, now or
\* when the entry was saved, an id was drawn twice for the IN list, the query
\* failed, or an entry went between check and get: such an answer is served
\* until the entry expires.
CachedAnswers ==
    \A w \in Workers :
        Answers(w, Cached) /\ ~tainted =>
            \A out \in Output(work[w]) : Len(out) = work[w].n \/ work[w].short # {}

\* Every request is answered, whatever fails.
Answered == \A w \in Workers : work[w].pc # "done" ~> work[w].pc = "done"

=============================================================================
