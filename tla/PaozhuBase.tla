----------------------------- MODULE PaozhuBase -----------------------------
(***************************************************************************)
(* The base classes of paozhu's models (orm/include/world_base.h and       *)
(* fortune_base.h): the rows of an object, their way into SQL and to and   *)
(* from JSON, and the functions that collect columns and group rows.       *)
(*                                                                         *)
(* A text is a tuple of letters; a digit is a letter, so the text of the   *)
(* number n is <<n>>.  Escaping is not modelled: no text has a quote or a  *)
(* brace.  SQL and JSON are sequences of tokens: a name with its value is  *)
(* one token.                                                              *)
(***************************************************************************)
EXTENDS Integers, Sequences, FiniteSets, SequencesExt

CONSTANTS
    WorldRows,    \* rows of World: [id, randomnumber]
    FortuneRows,  \* rows of Fortune: [id, message]
    Numbers,      \* numbers that callers pass
    NotANumber,   \* a text that std::stoll does not accept
    Junk,         \* what an uninitialized number may hold
    MaxRecord     \* bound: rows of an object

ASSUME BaseAssumption ==
    /\ Numbers \cup Junk \subseteq Int /\ NotANumber \notin Int
    /\ WorldRows \subseteq [id : Int, randomnumber : Int]
    /\ FortuneRows \subseteq [id : Int, message : Seq(Int)]
    /\ MaxRecord \in Nat

VARIABLES
    mod,     \* the model class: "World" or "Fortune"
    record,  \* its rows
    data     \* its current row

baseVars == <<record, data>>

Rows == IF mod = "World" THEN WorldRows ELSE FortuneRows
col_names == IF mod = "World" THEN <<"id", "randomnumber">> ELSE <<"id", "message">>
Columns == ToSet(col_names)

Type(c) == IF c = "message" THEN "text" ELSE "int"
Types == {"int", "text", "float"}
Zero(type) == IF type = "text" THEN <<>> ELSE 0
meta == [c \in Columns |-> Zero(Type(c))]

\* The text of a number is turned into that number, any other into 0.
stoll(v) == IF v = NotANumber THEN 0 ELSE v
to_string(n) == <<n>>

\* What a loop over a list keeps of it: the elements at some positions.
Kept(list, positions) ==
    FlattenSeq([k \in DOMAIN list |-> IF k \in positions THEN <<list[k]>> ELSE <<>>])

-----------------------------------------------------------------------------
(* Names of columns: only the first letter counts, and its case.           *)

Letter == [id |-> "i", ident |-> "i", i |-> "i", Id |-> "I",
           randomnumber |-> "r", message |-> "m"]
Names == DOMAIN Letter

\* 0 for the 255 of an unknown name.
findcolpos(name) ==
    IF \E k \in 1..2 : Letter[col_names[k]] = Letter[name]
    THEN CHOOSE k \in 1..2 : Letter[col_names[k]] = Letter[name] ELSE 0

\* The positions that a list of names, separated by commas, stands for.
keypos(names) ==
    IF names = <<>> THEN <<1, 2>> ELSE [k \in DOMAIN names |-> findcolpos(names[k])]

\* data_toarray and data_tomap take a list of one letter for an empty one.
keyposLong(names) == IF names = <<"i">> THEN <<1, 2>> ELSE keypos(names)

-----------------------------------------------------------------------------
(* SQL and JSON.                                                           *)

Mark(k) == [k |-> k]
Item(c, v) == [k |-> "item", col |-> c, value |-> v]
Commas(list) ==
    FlattenSeq([k \in DOMAIN list |-> IF k = 1 THEN <<list[1]>> ELSE <<Mark(","), list[k]>>])

\* The pairs of a row; a comma comes before all but the first name, known or not.
Pairs(row, names) ==
    LET pos == keypos(names)
        pair(k) == (IF k > 1 THEN <<Mark(",")>> ELSE <<>>)
                   \o <<Item(col_names[pos[k]], row[col_names[pos[k]]])>>
    IN  FlattenSeq([k \in DOMAIN pos |-> IF pos[k] = 0 THEN <<>> ELSE pair(k)])

_makeupdatesql(names) == Pairs(data, names)

\* INSERT: the value of an id of 0 is null.
RowValues(row) == [c \in Columns |-> IF c = "id" /\ row.id = 0 THEN "null" ELSE row[c]]
_makeinsertsql == <<Item("row", RowValues(data))>>
\* Mutant of _makerecordinsertsql: no commas.
_makerecordinsertsqlPlain(rows) == [k \in DOMAIN rows |-> Item("row", RowValues(rows[k]))]
_makerecordinsertsql(rows) == Commas([k \in DOMAIN rows |-> Item("row", RowValues(rows[k]))])
_make_replace_into_sql == Commas([k \in DOMAIN record |-> Item("row", RowValues(record[k]))])

\* Its ON DUPLICATE KEY UPDATE: a name is not cleared at its comma, but the next
\* one added to it, and j, which is to put commas between them, stays 0.  An item
\* is all the names that it was put together from.
_make_insert_into_sql(names) ==
    FlattenSeq([k \in DOMAIN names |->
        IF findcolpos(names[1]) = 0 THEN <<>> ELSE <<Item(SubSeq(names, 1, k), "new")>>])

\* Texts of the values; a value stands for its text.
data_toarray(names) ==
    LET pos == keyposLong(names)
        known == Kept(pos, {k \in DOMAIN pos : pos[k] # 0})
    IN  [k \in DOMAIN known |-> data[col_names[known[k]]]]
data_tomap(names) ==
    [c \in {col_names[p] : p \in ToSet(keyposLong(names)) \ {0}} |-> data[c]]

data_tojson(names) == <<Mark("{")>> \o Pairs(data, names) \o <<Mark("}")>>

\* The rows for which func is true; a comma comes before all but the first row
\* of the record, kept or not.
to_json_func(rows, names, keep) ==
    LET object(k) == (IF k > 1 THEN <<Mark(",")>> ELSE <<>>)
                     \o <<Mark("{")>> \o Pairs(rows[k], names) \o <<Mark("}")>>
    IN  <<Mark("[")>>
        \o FlattenSeq([k \in DOMAIN rows |-> IF k \in keep THEN object(k) ELSE <<>>])
        \o <<Mark("]")>>

to_json(rows, names) == to_json_func(rows, names, DOMAIN rows)

-----------------------------------------------------------------------------
(* from_json.  The state of the reader: the rows so far, the current one   *)
(* and what it does with the next token:                                   *)
(*   first   look for the '[' or the '{'                                   *)
(*   start   begin a turn of the loop over rows: look for a '{'            *)
(*   seek    go on looking for it                                          *)
(*   fields  read a pair                                                   *)
(*   number  the number of a pair has ended at this token                  *)
(*   step    step over it, on to the next pair                             *)
(*   skip    step over it, on to the next turn                             *)

\* The overload of set_val for a text: a message grows.
SetText(row, name, v) ==
    LET p == findcolpos(name) IN
    IF p = 0 THEN row
    ELSE IF Type(col_names[p]) = "text" THEN [row EXCEPT ![col_names[p]] = @ \o v]
    ELSE [row EXCEPT ![col_names[p]] = stoll(v)]

\* The end of an object: the row is kept, and the token after this one is lost.
EndRow(s) ==
    [s EXCEPT !.record = Append(@, s.data), !.mode = IF s.isarray THEN "skip" ELSE "end"]

\* A text leaves the offset at the token after it, which the loop steps over.
ReadPair(s, t) ==
    IF t.k # "item" THEN EndRow(s)
    ELSE [s EXCEPT !.data = SetText(@, t.col, t.value),
                   !.mode = IF Type(t.col) = "text" THEN "step" ELSE "number"]

\* Mutant of AfterNumber: the reader does not step back.
AfterNumberOnward(s, t) == [s EXCEPT !.mode = "fields"]
\* After a number the reader steps back from a '}', to find it again.
AfterNumber(s, t) == IF t.k = "}" THEN EndRow(s) ELSE [s EXCEPT !.mode = "fields"]

Turn(s, t) ==
    [s EXCEPT !.data = IF s.record # <<>> THEN meta ELSE @,
              !.mode = IF t.k = "{" THEN "fields" ELSE "seek"]

ReadToken(s, t) ==
    CASE s.mode = "first"  -> [s EXCEPT !.isarray = t.k = "[",
                                        !.mode = IF t.k = "[" THEN "start" ELSE "fields"]
      [] s.mode = "start"  -> Turn(s, t)
      [] s.mode = "seek"   -> IF t.k = "{" THEN [s EXCEPT !.mode = "fields"] ELSE s
      [] s.mode = "fields" -> ReadPair(s, t)
      [] s.mode = "number" -> AfterNumber(s, t)
      [] s.mode = "step"   -> [s EXCEPT !.mode = "fields"]
      [] s.mode = "skip"   -> [s EXCEPT !.mode = "start"]
      [] OTHER             -> s

\* Where the reader is after a text.
Reader(json) ==
    LET s[n \in 0..Len(json)] ==
            IF n = 0 THEN [record |-> <<>>, data |-> meta, isarray |-> FALSE, mode |-> "first"]
            ELSE ReadToken(s[n - 1], json[n])
    IN  s[Len(json)]

\* [record, data] after from_json: an object may end with the text.
Parsed(json) ==
    LET s == Reader(json)
        all == IF s.mode \in {"fields", "step"} THEN Append(s.record, s.data) ELSE s.record
    IN  [record |-> all, data |-> IF s.isarray /\ Len(all) > 1 THEN all[1] ELSE s.data]

-----------------------------------------------------------------------------
(* Columns and groups.  T, U and D are the types of the template; a column *)
(* of another type is treated as an unknown one.                           *)

\* <<the column>>, or <<>>.
Column(T, name) ==
    LET p == findcolpos(name) IN
    IF p > 0 /\ Type(col_names[p]) = T THEN <<col_names[p]>> ELSE <<>>

\* A key without a column is a local that nobody sets: an empty text or, for a
\* number, whatever was there.
KeyOf(T, name, row, junk) ==
    LET c == Column(T, name) IN
    IF c # <<>> THEN row[c[1]] ELSE IF T = "text" THEN <<>> ELSE junk

Put(map, key, v) == [x \in DOMAIN map \cup {key} |-> IF x = key THEN v ELSE map[x]]
Found(map, key) == IF key \in DOMAIN map THEN map[key] ELSE <<>>
\* Mutant of AddTo: a second row of a group replaces the first.
AddToReplacing(map, key, v) == Put(map, key, <<v>>)
AddTo(map, key, v) == Put(map, key, Append(Found(map, key), v))
AddTo2(map, x, y, v) == Put(map, x, AddTo(Found(map, x), y, v))
emplace(map, key, v) == IF key \in DOMAIN map THEN map ELSE Put(map, key, v)

\* The loops over the rows: the keys and the values that they have read.
Grouped(keys, vals) ==
    LET map[n \in 0..Len(keys)] ==
            IF n = 0 THEN <<>> ELSE AddTo(map[n - 1], keys[n], vals[n])
    IN  map[Len(keys)]
Grouped2(xs, ys, vals) ==
    LET map[n \in 0..Len(xs)] ==
            IF n = 0 THEN <<>> ELSE AddTo2(map[n - 1], xs[n], ys[n], vals[n])
    IN  map[Len(xs)]
\* A key to skip adds nothing.
Firsts(keys, vals, skip) ==
    LET map[n \in 0..Len(keys)] ==
            IF n = 0 THEN <<>>
            ELSE IF keys[n] \in skip THEN map[n - 1] ELSE emplace(map[n - 1], keys[n], vals[n])
    IN  map[Len(keys)]

\* Keys and columns of all rows.
KeysOf(T, name, junk) == [i \in DOMAIN record |-> KeyOf(T, name, record[i], junk)]
Cells(c) == [i \in DOMAIN record |-> record[i][c]]

getCol(T, name) ==
    LET c == Column(T, name) IN IF c = <<>> THEN <<>> ELSE Cells(c[1])
getVal(T, name) ==
    LET c == Column(T, name) IN IF c = <<>> THEN Zero(T) ELSE data[c[1]]

\* Only for text keys: with a number the template does not compile.
getCols(U, k, v, junk) == Firsts(KeysOf("text", k, junk), KeysOf(U, v, junk), {<<>>})

getmapRows(T, k) ==
    LET c == Column(T, k) IN IF c = <<>> THEN <<>> ELSE Firsts(Cells(c[1]), record, {})

\* A call with these types matches two overloads of getvecCols, and of the
\* getgroupRows of two columns: it does not compile.
Ambiguous(T, U) == T = "text" /\ U # "text"

\* The pair of each row.  World has no text: its overload for two texts has no
\* loop.
KeyValues(T, U, k, v, junk) ==
    [i \in DOMAIN record |-> <<KeyOf(T, k, record[i], junk), KeyOf(U, v, record[i], junk)>>]
getvecCols(T, U, k, v, junk) ==
    IF T = "text" /\ mod = "World" THEN <<>> ELSE KeyValues(T, U, k, v, junk)
getvecRows(T, k) ==
    LET c == Column(T, k) IN
    IF c = <<>> THEN <<>> ELSE [i \in DOMAIN record |-> <<record[i][c[1]], record[i]>>]

getgroupCols(T, U, k, v, junk) ==
    LET c == Column(U, v) IN
    IF c = <<>> THEN <<>> ELSE Grouped(KeysOf(T, k, junk), Cells(c[1]))

getgroupCols3(T, U, D, k, v, d, junk) ==
    LET c == Column(D, d) IN
    IF c = <<>> THEN <<>>
    ELSE Grouped2(KeysOf(T, k, junk), KeysOf(U, v, junk), Cells(c[1]))

getgroupRows(T, k) ==
    LET c == Column(T, k) IN IF c = <<>> THEN <<>> ELSE Grouped(Cells(c[1]), record)

getgroupRows2(T, U, k, v, junk) ==
    LET c == Column(U, v) IN
    IF c = <<>> THEN <<>> ELSE Grouped2(KeysOf(T, k, junk), Cells(c[1]), record)

-----------------------------------------------------------------------------
(* Calls that change the object.                                           *)

BaseInit == mod \in {"World", "Fortune"} /\ record = <<>> /\ data = meta

\* Rows that a fetch of the ORM adds.
fetched ==
    /\ Len(record) < MaxRecord
    /\ \E r \in Rows : record' = Append(record, r)
    /\ UNCHANGED data

record_reset == record' = <<>> /\ UNCHANGED data
data_reset == data' = meta /\ UNCHANGED record

\* setId, setRandomnumber and setMessage.
set(c) ==
    /\ \E r \in Rows : data' = [data EXCEPT ![c] = r[c]]
    /\ UNCHANGED record

\* Bound: a message does not grow without end.
set_val ==
    /\ \E name \in Names, v \in Numbers \cup {NotANumber} :
        LET p == findcolpos(name) IN
        IF p > 0 /\ Type(col_names[p]) = "text"
        THEN /\ v # NotANumber
             /\ \/ data' = [data EXCEPT ![col_names[p]] = to_string(v)]   \* from a number
                \/ /\ Len(data[col_names[p]]) < 2                         \* from a text
                   /\ data' = SetText(data, name, to_string(v))
        ELSE data' = SetText(data, name, v)
    /\ UNCHANGED record

\* The texts are those that the object itself, or another, has written.
from_json(json) ==
    LET x == Parsed(json) IN record' = x.record /\ data' = x.data

NameLists == BoundedSeq(Names, 2) \ {<<>>}

from_some_json ==
    \E names \in {<<>>, <<"id">>, <<"Id", "message">>, Reverse(col_names)} :
        from_json(to_json(record, names)) \/ from_json(data_tojson(names))

BaseNext ==
    /\ \/ fetched \/ record_reset \/ data_reset \/ set_val \/ from_some_json
       \/ \E c \in Columns : set(c)
    /\ UNCHANGED mod

-----------------------------------------------------------------------------
(* Properties.                                                             *)

\* to_json and from_json: the rows come back as they were if the last member of
\* each is a number.  If it is a text, from_json passes over the "{" of every
\* second row.  With no rows lost the first is the current one.  A single object
\* always comes back.
JsonRoundTrip ==
    /\ \A names \in {<<>>, col_names, Reverse(col_names)} :
        LET back == Parsed(to_json(record, names))
            whole == Type(Last(IF names = <<>> THEN col_names ELSE names)) = "int"
        IN  /\ back.record = IF whole THEN record
                              ELSE Kept(record, {k \in DOMAIN record : k % 2 = 1})
            /\ whole /\ record # <<>> => back.data = record[1]
    /\ Parsed(data_tojson(<<>>)) = [record |-> <<data>>, data |-> data]

ValidList(list) ==
    /\ Len(list) % 2 = 1
    /\ \A k \in DOMAIN list : (list[k].k = "item") <=> (k % 2 = 1)

ValidArray(json) ==
    (\E k \in DOMAIN json : json[k].k = "{") => json[2] = Mark("{")

\* An UPDATE needs a first name that is known, whatever follows.
UpdateWellFormed(names) == ValidList(_makeupdatesql(names)) <=> findcolpos(names[1]) # 0

\* All functions take a list of names for the same columns, but for data_toarray
\* and data_tomap, to which a single letter stands for all of them.
SameColumns(names) ==
    LET sql == _makeupdatesql(names)
        items == Kept(sql, {k \in DOMAIN sql : sql[k].k = "item"})
    IN
    names # <<"i">> =>
        /\ data_toarray(names) = [k \in DOMAIN items |-> items[k].value]
        /\ DOMAIN data_tomap(names) = {items[k].col : k \in DOMAIN items}
        /\ \A T \in {"int", "text"} :
             Len(names) = 1 /\ Column(T, names[1]) # <<>>
                 => data_toarray(names) = <<getVal(T, names[1])>>

\* ON DUPLICATE KEY UPDATE takes one name only, in full.
DuplicateWellFormed(names) ==
    LET dup == _make_insert_into_sql(names) IN
    (ValidList(dup) /\ \A k \in DOMAIN dup : dup[k].k = "item" =>
                            Len(dup[k].col) = 1 /\ dup[k].col[1] \in Columns)
        <=> Len(names) = 1 /\ names[1] \in Columns

\* Where the lists that are built from names and rows are well formed.  Rows to
\* insert need one row.  A JSON array that func has thinned out must have kept its
\* first row, or none.  (Lists of names depend on data alone: they are tried with
\* one row.)
ListsWellFormed ==
    /\ Len(record) = 1 => \A names \in NameLists :
        UpdateWellFormed(names) /\ SameColumns(names) /\ DuplicateWellFormed(names)
    /\ ValidList(_makerecordinsertsql(record)) <=> record # <<>>
    /\ \A keep \in SUBSET DOMAIN record :
        ValidArray(to_json_func(record, <<>>, keep)) <=> keep = {} \/ 1 \in keep

Keys(pairs) == {pairs[i][1] : i \in DOMAIN pairs}
Seconds(pairs) == [i \in DOMAIN pairs |-> pairs[i][2]]
With(pairs, x) == {i \in DOMAIN pairs : pairs[i][1] = x}

\* The groups of a column: the values of each key, in their order.  The list of
\* pairs is complete if a column can have both types.
OneLevelComplete(T, U, k, v, junk) ==
    LET g == getgroupCols(T, U, k, v, junk)
        vec == KeyValues(T, U, k, v, junk)
    IN  /\ DOMAIN g = Keys(vec) /\ Seconds(vec) = getCol(U, v)
        /\ \A x \in DOMAIN g : g[x] = Kept(Seconds(vec), With(vec, x))
        /\ {T, U} \subseteq {Type(c) : c \in Columns} /\ ~Ambiguous(T, U) =>
             getvecCols(T, U, k, v, junk) = vec

\* The groups of groups, of rows and of a column.
TwoLevelsComplete(T, U, k, v, junk) ==
    LET g == getgroupCols(T, U, k, v, junk)
        vec == KeyValues(T, U, k, v, junk)
        rows == getgroupRows2(T, U, k, v, junk)
        vals == getgroupCols3(T, U, U, k, v, v, junk)
    IN  /\ DOMAIN rows = DOMAIN g /\ DOMAIN vals = DOMAIN g
        /\ \A x \in DOMAIN rows :
             /\ DOMAIN rows[x] = {vec[i][2] : i \in With(vec, x)}
             /\ \A y \in DOMAIN rows[x] :
                 /\ rows[x][y] = Kept(record, {i \in With(vec, x) : vec[i][2] = y})
                 /\ Len(vals[x][y]) = Len(rows[x][y])

\* The maps, of rows and of a column: the first of each group.
FirstRows(T, k) ==
    LET one == getmapRows(T, k)
        all == getgroupRows(T, k)
    IN  /\ DOMAIN one = DOMAIN all /\ DOMAIN all = Keys(getvecRows(T, k))
        /\ \A x \in DOMAIN one : one[x] = Head(all[x])
FirstCols(U, k, v, junk) ==
    LET cols == getCols(U, k, v, junk)
        pairs == KeyValues("text", U, k, v, junk)
    IN  /\ DOMAIN cols = Keys(pairs) \ {<<>>}
        /\ \A x \in DOMAIN cols : cols[x] = Head(Kept(Seconds(pairs), With(pairs, x)))

\* Grouping loses no row, adds none and keeps their order, on one level and on
\* two.  If no column has the key's name and type all rows are one group, under
\* an arbitrary key.  A map keeps the first row of each group.
GroupsComplete ==
    record # <<>> => \A T \in {"int", "text"}, k \in Columns \cup {"Id"} :
        /\ FirstRows(T, k)
        /\ \A U \in {"int", "text"}, v \in Columns \cup {"Id"}, junk \in Junk :
            /\ Column(U, v) # <<>> => OneLevelComplete(T, U, k, v, junk)
            /\ ~Ambiguous(T, U) => TwoLevelsComplete(T, U, k, v, junk)
            /\ T = "text" => FirstCols(U, k, v, junk)

=============================================================================
