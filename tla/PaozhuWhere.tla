---------------------------- MODULE PaozhuWhere ----------------------------
(***************************************************************************)
(* The fluent builder of the SQL conditions of paozhu's checked-in ORM     *)
(* (orm/include/world_mysql.h and fortune_mysql.h): calls such as          *)
(* eqId(3).or_b().btRandomnumber(7).or_e() append text to the member       *)
(* wheresql, and two flags, iskuohao ("a bracket is open") and             *)
(* ishascontent ("it has a condition"), decide what joins the pieces.      *)
(*                                                                         *)
(* The text is a sequence of tokens.  A condition is one token, with the   *)
(* set of rows that it selects: that is all that the database and the      *)
(* caller see of it.                                                       *)
(*                                                                         *)
(* The methods of a column are generated, several overloads for every      *)
(* operator: one action stands for one family of them.  The class inherits *)
(* the rows, and the calls on them, of its base class (PaozhuBase).        *)
(***************************************************************************)
EXTENDS PaozhuBase

CONSTANTS
    Texts,        \* texts that callers pass
    MaxTokens     \* bound: the length of what is built

ASSUME WhereAssumption == MaxTokens \in Nat

VARIABLES
    wheresql,      \* its tokens
    iskuohao,
    ishascontent,
    selectsql,     \* the other parts of the statement, a name per piece
    ordersql,
    groupsql,
    limitsql,
    flaws,         \* calls so far that no valid condition can follow
    said           \* what the calls ask for, read from left to right

tailVars == <<selectsql, ordersql, groupsql, limitsql>>
whereVars == <<wheresql, iskuohao, ishascontent, tailVars, flaws, said>>
vars == <<mod, baseVars, whereVars>>

Token(k, rows) == [k |-> k, rows |-> rows]
Sign(k) == Token(k, {})

-----------------------------------------------------------------------------
(* What the calls say.  A level is the clause or an open bracket: the rows *)
(* read so far, the words used between its conditions, and, for a bracket, *)
(* the level around it.                                                    *)

Level == [any |-> FALSE, rows |-> {}, words |-> {}, word |-> "AND"]
Nothing == [now |-> Level, outer |-> Level, mixed |-> FALSE]

Join(word, level, rows) ==
    IF ~level.any
    THEN [level EXCEPT !.any = TRUE, !.rows = rows]
    ELSE [level EXCEPT !.words = @ \cup {word},
                       !.rows = IF word = "AND" THEN @ \cap rows ELSE @ \cup rows]

Mixed(level) == level.words = {"AND", "OR"}

SayCondition(word, rows) ==
    LET now == Join(word, said.now, rows) IN
    [said EXCEPT !.now = now, !.mixed = @ \/ Mixed(now)]
SayOpen(word) ==
    [said EXCEPT !.now = Level, !.outer = [said.now EXCEPT !.word = word]]
SayClose ==
    LET now == Join(said.outer.word, said.outer, said.now.rows) IN
    [now |-> now, outer |-> Level, mixed |-> said.mixed \/ Mixed(now)]

Said(flawed, saying) == IF flawed = {} THEN saying ELSE Nothing

-----------------------------------------------------------------------------
(* What MySQL makes of the tokens.                                         *)

\* May token b follow token a?
Follows(a, b) ==
    IF a \in {"AND", "OR", "("} THEN b \in {"cond", "("}
    ELSE b \in {"AND", "OR", ")"}

Depth(s, i) ==
    Cardinality({j \in 1..i : s[j].k = "("}) - Cardinality({j \in 1..i : s[j].k = ")"})

\* An empty clause is valid: then the statement has no WHERE.
ValidClause(s) ==
    s # <<>> =>
        /\ \A i \in DOMAIN s : s[i].k # "bad" /\ Depth(s, i) >= 0
        /\ s[1].k \in {"cond", "("} /\ s[Len(s)].k \in {"cond", ")"}
        /\ \A i \in 1..(Len(s) - 1) : Follows(s[i].k, s[i + 1].k)
        /\ Depth(s, Len(s)) = 0

\* AND binds tighter than OR: the rows of finished alternatives (alts), those
\* of the current one (run), and both as they were outside the open bracket.
Read(m, t) ==
    CASE t.k = "cond" -> [m EXCEPT !.run = @ \cap t.rows]
      [] t.k = "OR"   -> [m EXCEPT !.alts = @ \cup m.run, !.run = Rows]
      [] t.k = "("    -> [alts |-> {}, run |-> Rows, alts0 |-> m.alts, run0 |-> m.run]
      [] t.k = ")"    -> [alts |-> m.alts0, run |-> m.run0 \cap (m.alts \cup m.run),
                          alts0 |-> {}, run0 |-> Rows]
      [] OTHER        -> m

Selected(s) ==
    LET m[n \in 0..Len(s)] ==
            IF n = 0 THEN [alts |-> {}, run |-> Rows, alts0 |-> {}, run0 |-> Rows]
            ELSE Read(m[n - 1], s[n])
    IN  m[Len(s)].alts \cup m[Len(s)].run

-----------------------------------------------------------------------------
(* Comparisons.                                                            *)

Numerals == Numbers \cup {NotANumber}
Ints(l) == [i \in DOMAIN l |-> stoll(l[i])]

TextLess(a, b) ==
    \/ IsStrictPrefix(a, b)
    \/ \E i \in DOMAIN a \cap DOMAIN b :
          a[i] < b[i] /\ \A j \in 1..(i - 1) : a[j] = b[j]

Less(col, a, b) == IF col = "message" THEN TextLess(a, b) ELSE a < b

Compare(col, op, a, b) ==
    CASE op = "="  -> a = b
      [] op = "!=" -> a # b
      [] op = ">"  -> Less(col, b, a)
      [] op = ">=" -> ~Less(col, a, b)
      [] op = "<"  -> Less(col, a, b)
      [] op = "<=" -> ~Less(col, b, a)

Cmp(col, op, v) == {r \in Rows : Compare(col, op, r[col], v)}
In(col, list) == {r \in Rows : \E i \in DOMAIN list : r[col] = list[i]}
NotIn(col, list) == Rows \ In(col, list)

Like(col, lead, text, trail) ==
    {r \in Rows :
        CASE lead /\ trail  -> \E s \in Suffixes(r[col]) : IsPrefix(text, s)
          [] lead /\ ~trail -> IsSuffix(text, r[col])
          [] ~lead /\ trail -> IsPrefix(text, r[col])
          [] OTHER          -> text = r[col]}

Equality == {"=", "!="}
Order == {">", ">=", "<", "<="}
Values(col) == IF col = "message" THEN Texts ELSE Numbers
NumberColumns == Columns \ {"message"}
TextColumns == Columns \cap {"message"}
\* The values of a list are what they are whatever its length: at most two.
Lists(S) == BoundedSeq(S, 2)

-----------------------------------------------------------------------------
Init ==
    /\ BaseInit
    /\ wheresql = <<>> /\ iskuohao = FALSE /\ ishascontent = FALSE
    /\ selectsql = <<>> /\ ordersql = <<>> /\ groupsql = <<>> /\ limitsql = <<>>
    /\ flaws = {} /\ said = Nothing

\* Bound: the other parts count twice, to leave them out of long conditions.
Size ==
    Len(wheresql) + 2 * (Len(selectsql) + Len(ordersql) + Len(groupsql) + Len(limitsql))

\* Mutants of Condition: one does not set ishascontent, one always writes AND.
ConditionForgetful(word, kind, rows, flaw) ==
    LET joined == wheresql # <<>> /\ (ishascontent \/ ~iskuohao) IN
    /\ Size < MaxTokens
    /\ wheresql' = wheresql \o (IF joined THEN <<Sign(word)>> ELSE <<>>)
                            \o <<Token(kind, rows)>>
    /\ flaws' = flaws \cup flaw
    /\ said' = Said(flaws', SayCondition(word, rows))
    /\ UNCHANGED <<mod, iskuohao, ishascontent, tailVars>>
ConditionAnd(word, kind, rows, flaw) ==
    LET joined == wheresql # <<>> /\ (ishascontent \/ ~iskuohao) IN
    /\ Size < MaxTokens
    /\ wheresql' = wheresql \o (IF joined THEN <<Sign("AND")>> ELSE <<>>)
                            \o <<Token(kind, rows)>>
    /\ ishascontent' = (ishascontent \/ iskuohao)
    /\ flaws' = flaws \cup flaw
    /\ said' = Said(flaws', SayCondition(word, rows))
    /\ UNCHANGED <<mod, iskuohao, tailVars>>
\* What all methods that add a condition have in common.
Condition(word, kind, rows, flaw) ==
    LET joined == wheresql # <<>> /\ (ishascontent \/ ~iskuohao) IN
    /\ Size < MaxTokens
    /\ wheresql' = wheresql \o (IF joined THEN <<Sign(word)>> ELSE <<>>)
                            \o <<Token(kind, rows)>>
    /\ ishascontent' = (ishascontent \/ iskuohao)
    /\ flaws' = flaws \cup flaw
    /\ said' = Said(flaws', SayCondition(word, rows))
    /\ UNCHANGED <<mod, iskuohao, tailVars>>

Add(word, rows) == Condition(word, "cond", rows, {})

\* IN and NOT IN; an empty list gives "IN()", which MySQL refuses.
AddList(word, list, rows) ==
    IF list = <<>> THEN Condition(word, "bad", {}, {"emptyList"}) ELSE Add(word, rows)

\* The list methods of a text column that take a vector never append the ')'.
AddOpenList(word) == Condition(word, "bad", {}, {"openList"})

-----------------------------------------------------------------------------
(* Conditions on a number column.  The overloads for a text read it as a   *)
(* number; those for a number (_T) write it as it is.                      *)

eqId == \E op \in Equality, v \in Numerals : Add("AND", Cmp("id", op, stoll(v)))
inId == \E l \in Lists(Numerals) : AddList("AND", l, In("id", Ints(l)))
ninId == \E l \in Lists(Numerals) : AddList("AND", l, NotIn("id", Ints(l)))
btId == \E op \in Order, v \in Numerals : Add("AND", Cmp("id", op, stoll(v)))
or_eqId == \E op \in Equality, v \in Numerals : Add("OR", Cmp("id", op, stoll(v)))
or_inId == \E l \in Lists(Numerals) : AddList("OR", l, In("id", Ints(l)))
or_ninId == \E l \in Lists(Numerals) : AddList("OR", l, NotIn("id", Ints(l)))
or_btId == \E op \in Order, v \in Numerals : Add("OR", Cmp("id", op, stoll(v)))
eqId_T == \E op \in Equality, v \in Numbers : Add("AND", Cmp("id", op, v))
btId_T == \E op \in Order, v \in Numbers : Add("AND", Cmp("id", op, v))
or_eqId_T == \E op \in Equality, v \in Numbers : Add("OR", Cmp("id", op, v))
or_btId_T == \E op \in Order, v \in Numbers : Add("OR", Cmp("id", op, v))

eqRandomnumber ==
    \E op \in Equality, v \in Numerals : Add("AND", Cmp("randomnumber", op, stoll(v)))
inRandomnumber ==
    \E l \in Lists(Numerals) : AddList("AND", l, In("randomnumber", Ints(l)))
ninRandomnumber ==
    \E l \in Lists(Numerals) : AddList("AND", l, NotIn("randomnumber", Ints(l)))
btRandomnumber ==
    \E op \in Order, v \in Numerals : Add("AND", Cmp("randomnumber", op, stoll(v)))
or_eqRandomnumber ==
    \E op \in Equality, v \in Numerals : Add("OR", Cmp("randomnumber", op, stoll(v)))
or_inRandomnumber ==
    \E l \in Lists(Numerals) : AddList("OR", l, In("randomnumber", Ints(l)))
or_ninRandomnumber ==
    \E l \in Lists(Numerals) : AddList("OR", l, NotIn("randomnumber", Ints(l)))
or_btRandomnumber ==
    \E op \in Order, v \in Numerals : Add("OR", Cmp("randomnumber", op, stoll(v)))
eqRandomnumber_T ==
    \E op \in Equality, v \in Numbers : Add("AND", Cmp("randomnumber", op, v))
btRandomnumber_T ==
    \E op \in Order, v \in Numbers : Add("AND", Cmp("randomnumber", op, v))
or_eqRandomnumber_T ==
    \E op \in Equality, v \in Numbers : Add("OR", Cmp("randomnumber", op, v))
or_btRandomnumber_T ==
    \E op \in Order, v \in Numbers : Add("OR", Cmp("randomnumber", op, v))

-----------------------------------------------------------------------------
(* Conditions on a text column.                                            *)

\* "= NULL" and "!= NULL" are true of no row.
nullMessage == Add("AND", {})
eqMessage == \E op \in Equality, v \in Texts : Add("AND", Cmp("message", op, v))
\* The overload for a text closes its list, those for a vector do not.
inMessage ==
    \/ \E l \in Lists(Texts) : AddList("AND", l, In("message", l))
    \/ AddOpenList("AND")
ninMessage ==
    \/ \E l \in Lists(Texts) : AddList("AND", l, NotIn("message", l))
    \/ AddOpenList("AND")
likeMessage ==
    \E v \in Texts, lead, trail \in BOOLEAN :
        (lead \/ trail) /\ Add("AND", Like("message", lead, v, trail))
btMessage == \E op \in Order, v \in Texts : Add("AND", Cmp("message", op, v))

or_nullMessage == Add("OR", {})
or_eqMessage == \E op \in Equality, v \in Texts : Add("OR", Cmp("message", op, v))
or_inMessage ==
    \/ \E l \in Lists(Texts) : AddList("OR", l, In("message", l))
    \/ AddOpenList("OR")
or_ninMessage ==
    \/ \E l \in Lists(Texts) : AddList("OR", l, NotIn("message", l))
    \/ AddOpenList("OR")
or_likeMessage ==
    \E v \in Texts, lead, trail \in BOOLEAN :
        (lead \/ trail) /\ Add("OR", Like("message", lead, v, trail))
or_btMessage == \E op \in Order, v \in Texts : Add("OR", Cmp("message", op, v))

\* A number is compared as its text.
eqMessage_T ==
    \E op \in Equality, n \in Numbers : Add("AND", Cmp("message", op, to_string(n)))
btMessage_T ==
    \E op \in Order, n \in Numbers : Add("AND", Cmp("message", op, to_string(n)))
or_eqMessage_T ==
    \E op \in Equality, n \in Numbers : Add("OR", Cmp("message", op, to_string(n)))
or_btMessage_T ==
    \E op \in Order, n \in Numbers : Add("OR", Cmp("message", op, to_string(n)))

-----------------------------------------------------------------------------
(* Conditions on a column that the caller names, with a value of its kind. *)

\* Text that the caller wrote: it may select any rows.
where_raw == \E rows \in SUBSET Rows : Add("AND", rows)
where_num == \E c \in NumberColumns : \E v \in Numbers : Add("AND", Cmp(c, "=", v))
\* bi is one character.
where_obj ==
    \E c \in Columns, op \in {"=", "<", ">"} : \E v \in Values(c) : Add("AND", Cmp(c, op, v))
where_bi ==
    \E c \in Columns, op \in {"=", "<", ">"} : \E v \in Values(c) : Add("AND", Cmp(c, op, v))
where_str == \E c \in Columns : \E v \in Values(c) : Add("AND", Cmp(c, "=", v))
whereBT ==
    \E c \in Columns, op \in Order : \E v \in Values(c) : Add("AND", Cmp(c, op, v))
between ==
    \E c \in Columns : \E a, b \in Values(c) : Add("AND", Cmp(c, ">=", a) \cap Cmp(c, "<=", b))
orBetween ==
    \E c \in NumberColumns : \E a, b \in Numbers : Add("OR", Cmp(c, ">=", a) \cap Cmp(c, "<=", b))
\* The pattern is used as it is if it starts or ends with a "%" of its own.
whereLike ==
    \E c \in TextColumns : \E v \in Texts, lead, trail \in BOOLEAN :
        Add("AND", IF v # <<>> /\ (lead \/ trail) THEN Like(c, lead, v, trail)
                   ELSE Like(c, TRUE, v, TRUE))
whereLikeLeft ==
    \E c \in TextColumns : \E v \in Texts, right \in BOOLEAN : Add("AND", Like(c, ~right, v, right))
\* The same, but back() of an empty text is undefined: it may look like a "%".
whereOrLike ==
    \E c \in TextColumns : \E v \in Texts, lead, trail, stray \in BOOLEAN :
        /\ stray => v = <<>>
        /\ Add("OR", IF lead \/ trail \/ stray THEN Like(c, lead, v, trail)
                     ELSE Like(c, TRUE, v, TRUE))
whereAnd ==
    \/ \E rows \in SUBSET Rows : Add("AND", rows)
    \/ \E c \in NumberColumns : \E v \in Numbers : Add("AND", Cmp(c, "=", v))
whereBT_T ==
    \E c \in NumberColumns, op \in Order : \E v \in Numbers : Add("AND", Cmp(c, op, v))
whereEQ == \E c \in Columns : \E v \in Values(c) : Add("AND", Cmp(c, "=", v))
whereOrBT ==
    \E c \in Columns, op \in Order : \E v \in Values(c) : Add("OR", Cmp(c, op, v))
whereOrBT_T ==
    \E c \in NumberColumns, op \in Order : \E v \in Numbers : Add("OR", Cmp(c, op, v))
whereOr ==
    \/ \E rows \in SUBSET Rows : Add("OR", rows)
    \/ \E c \in Columns : \E v \in Values(c) : Add("OR", Cmp(c, "=", v))
whereIn ==
    \/ \E rows \in SUBSET Rows : Add("AND", rows)
    \/ \E c \in Columns : \E l \in Lists(Values(c)) : AddList("AND", l, In(c, l))
whereNotIn ==
    \E c \in Columns : \E l \in Lists(Values(c)) : AddList("AND", l, NotIn(c, l))
whereIn_T ==
    \E c \in NumberColumns : \E l \in Lists(Numbers) : AddList("AND", l, In(c, l))
whereNotIn_T ==
    \E c \in NumberColumns : \E l \in Lists(Numbers) : AddList("AND", l, NotIn(c, l))

-----------------------------------------------------------------------------
(* Brackets.  Only one can be open: opening a second one closes the first. *)

CloseBracket ==
    /\ iskuohao' = FALSE /\ ishascontent' = FALSE
    /\ wheresql' = Append(wheresql, Sign(")"))
    /\ flaws' = flaws \cup (IF ishascontent THEN {} ELSE {"emptyBracket"})
    /\ said' = Said(flaws', SayClose)
    /\ UNCHANGED <<mod, tailVars>>

OpenBracket(word) ==
    /\ Size < MaxTokens
    /\ iskuohao' = TRUE /\ ishascontent' = FALSE
    /\ wheresql' = wheresql \o <<Sign(word), Sign("(")>>
    /\ flaws' = flaws \cup (IF wheresql = <<>> THEN {"bracketFirst"} ELSE {})
    /\ said' = Said(flaws', SayOpen(word))
    /\ UNCHANGED <<mod, tailVars>>

orsub == IF iskuohao THEN CloseBracket ELSE OpenBracket("OR")
andsub == IF iskuohao THEN CloseBracket ELSE OpenBracket("AND")
endsub == iskuohao /\ CloseBracket
or_b == IF iskuohao THEN CloseBracket ELSE OpenBracket("OR")
and_b == IF iskuohao THEN CloseBracket ELSE OpenBracket("AND")
or_e == iskuohao /\ CloseBracket

-----------------------------------------------------------------------------
(* The other parts of the statement.  All but limit append.                *)

TailCall == Size < MaxTokens /\ UNCHANGED <<mod, wheresql, iskuohao, ishascontent, said>>

select ==
    /\ TailCall /\ \E c \in Columns : selectsql' = Append(selectsql, c)
    /\ UNCHANGED <<ordersql, groupsql, limitsql, flaws>>

order ==
    /\ TailCall
    /\ \E c \in Columns : ordersql' = Append(ordersql, c)
    /\ flaws' = flaws \cup (IF ordersql = <<>> THEN {} ELSE {"secondOrder"})
    /\ UNCHANGED <<selectsql, groupsql, limitsql>>

\* The text is "HAVING by".
having ==
    /\ TailCall
    /\ groupsql' = Append(groupsql, "HAVING by")
    /\ flaws' = flaws \cup {"having"}
    /\ UNCHANGED <<selectsql, ordersql, limitsql>>

group ==
    /\ TailCall
    /\ groupsql' = Append(groupsql, "GROUP BY")
    /\ flaws' = flaws \cup (IF groupsql = <<>> THEN {} ELSE {"secondGroup"})
    /\ UNCHANGED <<selectsql, ordersql, limitsql>>

limit ==
    /\ TailCall
    /\ limitsql' \in {<<n>> : n \in Numbers} \cup (Numbers \X Numbers)
    /\ UNCHANGED <<selectsql, ordersql, groupsql, flaws>>

\* clear and clearWhere empty everything.
clearWhere ==
    /\ wheresql' = <<>> /\ iskuohao' = FALSE /\ ishascontent' = FALSE
    /\ selectsql' = <<>> /\ ordersql' = <<>> /\ groupsql' = <<>> /\ limitsql' = <<>>
    /\ flaws' = {} /\ said' = Nothing
    /\ UNCHANGED mod

\* The controllers empty the public member wheresql, which leaves the flags.
wheresql_clear ==
    /\ wheresql' = <<>>
    /\ flaws' = (flaws \cap {"secondOrder", "secondGroup", "having"})
                \cup (IF iskuohao THEN {"clearedInBracket"} ELSE {})
    /\ said' = Nothing
    /\ UNCHANGED <<mod, iskuohao, ishascontent, tailVars>>

-----------------------------------------------------------------------------
IdMethods ==
    \/ eqId \/ inId \/ ninId \/ btId \/ or_eqId \/ or_inId \/ or_ninId \/ or_btId
    \/ eqId_T \/ btId_T \/ or_eqId_T \/ or_btId_T

RandomnumberMethods ==
    \/ eqRandomnumber \/ inRandomnumber \/ ninRandomnumber \/ btRandomnumber
    \/ or_eqRandomnumber \/ or_inRandomnumber \/ or_ninRandomnumber
    \/ or_btRandomnumber \/ eqRandomnumber_T \/ btRandomnumber_T
    \/ or_eqRandomnumber_T \/ or_btRandomnumber_T

MessageMethods ==
    \/ nullMessage \/ eqMessage \/ inMessage \/ ninMessage \/ likeMessage
    \/ btMessage \/ or_nullMessage \/ or_eqMessage \/ or_inMessage
    \/ or_ninMessage \/ or_likeMessage \/ or_btMessage
    \/ eqMessage_T \/ btMessage_T \/ or_eqMessage_T \/ or_btMessage_T

NamedColumnMethods ==
    \/ where_raw \/ where_num \/ where_obj \/ where_bi \/ where_str \/ whereBT
    \/ between \/ orBetween \/ whereLike \/ whereLikeLeft \/ whereOrLike
    \/ whereAnd \/ whereBT_T \/ whereEQ \/ whereOrBT \/ whereOrBT_T \/ whereOr
    \/ whereIn \/ whereNotIn \/ whereIn_T \/ whereNotIn_T

BracketMethods == orsub \/ andsub \/ endsub \/ or_b \/ and_b \/ or_e

TailMethods == select \/ order \/ having \/ group \/ limit

Builder ==
    \/ IdMethods \/ NamedColumnMethods \/ BracketMethods \/ TailMethods
    \/ mod = "World" /\ RandomnumberMethods
    \/ mod = "Fortune" /\ MessageMethods
    \/ clearWhere \/ wheresql_clear

\* The builder and the base class read none of each other's members.  Bound:
\* calls of the two are not mixed.
Next ==
    \/ record = <<>> /\ data = meta /\ Builder /\ UNCHANGED baseVars
    \/ Size = 0 /\ ~iskuohao /\ flaws = {} /\ BaseNext /\ UNCHANGED whereVars

Spec == Init /\ [][Next]_vars

-----------------------------------------------------------------------------
(* Properties.                                                             *)

ValidStatement ==
    /\ ValidClause(wheresql)
    /\ Len(ordersql) <= 1
    /\ groupsql = <<>> \/ groupsql = <<"GROUP BY">>

\* Which chains of calls build SQL that MySQL accepts: with no bracket open the
\* statement is valid if, and only if, none of a list of calls was made: a
\* bracket before any condition, an empty bracket, an empty IN list, an IN list
\* of texts from a vector, a second ORDER or GROUP, HAVING.  In all other
\* chains, however conditions, brackets and clears follow each other, the two
\* flags put AND and OR exactly where they belong.  (A wheresql.clear() while a
\* bracket is open leaves a ")" to come: nothing is promised after it.)
ValidUnlessFlawed ==
    ~iskuohao /\ "clearedInBracket" \notin flaws => (ValidStatement <=> flaws = {})

\* The condition selects what the chain says when it is read from left to
\* right, unless AND and OR meet on one level, where MySQL's precedence decides.
FluentMeaning ==
    flaws = {} /\ ~iskuohao /\ wheresql # <<>> /\ ~said.mixed
        => Selected(wheresql) = said.now.rows

=============================================================================
