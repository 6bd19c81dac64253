------------------------- MODULE PaozhuWhereProofs -------------------------
(***************************************************************************)
(* Proofs about paozhu's model classes, for all rows, numbers and texts.   *)
(* The condition builder, for chains of calls of any length: which chains  *)
(* build SQL that MySQL accepts, and what the conditions select.  The base *)
(* classes, for any number of rows: what comes back from JSON, which lists *)
(* of names and rows are well formed, and what the groups hold.            *)
(***************************************************************************)
EXTENDS PaozhuWhere, TLAPS, SequenceTheorems, FiniteSetTheorems, NaturalsInduction,
        WellFoundedInduction

-----------------------------------------------------------------------------
(* Types.                                                                  *)

Kinds == {"cond", "bad", "AND", "OR", "(", ")"}
Words == {"AND", "OR"}

\* With the rows of the table as a parameter.
TokensOf(R) == [k : Kinds, rows : SUBSET R]
LevelsOf(R) == [any : BOOLEAN, rows : SUBSET R, words : SUBSET Words, word : Words]
States(R) == [alts : SUBSET R, run : SUBSET R, alts0 : SUBSET R, run0 : SUBSET R]
Saying(R) == [now : LevelsOf(R), outer : LevelsOf(R), mixed : BOOLEAN]

WhereFlaws == {"bracketFirst", "emptyBracket", "emptyList", "openList"}
TailFlaws == {"secondOrder", "secondGroup", "having"}
ColumnNames == {"id", "randomnumber", "message"}
Groups == {"GROUP BY", "HAVING by"}

TypeOK ==
    /\ wheresql \in Seq(TokensOf(Rows))
    /\ iskuohao \in BOOLEAN /\ ishascontent \in BOOLEAN
    /\ ordersql \in Seq(ColumnNames)
    /\ groupsql \in Seq(Groups)
    /\ flaws \subseteq WhereFlaws \cup TailFlaws \cup {"clearedInBracket"}
    /\ said \in Saying(Rows)

-----------------------------------------------------------------------------
(* The inductive invariant.                                                *)

Cleared == "clearedInBracket" \in flaws

\* A clause as it is being built, with or without an open bracket.
GoodClause(s, open) ==
    /\ \A i \in 1..Len(s) : s[i].k # "bad" /\ Depth(s, i) \in {0, 1}
    /\ s # <<>> => s[1].k = "cond"
    /\ \A i \in 1..(Len(s) - 1) : Follows(s[i].k, s[i + 1].k)
    /\ Depth(s, Len(s)) = IF open THEN 1 ELSE 0

\* What the flags say of the end of the clause.
FlagsTrue ==
    /\ ishascontent => iskuohao
    /\ ~Cleared =>
         /\ wheresql = <<>> => ~iskuohao
         /\ wheresql # <<>> =>
              IF iskuohao /\ ~ishascontent THEN wheresql[Len(wheresql)].k = "("
              ELSE wheresql[Len(wheresql)].k \in {"cond", "bad", ")"}

\* A flaw leaves a trace in the clause that no later call removes.
Trace(flaw, s) ==
    CASE flaw = "bracketFirst" -> s # <<>> /\ s[1].k \in Words
      [] flaw = "emptyBracket" -> \E i \in 1..(Len(s) - 1) : s[i].k = "(" /\ s[i + 1].k = ")"
      [] OTHER                 -> \E i \in 1..Len(s) : s[i].k = "bad"

ClauseInv ==
    ~Cleared =>
        /\ \A f \in flaws \cap WhereFlaws : Trace(f, wheresql)
        /\ flaws \cap WhereFlaws = {} => GoodClause(wheresql, iskuohao)

TailInv ==
    /\ "secondOrder" \in flaws <=> Len(ordersql) > 1
    /\ flaws \cap {"secondGroup", "having"} = {} <=> groupsql \in {<<>>, <<"GROUP BY">>}

\* Read and Selected with the set of all rows as a parameter.
Blank(R) == [alts |-> {}, run |-> R, alts0 |-> {}, run0 |-> R]
ReadIn(R, m, t) ==
    CASE t.k = "cond" -> [m EXCEPT !.run = @ \cap t.rows]
      [] t.k = "OR"   -> [m EXCEPT !.alts = @ \cup m.run, !.run = R]
      [] t.k = "("    -> [alts |-> {}, run |-> R, alts0 |-> m.alts, run0 |-> m.run]
      [] t.k = ")"    -> [alts |-> m.alts0, run |-> m.run0 \cap (m.alts \cup m.run),
                          alts0 |-> {}, run0 |-> R]
      [] OTHER        -> m
Progress(R, s) ==
    LET m[n \in 0..Len(s)] == IF n = 0 THEN Blank(R) ELSE ReadIn(R, m[n - 1], s[n])
    IN  m
Meaning(R, s) == Progress(R, s)[Len(s)]

\* The rows of a level on which only one word was used, as MySQL keeps them.
LevelMeans(R, level, alts, run) ==
    /\ level.words # Words
    /\ ~level.any => alts = {} /\ run = R /\ level.words = {}
    /\ level.any => alts \cup run = level.rows
    /\ level.any /\ "OR" \notin level.words => alts = {}

\* What is kept of a level around a bracket that the word has opened.
OuterMeans(R, level, alts0, run0) ==
    /\ level.word = "AND" => LevelMeans(R, level, alts0, run0)
    /\ level.word = "OR" => run0 = R /\ alts0 = level.rows /\ level.words # Words

MeaningInv ==
    flaws = {} =>
        /\ said.now.any <=> IF iskuohao THEN ishascontent ELSE wheresql # <<>>
        /\ iskuohao => said.outer.any
        /\ ~said.mixed =>
             LET m == Meaning(Rows, wheresql) IN
             /\ LevelMeans(Rows, said.now, m.alts, m.run)
             /\ iskuohao => OuterMeans(Rows, said.outer, m.alts0, m.run0)

WInv == TypeOK /\ FlagsTrue /\ ClauseInv /\ TailInv /\ MeaningInv

-----------------------------------------------------------------------------
(* Induction over numbers and over sequences: the least counterexample.    *)

\* A nonempty set of numbers has a least one.
LEMMA LeastNumber ==
    ASSUME NEW S \in SUBSET Nat, S # {}
    PROVE  \E x \in S : \A y \in S : x <= y
<1>1. PICK x \in S : \A y \in S : ~ (<<y, x>> \in OpToRel(<, Nat))
    BY NatLessThanWellFounded, WFMin
<1>2. \A y \in S : x <= y
  <2>. SUFFICES ASSUME NEW y \in S PROVE x <= y
      OBVIOUS
  <2>1. x \in Nat /\ y \in Nat
      OBVIOUS
  <2>2. y < x => <<y, x>> \in OpToRel(<, Nat)
      BY <2>1 DEF OpToRel
  <2>3. ~ (y < x)
      BY <1>1, <2>2
  <2>. QED
      BY <2>1, <2>3
<1>. QED
    BY <1>2

\* A set of numbers with 0 and with the successor of each of its elements.
LEMMA AllNumbers ==
    ASSUME NEW S, 0 \in S, \A n \in Nat : n \in S => n + 1 \in S
    PROVE  Nat \subseteq S
<1>. SUFFICES ASSUME Nat \ S # {} PROVE FALSE
    OBVIOUS
<1>1. PICK x \in Nat \ S : \A y \in Nat \ S : x <= y
    BY LeastNumber
<1>2. x # 0 /\ x - 1 \in Nat
    BY <1>1
<1>3. x - 1 \in S
    BY <1>1, <1>2
<1>. QED
    BY <1>1, <1>2, <1>3

\* Two functions start alike and go on alike.
GoAlike(f, g, N) == f[0] = g[0] /\ \A n \in 1..N : f[n - 1] = g[n - 1] => f[n] = g[n]

\* Then they agree.
LEMMA SameSteps ==
    ASSUME NEW N \in Nat, NEW f, NEW g, GoAlike(f, g, N)
    PROVE  \A n \in 0..N : f[n] = g[n]
<1>. DEFINE S == {n \in Nat : n <= N => f[n] = g[n]}
<1>1. 0 \in S
    BY DEF GoAlike
<1>2. \A n \in Nat : n \in S => n + 1 \in S
  <2>. SUFFICES ASSUME NEW n \in Nat, n \in S, n + 1 <= N PROVE f[n + 1] = g[n + 1]
      OBVIOUS
  <2>1. n + 1 \in 1..N /\ (n + 1) - 1 = n /\ f[n] = g[n]
      OBVIOUS
  <2>. QED
      BY <2>1 DEF GoAlike
<1>. HIDE DEF S
<1>3. Nat \subseteq S
    BY <1>1, <1>2, AllNumbers
<1>. QED
    BY <1>3 DEF S

\* A run of N steps from a start.
IsRun(g, N, start, step) == g[0] = start /\ \A n \in 1..N : g[n] = step[n][g[n - 1]]

\* A start and N steps have a run.
LEMMA RunExists ==
    ASSUME NEW St, NEW start \in St, NEW N \in Nat, NEW step \in [1..N -> [St -> St]]
    PROVE  \E g \in [0..N -> St] : IsRun(g, N, start, step)
<1>. DEFINE Run(k, g) == g[0] = start /\ \A n \in 1..k : g[n] = step[n][g[n - 1]]
            Some(k) == \E g \in [0..k -> St] : Run(k, g)
            S == {k \in Nat : k <= N => Some(k)}
<1>1. 0 \in S
  <2>1. [n \in 0..0 |-> start] \in [0..0 -> St] /\ Run(0, [n \in 0..0 |-> start])
      OBVIOUS
  <2>. QED
      BY <2>1
<1>2. \A k \in Nat : k \in S => k + 1 \in S
  <2>. SUFFICES ASSUME NEW k \in Nat, k \in S, k + 1 <= N
                PROVE  Some(k + 1)
    <3>1. \A k \in Nat : k + 1 \in Nat
        OBVIOUS
    <3>. HIDE DEF Some
    <3>. QED
        BY <3>1
  <2>1. PICK g \in [0..k -> St] : Run(k, g)
      OBVIOUS
  <2>. DEFINE h == [n \in 0..(k + 1) |-> IF n = k + 1 THEN step[k + 1][g[k]] ELSE g[n]]
  <2>2. k + 1 \in 1..N /\ k \in 0..k /\ g[k] \in St /\ step[k + 1] \in [St -> St]
      OBVIOUS
  <2>3. h \in [0..(k + 1) -> St]
      BY <2>2
  <2>4. h[0] = start
      BY <2>1
  <2>5. \A n \in 1..(k + 1) : h[n] = step[n][h[n - 1]]
    <3>. SUFFICES ASSUME NEW n \in 1..(k + 1) PROVE h[n] = step[n][h[n - 1]]
        OBVIOUS
    <3>1. CASE n = k + 1
      <4>1. n - 1 = k /\ h[n - 1] = g[k] /\ h[n] = step[k + 1][g[k]]
          BY <3>1
      <4>. QED
          BY <4>1, <3>1
    <3>2. CASE n # k + 1
      <4>1. n \in 1..k /\ n - 1 \in 0..k /\ n - 1 # k + 1
          BY <3>2
      <4>2. h[n] = g[n] /\ h[n - 1] = g[n - 1]
          BY <4>1
      <4>. QED
          BY <4>1, <4>2, <2>1
    <3>. QED
        BY <3>1, <3>2
  <2>. HIDE DEF h
  <2>. QED
      BY <2>3, <2>4, <2>5
<1>. HIDE DEF S
<1>3. N \in S
    BY <1>1, <1>2, AllNumbers
<1>4. PICK g \in [0..N -> St] : Run(N, g)
    BY <1>3 DEF S
<1>. QED
    BY <1>4 DEF IsRun

-----------------------------------------------------------------------------
(* Depth.                                                                  *)

\* One number more to count from.
LEMMA CountStep ==
    ASSUME NEW A, NEW n \in Nat
    PROVE  /\ Cardinality({j \in 1..0 : j \in A}) = 0
           /\ Cardinality({j \in 1..n : j \in A}) \in Nat
           /\ Cardinality({j \in 1..(n + 1) : j \in A})
                = Cardinality({j \in 1..n : j \in A}) + IF n + 1 \in A THEN 1 ELSE 0
<1>. DEFINE C(m) == {j \in 1..m : j \in A}
<1>1. C(0) = {} /\ Cardinality(C(0)) = 0
    BY FS_EmptySet
<1>2. IsFiniteSet(C(n))
  <2>1. IsFiniteSet(1..n) /\ C(n) \subseteq 1..n
      BY FS_Interval
  <2>. QED
      BY <2>1, FS_Subset
<1>3. Cardinality(C(n)) \in Nat
    BY <1>2, FS_CardinalityType
<1>4. CASE n + 1 \in A
  <2>1. C(n + 1) = C(n) \cup {n + 1} /\ n + 1 \notin C(n)
      BY <1>4
  <2>. QED
      BY <1>1, <1>2, <1>3, <1>4, <2>1, FS_AddElement
<1>5. CASE n + 1 \notin A
  <2>1. C(n + 1) = C(n)
      BY <1>5
  <2>. QED
      BY <1>1, <1>3, <1>5, <2>1
<1>. QED
    BY <1>4, <1>5

\* One token more.
LEMMA DepthStep ==
    ASSUME NEW s, NEW n \in Nat
    PROVE  /\ Depth(s, 0) = 0 /\ Depth(s, n) \in Int
           /\ Depth(s, n + 1) = IF s[n + 1].k = "(" THEN Depth(s, n) + 1
                                ELSE IF s[n + 1].k = ")" THEN Depth(s, n) - 1 ELSE Depth(s, n)
<1>. DEFINE A == {j \in Nat : s[j].k = "("}
            B == {j \in Nat : s[j].k = ")"}
            Ca(m) == Cardinality({j \in 1..m : j \in A})
            Cb(m) == Cardinality({j \in 1..m : j \in B})
<1>1. \A m \in Nat : Depth(s, m) = Ca(m) - Cb(m)
  <2>. SUFFICES ASSUME NEW m \in Nat PROVE Depth(s, m) = Ca(m) - Cb(m)
      OBVIOUS
  <2>1. /\ {j \in 1..m : j \in A} = {j \in 1..m : s[j].k = "("}
        /\ {j \in 1..m : j \in B} = {j \in 1..m : s[j].k = ")"}
      OBVIOUS
  <2>. QED
      BY <2>1 DEF Depth
<1>2. /\ n + 1 \in A <=> s[n + 1].k = "("
      /\ n + 1 \in B <=> s[n + 1].k = ")"
    OBVIOUS
<1>. HIDE DEF A, B
<1>3. Ca(0) = 0 /\ Ca(n) \in Nat /\ Ca(n + 1) = Ca(n) + IF n + 1 \in A THEN 1 ELSE 0
    BY CountStep
<1>4. Cb(0) = 0 /\ Cb(n) \in Nat /\ Cb(n + 1) = Cb(n) + IF n + 1 \in B THEN 1 ELSE 0
    BY CountStep
<1>. HIDE DEF Ca, Cb
<1>5. Depth(s, 0) = 0 /\ Depth(s, n) = Ca(n) - Cb(n) /\ Depth(s, n + 1) = Ca(n + 1) - Cb(n + 1)
    BY <1>1, <1>3, <1>4
<1>6. ~ (s[n + 1].k = "(" /\ s[n + 1].k = ")")
    OBVIOUS
<1>. QED
    BY <1>2, <1>3, <1>4, <1>5, <1>6

\* The depth depends on the tokens so far.
LEMMA DepthSame ==
    ASSUME NEW s, NEW t, NEW n \in Nat, \A j \in 1..n : s[j] = t[j]
    PROVE  Depth(s, n) = Depth(t, n)
<1>1. /\ {j \in 1..n : s[j].k = "("} = {j \in 1..n : t[j].k = "("}
      /\ {j \in 1..n : s[j].k = ")"} = {j \in 1..n : t[j].k = ")"}
    OBVIOUS
<1>. QED
    BY <1>1 DEF Depth

\* A token that may follow keeps a clause good.
LEMMA GoodAppend ==
    ASSUME NEW S, NEW s \in Seq(S), NEW t \in S, NEW open \in BOOLEAN, NEW after \in BOOLEAN,
           GoodClause(s, open), t.k # "bad", s = <<>> => t.k = "cond",
           s # <<>> => Follows(s[Len(s)].k, t.k),
           t.k = "(" => ~open /\ after, t.k = ")" => open /\ ~after,
           t.k \notin {"(", ")"} => after = open
    PROVE  GoodClause(Append(s, t), after)
<1>0. Append(s, t) \in Seq(S)
    OBVIOUS
<1>1. PICK u \in Seq(S) : u = Append(s, t)
    BY <1>0
<1>2. /\ Len(s) \in Nat /\ Len(u) = Len(s) + 1 /\ u[Len(s) + 1] = t
      /\ \A i \in 1..Len(s) : u[i] = s[i]
    BY <1>1
<1>3. \A i \in 0..Len(s) : Depth(u, i) = Depth(s, i)
  <2>. SUFFICES ASSUME NEW i \in 0..Len(s) PROVE Depth(u, i) = Depth(s, i)
      OBVIOUS
  <2>1. i \in Nat /\ \A j \in 1..i : u[j] = s[j]
      BY <1>2
  <2>. QED
      BY <2>1, DepthSame
<1>4. Depth(s, Len(s)) = IF open THEN 1 ELSE 0
    BY DEF GoodClause
<1>5. Depth(u, Len(u)) = IF after THEN 1 ELSE 0
  <2>1. Depth(u, Len(s)) = IF open THEN 1 ELSE 0
      BY <1>2, <1>3, <1>4
  <2>2. Depth(u, Len(u)) = IF t.k = "(" THEN Depth(u, Len(s)) + 1
                           ELSE IF t.k = ")" THEN Depth(u, Len(s)) - 1 ELSE Depth(u, Len(s))
      BY <1>2, DepthStep
  <2>. QED
      BY <2>1, <2>2
<1>6. \A i \in 1..Len(u) : u[i].k # "bad" /\ Depth(u, i) \in {0, 1}
  <2>. SUFFICES ASSUME NEW i \in 1..Len(u) PROVE u[i].k # "bad" /\ Depth(u, i) \in {0, 1}
      OBVIOUS
  <2>1. CASE i = Len(u)
      BY <2>1, <1>2, <1>5
  <2>2. CASE i # Len(u)
    <3>1. i \in 1..Len(s) /\ i \in 0..Len(s)
        BY <2>2, <1>2
    <3>. QED
        BY <3>1, <1>2, <1>3 DEF GoodClause
  <2>. QED
      BY <2>1, <2>2
<1>7. u # <<>> /\ u[1].k = "cond"
  <2>1. CASE s = <<>>
      BY <1>2, <2>1
  <2>2. CASE s # <<>>
    <3>1. 1 \in 1..Len(s)
        BY <2>2
    <3>. QED
        BY <1>2, <2>2, <3>1 DEF GoodClause
  <2>. QED
      BY <2>1, <2>2
<1>8. \A i \in 1..(Len(u) - 1) : Follows(u[i].k, u[i + 1].k)
  <2>. SUFFICES ASSUME NEW i \in 1..(Len(u) - 1) PROVE Follows(u[i].k, u[i + 1].k)
      OBVIOUS
  <2>1. i \in 1..Len(s) /\ s # <<>>
      BY <1>2
  <2>2. CASE i = Len(s)
      BY <1>2, <2>1, <2>2
  <2>3. CASE i # Len(s)
    <3>1. i \in 1..(Len(s) - 1) /\ i + 1 \in 1..Len(s)
        BY <2>1, <2>3, <1>2
    <3>2. Follows(s[i].k, s[i + 1].k)
        BY <3>1 DEF GoodClause
    <3>. QED
        BY <3>1, <3>2, <1>2
  <2>. QED
      BY <2>2, <2>3
<1>9. GoodClause(u, after)
    BY <1>5, <1>6, <1>7, <1>8 DEF GoodClause
<1>. QED
    BY <1>1, <1>9

\* The empty clause is good.
LEMMA GoodEmpty ==
    GoodClause(<<>>, FALSE)
<1>1. Depth(<<>>, 0) = 0
    BY DepthStep
<1>. QED
    BY <1>1 DEF GoodClause

\* No token removes the trace of a flaw.
LEMMA TraceKeeps ==
    ASSUME NEW S, NEW s \in Seq(S), NEW t \in S, NEW f \in WhereFlaws, Trace(f, s)
    PROVE  Trace(f, Append(s, t))
<1>0. Append(s, t) \in Seq(S)
    OBVIOUS
<1>1. PICK u \in Seq(S) : u = Append(s, t)
    BY <1>0
<1>2. /\ Len(s) \in Nat /\ Len(u) = Len(s) + 1
      /\ \A i \in 1..Len(s) : u[i] = s[i]
    BY <1>1
<1>3. CASE f = "bracketFirst"
  <2>1. s # <<>> /\ s[1].k \in Words
      BY <1>3 DEF Trace
  <2>2. 1 \in 1..Len(s)
      BY <2>1
  <2>. QED
      BY <1>1, <1>2, <1>3, <2>1, <2>2 DEF Trace
<1>4. CASE f = "emptyBracket"
  <2>1. PICK i \in 1..(Len(s) - 1) : s[i].k = "(" /\ s[i + 1].k = ")"
      BY <1>4 DEF Trace
  <2>2. i \in 1..(Len(u) - 1) /\ i \in 1..Len(s) /\ i + 1 \in 1..Len(s)
      BY <1>2
  <2>3. u[i].k = "(" /\ u[i + 1].k = ")"
      BY <1>2, <2>1, <2>2
  <2>. QED
      BY <1>1, <1>4, <2>2, <2>3 DEF Trace
<1>5. CASE f \in {"emptyList", "openList"}
  <2>1. PICK i \in 1..Len(s) : s[i].k = "bad"
      BY <1>5 DEF Trace
  <2>2. i \in 1..Len(u) /\ u[i].k = "bad"
      BY <1>2, <2>1
  <2>. QED
      BY <1>1, <1>5, <2>2 DEF Trace
<1>. QED
    BY <1>3, <1>4, <1>5 DEF WhereFlaws

-----------------------------------------------------------------------------
(* Meaning.                                                                *)

\* Reading a token.
LEMMA ReadType ==
    ASSUME NEW R, NEW m \in States(R), NEW t \in TokensOf(R)
    PROVE  ReadIn(R, m, t) \in States(R)
BY DEF ReadIn, States, TokensOf, Kinds

\* The reading of a clause is what its recursive definition says.
LEMMA ProgressRuns ==
    ASSUME NEW R, NEW s \in Seq(TokensOf(R))
    PROVE  /\ Progress(R, s) = [n \in 0..Len(s) |->
                 IF n = 0 THEN Blank(R) ELSE ReadIn(R, Progress(R, s)[n - 1], s[n])]
           /\ Progress(R, s) \in [0..Len(s) -> States(R)]
<1>. DEFINE N == Len(s)
            step == [n \in 1..N |-> [m \in States(R) |-> ReadIn(R, m, s[n])]]
            Eq(f) == f = [n \in 0..N |-> IF n = 0 THEN Blank(R) ELSE ReadIn(R, f[n - 1], s[n])]
<1>1. N \in Nat /\ Blank(R) \in States(R)
    BY DEF Blank, States
<1>2. step \in [1..N -> [States(R) -> States(R)]]
    BY ReadType
<1>3. \A n \in 1..N : \A m \in States(R) : step[n][m] = ReadIn(R, m, s[n])
    OBVIOUS
<1>. HIDE DEF step, N
<1>4. PICK g \in [0..N -> States(R)] : IsRun(g, N, Blank(R), step)
    BY <1>1, <1>2, RunExists
<1>5. Eq(g)
  <2>1. \A n \in 0..N : g[n] = IF n = 0 THEN Blank(R) ELSE ReadIn(R, g[n - 1], s[n])
    <3>. SUFFICES ASSUME NEW n \in 0..N, n # 0 PROVE g[n] = ReadIn(R, g[n - 1], s[n])
        BY <1>4 DEF IsRun
    <3>1. n \in 1..N /\ n - 1 \in 0..N
        BY <1>1
    <3>2. g[n] = step[n][g[n - 1]]
        BY <1>4, <3>1 DEF IsRun
    <3>. QED
        BY <1>3, <3>1, <3>2
  <2>. QED
      BY <2>1
<1>6. Progress(R, s) = CHOOSE f : Eq(f)
    BY DEF Progress, N
<1>7. Eq(Progress(R, s))
    BY <1>5, <1>6
<1>8. Progress(R, s) = g
  <2>1. Progress(R, s)[0] = g[0]
      BY <1>1, <1>5, <1>7
  <2>2. \A n \in 1..N : Progress(R, s)[n - 1] = g[n - 1] => Progress(R, s)[n] = g[n]
      BY <1>1, <1>5, <1>7
  <2>3. \A n \in 0..N : Progress(R, s)[n] = g[n]
    <3>1. GoAlike(Progress(R, s), g, N)
        BY <2>1, <2>2 DEF GoAlike
    <3>. QED
        BY <1>1, <3>1, SameSteps
  <2>. QED
      BY <1>5, <1>7, <2>3
<1>. QED
    BY <1>7, <1>8 DEF N

\* Nothing read.
LEMMA MeaningEmpty ==
    ASSUME NEW R
    PROVE  Meaning(R, <<>>) = Blank(R)
<1>0. <<>> \in Seq(TokensOf(R))
    OBVIOUS
<1>1. PICK s \in Seq(TokensOf(R)) : s = <<>>
    BY <1>0
<1>2. 0 \in 0..Len(s) /\ Len(s) = 0
    BY <1>1
<1>3. Progress(R, s)[0] = Blank(R)
    BY <1>2, ProgressRuns
<1>. QED
    BY <1>1, <1>2, <1>3 DEF Meaning

\* One token more.
LEMMA MeaningAppend ==
    ASSUME NEW R, NEW s \in Seq(TokensOf(R)), NEW t \in TokensOf(R)
    PROVE  /\ Meaning(R, s) \in States(R)
           /\ Meaning(R, Append(s, t)) = ReadIn(R, Meaning(R, s), t)
<1>0. Append(s, t) \in Seq(TokensOf(R))
    OBVIOUS
<1>1. PICK u \in Seq(TokensOf(R)) : u = Append(s, t)
    BY <1>0
<1>2. /\ Len(s) \in Nat /\ Len(u) = Len(s) + 1 /\ u[Len(s) + 1] = t
      /\ \A i \in 1..Len(s) : u[i] = s[i]
    BY <1>1
<1>. DEFINE f == Progress(R, s)
            g == Progress(R, u)
<1>3. \A n \in 0..Len(s) : f[n] = IF n = 0 THEN Blank(R) ELSE ReadIn(R, f[n - 1], s[n])
    BY ProgressRuns
<1>4. \A n \in 0..Len(u) : g[n] = IF n = 0 THEN Blank(R) ELSE ReadIn(R, g[n - 1], u[n])
    BY ProgressRuns
<1>5. f[Len(s)] \in States(R)
    BY <1>2, ProgressRuns
<1>. HIDE DEF f, g
<1>6. f[0] = g[0]
    BY <1>2, <1>3, <1>4
<1>7. \A n \in 1..Len(s) : f[n - 1] = g[n - 1] => f[n] = g[n]
  <2>. SUFFICES ASSUME NEW n \in 1..Len(s), f[n - 1] = g[n - 1] PROVE f[n] = g[n]
      OBVIOUS
  <2>1. n \in 0..Len(s) /\ n \in 0..Len(u) /\ n # 0 /\ u[n] = s[n]
      BY <1>2
  <2>. QED
      BY <2>1, <1>3, <1>4
<1>8. f[Len(s)] = g[Len(s)]
  <2>1. PICK N \in Nat : N = Len(s)
      BY <1>2
  <2>2. \A n \in 1..N : f[n - 1] = g[n - 1] => f[n] = g[n]
      BY <1>7, <2>1
  <2>3. GoAlike(f, g, N)
      BY <1>6, <2>2 DEF GoAlike
  <2>4. \A n \in 0..N : f[n] = g[n]
      BY <2>3, SameSteps
  <2>. QED
      BY <2>1, <2>4
<1>9. g[Len(u)] = ReadIn(R, g[Len(s)], t)
  <2>1. Len(u) \in 0..Len(u) /\ Len(u) # 0 /\ Len(u) - 1 = Len(s) /\ u[Len(u)] = t
      BY <1>2
  <2>. QED
      BY <2>1, <1>4
<1>. QED
    BY <1>1, <1>5, <1>8, <1>9 DEF Meaning, f, g

\* Selected is Meaning with the rows of the table.
LEMMA SelectedMeans ==
    Selected(wheresql) = Meaning(Rows, wheresql).alts \cup Meaning(Rows, wheresql).run
BY DEF Selected, Meaning, Progress, Read, ReadIn, Blank

\* A condition that is joined to a level by the word that the call has.
LEMMA JoinMeans ==
    ASSUME NEW R, NEW level \in LevelsOf(R), NEW m \in States(R), NEW word \in Words,
           NEW rows \in SUBSET R, LevelMeans(R, level, m.alts, m.run),
           Join(word, level, rows).words # Words,
           NEW mid, mid = IF level.any THEN ReadIn(R, m, Sign(word)) ELSE m,
           NEW end, end = ReadIn(R, mid, Token("cond", rows))
    PROVE  /\ LevelMeans(R, Join(word, level, rows), end.alts, end.run)
           /\ end.alts0 = m.alts0 /\ end.run0 = m.run0
<1>1. mid \in States(R) /\ mid.alts0 = m.alts0 /\ mid.run0 = m.run0
    BY DEF ReadIn, Sign, Token, States, Words
<1>2. end = [mid EXCEPT !.run = @ \cap rows]
    BY DEF ReadIn, Token
<1>3. end.alts = mid.alts /\ end.run = mid.run \cap rows
    BY <1>1, <1>2 DEF States
<1>4. end.alts0 = m.alts0 /\ end.run0 = m.run0
    BY <1>1, <1>2 DEF States
<1>5. CASE ~level.any
  <2>1. mid.alts = {} /\ mid.run = R
      BY <1>5 DEF LevelMeans
  <2>2. Join(word, level, rows) = [level EXCEPT !.any = TRUE, !.rows = rows]
      BY <1>5 DEF Join
  <2>3. level.words = {}
      BY <1>5 DEF LevelMeans
  <2>. QED
      BY <1>3, <1>4, <2>1, <2>2, <2>3 DEF LevelMeans, LevelsOf, Words
<1>6. CASE level.any /\ word = "AND"
  <2>1. mid = m
      BY <1>6 DEF ReadIn, Sign, Token
  <2>2. Join(word, level, rows) = [level EXCEPT !.words = @ \cup {"AND"}, !.rows = @ \cap rows]
      BY <1>6 DEF Join
  <2>3. "OR" \notin level.words
      BY <2>2 DEF LevelsOf, Words
  <2>4. m.alts = {} /\ m.run = level.rows
      BY <1>6, <2>3 DEF LevelMeans
  <2>5. PICK now \in LevelsOf(R) : now = Join(word, level, rows)
      BY <2>2 DEF LevelsOf, Words
  <2>6. now.any /\ now.rows = level.rows \cap rows
      BY <1>6, <2>2, <2>5 DEF LevelsOf
  <2>7. end.alts = {} /\ end.run = level.rows \cap rows
      BY <1>3, <2>1, <2>4
  <2>. QED
      BY <1>4, <2>5, <2>6, <2>7 DEF LevelMeans
<1>7. CASE level.any /\ word = "OR"
  <2>1. mid = [m EXCEPT !.alts = @ \cup m.run, !.run = R]
      BY <1>7 DEF ReadIn, Sign, Token
  <2>2. mid.alts = level.rows /\ mid.run = R
      BY <1>7, <2>1 DEF LevelMeans, States
  <2>3. Join(word, level, rows) = [level EXCEPT !.words = @ \cup {"OR"}, !.rows = @ \cup rows]
      BY <1>7 DEF Join
  <2>5. PICK now \in LevelsOf(R) : now = Join(word, level, rows)
      BY <2>3 DEF LevelsOf, Words
  <2>6. now.any /\ now.rows = level.rows \cup rows /\ "OR" \in now.words
      BY <1>7, <2>3, <2>5 DEF LevelsOf
  <2>7. end.alts = level.rows /\ end.run = rows
      BY <1>3, <2>2
  <2>. QED
      BY <1>4, <2>5, <2>6, <2>7 DEF LevelMeans
<1>. QED
    BY <1>5, <1>6, <1>7 DEF LevelsOf, Words

\* A bracket that a word opens.
LEMMA OpenMeans ==
    ASSUME NEW R, NEW level \in LevelsOf(R), NEW m \in States(R), NEW word \in Words,
           level.any, LevelMeans(R, level, m.alts, m.run),
           NEW end, end = ReadIn(R, ReadIn(R, m, Sign(word)), Sign("("))
    PROVE  /\ LevelMeans(R, Level, end.alts, end.run)
           /\ OuterMeans(R, [level EXCEPT !.word = word], end.alts0, end.run0)
<1>. DEFINE mid == ReadIn(R, m, Sign(word))
<1>1. end = [alts |-> {}, run |-> R, alts0 |-> mid.alts, run0 |-> mid.run]
    BY DEF ReadIn, Sign, Token
<1>2. LevelMeans(R, Level, end.alts, end.run)
    BY <1>1 DEF LevelMeans, Level, Words
<1>3. CASE word = "AND"
  <2>1. mid = m
      BY <1>3 DEF ReadIn, Sign, Token
  <2>. HIDE DEF mid
  <2>2. end.alts0 = m.alts /\ end.run0 = m.run
      BY <1>1, <2>1
  <2>. QED
      BY <1>2, <1>3, <2>2 DEF OuterMeans, LevelMeans, LevelsOf
<1>4. CASE word = "OR"
  <2>1. mid = [m EXCEPT !.alts = @ \cup m.run, !.run = R]
      BY <1>4 DEF ReadIn, Sign, Token
  <2>2. mid.alts = level.rows /\ mid.run = R
      BY <2>1 DEF LevelMeans, States
  <2>. HIDE DEF mid
  <2>3. end.alts0 = level.rows /\ end.run0 = R
      BY <1>1, <2>2
  <2>. QED
      BY <1>2, <1>4, <2>3 DEF OuterMeans, LevelMeans, LevelsOf
<1>. QED
    BY <1>3, <1>4 DEF Words

\* A bracket that is closed.
LEMMA CloseMeans ==
    ASSUME NEW R, NEW inner \in LevelsOf(R), NEW level \in LevelsOf(R), NEW m \in States(R),
           inner.any, LevelMeans(R, inner, m.alts, m.run),
           level.any, OuterMeans(R, level, m.alts0, m.run0),
           Join(level.word, level, inner.rows).words # Words,
           NEW end, end = ReadIn(R, m, Sign(")"))
    PROVE  LevelMeans(R, Join(level.word, level, inner.rows), end.alts, end.run)
<1>1. end.alts = m.alts0 /\ end.run = m.run0 \cap (m.alts \cup m.run)
    BY DEF ReadIn, Sign, Token
<1>2. m.alts \cup m.run = inner.rows
    BY DEF LevelMeans
<1>3. inner.rows \in SUBSET R
    BY DEF LevelsOf
<1>4. CASE level.word = "AND"
  <2>1. Join(level.word, level, inner.rows)
            = [level EXCEPT !.words = @ \cup {"AND"}, !.rows = @ \cap inner.rows]
      BY <1>4 DEF Join
  <2>2. "OR" \notin level.words
      BY <2>1 DEF LevelsOf, Words
  <2>3. m.alts0 = {} /\ m.run0 = level.rows
      BY <1>4, <2>2 DEF LevelMeans, OuterMeans
  <2>. QED
      BY <1>1, <1>2, <2>1, <2>3 DEF LevelMeans, LevelsOf
<1>5. CASE level.word = "OR"
  <2>1. Join(level.word, level, inner.rows)
            = [level EXCEPT !.words = @ \cup {"OR"}, !.rows = @ \cup inner.rows]
      BY <1>5 DEF Join
  <2>2. m.run0 = R /\ m.alts0 = level.rows
      BY <1>5 DEF OuterMeans
  <2>. QED
      BY <1>1, <1>2, <1>3, <2>1, <2>2 DEF LevelMeans, LevelsOf
<1>. QED
    BY <1>4, <1>5 DEF LevelsOf, Words

-----------------------------------------------------------------------------
(* Initial states.                                                         *)

\* The invariant holds initially.
LEMMA InitWInv ==
    Init => WInv
<1>. SUFFICES ASSUME Init PROVE WInv
    OBVIOUS
<1>1. /\ wheresql = <<>> /\ iskuohao = FALSE /\ ishascontent = FALSE
      /\ ordersql = <<>> /\ groupsql = <<>> /\ flaws = {} /\ said = Nothing
    BY DEF Init
<1>2. TypeOK
  <2>1. said \in Saying(Rows)
      BY <1>1 DEF Nothing, Level, Saying, LevelsOf, Words
  <2>2. wheresql \in Seq(TokensOf(Rows))
      BY <1>1
  <2>3. ordersql \in Seq(ColumnNames) /\ groupsql \in Seq(Groups)
      BY <1>1
  <2>. QED
      BY <1>1, <2>1, <2>2, <2>3 DEF TypeOK
<1>3. FlagsTrue
    BY <1>1 DEF FlagsTrue
<1>4. ClauseInv
    BY <1>1, GoodEmpty DEF ClauseInv
<1>5. TailInv
    BY <1>1 DEF TailInv
<1>6. Meaning(Rows, wheresql) = Blank(Rows)
    BY <1>1, MeaningEmpty
<1>7. MeaningInv
    BY <1>1, <1>6 DEF MeaningInv, Nothing, Level, LevelMeans, Blank, Words
<1>. QED
    BY <1>2, <1>3, <1>4, <1>5, <1>7 DEF WInv

-----------------------------------------------------------------------------
(* A condition is added.                                                   *)

\* The tokens that are appended, one at a time.
LEMMA AppendTwo ==
    ASSUME NEW S, NEW s \in Seq(S), NEW a \in S, NEW b \in S
    PROVE  /\ s \o <<>> \o <<b>> = Append(s, b)
           /\ s \o <<a>> \o <<b>> = Append(Append(s, a), b)
           /\ s \o <<a, b>> = Append(Append(s, a), b)
           /\ Append(s, a) \in Seq(S) /\ Append(Append(s, a), b) \in Seq(S)
OBVIOUS

\* What the methods that add a condition have in common.
IsCondition(kind, rows, flaw) ==
    \/ kind = "cond" /\ rows \in SUBSET Rows /\ flaw = {}
    \/ kind = "bad" /\ rows = {} /\ flaw \in {{"emptyList"}, {"openList"}}

\* The clause after the word, if there is one.
Worded(word) ==
    IF wheresql # <<>> /\ (ishascontent \/ ~iskuohao)
    THEN Append(wheresql, Sign(word)) ELSE wheresql

\* The condition is the last token, after the word.
LEMMA ConditionTokens ==
    ASSUME TypeOK, NEW word \in Words, NEW kind, NEW rows, NEW flaw,
           IsCondition(kind, rows, flaw), Condition(word, kind, rows, flaw)
    PROVE  /\ Sign(word) \in TokensOf(Rows) /\ Token(kind, rows) \in TokensOf(Rows)
           /\ Worded(word) \in Seq(TokensOf(Rows))
           /\ wheresql' = Append(Worded(word), Token(kind, rows))
           /\ wheresql' \in Seq(TokensOf(Rows)) /\ Rows' = Rows
<1>1. Sign(word) \in TokensOf(Rows) /\ Token(kind, rows) \in TokensOf(Rows)
    BY DEF Sign, Token, TokensOf, Kinds, Words, IsCondition
<1>2. Rows' = Rows
    BY DEF Condition, Rows
<1>3. wheresql \in Seq(TokensOf(Rows))
    BY DEF TypeOK
<1>4. CASE wheresql # <<>> /\ (ishascontent \/ ~iskuohao)
  <2>1. wheresql' = wheresql \o <<Sign(word)>> \o <<Token(kind, rows)>>
      BY <1>4 DEF Condition
  <2>. QED
      BY <1>1, <1>2, <1>3, <1>4, <2>1, AppendTwo DEF Worded
<1>5. CASE ~(wheresql # <<>> /\ (ishascontent \/ ~iskuohao))
  <2>1. wheresql' = wheresql \o <<>> \o <<Token(kind, rows)>>
      BY <1>5 DEF Condition
  <2>2. wheresql' = Append(wheresql, Token(kind, rows))
      BY <1>1, <1>3, <2>1, AppendTwo
  <2>. QED
      BY <1>1, <1>2, <1>3, <1>5, <2>2, AppendTwo DEF Worded
<1>. QED
    BY <1>4, <1>5

\* What is said stays well typed.
LEMMA SayingTypes ==
    ASSUME NEW R, NEW level \in LevelsOf(R), NEW word \in Words, NEW rows \in SUBSET R
    PROVE  Join(word, level, rows) \in LevelsOf(R) /\ Nothing \in Saying(R) /\ Level \in LevelsOf(R)
BY DEF Join, LevelsOf, Nothing, Level, Saying, Words

\* The types after a condition.
LEMMA ConditionTypes ==
    ASSUME TypeOK, TailInv, NEW word \in Words, NEW kind, NEW rows, NEW flaw,
           IsCondition(kind, rows, flaw), Condition(word, kind, rows, flaw)
    PROVE  TypeOK' /\ TailInv'
<1>1. wheresql' \in Seq(TokensOf(Rows')) /\ Rows' = Rows
    BY ConditionTokens
<1>2. said' \in Saying(Rows)
  <2>1. rows \in SUBSET Rows /\ said \in Saying(Rows)
      BY DEF IsCondition, TypeOK
  <2>2. said.now \in LevelsOf(Rows)
      BY <2>1 DEF Saying
  <2>3. Join(word, said.now, rows) \in LevelsOf(Rows) /\ Nothing \in Saying(Rows)
      BY <2>1, <2>2, SayingTypes
  <2>4. SayCondition(word, rows) \in Saying(Rows)
      BY <2>1, <2>3 DEF SayCondition, Saying, Mixed
  <2>. QED
      BY <2>3, <2>4 DEF Condition, Said
<1>3. flaws' = flaws \cup flaw /\ flaw \subseteq {"emptyList", "openList"}
    BY DEF Condition, IsCondition
<1>4. UNCHANGED <<iskuohao, ordersql, groupsql>> /\ ishascontent' \in BOOLEAN
    BY DEF Condition, tailVars, TypeOK
<1>5. TypeOK'
    BY <1>1, <1>2, <1>3, <1>4 DEF TypeOK, WhereFlaws
<1>6. TailInv'
    BY <1>3, <1>4 DEF TailInv
<1>. QED
    BY <1>5, <1>6

\* The flags after a condition.
LEMMA ConditionFlags ==
    ASSUME TypeOK, FlagsTrue, NEW word \in Words, NEW kind, NEW rows, NEW flaw,
           IsCondition(kind, rows, flaw), Condition(word, kind, rows, flaw)
    PROVE  FlagsTrue'
<1>1. PICK s \in Seq(TokensOf(Rows)) : s = Worded(word)
    BY ConditionTokens
<1>2. wheresql' = Append(s, Token(kind, rows)) /\ Token(kind, rows) \in TokensOf(Rows)
    BY <1>1, ConditionTokens
<1>3. wheresql' # <<>> /\ wheresql'[Len(wheresql')] = Token(kind, rows)
    BY <1>2
<1>4. Token(kind, rows).k \in {"cond", "bad"}
    BY DEF Token, IsCondition
<1>5. iskuohao' = iskuohao /\ ishascontent' = (ishascontent \/ iskuohao)
    BY DEF Condition
<1>6. ishascontent' => iskuohao'
    BY <1>5 DEF FlagsTrue
<1>7. ~(iskuohao' /\ ~ishascontent')
    BY <1>5
<1>. QED
    BY <1>3, <1>4, <1>6, <1>7 DEF FlagsTrue

\* A condition may follow, after the word if there is one.
LEMMA ConditionFits ==
    ASSUME TypeOK, FlagsTrue, ~Cleared, GoodClause(wheresql, iskuohao), NEW word \in Words,
           NEW rows \in SUBSET Rows
    PROVE  GoodClause(Append(Worded(word), Token("cond", rows)), iskuohao)
<1>. DEFINE T == TokensOf(Rows)
<1>1. wheresql \in Seq(T) /\ iskuohao \in BOOLEAN /\ ishascontent \in BOOLEAN
    BY DEF TypeOK
<1>2. PICK c \in T : c = Token("cond", rows)
    BY DEF Token, TokensOf, Kinds
<1>3. PICK w \in T : w = Sign(word)
    BY DEF Sign, Token, TokensOf, Kinds, Words
<1>4. c.k = "cond" /\ w.k = word
    BY <1>2, <1>3 DEF Sign, Token
<1>. HIDE DEF T
<1>5. CASE wheresql # <<>> /\ (ishascontent \/ ~iskuohao)
  <2>1. wheresql[Len(wheresql)].k \in {"cond", ")"}
    <3>1. wheresql[Len(wheresql)].k \in {"cond", "bad", ")"}
        BY <1>5 DEF FlagsTrue
    <3>2. Len(wheresql) \in 1..Len(wheresql)
        BY <1>1, <1>5
    <3>. QED
        BY <3>1, <3>2 DEF GoodClause
  <2>2. Follows(wheresql[Len(wheresql)].k, w.k)
      BY <1>4, <2>1 DEF Follows, Words
  <2>3. GoodClause(Append(wheresql, w), iskuohao)
      BY <1>1, <1>4, <1>5, <2>2, GoodAppend DEF Words
  <2>4. PICK s \in Seq(T) : s = Append(wheresql, w)
    <3>1. Append(wheresql, w) \in Seq(T)
        BY <1>1
    <3>. QED
        BY <3>1
  <2>5. s # <<>> /\ s[Len(s)] = w
      BY <1>1, <2>4
  <2>6. Follows(s[Len(s)].k, c.k)
      BY <1>4, <2>5 DEF Follows, Words
  <2>7. GoodClause(Append(s, c), iskuohao)
      BY <1>1, <1>4, <2>3, <2>4, <2>5, <2>6, GoodAppend
  <2>. QED
      BY <1>2, <1>3, <1>5, <2>4, <2>7 DEF Worded
<1>6. CASE ~(wheresql # <<>> /\ (ishascontent \/ ~iskuohao))
  <2>1. wheresql # <<>> => Follows(wheresql[Len(wheresql)].k, c.k)
      BY <1>4, <1>6 DEF FlagsTrue, Follows
  <2>2. GoodClause(Append(wheresql, c), iskuohao)
      BY <1>1, <1>4, <2>1, GoodAppend
  <2>. QED
      BY <1>2, <1>6, <2>2 DEF Worded
<1>. QED
    BY <1>5, <1>6

\* The clause after a condition.
LEMMA ConditionClause ==
    ASSUME TypeOK, FlagsTrue, ClauseInv, NEW word \in Words, NEW kind, NEW rows, NEW flaw,
           IsCondition(kind, rows, flaw), Condition(word, kind, rows, flaw)
    PROVE  ClauseInv'
<1>1. flaws' = flaws \cup flaw /\ iskuohao' = iskuohao
    BY DEF Condition
<1>2. flaw \subseteq {"emptyList", "openList"} /\ (kind = "cond" => flaw = {})
    BY DEF IsCondition
<1>. SUFFICES ASSUME ~Cleared'
              PROVE  /\ \A f \in flaws' \cap WhereFlaws : Trace(f, wheresql')
                     /\ flaws' \cap WhereFlaws = {} => GoodClause(wheresql', iskuohao')
    BY DEF ClauseInv
<1>3. ~Cleared
    BY <1>1 DEF Cleared
<1>4. PICK t \in TokensOf(Rows) : t = Token(kind, rows)
    BY ConditionTokens
<1>5. PICK s \in Seq(TokensOf(Rows)) : s = Worded(word)
    BY ConditionTokens
<1>6. wheresql' = Append(s, t)
    BY <1>4, <1>5, ConditionTokens
<1>7. \A f \in flaws \cap WhereFlaws : Trace(f, wheresql')
  <2>. SUFFICES ASSUME NEW f \in flaws \cap WhereFlaws PROVE Trace(f, wheresql')
      OBVIOUS
  <2>1. Trace(f, wheresql) /\ f \in WhereFlaws
      BY <1>3 DEF ClauseInv
  <2>2. Trace(f, s)
    <3>1. Sign(word) \in TokensOf(Rows) /\ wheresql \in Seq(TokensOf(Rows))
        BY ConditionTokens DEF TypeOK
    <3>2. Trace(f, Append(wheresql, Sign(word)))
        BY <2>1, <3>1, TraceKeeps
    <3>. QED
        BY <1>5, <2>1, <3>2 DEF Worded
  <2>. QED
      BY <1>6, <2>1, <2>2, TraceKeeps
<1>8. \A f \in flaw : Trace(f, wheresql')
  <2>. SUFFICES ASSUME NEW f \in flaw PROVE Trace(f, wheresql')
      OBVIOUS
  <2>1. f \in {"emptyList", "openList"} /\ t.k = "bad"
      BY <1>4 DEF IsCondition, Token
  <2>2. Len(s) + 1 \in 1..Len(Append(s, t)) /\ Append(s, t)[Len(s) + 1] = t
      OBVIOUS
  <2>. QED
      BY <1>6, <2>1, <2>2 DEF Trace
<1>9. flaws' \cap WhereFlaws = {} => GoodClause(wheresql', iskuohao')
  <2>. SUFFICES ASSUME flaws' \cap WhereFlaws = {} PROVE GoodClause(wheresql', iskuohao')
      OBVIOUS
  <2>1. kind = "cond" /\ rows \in SUBSET Rows
      BY <1>1 DEF IsCondition, WhereFlaws
  <2>2. GoodClause(wheresql, iskuohao)
      BY <1>1, <1>3 DEF ClauseInv
  <2>3. GoodClause(Append(Worded(word), Token("cond", rows)), iskuohao)
      BY <1>3, <2>1, <2>2, ConditionFits
  <2>. QED
      BY <1>1, <1>4, <1>5, <1>6, <2>1, <2>3
<1>. QED
    BY <1>1, <1>7, <1>8, <1>9

\* What the condition means, and what is said of it.
LEMMA ConditionMeaning ==
    ASSUME TypeOK, FlagsTrue, MeaningInv, NEW word \in Words, NEW kind, NEW rows, NEW flaw,
           IsCondition(kind, rows, flaw), Condition(word, kind, rows, flaw)
    PROVE  MeaningInv'
<1>. SUFFICES ASSUME flaws' = {} PROVE MeaningInv'
    BY DEF MeaningInv
<1>1. flaws = {} /\ kind = "cond" /\ rows \in SUBSET Rows
    BY DEF Condition, IsCondition
<1>2. /\ iskuohao' = iskuohao /\ ishascontent' = (ishascontent \/ iskuohao)
      /\ said' = SayCondition(word, rows) /\ Rows' = Rows
    BY ConditionTokens DEF Condition, Said
<1>. DEFINE now == Join(word, said.now, rows)
<1>3. /\ said.now \in LevelsOf(Rows) /\ said.outer \in LevelsOf(Rows)
      /\ said.mixed \in BOOLEAN
    BY DEF TypeOK, Saying
<1>4. /\ said'.now = now /\ said'.outer = said.outer
      /\ said'.mixed = (said.mixed \/ Mixed(now))
    BY <1>2 DEF SayCondition, TypeOK, Saying
<1>5. now.any = TRUE
    BY <1>3 DEF Join, LevelsOf
<1>6. wheresql' # <<>>
    BY ConditionTokens
<1>7. said.now.any <=> wheresql # <<>> /\ (ishascontent \/ ~iskuohao)
    BY <1>1 DEF MeaningInv, FlagsTrue, Cleared
<1>8. CASE said'.mixed
  <2>1. iskuohao => said.outer.any
      BY <1>1 DEF MeaningInv
  <2>. QED
      BY <1>2, <1>4, <1>5, <1>6, <1>8, <2>1 DEF MeaningInv
<1>9. CASE ~said'.mixed
  <2>1. PICK m : m = Meaning(Rows, wheresql)
      OBVIOUS
  <2>2. m \in States(Rows)
      BY <2>1, MeaningAppend, ConditionTokens DEF TypeOK
  <2>3. PICK mid : mid = IF said.now.any THEN ReadIn(Rows, m, Sign(word)) ELSE m
      OBVIOUS
  <2>4. mid = Meaning(Rows, Worded(word))
    <3>1. wheresql \in Seq(TokensOf(Rows)) /\ Sign(word) \in TokensOf(Rows)
        BY ConditionTokens DEF TypeOK
    <3>2. Meaning(Rows, Append(wheresql, Sign(word))) = ReadIn(Rows, m, Sign(word))
        BY <2>1, <3>1, MeaningAppend
    <3>. QED
        BY <1>7, <2>1, <2>3, <3>2 DEF Worded
  <2>5. PICK end : end = ReadIn(Rows, mid, Token("cond", rows))
      OBVIOUS
  <2>6. end = Meaning(Rows, wheresql')
    <3>1. Worded(word) \in Seq(TokensOf(Rows)) /\ Token("cond", rows) \in TokensOf(Rows)
        BY <1>1, ConditionTokens
    <3>2. wheresql' = Append(Worded(word), Token("cond", rows))
        BY <1>1, ConditionTokens
    <3>. QED
        BY <2>4, <2>5, <3>1, <3>2, MeaningAppend
  <2>7. ~said.mixed /\ now.words # Words
      BY <1>4, <1>9 DEF Mixed, Words
  <2>8. /\ LevelMeans(Rows, said.now, m.alts, m.run)
        /\ iskuohao => OuterMeans(Rows, said.outer, m.alts0, m.run0)
        /\ iskuohao => said.outer.any
      BY <1>1, <2>1, <2>7 DEF MeaningInv
  <2>. HIDE DEF now
  <2>9. /\ LevelMeans(Rows, now, end.alts, end.run)
        /\ end.alts0 = m.alts0 /\ end.run0 = m.run0
      BY <1>1, <1>3, <2>2, <2>3, <2>5, <2>7, <2>8, JoinMeans DEF now
  <2>10. Meaning(Rows, wheresql)' = end
      BY <1>2, <2>6
  <2>. QED
      BY <1>2, <1>4, <1>5, <1>6, <2>8, <2>9, <2>10 DEF MeaningInv
<1>. QED
    BY <1>8, <1>9

\* Every method that adds a condition keeps the invariant.
LEMMA ConditionStep ==
    ASSUME WInv, NEW word \in Words, NEW kind, NEW rows, NEW flaw,
           IsCondition(kind, rows, flaw), Condition(word, kind, rows, flaw)
    PROVE  WInv'
BY ConditionTypes, ConditionFlags, ConditionClause, ConditionMeaning DEF WInv

-----------------------------------------------------------------------------
(* The methods that add a condition.                                       *)

\* A step of one of them.
Adds ==
    \E word \in Words : \E kind, rows, flaw :
        IsCondition(kind, rows, flaw) /\ Condition(word, kind, rows, flaw)

\* The rows that a comparison selects are rows of the table.
LEMMA SelectedRows ==
    ASSUME NEW c, NEW op, NEW v, NEW w, NEW lead, NEW trail
    PROVE  /\ Cmp(c, op, v) \in SUBSET Rows
           /\ Cmp(c, op, v) \cap Cmp(c, w, lead) \in SUBSET Rows
           /\ In(c, v) \in SUBSET Rows /\ NotIn(c, v) \in SUBSET Rows
           /\ Like(c, lead, v, trail) \in SUBSET Rows /\ {} \in SUBSET Rows
BY DEF Cmp, In, NotIn, Like

\* A condition with its rows.
LEMMA AddAdds ==
    ASSUME NEW word \in Words, NEW rows \in SUBSET Rows, Add(word, rows)
    PROVE  Adds
<1>1. IsCondition("cond", rows, {}) /\ Condition(word, "cond", rows, {})
    BY DEF Add, IsCondition
<1>. QED
    BY <1>1 DEF Adds

\* A condition with a list.
LEMMA AddListAdds ==
    ASSUME NEW word \in Words, NEW list, NEW rows \in SUBSET Rows, AddList(word, list, rows)
    PROVE  Adds
<1>1. CASE list = <<>>
  <2>1. IsCondition("bad", {}, {"emptyList"}) /\ Condition(word, "bad", {}, {"emptyList"})
      BY <1>1 DEF AddList, IsCondition
  <2>. QED
      BY <2>1 DEF Adds
<1>2. CASE list # <<>>
    BY <1>2, AddAdds DEF AddList
<1>. QED
    BY <1>1, <1>2

\* A list that is not closed.
LEMMA AddOpenListAdds ==
    ASSUME NEW word \in Words, AddOpenList(word)
    PROVE  Adds
<1>1. IsCondition("bad", {}, {"openList"}) /\ Condition(word, "bad", {}, {"openList"})
    BY DEF AddOpenList, IsCondition
<1>. QED
    BY <1>1 DEF Adds

\* The methods of the column id.
LEMMA IdAdds ==
    ASSUME IdMethods
    PROVE  Adds
<1>1. CASE eqId
    BY <1>1, AddAdds, SelectedRows DEF eqId, Words
<1>2. CASE inId
    BY <1>2, AddAdds, AddListAdds, SelectedRows DEF inId, Words
<1>3. CASE ninId
    BY <1>3, AddAdds, AddListAdds, SelectedRows DEF ninId, Words
<1>4. CASE btId
    BY <1>4, AddAdds, SelectedRows DEF btId, Words
<1>5. CASE or_eqId
    BY <1>5, AddAdds, SelectedRows DEF or_eqId, Words
<1>6. CASE or_inId
    BY <1>6, AddAdds, AddListAdds, SelectedRows DEF or_inId, Words
<1>7. CASE or_ninId
    BY <1>7, AddAdds, AddListAdds, SelectedRows DEF or_ninId, Words
<1>8. CASE or_btId
    BY <1>8, AddAdds, SelectedRows DEF or_btId, Words
<1>9. CASE eqId_T
    BY <1>9, AddAdds, SelectedRows DEF eqId_T, Words
<1>10. CASE btId_T
    BY <1>10, AddAdds, SelectedRows DEF btId_T, Words
<1>11. CASE or_eqId_T
    BY <1>11, AddAdds, SelectedRows DEF or_eqId_T, Words
<1>12. CASE or_btId_T
    BY <1>12, AddAdds, SelectedRows DEF or_btId_T, Words
<1>. QED
    BY <1>1, <1>2, <1>3, <1>4, <1>5, <1>6, <1>7, <1>8, <1>9, <1>10, <1>11, <1>12 DEF
       IdMethods

\* The methods of the column randomnumber.
LEMMA RandomnumberAdds ==
    ASSUME RandomnumberMethods
    PROVE  Adds
<1>1. CASE eqRandomnumber
    BY <1>1, AddAdds, SelectedRows DEF eqRandomnumber, Words
<1>2. CASE inRandomnumber
    BY <1>2, AddAdds, AddListAdds, SelectedRows DEF inRandomnumber, Words
<1>3. CASE ninRandomnumber
    BY <1>3, AddAdds, AddListAdds, SelectedRows DEF ninRandomnumber, Words
<1>4. CASE btRandomnumber
    BY <1>4, AddAdds, SelectedRows DEF btRandomnumber, Words
<1>5. CASE or_eqRandomnumber
    BY <1>5, AddAdds, SelectedRows DEF or_eqRandomnumber, Words
<1>6. CASE or_inRandomnumber
    BY <1>6, AddAdds, AddListAdds, SelectedRows DEF or_inRandomnumber, Words
<1>7. CASE or_ninRandomnumber
    BY <1>7, AddAdds, AddListAdds, SelectedRows DEF or_ninRandomnumber, Words
<1>8. CASE or_btRandomnumber
    BY <1>8, AddAdds, SelectedRows DEF or_btRandomnumber, Words
<1>9. CASE eqRandomnumber_T
    BY <1>9, AddAdds, SelectedRows DEF eqRandomnumber_T, Words
<1>10. CASE btRandomnumber_T
    BY <1>10, AddAdds, SelectedRows DEF btRandomnumber_T, Words
<1>11. CASE or_eqRandomnumber_T
    BY <1>11, AddAdds, SelectedRows DEF or_eqRandomnumber_T, Words
<1>12. CASE or_btRandomnumber_T
    BY <1>12, AddAdds, SelectedRows DEF or_btRandomnumber_T, Words
<1>. QED
    BY <1>1, <1>2, <1>3, <1>4, <1>5, <1>6, <1>7, <1>8, <1>9, <1>10, <1>11, <1>12 DEF
       RandomnumberMethods

\* The methods of the column message.
LEMMA MessageAdds ==
    ASSUME MessageMethods
    PROVE  Adds
<1>1. CASE nullMessage
    BY <1>1, AddAdds, SelectedRows DEF nullMessage, Words
<1>2. CASE eqMessage
    BY <1>2, AddAdds, SelectedRows DEF eqMessage, Words
<1>3. CASE inMessage
    BY <1>3, AddAdds, AddListAdds, AddOpenListAdds, SelectedRows DEF inMessage, Words
<1>4. CASE ninMessage
    BY <1>4, AddAdds, AddListAdds, AddOpenListAdds, SelectedRows DEF ninMessage, Words
<1>5. CASE likeMessage
    BY <1>5, AddAdds, SelectedRows DEF likeMessage, Words
<1>6. CASE btMessage
    BY <1>6, AddAdds, SelectedRows DEF btMessage, Words
<1>7. CASE or_nullMessage
    BY <1>7, AddAdds, SelectedRows DEF or_nullMessage, Words
<1>8. CASE or_eqMessage
    BY <1>8, AddAdds, SelectedRows DEF or_eqMessage, Words
<1>9. CASE or_inMessage
    BY <1>9, AddAdds, AddListAdds, AddOpenListAdds, SelectedRows DEF or_inMessage, Words
<1>10. CASE or_ninMessage
    BY <1>10, AddAdds, AddListAdds, AddOpenListAdds, SelectedRows DEF or_ninMessage, Words
<1>11. CASE or_likeMessage
    BY <1>11, AddAdds, SelectedRows DEF or_likeMessage, Words
<1>12. CASE or_btMessage
    BY <1>12, AddAdds, SelectedRows DEF or_btMessage, Words
<1>13. CASE eqMessage_T
    BY <1>13, AddAdds, SelectedRows DEF eqMessage_T, Words
<1>14. CASE btMessage_T
    BY <1>14, AddAdds, SelectedRows DEF btMessage_T, Words
<1>15. CASE or_eqMessage_T
    BY <1>15, AddAdds, SelectedRows DEF or_eqMessage_T, Words
<1>16. CASE or_btMessage_T
    BY <1>16, AddAdds, SelectedRows DEF or_btMessage_T, Words
<1>. QED
    BY <1>1, <1>2, <1>3, <1>4, <1>5, <1>6, <1>7, <1>8, <1>9, <1>10, <1>11, <1>12,
       <1>13, <1>14, <1>15, <1>16 DEF MessageMethods

\* The methods to which the caller names the column.
LEMMA NamedColumnAdds ==
    ASSUME NamedColumnMethods
    PROVE  Adds
<1>1. CASE where_raw
    BY <1>1, AddAdds, SelectedRows DEF where_raw, Words
<1>2. CASE where_num
    BY <1>2, AddAdds, SelectedRows DEF where_num, Words
<1>3. CASE where_obj
    BY <1>3, AddAdds, SelectedRows DEF where_obj, Words
<1>4. CASE where_bi
    BY <1>4, AddAdds, SelectedRows DEF where_bi, Words
<1>5. CASE where_str
    BY <1>5, AddAdds, SelectedRows DEF where_str, Words
<1>6. CASE whereBT
    BY <1>6, AddAdds, SelectedRows DEF whereBT, Words
<1>7. CASE between
    BY <1>7, AddAdds, SelectedRows DEF between, Words
<1>8. CASE orBetween
    BY <1>8, AddAdds, SelectedRows DEF orBetween, Words
<1>9. CASE whereLike
    BY <1>9, AddAdds, SelectedRows DEF whereLike, Words
<1>10. CASE whereLikeLeft
    BY <1>10, AddAdds, SelectedRows DEF whereLikeLeft, Words
<1>11. CASE whereOrLike
    BY <1>11, AddAdds, SelectedRows DEF whereOrLike, Words
<1>12. CASE whereAnd
    BY <1>12, AddAdds, SelectedRows DEF whereAnd, Words
<1>13. CASE whereBT_T
    BY <1>13, AddAdds, SelectedRows DEF whereBT_T, Words
<1>14. CASE whereEQ
    BY <1>14, AddAdds, SelectedRows DEF whereEQ, Words
<1>15. CASE whereOrBT
    BY <1>15, AddAdds, SelectedRows DEF whereOrBT, Words
<1>16. CASE whereOrBT_T
    BY <1>16, AddAdds, SelectedRows DEF whereOrBT_T, Words
<1>17. CASE whereOr
    BY <1>17, AddAdds, SelectedRows DEF whereOr, Words
<1>18. CASE whereIn
    BY <1>18, AddAdds, AddListAdds, SelectedRows DEF whereIn, Words
<1>19. CASE whereNotIn
    BY <1>19, AddAdds, AddListAdds, SelectedRows DEF whereNotIn, Words
<1>20. CASE whereIn_T
    BY <1>20, AddAdds, AddListAdds, SelectedRows DEF whereIn_T, Words
<1>21. CASE whereNotIn_T
    BY <1>21, AddAdds, AddListAdds, SelectedRows DEF whereNotIn_T, Words
<1>. QED
    BY <1>1, <1>2, <1>3, <1>4, <1>5, <1>6, <1>7, <1>8, <1>9, <1>10, <1>11, <1>12,
       <1>13, <1>14, <1>15, <1>16, <1>17, <1>18, <1>19, <1>20, <1>21 DEF
       NamedColumnMethods

-----------------------------------------------------------------------------
(* Brackets.                                                               *)

\* The tokens and the types after a bracket was opened.
LEMMA OpenTypes ==
    ASSUME TypeOK, TailInv, NEW word \in Words, OpenBracket(word)
    PROVE  /\ TypeOK' /\ TailInv' /\ Rows' = Rows
           /\ Sign(word) \in TokensOf(Rows) /\ Sign("(") \in TokensOf(Rows)
           /\ Append(wheresql, Sign(word)) \in Seq(TokensOf(Rows))
           /\ wheresql' = Append(Append(wheresql, Sign(word)), Sign("("))
<1>1. Sign(word) \in TokensOf(Rows) /\ Sign("(") \in TokensOf(Rows)
    BY DEF Sign, Token, TokensOf, Kinds, Words
<1>2. Rows' = Rows
    BY DEF OpenBracket, Rows
<1>3. wheresql \in Seq(TokensOf(Rows)) /\ wheresql' = wheresql \o <<Sign(word), Sign("(")>>
    BY DEF TypeOK, OpenBracket
<1>4. /\ wheresql' = Append(Append(wheresql, Sign(word)), Sign("("))
      /\ Append(wheresql, Sign(word)) \in Seq(TokensOf(Rows))
      /\ Append(Append(wheresql, Sign(word)), Sign("(")) \in Seq(TokensOf(Rows))
    BY <1>1, <1>3, AppendTwo
<1>5. said' \in Saying(Rows)
  <2>1. said \in Saying(Rows) /\ Nothing \in Saying(Rows) /\ Level \in LevelsOf(Rows)
      BY DEF TypeOK, Nothing, Level, Saying, LevelsOf, Words
  <2>2. [said.now EXCEPT !.word = word] \in LevelsOf(Rows)
      BY <2>1 DEF Saying, LevelsOf
  <2>3. SayOpen(word) \in Saying(Rows)
      BY <2>1, <2>2 DEF SayOpen, Saying
  <2>. QED
      BY <2>1, <2>3 DEF OpenBracket, Said
<1>6. /\ flaws' = flaws \cup (IF wheresql = <<>> THEN {"bracketFirst"} ELSE {})
      /\ iskuohao' = TRUE /\ ishascontent' = FALSE /\ UNCHANGED <<ordersql, groupsql>>
    BY DEF OpenBracket, tailVars
<1>7. TypeOK'
    BY <1>2, <1>4, <1>5, <1>6 DEF TypeOK, WhereFlaws
<1>8. TailInv'
    BY <1>6 DEF TailInv
<1>. QED
    BY <1>1, <1>2, <1>4, <1>7, <1>8

\* The clause after a bracket was opened.
LEMMA OpenClause ==
    ASSUME TypeOK, TailInv, FlagsTrue, ClauseInv, ~iskuohao, NEW word \in Words,
           OpenBracket(word)
    PROVE  FlagsTrue' /\ ClauseInv'
<1>. DEFINE T == TokensOf(Rows)
<1>1. wheresql \in Seq(T) /\ iskuohao = FALSE /\ iskuohao' = TRUE /\ ishascontent' = FALSE
    BY DEF TypeOK, OpenBracket
<1>2. PICK w \in T : w = Sign(word)
    BY OpenTypes
<1>3. PICK b \in T : b = Sign("(")
    BY OpenTypes
<1>4. w.k = word /\ b.k = "("
    BY <1>2, <1>3 DEF Sign, Token
<1>5. PICK s \in Seq(T) : s = Append(wheresql, w)
    BY <1>2, OpenTypes
<1>6. wheresql' = Append(s, b)
    BY <1>2, <1>3, <1>5, OpenTypes
<1>. HIDE DEF T
<1>7. /\ s # <<>> /\ s[Len(s)] = w /\ wheresql' # <<>> /\ wheresql'[Len(wheresql')] = b
      /\ wheresql = <<>> => s[1] = w
    BY <1>1, <1>5, <1>6
<1>8. FlagsTrue'
    BY <1>1, <1>4, <1>7 DEF FlagsTrue
<1>9. flaws' = flaws \cup IF wheresql = <<>> THEN {"bracketFirst"} ELSE {}
    BY DEF OpenBracket
<1>10. \A f \in flaws' \cap WhereFlaws : ~Cleared => Trace(f, wheresql')
  <2>. SUFFICES ASSUME NEW f \in flaws' \cap WhereFlaws, ~Cleared PROVE Trace(f, wheresql')
      OBVIOUS
  <2>1. CASE f \in flaws
    <3>1. Trace(f, wheresql) /\ f \in WhereFlaws
        BY <2>1 DEF ClauseInv
    <3>2. Trace(f, s)
        BY <1>1, <1>5, <3>1, TraceKeeps
    <3>. QED
        BY <1>6, <3>1, <3>2, TraceKeeps
  <2>2. CASE f \notin flaws
    <3>1. f = "bracketFirst" /\ wheresql = <<>>
        BY <1>9, <2>2
    <3>2. Trace(f, s)
        BY <1>4, <1>7, <3>1 DEF Trace
    <3>. QED
        BY <1>6, <3>2, TraceKeeps
  <2>. QED
      BY <2>1, <2>2
<1>11. ~Cleared /\ flaws' \cap WhereFlaws = {} => GoodClause(wheresql', iskuohao')
  <2>. SUFFICES ASSUME ~Cleared, flaws' \cap WhereFlaws = {} PROVE GoodClause(wheresql', TRUE)
      BY <1>1
  <2>1. wheresql # <<>> /\ GoodClause(wheresql, FALSE)
      BY <1>1, <1>9 DEF ClauseInv, WhereFlaws
  <2>2. wheresql[Len(wheresql)].k \in {"cond", ")"}
    <3>1. wheresql[Len(wheresql)].k \in {"cond", "bad", ")"}
        BY <1>1, <2>1 DEF FlagsTrue
    <3>2. Len(wheresql) \in 1..Len(wheresql)
        BY <1>1, <2>1
    <3>. QED
        BY <2>1, <3>1, <3>2 DEF GoodClause
  <2>3. Follows(wheresql[Len(wheresql)].k, w.k)
      BY <1>4, <2>2 DEF Follows, Words
  <2>4. GoodClause(s, FALSE)
      BY <1>1, <1>4, <1>5, <2>1, <2>3, GoodAppend DEF Words
  <2>5. Follows(s[Len(s)].k, b.k)
      BY <1>4, <1>7 DEF Follows, Words
  <2>. QED
      BY <1>4, <1>6, <1>7, <2>4, <2>5, GoodAppend
<1>12. Cleared => Cleared'
    BY <1>9 DEF Cleared
<1>. QED
    BY <1>8, <1>10, <1>11, <1>12 DEF ClauseInv

\* What the bracket that was opened will mean.
LEMMA OpenMeaning ==
    ASSUME TypeOK, TailInv, FlagsTrue, MeaningInv, ~iskuohao, NEW word \in Words,
           OpenBracket(word)
    PROVE  MeaningInv'
<1>. SUFFICES ASSUME flaws' = {} PROVE MeaningInv'
    BY DEF MeaningInv
<1>1. flaws = {} /\ wheresql # <<>> /\ said' = SayOpen(word)
    BY DEF OpenBracket, Said
<1>2. iskuohao' = TRUE /\ ishascontent' = FALSE
    BY DEF OpenBracket
<1>3. said.now \in LevelsOf(Rows) /\ said \in Saying(Rows)
    BY DEF TypeOK, Saying
<1>4. /\ said'.now = Level /\ said'.outer = [said.now EXCEPT !.word = word]
      /\ said'.mixed = said.mixed
    BY <1>1, <1>3 DEF SayOpen, Saying
<1>5. said.now.any
    BY <1>1 DEF MeaningInv
<1>6. said'.outer.any /\ said'.now.any = FALSE
    BY <1>3, <1>4, <1>5 DEF Level, LevelsOf
<1>7. CASE said'.mixed
    BY <1>2, <1>6, <1>7 DEF MeaningInv
<1>8. CASE ~said'.mixed
  <2>1. PICK m : m = Meaning(Rows, wheresql)
      OBVIOUS
  <2>2. wheresql \in Seq(TokensOf(Rows))
      BY DEF TypeOK
  <2>3. m \in States(Rows) /\ ReadIn(Rows, m, Sign(word)) = Meaning(Rows, Append(wheresql, Sign(word)))
      BY <2>1, <2>2, OpenTypes, MeaningAppend
  <2>4. PICK end : end = ReadIn(Rows, ReadIn(Rows, m, Sign(word)), Sign("("))
      OBVIOUS
  <2>5. end = Meaning(Rows, wheresql')
      BY <2>3, <2>4, OpenTypes, MeaningAppend
  <2>6. LevelMeans(Rows, said.now, m.alts, m.run)
      BY <1>1, <1>4, <1>8, <2>1 DEF MeaningInv
  <2>7. /\ LevelMeans(Rows, Level, end.alts, end.run)
        /\ OuterMeans(Rows, [said.now EXCEPT !.word = word], end.alts0, end.run0)
      BY <1>3, <1>5, <2>3, <2>4, <2>6, OpenMeans
  <2>8. Meaning(Rows, wheresql)' = end /\ Rows' = Rows
      BY <2>5, OpenTypes
  <2>. QED
      BY <1>2, <1>4, <1>6, <2>7, <2>8 DEF MeaningInv
<1>. QED
    BY <1>7, <1>8

\* Opening a bracket keeps the invariant.
LEMMA OpenStep ==
    ASSUME WInv, ~iskuohao, NEW word \in Words, OpenBracket(word)
    PROVE  WInv'
BY OpenTypes, OpenClause, OpenMeaning DEF WInv

\* The types after a bracket was closed.
LEMMA CloseTypes ==
    ASSUME TypeOK, TailInv, CloseBracket
    PROVE  /\ TypeOK' /\ TailInv' /\ Rows' = Rows /\ Sign(")") \in TokensOf(Rows)
<1>1. Sign(")") \in TokensOf(Rows)
    BY DEF Sign, Token, TokensOf, Kinds
<1>2. Rows' = Rows
    BY DEF CloseBracket, Rows
<1>3. wheresql' \in Seq(TokensOf(Rows))
  <2>1. wheresql \in Seq(TokensOf(Rows)) /\ wheresql' = Append(wheresql, Sign(")"))
      BY DEF CloseBracket, TypeOK
  <2>. QED
      BY <1>1, <2>1
<1>4. said' \in Saying(Rows)
  <2>1. /\ said \in Saying(Rows) /\ Nothing \in Saying(Rows) /\ Level \in LevelsOf(Rows)
        /\ said.outer \in LevelsOf(Rows) /\ said.outer.word \in Words
        /\ said.now.rows \in SUBSET Rows
      BY DEF TypeOK, Nothing, Level, Saying, LevelsOf, Words
  <2>2. Join(said.outer.word, said.outer, said.now.rows) \in LevelsOf(Rows)
      BY <2>1, SayingTypes
  <2>3. SayClose \in Saying(Rows)
      BY <2>1, <2>2 DEF SayClose, Saying, Mixed
  <2>. QED
      BY <2>1, <2>3 DEF CloseBracket, Said
<1>5. /\ flaws' = flaws \cup (IF ishascontent THEN {} ELSE {"emptyBracket"})
      /\ iskuohao' = FALSE /\ ishascontent' = FALSE /\ UNCHANGED <<ordersql, groupsql>>
    BY DEF CloseBracket, tailVars
<1>6. TypeOK'
    BY <1>2, <1>3, <1>4, <1>5 DEF TypeOK, WhereFlaws
<1>7. TailInv'
    BY <1>5 DEF TailInv
<1>. QED
    BY <1>1, <1>2, <1>6, <1>7

\* The clause after a bracket was closed.
LEMMA CloseClause ==
    ASSUME TypeOK, TailInv, FlagsTrue, ClauseInv, iskuohao, CloseBracket
    PROVE  FlagsTrue' /\ ClauseInv'
<1>. DEFINE T == TokensOf(Rows)
<1>1. /\ wheresql \in Seq(T) /\ iskuohao = TRUE /\ iskuohao' = FALSE /\ ishascontent' = FALSE
      /\ ishascontent \in BOOLEAN
    BY DEF TypeOK, CloseBracket
<1>2. PICK b \in T : b = Sign(")")
    BY CloseTypes
<1>3. b.k = ")" /\ wheresql' = Append(wheresql, b)
    BY <1>2 DEF Sign, Token, CloseBracket
<1>. HIDE DEF T
<1>4. wheresql' # <<>> /\ wheresql'[Len(wheresql')] = b
    BY <1>1, <1>3
<1>5. FlagsTrue'
    BY <1>1, <1>3, <1>4 DEF FlagsTrue
<1>6. flaws' = flaws \cup IF ishascontent THEN {} ELSE {"emptyBracket"}
    BY DEF CloseBracket
<1>7. ~Cleared => wheresql # <<>>
    BY <1>1 DEF FlagsTrue
<1>8. \A f \in flaws' \cap WhereFlaws : ~Cleared => Trace(f, wheresql')
  <2>. SUFFICES ASSUME NEW f \in flaws' \cap WhereFlaws, ~Cleared PROVE Trace(f, wheresql')
      OBVIOUS
  <2>1. CASE f \in flaws
    <3>1. Trace(f, wheresql) /\ f \in WhereFlaws
        BY <2>1 DEF ClauseInv
    <3>. QED
        BY <1>1, <1>3, <3>1, TraceKeeps
  <2>2. CASE f \notin flaws
    <3>1. f = "emptyBracket" /\ ~ishascontent
        BY <1>6, <2>2
    <3>2. wheresql[Len(wheresql)].k = "("
        BY <1>1, <1>7, <3>1 DEF FlagsTrue
    <3>3. PICK u : u = wheresql'
        OBVIOUS
    <3>4. /\ Len(wheresql) \in 1..(Len(u) - 1) /\ u[Len(wheresql)] = wheresql[Len(wheresql)]
          /\ u[Len(wheresql) + 1] = b
        BY <1>1, <1>3, <1>7, <3>3
    <3>5. Trace(f, u)
        BY <1>3, <3>1, <3>2, <3>4 DEF Trace
    <3>. QED
        BY <3>3, <3>5
  <2>. QED
      BY <2>1, <2>2
<1>9. ~Cleared /\ flaws' \cap WhereFlaws = {} => GoodClause(wheresql', iskuohao')
  <2>. SUFFICES ASSUME ~Cleared, flaws' \cap WhereFlaws = {} PROVE GoodClause(wheresql', FALSE)
      BY <1>1
  <2>1. GoodClause(wheresql, TRUE) /\ ishascontent
      BY <1>1, <1>6 DEF ClauseInv, WhereFlaws
  <2>2. wheresql[Len(wheresql)].k \in {"cond", ")"}
    <3>1. wheresql[Len(wheresql)].k \in {"cond", "bad", ")"}
        BY <1>1, <1>7, <2>1 DEF FlagsTrue
    <3>2. Len(wheresql) \in 1..Len(wheresql)
        BY <1>1, <1>7
    <3>. QED
        BY <2>1, <3>1, <3>2 DEF GoodClause
  <2>3. Follows(wheresql[Len(wheresql)].k, b.k)
      BY <1>3, <2>2 DEF Follows
  <2>. QED
      BY <1>1, <1>3, <1>7, <2>1, <2>3, GoodAppend
<1>10. Cleared => Cleared'
    BY <1>6 DEF Cleared
<1>. QED
    BY <1>5, <1>8, <1>9, <1>10 DEF ClauseInv

\* What a bracket means once it is closed.
LEMMA CloseMeaning ==
    ASSUME TypeOK, TailInv, FlagsTrue, MeaningInv, iskuohao, CloseBracket
    PROVE  MeaningInv'
<1>. SUFFICES ASSUME flaws' = {} PROVE MeaningInv'
    BY DEF MeaningInv
<1>1. flaws = {} /\ ishascontent /\ said' = SayClose
    BY DEF CloseBracket, Said
<1>2. iskuohao' = FALSE /\ wheresql' = Append(wheresql, Sign(")"))
    BY DEF CloseBracket
<1>. DEFINE now == Join(said.outer.word, said.outer, said.now.rows)
<1>3. /\ said.now \in LevelsOf(Rows) /\ said.outer \in LevelsOf(Rows)
      /\ said.mixed \in BOOLEAN /\ wheresql \in Seq(TokensOf(Rows))
    BY DEF TypeOK, Saying
<1>4. said'.now = now /\ said'.mixed = (said.mixed \/ Mixed(now))
    BY <1>1 DEF SayClose
<1>5. said.now.any /\ said.outer.any
    BY <1>1 DEF MeaningInv
<1>6. now.any
    BY <1>3, <1>5 DEF Join, LevelsOf
<1>7. wheresql' # <<>>
    BY <1>2, <1>3
<1>8. CASE said'.mixed
    BY <1>2, <1>4, <1>6, <1>7, <1>8 DEF MeaningInv
<1>9. CASE ~said'.mixed
  <2>1. PICK m : m = Meaning(Rows, wheresql)
      OBVIOUS
  <2>2. PICK end : end = ReadIn(Rows, m, Sign(")"))
      OBVIOUS
  <2>3. m \in States(Rows) /\ end = Meaning(Rows, wheresql')
      BY <1>2, <1>3, <2>1, <2>2, CloseTypes, MeaningAppend
  <2>4. ~said.mixed /\ now.words # Words
      BY <1>4, <1>9 DEF Mixed, Words
  <2>5. /\ LevelMeans(Rows, said.now, m.alts, m.run)
        /\ OuterMeans(Rows, said.outer, m.alts0, m.run0)
      BY <1>1, <2>1, <2>4 DEF MeaningInv
  <2>. HIDE DEF now
  <2>6. LevelMeans(Rows, now, end.alts, end.run)
      BY <1>3, <1>5, <2>2, <2>3, <2>4, <2>5, CloseMeans DEF now
  <2>7. Meaning(Rows, wheresql)' = end /\ Rows' = Rows
      BY <2>3, CloseTypes
  <2>. QED
      BY <1>2, <1>4, <1>6, <1>7, <2>6, <2>7 DEF MeaningInv
<1>. QED
    BY <1>8, <1>9

\* Closing a bracket keeps the invariant.
LEMMA CloseStep ==
    ASSUME WInv, iskuohao, CloseBracket
    PROVE  WInv'
BY CloseTypes, CloseClause, CloseMeaning DEF WInv

\* All methods for brackets do one or the other.
LEMMA BracketStep ==
    ASSUME WInv, BracketMethods
    PROVE  WInv'
<1>1. CASE iskuohao
  <2>1. CloseBracket
      BY <1>1 DEF BracketMethods, orsub, andsub, endsub, or_b, and_b, or_e
  <2>. QED
      BY <1>1, <2>1, CloseStep
<1>2. CASE ~iskuohao
  <2>1. \E word \in Words : OpenBracket(word)
      BY <1>2 DEF BracketMethods, orsub, andsub, endsub, or_b, and_b, or_e, Words
  <2>. QED
      BY <1>2, <2>1, OpenStep
<1>. QED
    BY <1>1, <1>2

-----------------------------------------------------------------------------
(* The other parts of the statement, the clears and the base class.        *)

\* The length of a list.
LEMMA LengthFacts ==
    ASSUME NEW S, NEW s \in Seq(S)
    PROVE  /\ Len(s) \in Nat /\ DOMAIN s = 1..Len(s) /\ (s = <<>> <=> Len(s) = 0)
           /\ ~(Len(s) > 1) <=> Len(s) <= 1
           /\ s # <<>> => Len(s) \in 1..Len(s)
OBVIOUS

\* A list with one element more.
LEMMA LongerFacts ==
    ASSUME NEW S, NEW s \in Seq(S), NEW t \in S
    PROVE  /\ Append(s, t) \in Seq(S) /\ Append(s, t) # <<>>
           /\ Len(Append(s, t)) > 1 <=> s # <<>>
           /\ s = <<>> => Append(s, t) = <<t>>
<1>. DEFINE u == Append(s, t)
<1>1. /\ u \in Seq(S) /\ u # <<>> /\ Len(u) = Len(s) + 1 /\ u[Len(s) + 1] = t
      /\ Len(s) \in Nat /\ (s = <<>> <=> Len(s) = 0)
    OBVIOUS
<1>2. s = <<>> => u = <<t>>
    OBVIOUS
<1>. HIDE DEF u
<1>3. Len(u) > 1 <=> s # <<>>
    BY <1>1
<1>. QED
    BY <1>1, <1>2, <1>3 DEF u

\* A list with one element more is not a list of another element alone.
LEMMA AppendOther ==
    ASSUME NEW S, NEW s \in Seq(S), NEW t \in S, NEW x \in S, s # <<>> \/ t # x
    PROVE  Append(s, t) # <<x>>
<1>. DEFINE u == Append(s, t)
<1>1. /\ u \in Seq(S) /\ Len(u) = Len(s) + 1 /\ u[Len(s) + 1] = t
      /\ Len(s) \in Nat /\ (s = <<>> <=> Len(s) = 0)
    OBVIOUS
<1>. HIDE DEF u
<1>2. u # <<x>>
    BY <1>1
<1>. QED
    BY <1>2 DEF u

\* Only a first GROUP BY makes a valid list.
LEMMA GroupsGrow ==
    ASSUME NEW g \in Seq(Groups), NEW h \in Groups,
           g # <<>> \/ h # "GROUP BY"
    PROVE  Append(g, h) # <<>> /\ Append(g, h) # <<"GROUP BY">>
<1>1. PICK b \in Groups : b = "GROUP BY"
    BY DEF Groups
<1>2. Append(g, h) # <<>>
    BY LongerFacts
<1>3. g # <<>> \/ h # b
    BY <1>1
<1>4. Append(g, h) # <<b>>
    BY ONLY g \in Seq(Groups), h \in Groups, b \in Groups, <1>3, AppendOther
<1>. QED
    BY <1>1, <1>2, <1>4

\* The other parts of the statement.
LEMMA TailStep ==
    ASSUME WInv, TailMethods
    PROVE  WInv'
<1>1. UNCHANGED <<mod, wheresql, iskuohao, ishascontent, said>> /\ Rows' = Rows
    BY DEF TailMethods, select, order, having, group, limit, TailCall, Rows
<1>2. Columns \subseteq ColumnNames
  <2>1. \A c \in Columns : \E i \in DOMAIN col_names : c = col_names[i]
      BY DEF Columns, ToSet
  <2>. QED
      BY <2>1 DEF col_names, ColumnNames
<1>3. /\ ordersql \in Seq(ColumnNames) /\ groupsql \in Seq(Groups)
      /\ flaws \subseteq WhereFlaws \cup TailFlaws \cup {"clearedInBracket"}
    BY DEF WInv, TypeOK
<1>4. /\ flaws \subseteq flaws' /\ flaws' \subseteq flaws \cup TailFlaws
      /\ ordersql' \in Seq(ColumnNames) /\ groupsql' \in Seq(Groups)
      /\ TailInv'
  <2>1. CASE UNCHANGED <<ordersql, groupsql, flaws>>
      BY <1>3, <2>1 DEF TailInv, WInv
  <2>2. CASE order
    <3>1. PICK c \in ColumnNames : ordersql' = Append(ordersql, c)
        BY <1>2, <2>2 DEF order
    <3>2. /\ flaws' = flaws \cup (IF ordersql = <<>> THEN {} ELSE {"secondOrder"})
          /\ groupsql' = groupsql
        BY <2>2 DEF order
    <3>3. ordersql' \in Seq(ColumnNames) /\ (Len(ordersql') > 1 <=> ordersql # <<>>)
        BY <1>3, <3>1, LongerFacts
    <3>4. ordersql = <<>> => "secondOrder" \notin flaws
      <4>1. ordersql = <<>> => ~(Len(ordersql) > 1)
          OBVIOUS
      <4>. QED
          BY <4>1 DEF TailInv, WInv
    <3>5. "secondOrder" \in flaws' <=> Len(ordersql') > 1
        BY <3>2, <3>3, <3>4
    <3>6. flaws' \cap {"secondGroup", "having"} = flaws \cap {"secondGroup", "having"}
        BY <3>2
    <3>. QED
        BY <1>3, <3>2, <3>3, <3>5, <3>6 DEF TailInv, WInv, TailFlaws
  <2>3. CASE having
    <3>1. /\ groupsql' = Append(groupsql, "HAVING by") /\ flaws' = flaws \cup {"having"}
          /\ ordersql' = ordersql
        BY <2>3 DEF having
    <3>0. "HAVING by" \in Groups /\ "GROUP BY" \in Groups /\ "HAVING by" # "GROUP BY"
        BY DEF Groups
    <3>2. groupsql' \in Seq(Groups)
        BY <1>3, <3>0, <3>1, LongerFacts
    <3>3. groupsql' \notin {<<>>, <<"GROUP BY">>}
      <4>1. PICK g \in Seq(Groups) : g = groupsql
          BY <1>3
      <4>2. Append(g, "HAVING by") # <<>> /\ Append(g, "HAVING by") # <<"GROUP BY">>
          BY <3>0, GroupsGrow
      <4>. QED
          BY <3>1, <4>1, <4>2
    <3>. QED
        BY <1>3, <3>1, <3>2, <3>3 DEF TailInv, WInv, TailFlaws
  <2>4. CASE group
    <3>1. /\ groupsql' = Append(groupsql, "GROUP BY") /\ ordersql' = ordersql
          /\ flaws' = flaws \cup (IF groupsql = <<>> THEN {} ELSE {"secondGroup"})
        BY <2>4 DEF group
    <3>0. "GROUP BY" \in Groups
        BY DEF Groups
    <3>2. groupsql' \in Seq(Groups)
        BY <1>3, <3>0, <3>1, LongerFacts
    <3>3. CASE groupsql = <<>>
      <4>1. Append(<<>>, "GROUP BY") = <<"GROUP BY">>
          OBVIOUS
      <4>2. groupsql' = <<"GROUP BY">> /\ flaws' = flaws
          BY <3>1, <3>3, <4>1
      <4>. QED
          BY <1>3, <3>1, <3>2, <3>3, <4>2 DEF TailInv, WInv
    <3>4. CASE groupsql # <<>>
      <4>1. PICK g \in Seq(Groups) : g = groupsql
          BY <1>3
      <4>2. Append(g, "GROUP BY") # <<>> /\ Append(g, "GROUP BY") # <<"GROUP BY">>
          BY <3>0, <3>4, <4>1, GroupsGrow
      <4>3. groupsql' \notin {<<>>, <<"GROUP BY">>}
          BY <3>1, <4>1, <4>2
      <4>. QED
          BY <1>3, <3>1, <3>2, <3>4, <4>3 DEF TailInv, WInv, TailFlaws
    <3>. QED
        BY <3>3, <3>4
  <2>. QED
      BY <2>1, <2>2, <2>3, <2>4 DEF TailMethods, select, limit
<1>5. TypeOK'
    BY <1>1, <1>3, <1>4 DEF WInv, TypeOK
<1>6. flaws' \cap WhereFlaws = flaws \cap WhereFlaws /\ Cleared' = Cleared
  <2>1. WhereFlaws \cap TailFlaws = {} /\ "clearedInBracket" \notin TailFlaws
      BY DEF WhereFlaws, TailFlaws
  <2>2. \A f : f \notin TailFlaws => (f \in flaws' <=> f \in flaws)
      BY <1>4
  <2>. QED
      BY <2>1, <2>2 DEF Cleared
<1>7. FlagsTrue' /\ ClauseInv'
    BY <1>1, <1>6 DEF WInv, FlagsTrue, ClauseInv
<1>8. MeaningInv'
    BY <1>1, <1>4 DEF WInv, MeaningInv
<1>. QED
    BY <1>4, <1>5, <1>7, <1>8 DEF WInv

\* Nothing is left of the clause, and no bracket is open.
LEMMA EmptyMeaning ==
    ASSUME wheresql' = <<>>, iskuohao' = FALSE, said' = Nothing
    PROVE  MeaningInv'
<1>1. Meaning(Rows', wheresql') = Blank(Rows')
    BY MeaningEmpty
<1>2. Meaning(Rows, wheresql)' = Blank(Rows')
    BY <1>1
<1>. QED
    BY <1>2 DEF MeaningInv, Nothing, Level, LevelMeans, Blank, Words

\* clear and clearWhere.
LEMMA ClearStep ==
    ASSUME WInv, clearWhere
    PROVE  WInv'
<1>1. /\ wheresql' = <<>> /\ iskuohao' = FALSE /\ ishascontent' = FALSE
      /\ ordersql' = <<>> /\ groupsql' = <<>> /\ flaws' = {} /\ said' = Nothing
    BY DEF clearWhere
<1>2. TypeOK'
  <2>1. said' \in Saying(Rows')
      BY <1>1 DEF Nothing, Level, Saying, LevelsOf, Words
  <2>2. wheresql' \in Seq(TokensOf(Rows'))
      BY <1>1
  <2>3. ordersql' \in Seq(ColumnNames) /\ groupsql' \in Seq(Groups)
      BY <1>1
  <2>. QED
      BY <1>1, <2>1, <2>2, <2>3 DEF TypeOK
<1>3. FlagsTrue' /\ TailInv'
    BY <1>1 DEF FlagsTrue, TailInv
<1>4. ClauseInv'
    BY <1>1, GoodEmpty DEF ClauseInv
<1>5. MeaningInv'
    BY <1>1, EmptyMeaning
<1>. QED
    BY <1>2, <1>3, <1>4, <1>5 DEF WInv

\* wheresql.clear().
LEMMA WheresqlClearStep ==
    ASSUME WInv, wheresql_clear
    PROVE  WInv'
<1>1. /\ wheresql' = <<>> /\ said' = Nothing
      /\ flaws' = (flaws \cap TailFlaws) \cup (IF iskuohao THEN {"clearedInBracket"} ELSE {})
      /\ UNCHANGED <<mod, iskuohao, ishascontent, ordersql, groupsql>>
    BY DEF wheresql_clear, tailVars, TailFlaws
<1>2. TypeOK'
  <2>1. said' \in Saying(Rows')
      BY <1>1 DEF Nothing, Level, Saying, LevelsOf, Words
  <2>2. wheresql' \in Seq(TokensOf(Rows'))
      BY <1>1
  <2>. QED
      BY <1>1, <2>1, <2>2 DEF TypeOK, WInv
<1>3. iskuohao => Cleared'
    BY <1>1 DEF Cleared
<1>4. FlagsTrue'
    BY <1>1, <1>3 DEF FlagsTrue, WInv
<1>5. ClauseInv'
    BY <1>1, <1>3, GoodEmpty DEF ClauseInv, WInv, TypeOK, WhereFlaws, TailFlaws
<1>6. TailInv'
    BY <1>1 DEF TailInv, WInv, TailFlaws
<1>7. MeaningInv'
  <2>1. CASE iskuohao
      BY <1>3, <2>1 DEF MeaningInv, Cleared
  <2>2. CASE ~iskuohao
    <3>1. iskuohao' = FALSE
        BY <1>1, <2>2 DEF WInv, TypeOK
    <3>. QED
        BY <1>1, <3>1, EmptyMeaning
  <2>. QED
      BY <2>1, <2>2
<1>. QED
    BY <1>2, <1>4, <1>5, <1>6, <1>7 DEF WInv

\* A step that leaves the builder alone.
LEMMA OtherStep ==
    ASSUME WInv, UNCHANGED mod, UNCHANGED whereVars
    PROVE  WInv'
<1>1. /\ UNCHANGED <<wheresql, iskuohao, ishascontent, ordersql, groupsql, flaws, said>>
      /\ Rows' = Rows
    BY DEF whereVars, tailVars, Rows
<1>2. TypeOK' /\ FlagsTrue' /\ TailInv'
    BY <1>1 DEF WInv, TypeOK, FlagsTrue, TailInv, Cleared
<1>3. ClauseInv'
    BY <1>1 DEF WInv, ClauseInv, Cleared
<1>4. MeaningInv'
    BY <1>1 DEF WInv, MeaningInv
<1>. QED
    BY <1>2, <1>3, <1>4 DEF WInv

-----------------------------------------------------------------------------
(* Theorems.                                                               *)

\* Every step keeps the invariant.
LEMMA NextWInv ==
    WInv /\ [Next]_vars => WInv'
<1>. SUFFICES ASSUME WInv, [Next]_vars PROVE WInv'
    OBVIOUS
<1>1. CASE Builder
  <2>1. CASE Adds
      BY <2>1, ConditionStep DEF Adds
  <2>. QED
      BY <1>1, <2>1, IdAdds, RandomnumberAdds, MessageAdds, NamedColumnAdds, BracketStep,
         TailStep, ClearStep, WheresqlClearStep DEF Builder
<1>2. CASE BaseNext /\ UNCHANGED whereVars
    BY <1>2, OtherStep DEF BaseNext
<1>3. CASE UNCHANGED vars
    BY <1>3, OtherStep DEF vars
<1>. QED
    BY <1>1, <1>2, <1>3 DEF Next

\* The invariant holds in every reachable state: which tokens the clause has, what
\* the flags say of its end, which traces the flaws have left, and what it selects.
THEOREM BuilderInvariant == Spec => []WInv
BY InitWInv, NextWInv, PTL DEF Spec

\* A clause that is good and complete is one that MySQL accepts.
LEMMA GoodIsValid ==
    ASSUME TypeOK, FlagsTrue, ~Cleared, ~iskuohao, GoodClause(wheresql, FALSE)
    PROVE  ValidClause(wheresql)
<1>. SUFFICES ASSUME wheresql # <<>> PROVE ValidClause(wheresql)
    BY DEF ValidClause
<1>1. Len(wheresql) \in 1..Len(wheresql) /\ DOMAIN wheresql = 1..Len(wheresql)
    BY LengthFacts DEF TypeOK
<1>2. wheresql[Len(wheresql)].k \in {"cond", ")"}
  <2>1. wheresql[Len(wheresql)].k \in {"cond", "bad", ")"}
      BY DEF FlagsTrue
  <2>. QED
      BY <1>1, <2>1 DEF GoodClause
<1>3. \A i \in DOMAIN wheresql : wheresql[i].k # "bad" /\ Depth(wheresql, i) >= 0
  <2>. SUFFICES ASSUME NEW i \in DOMAIN wheresql
                PROVE  wheresql[i].k # "bad" /\ Depth(wheresql, i) >= 0
      OBVIOUS
  <2>1. wheresql[i].k # "bad" /\ Depth(wheresql, i) \in {0, 1}
      BY <1>1 DEF GoodClause
  <2>. QED
      BY <2>1
<1>. QED
    BY <1>2, <1>3 DEF GoodClause, ValidClause

\* A clause with the trace of a flaw is one that MySQL refuses.
LEMMA TraceIsInvalid ==
    ASSUME NEW S, NEW s \in Seq(S), NEW f \in WhereFlaws, Trace(f, s)
    PROVE  ~ValidClause(s)
<1>1. CASE f = "bracketFirst"
    BY <1>1 DEF Trace, ValidClause, Words
<1>2. CASE f = "emptyBracket"
  <2>1. PICK i \in 1..(Len(s) - 1) : s[i].k = "(" /\ s[i + 1].k = ")"
      BY <1>2 DEF Trace
  <2>2. s # <<>> /\ ~Follows(s[i].k, s[i + 1].k)
      BY <2>1 DEF Follows
  <2>. QED
      BY <2>2 DEF ValidClause
<1>3. CASE f \in {"emptyList", "openList"}
  <2>1. PICK i \in 1..Len(s) : s[i].k = "bad"
      BY <1>3 DEF Trace
  <2>2. s # <<>> /\ i \in DOMAIN s
      BY <2>1
  <2>. QED
      BY <2>1, <2>2 DEF ValidClause
<1>. QED
    BY <1>1, <1>2, <1>3 DEF WhereFlaws

\* With no bracket open, a statement is valid if, and only if, none of the calls that
\* no valid statement can follow was made: eqId(..).or_b().. and the flags iskuohao
\* and ishascontent put every AND, OR and bracket where it belongs.
THEOREM ValidChains == Spec => []ValidUnlessFlawed
<1>1. WInv => ValidUnlessFlawed
  <2>. SUFFICES ASSUME WInv, ~iskuohao, ~Cleared PROVE ValidStatement <=> flaws = {}
      BY DEF ValidUnlessFlawed, Cleared
  <2>1. iskuohao = FALSE /\ wheresql \in Seq(TokensOf(Rows)) /\ ordersql \in Seq(ColumnNames)
      BY DEF WInv, TypeOK
  <2>2. ASSUME flaws = {} PROVE ValidStatement
    <3>1. GoodClause(wheresql, FALSE)
        BY <2>1, <2>2 DEF WInv, ClauseInv
    <3>2. ValidClause(wheresql)
        BY <3>1, GoodIsValid DEF WInv
    <3>3. Len(ordersql) <= 1 /\ groupsql \in {<<>>, <<"GROUP BY">>}
        BY <2>1, <2>2, LengthFacts DEF WInv, TailInv
    <3>. QED
        BY <3>2, <3>3 DEF ValidStatement
  <2>3. ASSUME ValidStatement PROVE flaws = {}
    <3>1. flaws \cap WhereFlaws = {}
      <4>1. \A f \in flaws \cap WhereFlaws : Trace(f, wheresql) /\ f \in WhereFlaws
          BY DEF WInv, ClauseInv
      <4>. QED
          BY <2>1, <2>3, <4>1, TraceIsInvalid DEF ValidStatement
    <3>2. ~(Len(ordersql) > 1)
        BY <2>1, <2>3, LengthFacts DEF ValidStatement
    <3>3. flaws \cap TailFlaws = {}
        BY <2>3, <3>2 DEF WInv, TailInv, TailFlaws, ValidStatement
    <3>. QED
        BY <3>1, <3>3 DEF WInv, TypeOK, Cleared
  <2>. QED
      BY <2>2, <2>3
<1>. QED
    BY <1>1, BuilderInvariant, PTL

\* The condition selects what the chain of calls says from left to right, unless AND
\* and OR meet on one level: what the calls append is read by MySQL as it was meant.
THEOREM ChainsMean == Spec => []FluentMeaning
<1>1. WInv => FluentMeaning
  <2>. SUFFICES ASSUME WInv, flaws = {}, ~iskuohao, wheresql # <<>>, ~said.mixed
                PROVE  Selected(wheresql) = said.now.rows
      BY DEF FluentMeaning
  <2>1. said.now.any
      BY DEF WInv, MeaningInv
  <2>2. LevelMeans(Rows, said.now, Meaning(Rows, wheresql).alts, Meaning(Rows, wheresql).run)
      BY DEF WInv, MeaningInv
  <2>. QED
      BY <2>1, <2>2, SelectedMeans DEF LevelMeans
<1>. QED
    BY <1>1, BuilderInvariant, PTL

-----------------------------------------------------------------------------
(* Lists of lists, one after the other.                                    *)

\* The definition of FlattenSeq.
IsFlat(f, ss) ==
    f = [i \in 1..Len(ss) |-> IF i = 1 THEN ss[i] ELSE f[i - 1] \o ss[i]]

\* There is a function as it is defined.
LEMMA FlatExists ==
    ASSUME NEW S, NEW ss \in Seq(Seq(S))
    PROVE  \E f : IsFlat(f, ss) /\ f \in [1..Len(ss) -> Seq(S)]
<1>. DEFINE N == Len(ss)
            T == Seq(S)
            step == [n \in 1..N |-> [m \in T |-> m \o ss[n]]]
<1>1. N \in Nat /\ <<>> \in T /\ \A n \in 1..N : ss[n] \in T
    OBVIOUS
<1>2. \A m, x \in T : m \o x \in T /\ <<>> \o x = x
    OBVIOUS
<1>. HIDE DEF N, T
<1>3. step \in [1..N -> [T -> T]]
    BY <1>1, <1>2
<1>4. \A n \in 1..N : \A m \in T : step[n][m] = m \o ss[n]
    OBVIOUS
<1>. HIDE DEF step
<1>5. PICK g \in [0..N -> T] : IsRun(g, N, <<>>, step)
    BY <1>1, <1>3, RunExists
<1>. DEFINE f == [i \in 1..N |-> g[i]]
<1>6. f \in [1..N -> T]
    BY <1>1
<1>7. \A i \in 1..N : f[i] = IF i = 1 THEN ss[i] ELSE f[i - 1] \o ss[i]
  <2>. SUFFICES ASSUME NEW i \in 1..N PROVE f[i] = IF i = 1 THEN ss[i] ELSE f[i - 1] \o ss[i]
      OBVIOUS
  <2>1. i - 1 \in 0..N /\ g[i - 1] \in T /\ f[i] = g[i] /\ (i # 1 => i - 1 \in 1..N)
      BY <1>1
  <2>2. g[i] = g[i - 1] \o ss[i]
      BY <1>4, <1>5, <2>1 DEF IsRun
  <2>3. i = 1 => g[i - 1] = <<>>
      BY <1>5 DEF IsRun
  <2>. QED
      BY <1>1, <1>2, <2>1, <2>2, <2>3
<1>8. f = [i \in 1..N |-> IF i = 1 THEN ss[i] ELSE f[i - 1] \o ss[i]]
    BY <1>6, <1>7
<1>. HIDE DEF f
<1>. QED
    BY <1>6, <1>8 DEF IsFlat, N, T

\* No lists.
LEMMA FlattenEmpty ==
    FlattenSeq(<<>>) = <<>>
BY DEF FlattenSeq

\* The function that FlattenSeq chooses.
LEMMA FlattenIs ==
    ASSUME NEW S, NEW ss \in Seq(Seq(S)), ss # <<>>
    PROVE  \E f : IsFlat(f, ss) /\ f \in [1..Len(ss) -> Seq(S)] /\ FlattenSeq(ss) = f[Len(ss)]
<1>. DEFINE N == Len(ss)
            h == CHOOSE f : IsFlat(f, ss)
<1>1. N \in Nat /\ N # 0
    OBVIOUS
<1>2. PICK f \in [1..N -> Seq(S)] : IsFlat(f, ss)
    BY FlatExists
<1>3. IsFlat(h, ss)
    BY <1>2
<1>4. FlattenSeq(ss) = h[N]
    BY <1>1 DEF FlattenSeq, IsFlat
<1>. HIDE DEF h
<1>5. \A n \in 1..N : h[n] = f[n]
  <2>. DEFINE A == [i \in 0..N |-> IF i = 0 THEN 0 ELSE h[i]]
              B == [i \in 0..N |-> IF i = 0 THEN 0 ELSE f[i]]
  <2>1. A[0] = B[0]
      BY <1>1
  <2>2. \A n \in 1..N : A[n - 1] = B[n - 1] => A[n] = B[n]
    <3>. SUFFICES ASSUME NEW n \in 1..N, A[n - 1] = B[n - 1] PROVE A[n] = B[n]
        OBVIOUS
    <3>1. A[n] = h[n] /\ B[n] = f[n]
        BY <1>1
    <3>2. CASE n = 1
        BY <1>1, <1>2, <1>3, <3>1, <3>2 DEF IsFlat
    <3>3. CASE n # 1
      <4>1. n - 1 \in 1..N /\ n - 1 \in 0..N /\ n - 1 # 0
          BY <1>1, <3>3
      <4>2. h[n - 1] = f[n - 1]
          BY <4>1
      <4>3. h[n] = h[n - 1] \o ss[n] /\ f[n] = f[n - 1] \o ss[n]
          BY <1>2, <1>3, <3>3 DEF IsFlat
      <4>. QED
          BY <3>1, <4>2, <4>3
    <3>. QED
        BY <3>2, <3>3
  <2>3. \A n \in 1..N : A[n] = h[n] /\ B[n] = f[n]
      BY <1>1
  <2>. HIDE DEF A, B
  <2>4. GoAlike(A, B, N)
      BY <2>1, <2>2 DEF GoAlike
  <2>5. \A n \in 0..N : A[n] = B[n]
      BY <1>1, <2>4, SameSteps
  <2>6. \A n \in 1..N : n \in 0..N
      BY <1>1
  <2>. HIDE DEF N
  <2>. QED
      BY <2>3, <2>5, <2>6
<1>. QED
    BY <1>1, <1>2, <1>4, <1>5

\* One list more.
LEMMA FlattenAppend ==
    ASSUME NEW S, NEW ss \in Seq(Seq(S)), NEW x \in Seq(S)
    PROVE  /\ FlattenSeq(ss) \in Seq(S)
           /\ FlattenSeq(Append(ss, x)) = FlattenSeq(ss) \o x
<1>. DEFINE T == Seq(S)
<1>0. \A a, b \in T : a \o b \in T /\ <<>> \o b = b /\ <<>> \in T
    OBVIOUS
<1>1. ss \in Seq(T) /\ x \in T /\ Append(ss, x) \in Seq(T)
    OBVIOUS
<1>2. PICK uu \in Seq(T) : uu = Append(ss, x)
    BY <1>1
<1>3. /\ Len(ss) \in Nat /\ Len(uu) = Len(ss) + 1 /\ uu[Len(uu)] = x /\ uu # <<>>
      /\ \A i \in 1..Len(ss) : uu[i] = ss[i]
    BY <1>1, <1>2
<1>4. PICK g : /\ IsFlat(g, uu) /\ g \in [1..Len(uu) -> T]
               /\ FlattenSeq(uu) = g[Len(uu)]
    BY <1>3, FlattenIs
<1>5. CASE ss = <<>>
  <2>1. Len(uu) = 1 /\ g[1] = uu[1]
      BY <1>3, <1>4, <1>5 DEF IsFlat
  <2>2. FlattenSeq(ss) = <<>>
      BY <1>5, FlattenEmpty
  <2>. QED
      BY <1>0, <1>1, <1>2, <1>3, <1>4, <2>1, <2>2
<1>6. CASE ss # <<>>
  <2>1. PICK f : IsFlat(f, ss) /\ f \in [1..Len(ss) -> T] /\ FlattenSeq(ss) = f[Len(ss)]
      BY <1>6, FlattenIs
  <2>2. Len(ss) \in 1..Len(ss) /\ Len(ss) # 0
      BY <1>6
  <2>. HIDE DEF T
  <2>. DEFINE A == [i \in 0..Len(ss) |-> IF i = 0 THEN 0 ELSE f[i]]
              B == [i \in 0..Len(ss) |-> IF i = 0 THEN 0 ELSE g[i]]
  <2>3. A[0] = B[0]
      BY <1>3
  <2>4. \A n \in 1..Len(ss) : A[n - 1] = B[n - 1] => A[n] = B[n]
    <3>. SUFFICES ASSUME NEW n \in 1..Len(ss), A[n - 1] = B[n - 1] PROVE A[n] = B[n]
        OBVIOUS
    <3>1. A[n] = f[n] /\ B[n] = g[n] /\ n \in 1..Len(uu) /\ uu[n] = ss[n]
        BY <1>3
    <3>2. CASE n = 1
        BY <1>3, <1>4, <2>1, <3>1, <3>2 DEF IsFlat
    <3>3. CASE n # 1
      <4>1. n - 1 \in 1..Len(ss) /\ n - 1 \in 0..Len(ss) /\ n - 1 # 0
          BY <1>3, <3>3
      <4>2. f[n - 1] = g[n - 1]
          BY <4>1
      <4>3. f[n] = f[n - 1] \o ss[n] /\ g[n] = g[n - 1] \o uu[n]
          BY <1>4, <2>1, <3>1, <3>3 DEF IsFlat
      <4>. QED
          BY <3>1, <4>2, <4>3
    <3>. QED
        BY <3>2, <3>3
  <2>5. A[Len(ss)] = f[Len(ss)] /\ B[Len(ss)] = g[Len(ss)]
      BY <2>2
  <2>. HIDE DEF A, B
  <2>6. PICK N \in Nat : N = Len(ss)
      BY <1>3
  <2>7. GoAlike(A, B, N)
      BY <2>3, <2>4, <2>6 DEF GoAlike
  <2>8. \A n \in 0..N : A[n] = B[n]
      BY <2>7, SameSteps
  <2>9. f[Len(ss)] = g[Len(ss)]
      BY <2>5, <2>6, <2>8
  <2>10. g[Len(uu)] = g[Len(ss)] \o x
    <3>1. Len(uu) \in 1..Len(uu) /\ Len(uu) # 1 /\ Len(uu) - 1 = Len(ss)
        BY <1>3, <2>2
    <3>. QED
        BY <1>3, <1>4, <3>1 DEF IsFlat
  <2>11. f[Len(ss)] \in T
      BY <2>1, <2>2
  <2>. QED
      BY <1>2, <1>4, <2>1, <2>9, <2>10, <2>11 DEF T
<1>. QED
    BY <1>5, <1>6

-----------------------------------------------------------------------------
(* What a loop keeps of a list.                                            *)

\* A list with one element more.
LEMMA AppendFacts ==
    ASSUME NEW S, NEW s \in Seq(S), NEW t \in S
    PROVE  /\ Append(s, t) \in Seq(S) /\ Append(s, t) # <<>>
           /\ Len(s) \in Nat /\ Len(Append(s, t)) = Len(s) + 1
           /\ Append(s, t)[Len(s) + 1] = t
           /\ \A i \in 1..Len(s) : Append(s, t)[i] = s[i]
           /\ Head(Append(s, t)) = IF s = <<>> THEN t ELSE Head(s)
<1>1. /\ Append(s, t) \in Seq(S) /\ Append(s, t) # <<>>
      /\ Len(s) \in Nat /\ Len(Append(s, t)) = Len(s) + 1
      /\ Append(s, t)[Len(s) + 1] = t
      /\ \A i \in 1..Len(s) : Append(s, t)[i] = s[i]
    OBVIOUS
<1>2. PICK u \in Seq(S) : u = Append(s, t)
    BY <1>1
<1>3. Head(u) = u[1]
    BY <1>1, <1>2
<1>4. s = <<>> => Len(s) + 1 = 1
    OBVIOUS
<1>5. s # <<>> => 1 \in 1..Len(s) /\ Head(s) = s[1]
    OBVIOUS
<1>. QED
    BY <1>1, <1>2, <1>3, <1>4, <1>5

\* The first n elements.
Pre(s, n) == [i \in 1..n |-> s[i]]

\* The first elements, one more at a time.
LEMMA PreFacts ==
    ASSUME NEW S, NEW s \in Seq(S)
    PROVE  /\ Pre(s, 0) = <<>> /\ Pre(s, Len(s)) = s
           /\ \A n \in 0..Len(s) : Pre(s, n) \in Seq(S) /\ Len(Pre(s, n)) = n
           /\ \A n \in 1..Len(s) : /\ s[n] \in S /\ n - 1 \in 0..Len(s)
                                    /\ Pre(s, n) = Append(Pre(s, n - 1), s[n])
<1>1. Pre(s, 0) = <<>>
    BY DEF Pre
<1>2. Pre(s, Len(s)) = s
    BY DEF Pre
<1>3. \A n \in 0..Len(s) : Pre(s, n) \in Seq(S) /\ Len(Pre(s, n)) = n
    BY DEF Pre
<1>4. \A n \in 1..Len(s) : /\ s[n] \in S /\ n - 1 \in 0..Len(s)
                          /\ Pre(s, n) = Append(Pre(s, n - 1), s[n])
  <2>. SUFFICES ASSUME NEW n \in 1..Len(s)
                PROVE  /\ s[n] \in S /\ n - 1 \in 0..Len(s)
                       /\ Pre(s, n) = Append(Pre(s, n - 1), s[n])
      OBVIOUS
  <2>1. s[n] \in S /\ n - 1 \in 0..Len(s)
      OBVIOUS
  <2>2. PICK a \in Seq(S) : a = Pre(s, n)
      BY <1>3
  <2>3. PICK b \in Seq(S) : b = Append(Pre(s, n - 1), s[n])
      BY <1>3, <2>1, AppendFacts
  <2>4. Len(a) = n /\ \A i \in 1..n : a[i] = s[i]
      BY <2>2 DEF Pre
  <2>5. Len(b) = n /\ \A i \in 1..n : b[i] = s[i]
    <3>1. PICK p \in Seq(S) : p = Pre(s, n - 1)
        BY <1>3, <2>1
    <3>2. Len(p) = n - 1 /\ \A i \in 1..(n - 1) : p[i] = s[i]
        BY <1>3, <2>1, <3>1 DEF Pre
    <3>. QED
        BY <2>1, <2>3, <3>1, <3>2
  <2>6. a = b
      BY <2>4, <2>5
  <2>. QED
      BY <2>1, <2>2, <2>3, <2>6
<1>. QED
    BY <1>1, <1>2, <1>3, <1>4

\* Nothing is kept of nothing.
LEMMA KeptEmpty ==
    ASSUME NEW I
    PROVE  Kept(<<>>, I) = <<>>
<1>1. [k \in DOMAIN <<>> |-> IF k \in I THEN <<(<<>>)[k]>> ELSE <<>>] = <<>>
    OBVIOUS
<1>. QED
    BY <1>1, FlattenEmpty DEF Kept

\* One element more.
LEMMA KeptAppend ==
    ASSUME NEW S, NEW s \in Seq(S), NEW t \in S, NEW I
    PROVE  /\ Kept(s, I) \in Seq(S)
           /\ Kept(Append(s, t), I)
                = IF Len(s) + 1 \in I THEN Append(Kept(s, I), t) ELSE Kept(s, I)
<1>. DEFINE Pick(u) == [k \in DOMAIN u |-> IF k \in I THEN <<u[k]>> ELSE <<>>]
            x == IF Len(s) + 1 \in I THEN <<t>> ELSE <<>>
<1>1. PICK u \in Seq(S) : u = Append(s, t)
  <2>1. Append(s, t) \in Seq(S)
      OBVIOUS
  <2>. QED
      BY <2>1
<1>2. /\ Len(u) = Len(s) + 1 /\ u[Len(s) + 1] = t /\ Len(s) \in Nat
      /\ \A i \in 1..Len(s) : u[i] = s[i]
      /\ DOMAIN u = 1..(Len(s) + 1) /\ DOMAIN s = 1..Len(s)
    BY <1>1
<1>3. x \in Seq(S)
    OBVIOUS
<1>4. Pick(s) \in Seq(Seq(S)) /\ Len(Pick(s)) = Len(s)
  <2>1. \A k \in 1..Len(s) : (IF k \in I THEN <<s[k]>> ELSE <<>>) \in Seq(S)
      OBVIOUS
  <2>. QED
      BY <1>2, <2>1
<1>5. Pick(u) = Append(Pick(s), x)
  <2>1. PICK a \in Seq(Seq(S)) : a = Pick(u)
    <3>1. \A k \in 1..Len(u) : (IF k \in I THEN <<u[k]>> ELSE <<>>) \in Seq(S)
        OBVIOUS
    <3>2. Pick(u) \in Seq(Seq(S))
        BY <1>2, <3>1
    <3>. QED
        BY <3>2
  <2>2. PICK b \in Seq(Seq(S)) : b = Append(Pick(s), x)
    <3>1. PICK T : T = Seq(S)
        OBVIOUS
    <3>2. PICK y \in T : y = x
        BY <1>3, <3>1
    <3>3. PICK q \in Seq(T) : q = Pick(s)
        BY <1>4, <3>1
    <3>. QED
        BY <3>1, <3>2, <3>3, AppendFacts
  <2>3. Len(a) = Len(s) + 1 /\ \A i \in 1..Len(a) : a[i] = IF i \in I THEN <<u[i]>> ELSE <<>>
      BY <1>2, <2>1
  <2>4. /\ Len(b) = Len(s) + 1 /\ b[Len(s) + 1] = x
        /\ \A i \in 1..Len(s) : b[i] = Pick(s)[i]
      BY <1>2, <1>3, <1>4, <2>2
  <2>5. \A i \in 1..Len(s) : Pick(s)[i] = IF i \in I THEN <<s[i]>> ELSE <<>>
      BY <1>2
  <2>. HIDE DEF Pick
  <2>6. \A i \in 1..Len(a) : a[i] = b[i]
    <3>. SUFFICES ASSUME NEW i \in 1..Len(a) PROVE a[i] = b[i]
        OBVIOUS
    <3>1. CASE i = Len(s) + 1
        BY <1>2, <2>3, <2>4, <3>1
    <3>2. CASE i # Len(s) + 1
      <4>1. i \in 1..Len(s)
          BY <1>2, <2>3, <3>2
      <4>. QED
          BY <1>2, <2>3, <2>4, <2>5, <4>1
    <3>. QED
        BY <3>1, <3>2
  <2>7. a = b
      BY <2>3, <2>4, <2>6
  <2>. QED
      BY <2>1, <2>2, <2>7
<1>6. Kept(s, I) = FlattenSeq(Pick(s)) /\ Kept(u, I) = FlattenSeq(Pick(u))
    BY DEF Kept
<1>. HIDE DEF Pick, x
<1>7. FlattenSeq(Pick(s)) \in Seq(S) /\ FlattenSeq(Append(Pick(s), x)) = FlattenSeq(Pick(s)) \o x
    BY <1>3, <1>4, FlattenAppend
<1>8. \A a \in Seq(S) : a \o <<t>> = Append(a, t) /\ a \o <<>> = a
    OBVIOUS
<1>. QED
    BY <1>1, <1>5, <1>6, <1>7, <1>8 DEF x

\* Only positions in the list count.
LEMMA KeptSame ==
    ASSUME NEW s, NEW I, NEW J, \A k \in DOMAIN s : k \in I <=> k \in J
    PROVE  Kept(s, I) = Kept(s, J)
<1>1. [k \in DOMAIN s |-> IF k \in I THEN <<s[k]>> ELSE <<>>]
        = [k \in DOMAIN s |-> IF k \in J THEN <<s[k]>> ELSE <<>>]
    OBVIOUS
<1>. QED
    BY <1>1 DEF Kept

\* What is kept of nothing and of everything.
LEMMA KeptEnds ==
    ASSUME NEW S, NEW s \in Seq(S), NEW I
    PROVE  Kept(Pre(s, 0), I) = <<>> /\ Kept(Pre(s, Len(s)), I) = Kept(s, I)
BY PreFacts, KeptEmpty

\* What is kept, element by element.
LEMMA KeptNext ==
    ASSUME NEW S, NEW s \in Seq(S), NEW I, NEW n \in 1..Len(s)
    PROVE  /\ Kept(Pre(s, n - 1), I) \in Seq(S)
           /\ n \in I => Kept(Pre(s, n), I) = Append(Kept(Pre(s, n - 1), I), s[n])
           /\ n \notin I => Kept(Pre(s, n), I) = Kept(Pre(s, n - 1), I)
<1>1. n - 1 \in 0..Len(s) /\ s[n] \in S /\ Pre(s, n) = Append(Pre(s, n - 1), s[n])
    BY PreFacts
<1>2. PICK p \in Seq(S) : p = Pre(s, n - 1)
    BY <1>1, PreFacts
<1>3. Len(p) + 1 = n
    BY <1>1, <1>2, PreFacts
<1>4. PICK t \in S : t = s[n]
    BY <1>1
<1>5. /\ Kept(p, I) \in Seq(S)
      /\ Kept(Append(p, t), I) = IF Len(p) + 1 \in I THEN Append(Kept(p, I), t) ELSE Kept(p, I)
    BY KeptAppend
<1>. QED
    BY <1>1, <1>2, <1>3, <1>4, <1>5

\* As many are kept of a list as of any other of the same length.
LEMMA KeptLength ==
    ASSUME NEW S, NEW s \in Seq(S), NEW T, NEW t \in Seq(T), Len(s) = Len(t), NEW I
    PROVE  Len(Kept(s, I)) = Len(Kept(t, I))
<1>. DEFINE N == Len(s)
            f == [n \in 0..N |-> Len(Kept(Pre(s, n), I))]
            g == [n \in 0..N |-> Len(Kept(Pre(t, n), I))]
<1>1. N \in Nat
    OBVIOUS
<1>2. f[0] = 0 /\ g[0] = 0
    BY KeptEnds
<1>3. \A n \in 1..N : /\ f[n] = IF n \in I THEN f[n - 1] + 1 ELSE f[n - 1]
                     /\ g[n] = IF n \in I THEN g[n - 1] + 1 ELSE g[n - 1]
  <2>. SUFFICES ASSUME NEW n \in 1..N
                PROVE  /\ f[n] = IF n \in I THEN f[n - 1] + 1 ELSE f[n - 1]
                       /\ g[n] = IF n \in I THEN g[n - 1] + 1 ELSE g[n - 1]
      OBVIOUS
  <2>1. n - 1 \in 0..N /\ n \in 0..N /\ n \in 1..Len(t) /\ n \in 1..Len(s)
      OBVIOUS
  <2>. HIDE DEF N
  <2>2. PICK a \in Seq(S) : a = Kept(Pre(s, n - 1), I)
      BY <2>1, KeptNext
  <2>3. PICK b \in Seq(T) : b = Kept(Pre(t, n - 1), I)
      BY <2>1, KeptNext
  <2>4. /\ n \in I => Kept(Pre(s, n), I) = Append(a, s[n])
        /\ n \notin I => Kept(Pre(s, n), I) = a
      BY <2>1, <2>2, KeptNext
  <2>5. /\ n \in I => Kept(Pre(t, n), I) = Append(b, t[n])
        /\ n \notin I => Kept(Pre(t, n), I) = b
      BY <2>1, <2>3, KeptNext
  <2>6. s[n] \in S /\ t[n] \in T
      BY <2>1
  <2>7. Len(Append(a, s[n])) = Len(a) + 1 /\ Len(Append(b, t[n])) = Len(b) + 1
      BY <2>6
  <2>. QED
      BY <2>1, <2>2, <2>3, <2>4, <2>5, <2>7
<1>4. f[N] = Len(Kept(s, I)) /\ g[N] = Len(Kept(t, I))
    BY <1>1, KeptEnds
<1>. HIDE DEF f, g
<1>5. GoAlike(f, g, N)
    BY <1>2, <1>3 DEF GoAlike
<1>. HIDE DEF N
<1>6. \A n \in 0..N : f[n] = g[n]
    BY <1>1, <1>5, SameSteps
<1>. QED
    BY <1>1, <1>4, <1>6

\* The first that is kept is the one at the first position.
LEMMA KeptHead ==
    ASSUME NEW S, NEW s \in Seq(S), NEW I, NEW i \in 1..Len(s), i \in I,
           \A j \in 1..Len(s) : j \in I => i <= j
    PROVE  Kept(s, I) # <<>> /\ Head(Kept(s, I)) = s[i]
<1>. DEFINE P(n) == IF n < i THEN Kept(Pre(s, n), I) = <<>>
                    ELSE Kept(Pre(s, n), I) # <<>> /\ Head(Kept(Pre(s, n), I)) = s[i]
            A == {n \in Nat : n <= Len(s) => P(n)}
<1>1. 0 \in A
    BY KeptEnds
<1>2. \A n \in Nat : n \in A => n + 1 \in A
  <2>. SUFFICES ASSUME NEW n \in Nat, n \in A, n + 1 <= Len(s) PROVE P(n + 1)
      OBVIOUS
  <2>1. n + 1 \in 1..Len(s) /\ (n + 1) - 1 = n /\ P(n)
      OBVIOUS
  <2>2. PICK a \in Seq(S) : a = Kept(Pre(s, n), I)
    <3>1. PICK m \in 1..Len(s) : m = n + 1
        BY <2>1
    <3>2. m - 1 = n
        BY <3>1
    <3>3. Kept(Pre(s, m - 1), I) \in Seq(S)
        BY KeptNext
    <3>. QED
        BY <3>2, <3>3
  <2>3. /\ n + 1 \in I => Kept(Pre(s, n + 1), I) = Append(a, s[n + 1])
        /\ n + 1 \notin I => Kept(Pre(s, n + 1), I) = a
    <3>1. PICK m \in 1..Len(s) : m = n + 1
        BY <2>1
    <3>2. m - 1 = n
        BY <3>1
    <3>3. /\ m \in I => Kept(Pre(s, m), I) = Append(Kept(Pre(s, m - 1), I), s[m])
          /\ m \notin I => Kept(Pre(s, m), I) = Kept(Pre(s, m - 1), I)
        BY KeptNext
    <3>. QED
        BY <2>2, <3>1, <3>2, <3>3
  <2>4. s[n + 1] \in S
      BY <2>1
  <2>5. /\ Append(a, s[n + 1]) # <<>>
        /\ Head(Append(a, s[n + 1])) = IF a = <<>> THEN s[n + 1] ELSE Head(a)
      BY <2>4, AppendFacts
  <2>6. n + 1 \in I => i <= n + 1
      BY <2>1
  <2>7. n < i => a = <<>>
      BY <2>1, <2>2
  <2>8. ~(n < i) => a # <<>> /\ Head(a) = s[i]
      BY <2>1, <2>2
  <2>. HIDE DEF A
  <2>9. CASE n + 1 < i
      BY <2>3, <2>6, <2>7, <2>9
  <2>10. CASE n + 1 = i
    <3>1. a = <<>> /\ n + 1 \in I
        BY <2>7, <2>10
    <3>. QED
        BY <2>3, <2>5, <2>10, <3>1
  <2>11. CASE i < n + 1
    <3>1. ~(n < i) /\ ~(n + 1 < i)
        BY <2>11
    <3>2. Append(a, s[n + 1]) # <<>> /\ Head(Append(a, s[n + 1])) = s[i]
        BY <2>5, <2>8, <3>1
    <3>3. Kept(Pre(s, n + 1), I) # <<>> /\ Head(Kept(Pre(s, n + 1), I)) = s[i]
        BY <2>3, <2>8, <3>1, <3>2
    <3>. QED
        BY <3>1, <3>3
  <2>. QED
      BY <2>9, <2>10, <2>11
<1>. HIDE DEF A
<1>3. Nat \subseteq A
    BY <1>1, <1>2, AllNumbers
<1>4. P(Len(s))
    BY <1>3 DEF A
<1>. QED
    BY <1>4, KeptEnds

\* Nothing is kept at no positions.
LEMMA KeptNone ==
    ASSUME NEW S, NEW s \in Seq(S), NEW I, NEW n \in 0..Len(s), \A j \in 1..n : j \notin I
    PROVE  Kept(Pre(s, n), I) = <<>>
<1>. DEFINE A == {k \in Nat : k <= n => Kept(Pre(s, k), I) = <<>>}
<1>1. 0 \in A
    BY KeptEnds
<1>2. \A k \in Nat : k \in A => k + 1 \in A
  <2>. SUFFICES ASSUME NEW k \in Nat, k \in A, k + 1 <= n PROVE Kept(Pre(s, k + 1), I) = <<>>
      OBVIOUS
  <2>1. Kept(Pre(s, k), I) = <<>>
      OBVIOUS
  <2>2. PICK m \in 1..Len(s) : m = k + 1
      OBVIOUS
  <2>3. m - 1 = k /\ m \notin I
      BY <2>2
  <2>4. m \notin I => Kept(Pre(s, m), I) = Kept(Pre(s, m - 1), I)
      BY KeptNext
  <2>. QED
      BY <2>1, <2>2, <2>3, <2>4
<1>. HIDE DEF A
<1>3. Nat \subseteq A
    BY <1>1, <1>2, AllNumbers
<1>. QED
    BY <1>3 DEF A

-----------------------------------------------------------------------------
(* Grouping.                                                               *)

\* Where a list has an element.
At(s, x) == {i \in DOMAIN s : s[i] = x}

\* The groups of the first n values at some positions.
Group(keys, vals, I, n) ==
    [x \in {keys[i] : i \in {j \in I : j \in 1..n}} |-> Kept(Pre(vals, n), {i \in I : keys[i] = x})]

\* A value more, in its group or in none.
LEMMA GroupStep ==
    ASSUME NEW keys, NEW V, NEW vals \in Seq(V), NEW I, NEW n \in 1..Len(vals)
    PROVE  /\ n \in I => Group(keys, vals, I, n) = AddTo(Group(keys, vals, I, n - 1), keys[n], vals[n])
           /\ n \notin I => Group(keys, vals, I, n) = Group(keys, vals, I, n - 1)
<1>. DEFINE D(k) == {keys[i] : i \in {j \in I : j \in 1..k}}
            P(x) == {i \in I : keys[i] = x}
            K(k, x) == Kept(Pre(vals, k), P(x))
            m == Group(keys, vals, I, n - 1)
<1>1. \A x : /\ n \in P(x) => K(n, x) = Append(K(n - 1, x), vals[n])
             /\ n \notin P(x) => K(n, x) = K(n - 1, x)
  <2>. SUFFICES ASSUME NEW x PROVE /\ n \in P(x) => K(n, x) = Append(K(n - 1, x), vals[n])
                                   /\ n \notin P(x) => K(n, x) = K(n - 1, x)
      OBVIOUS
  <2>1. PICK J : J = P(x)
      OBVIOUS
  <2>. QED
      BY <2>1, KeptNext
<1>2. n \notin I => D(n) = D(n - 1)
  <2>. SUFFICES ASSUME n \notin I PROVE D(n) = D(n - 1)
      OBVIOUS
  <2>1. {j \in I : j \in 1..n} = {j \in I : j \in 1..(n - 1)}
      OBVIOUS
  <2>. QED
      BY <2>1
<1>3. n \in I => D(n) = D(n - 1) \cup {keys[n]}
  <2>. SUFFICES ASSUME n \in I PROVE D(n) = D(n - 1) \cup {keys[n]}
      OBVIOUS
  <2>1. \A j : j \in 1..n <=> j \in 1..(n - 1) \/ j = n
      OBVIOUS
  <2>2. {j \in I : j \in 1..n} = {j \in I : j \in 1..(n - 1)} \cup {n}
      BY ONLY <2>1, n \in I
  <2>. QED
      BY <2>2
<1>4. \A k : Group(keys, vals, I, k) = [x \in D(k) |-> K(k, x)]
    BY DEF Group
<1>5. \A x : n \in P(x) <=> n \in I /\ keys[n] = x
    OBVIOUS
<1>6. \A x : x \notin D(n - 1) => K(n - 1, x) = <<>>
  <2>. SUFFICES ASSUME NEW x, x \notin D(n - 1) PROVE K(n - 1, x) = <<>>
      OBVIOUS
  <2>1. \A j \in 1..(n - 1) : j \notin P(x)
      OBVIOUS
  <2>2. PICK J : J = P(x)
      OBVIOUS
  <2>3. PICK k \in 0..Len(vals) : k = n - 1
      OBVIOUS
  <2>4. \A j \in 1..k : j \notin J
      BY <2>1, <2>2, <2>3
  <2>. HIDE DEF P
  <2>5. Kept(Pre(vals, k), J) = <<>>
      BY <2>4, KeptNone
  <2>. QED
      BY <2>2, <2>3, <2>5
<1>. HIDE DEF D, P, K
<1>7. CASE n \notin I
  <2>1. \A x \in D(n - 1) : K(n, x) = K(n - 1, x)
      BY <1>1, <1>5, <1>7
  <2>. QED
      BY <1>2, <1>4, <1>7, <2>1
<1>8. CASE n \in I
  <2>1. DOMAIN m = D(n - 1) /\ \A x \in D(n - 1) : m[x] = K(n - 1, x)
      BY <1>4
  <2>. HIDE DEF m
  <2>2. Found(m, keys[n]) = K(n - 1, keys[n])
      BY <1>6, <2>1 DEF Found
  <2>3. \A x \in D(n) : K(n, x) = IF x = keys[n] THEN Append(K(n - 1, keys[n]), vals[n]) ELSE m[x]
      BY <1>1, <1>3, <1>5, <1>8, <2>1
  <2>4. AddTo(m, keys[n], vals[n])
            = [x \in D(n) |-> IF x = keys[n] THEN Append(K(n - 1, keys[n]), vals[n]) ELSE m[x]]
      BY <1>3, <1>8, <2>1, <2>2 DEF AddTo, Put
  <2>5. Group(keys, vals, I, n) = AddTo(m, keys[n], vals[n])
      BY <1>4, <2>3, <2>4
  <2>. QED
      BY <1>8, <2>5 DEF m
<1>. QED
    BY <1>7, <1>8

\* Before the first value there is no group.
LEMMA GroupEmpty ==
    ASSUME NEW keys, NEW vals, NEW I, NEW n, \A j \in 1..n : j \notin I
    PROVE  Group(keys, vals, I, n) = <<>>
<1>1. {keys[i] : i \in {j \in I : j \in 1..n}} = {}
    OBVIOUS
<1>. QED
    BY <1>1 DEF Group

\* The loop over the rows has put each value into its group.
LEMMA GroupedIs ==
    ASSUME NEW keys, NEW V, NEW vals \in Seq(V), DOMAIN keys = 1..Len(vals), Len(keys) = Len(vals)
    PROVE  Grouped(keys, vals) = [x \in {keys[i] : i \in DOMAIN keys} |-> Kept(vals, At(keys, x))]
<1>. DEFINE N == Len(vals)
            I == DOMAIN keys
            G(n) == Group(keys, vals, I, n)
            IsMap(f) == f = [n \in 0..N |-> IF n = 0 THEN <<>> ELSE AddTo(f[n - 1], keys[n], vals[n])]
            g == [n \in 0..N |-> G(n)]
            h == CHOOSE f : IsMap(f)
<1>1. N \in Nat
    OBVIOUS
<1>2. G(0) = <<>>
    BY GroupEmpty
<1>3. \A n \in 1..N : G(n) = AddTo(G(n - 1), keys[n], vals[n])
    BY GroupStep
<1>. HIDE DEF G
<1>4. IsMap(g)
  <2>1. \A n \in 0..N : n # 0 => n \in 1..N /\ n - 1 \in 0..N
      BY <1>1
  <2>. HIDE DEF N
  <2>2. \A n \in 0..N : g[n] = IF n = 0 THEN <<>> ELSE AddTo(g[n - 1], keys[n], vals[n])
      BY <1>2, <1>3, <2>1
  <2>. QED
      BY <2>2
<1>5. IsMap(h)
    BY <1>4
<1>6. Grouped(keys, vals) = h[N]
    BY DEF Grouped
<1>7. h[0] = <<>> /\ \A n \in 1..N : h[n] = AddTo(h[n - 1], keys[n], vals[n])
  <2>. HIDE DEF h
  <2>. QED
      BY <1>1, <1>5
<1>8. g[0] = <<>> /\ \A n \in 1..N : g[n] = AddTo(g[n - 1], keys[n], vals[n])
  <2>1. \A n \in 1..N : n \in 0..N /\ n - 1 \in 0..N
      BY <1>1
  <2>. HIDE DEF N
  <2>. QED
      BY <1>1, <1>2, <1>3, <2>1
<1>9. g[N] = G(N)
    BY <1>1
<1>. HIDE DEF h, g
<1>10. GoAlike(h, g, N)
    BY <1>7, <1>8 DEF GoAlike
<1>11. h[N] = g[N]
    BY <1>1, <1>10, SameSteps
<1>12. G(N) = [x \in {keys[i] : i \in I} |-> Kept(vals, At(keys, x))]
  <2>1. {j \in I : j \in 1..N} = I /\ Pre(vals, N) = vals
      BY PreFacts
  <2>. QED
      BY <2>1 DEF G, Group, At
<1>. QED
    BY <1>6, <1>9, <1>11, <1>12

\* The groups of two levels.
Group2(xs, ys, vals, n) ==
    [x \in {xs[i] : i \in {j \in DOMAIN xs : j \in 1..n}} |-> Group(ys, vals, At(xs, x), n)]

\* A value more, on two levels.
LEMMA Group2Step ==
    ASSUME NEW xs, NEW ys, NEW V, NEW vals \in Seq(V), DOMAIN xs = 1..Len(vals),
           NEW n \in 1..Len(vals)
    PROVE  Group2(xs, ys, vals, n) = AddTo2(Group2(xs, ys, vals, n - 1), xs[n], ys[n], vals[n])
<1>. DEFINE D(k) == {xs[i] : i \in {j \in DOMAIN xs : j \in 1..k}}
            G(k, x) == Group(ys, vals, At(xs, x), k)
            m == Group2(xs, ys, vals, n - 1)
<1>1. \A x : /\ n \in At(xs, x) => G(n, x) = AddTo(G(n - 1, x), ys[n], vals[n])
             /\ n \notin At(xs, x) => G(n, x) = G(n - 1, x)
    BY GroupStep
<1>2. \A x : n \in At(xs, x) <=> xs[n] = x
    BY DEF At
<1>3. D(n) = D(n - 1) \cup {xs[n]}
  <2>1. \A j : j \in 1..n <=> j \in 1..(n - 1) \/ j = n
      OBVIOUS
  <2>2. {j \in DOMAIN xs : j \in 1..n} = {j \in DOMAIN xs : j \in 1..(n - 1)} \cup {n}
    <3>1. n \in DOMAIN xs
        OBVIOUS
    <3>. QED
        BY ONLY <2>1, <3>1
  <2>. QED
      BY <2>2
<1>4. \A k : Group2(xs, ys, vals, k) = [x \in D(k) |-> G(k, x)]
    BY DEF Group2
<1>5. \A x : x \notin D(n - 1) => G(n - 1, x) = <<>>
  <2>. SUFFICES ASSUME NEW x, x \notin D(n - 1) PROVE G(n - 1, x) = <<>>
      OBVIOUS
  <2>1. \A j \in 1..(n - 1) : j \notin At(xs, x)
      BY DEF At
  <2>2. PICK I : I = At(xs, x)
      OBVIOUS
  <2>. QED
      BY <2>1, <2>2, GroupEmpty
<1>. HIDE DEF D, G
<1>6. DOMAIN m = D(n - 1) /\ \A x \in D(n - 1) : m[x] = G(n - 1, x)
    BY <1>4
<1>. HIDE DEF m
<1>7. Found(m, xs[n]) = G(n - 1, xs[n])
    BY <1>5, <1>6 DEF Found
<1>8. \A x \in D(n) : G(n, x) = IF x = xs[n] THEN AddTo(G(n - 1, xs[n]), ys[n], vals[n]) ELSE m[x]
    BY <1>1, <1>2, <1>3, <1>6
<1>9. AddTo2(m, xs[n], ys[n], vals[n])
        = [x \in D(n) |-> IF x = xs[n] THEN AddTo(G(n - 1, xs[n]), ys[n], vals[n]) ELSE m[x]]
    BY <1>3, <1>6, <1>7 DEF AddTo2, Put
<1>10. Group2(xs, ys, vals, n) = AddTo2(m, xs[n], ys[n], vals[n])
    BY <1>4, <1>8, <1>9
<1>. QED
    BY <1>10 DEF m

\* The groups of lists.
Groups1(keys, vals) == [x \in {keys[i] : i \in DOMAIN keys} |-> Kept(vals, At(keys, x))]
Groups2(xs, ys, vals) ==
    [x \in {xs[i] : i \in DOMAIN xs} |->
        [y \in {ys[i] : i \in At(xs, x)} |-> Kept(vals, {i \in At(xs, x) : ys[i] = y})]]
Heads(keys, vals, skip) ==
    [x \in {keys[i] : i \in DOMAIN keys} \ skip |-> Head(Kept(vals, At(keys, x)))]

\* The loop over the rows has put each value into its group of its group.
LEMMA Grouped2Is ==
    ASSUME NEW xs, NEW ys, NEW V, NEW vals \in Seq(V), DOMAIN xs = 1..Len(vals),
           Len(xs) = Len(vals)
    PROVE  Grouped2(xs, ys, vals) = Groups2(xs, ys, vals)
<1>. DEFINE N == Len(vals)
            G(n) == Group2(xs, ys, vals, n)
            IsMap(f) == f = [n \in 0..N |->
                               IF n = 0 THEN <<>> ELSE AddTo2(f[n - 1], xs[n], ys[n], vals[n])]
            g == [n \in 0..N |-> G(n)]
            h == CHOOSE f : IsMap(f)
<1>1. N \in Nat
    OBVIOUS
<1>2. G(0) = <<>>
  <2>1. {xs[i] : i \in {j \in DOMAIN xs : j \in 1..0}} = {}
      OBVIOUS
  <2>. QED
      BY <2>1 DEF Group2
<1>3. \A n \in 1..N : G(n) = AddTo2(G(n - 1), xs[n], ys[n], vals[n])
    BY Group2Step
<1>. HIDE DEF G
<1>4. IsMap(g)
  <2>1. \A n \in 0..N : n # 0 => n \in 1..N /\ n - 1 \in 0..N
      BY <1>1
  <2>. HIDE DEF N
  <2>2. \A n \in 0..N : g[n] = IF n = 0 THEN <<>> ELSE AddTo2(g[n - 1], xs[n], ys[n], vals[n])
      BY <1>2, <1>3, <2>1
  <2>. QED
      BY <2>2
<1>5. IsMap(h)
    BY <1>4
<1>6. Grouped2(xs, ys, vals) = h[N]
    BY DEF Grouped2
<1>7. h[0] = <<>> /\ \A n \in 1..N : h[n] = AddTo2(h[n - 1], xs[n], ys[n], vals[n])
  <2>. HIDE DEF h
  <2>. QED
      BY <1>1, <1>5
<1>8. g[0] = <<>> /\ \A n \in 1..N : g[n] = AddTo2(g[n - 1], xs[n], ys[n], vals[n])
  <2>1. \A n \in 1..N : n \in 0..N /\ n - 1 \in 0..N
      BY <1>1
  <2>. HIDE DEF N
  <2>. QED
      BY <1>1, <1>2, <1>3, <2>1
<1>9. g[N] = G(N)
    BY <1>1
<1>. HIDE DEF h, g
<1>10. GoAlike(h, g, N)
    BY <1>7, <1>8 DEF GoAlike
<1>11. h[N] = g[N]
    BY <1>1, <1>10, SameSteps
<1>12. G(N) = [x \in {xs[i] : i \in DOMAIN xs} |->
                 [y \in {ys[i] : i \in At(xs, x)} |-> Kept(vals, {i \in At(xs, x) : ys[i] = y})]]
  <2>1. {j \in DOMAIN xs : j \in 1..N} = DOMAIN xs /\ Pre(vals, N) = vals
      BY PreFacts
  <2>2. \A x : {j \in At(xs, x) : j \in 1..N} = At(xs, x)
      BY DEF At
  <2>3. \A x : Group(ys, vals, At(xs, x), N)
                 = [y \in {ys[i] : i \in At(xs, x)} |-> Kept(vals, {i \in At(xs, x) : ys[i] = y})]
      BY <2>1, <2>2 DEF Group
  <2>. QED
      BY <2>1, <2>3 DEF G, Group2
<1>. QED
    BY <1>6, <1>9, <1>11, <1>12 DEF Groups2

\* A map to the first value of each key.
LEMMA FirstsIs ==
    ASSUME NEW keys, NEW V, NEW vals \in Seq(V), DOMAIN keys = 1..Len(vals),
           Len(keys) = Len(vals), NEW skip
    PROVE  Firsts(keys, vals, skip)
             = [x \in {keys[i] : i \in DOMAIN keys} \ skip |-> Head(Kept(vals, At(keys, x)))]
<1>. DEFINE N == Len(vals)
            D(n) == {keys[i] : i \in {j \in DOMAIN keys : j \in 1..n}}
            F(x) == Head(Kept(vals, At(keys, x)))
            G(n) == [x \in D(n) \ skip |-> F(x)]
            Next_(m, n) == IF keys[n] \in skip THEN m ELSE emplace(m, keys[n], vals[n])
            IsMap(f) == f = [n \in 0..N |-> IF n = 0 THEN <<>> ELSE Next_(f[n - 1], n)]
            g == [n \in 0..N |-> G(n)]
            h == CHOOSE f : IsMap(f)
<1>1. N \in Nat
    OBVIOUS
<1>2. G(0) = <<>>
  <2>1. D(0) = {}
      OBVIOUS
  <2>. QED
      BY <2>1
<1>3. \A n \in 1..N : G(n) = Next_(G(n - 1), n)
  <2>. SUFFICES ASSUME NEW n \in 1..N PROVE G(n) = Next_(G(n - 1), n)
      OBVIOUS
  <2>1. D(n) = D(n - 1) \cup {keys[n]}
    <3>1. \A j : j \in 1..n <=> j \in 1..(n - 1) \/ j = n
        OBVIOUS
    <3>2. {j \in DOMAIN keys : j \in 1..n} = {j \in DOMAIN keys : j \in 1..(n - 1)} \cup {n}
      <4>1. n \in DOMAIN keys
          OBVIOUS
      <4>. QED
          BY ONLY <3>1, <4>1
    <3>. QED
        BY <3>2
  <2>2. keys[n] \notin D(n - 1) => F(keys[n]) = vals[n]
    <3>. SUFFICES ASSUME keys[n] \notin D(n - 1) PROVE F(keys[n]) = vals[n]
        OBVIOUS
    <3>1. \A j \in 1..N : keys[j] = keys[n] => n <= j
        OBVIOUS
    <3>2. PICK I : I = At(keys, keys[n])
        OBVIOUS
    <3>3. n \in I /\ \A j \in 1..Len(vals) : j \in I => n <= j
        BY <3>1, <3>2 DEF At
    <3>4. Head(Kept(vals, I)) = vals[n]
        BY <3>3, KeptHead
    <3>. QED
        BY <3>2, <3>4
  <2>. HIDE DEF D, F, N
  <2>3. CASE keys[n] \in skip
      BY <2>1, <2>3
  <2>4. CASE keys[n] \notin skip /\ keys[n] \in D(n - 1)
      BY <2>1, <2>4 DEF emplace
  <2>5. CASE keys[n] \notin skip /\ keys[n] \notin D(n - 1)
    <3>1. D(n) \ skip = (D(n - 1) \ skip) \cup {keys[n]}
        BY <2>1, <2>5
    <3>2. PICK m : m = G(n - 1)
        OBVIOUS
    <3>3. DOMAIN m = D(n - 1) \ skip /\ \A x \in D(n - 1) \ skip : m[x] = F(x)
        BY <3>2
    <3>4. Put(m, keys[n], vals[n])
            = [x \in D(n) \ skip |-> IF x = keys[n] THEN vals[n] ELSE m[x]]
        BY <3>1, <3>3 DEF Put
    <3>5. \A x \in D(n) \ skip : F(x) = IF x = keys[n] THEN vals[n] ELSE m[x]
        BY <2>2, <2>5, <3>1, <3>3
    <3>6. Next_(m, n) = Put(m, keys[n], vals[n])
        BY <2>5, <3>3 DEF emplace
    <3>7. G(n) = [x \in D(n) \ skip |-> IF x = keys[n] THEN vals[n] ELSE m[x]]
        BY <3>5
    <3>. HIDE DEF G, Next_
    <3>. QED
        BY <3>2, <3>4, <3>6, <3>7
  <2>. QED
      BY <2>3, <2>4, <2>5
<1>. HIDE DEF G, Next_
<1>4. IsMap(g)
  <2>1. \A n \in 0..N : n # 0 => n \in 1..N /\ n - 1 \in 0..N
      BY <1>1
  <2>. HIDE DEF N
  <2>2. \A n \in 0..N : g[n] = IF n = 0 THEN <<>> ELSE Next_(g[n - 1], n)
      BY <1>2, <1>3, <2>1
  <2>. QED
      BY <2>2
<1>5. IsMap(h)
    BY <1>4
<1>6. Firsts(keys, vals, skip) = h[N]
    BY DEF Firsts, Next_
<1>7. h[0] = <<>> /\ \A n \in 1..N : h[n] = Next_(h[n - 1], n)
  <2>. HIDE DEF h
  <2>. QED
      BY <1>1, <1>5
<1>8. g[0] = <<>> /\ \A n \in 1..N : g[n] = Next_(g[n - 1], n)
  <2>1. \A n \in 1..N : n \in 0..N /\ n - 1 \in 0..N
      BY <1>1
  <2>. HIDE DEF N
  <2>. QED
      BY <1>1, <1>2, <1>3, <2>1
<1>9. g[N] = G(N)
    BY <1>1
<1>. HIDE DEF h, g
<1>10. GoAlike(h, g, N)
    BY <1>7, <1>8 DEF GoAlike
<1>11. h[N] = g[N]
    BY <1>1, <1>10, SameSteps
<1>12. {j \in DOMAIN keys : j \in 1..N} = DOMAIN keys
    OBVIOUS
<1>. QED
    BY <1>6, <1>9, <1>11, <1>12 DEF G

\* A list with N elements.
IsList(s, N) ==
    N \in Nat /\ DOMAIN s = 1..N /\ Len(s) = N /\ s \in Seq({s[i] : i \in 1..N})

\* A list with an element for each row.
LEMMA ListFacts ==
    ASSUME NEW N, N \in Nat, NEW s, s = [i \in 1..N |-> s[i]]
    PROVE  IsList(s, N)
<1>. DEFINE V == {s[i] : i \in 1..N}
<1>1. DOMAIN s = 1..N /\ \A i \in 1..N : s[i] \in V
    OBVIOUS
<1>. HIDE DEF V
<1>2. s \in [1..N -> V]
    BY <1>1
<1>3. s \in Seq(V) /\ Len(s) = N
    BY <1>2
<1>. QED
    BY <1>1, <1>3 DEF V, IsList

\* What the three loops make of lists that have an element for each row.
LEMMA LoopsOverLists ==
    ASSUME NEW N, NEW xs, NEW vals, IsList(xs, N), IsList(vals, N)
    PROVE  /\ Grouped(xs, vals) = Groups1(xs, vals)
           /\ \A ys : Grouped2(xs, ys, vals) = Groups2(xs, ys, vals)
           /\ \A skip : Firsts(xs, vals, skip) = Heads(xs, vals, skip)
<1>1. PICK V : V = {vals[i] : i \in 1..N}
    OBVIOUS
<1>2. vals \in Seq(V) /\ DOMAIN xs = 1..Len(vals) /\ Len(xs) = Len(vals)
    BY <1>1 DEF IsList
<1>3. Grouped(xs, vals) = Groups1(xs, vals)
    BY <1>2, GroupedIs DEF Groups1
<1>4. \A ys : Grouped2(xs, ys, vals) = Groups2(xs, ys, vals)
    BY <1>2, Grouped2Is
<1>5. \A skip : Firsts(xs, vals, skip) = Heads(xs, vals, skip)
    BY <1>2, FirstsIs DEF Heads
<1>. QED
    BY <1>3, <1>4, <1>5

\* As many are kept of one list as of another.
LEMMA ListsKeepAlike ==
    ASSUME NEW N, NEW s, NEW t, IsList(s, N), IsList(t, N), NEW I
    PROVE  Len(Kept(s, I)) = Len(Kept(t, I))
<1>1. PICK S : S = {s[i] : i \in 1..N}
    OBVIOUS
<1>2. PICK T : T = {t[i] : i \in 1..N}
    OBVIOUS
<1>3. s \in Seq(S) /\ t \in Seq(T) /\ Len(s) = Len(t)
    BY <1>1, <1>2 DEF IsList
<1>. QED
    BY <1>3, KeptLength

\* What the pairs of two lists say of them.
AreLists(N, keys, seconds, vec) ==
    /\ IsList(record, N) /\ IsList(keys, N) /\ IsList(seconds, N)
    /\ DOMAIN vec = 1..N /\ \A i \in 1..N : vec[i] = <<keys[i], seconds[i]>>
    /\ Keys(vec) = {keys[i] : i \in DOMAIN keys}
    /\ Seconds(vec) = seconds
    /\ \A x : With(vec, x) = At(keys, x)

\* The lists of keys and of columns, and of their pairs.
LEMMA ColumnLists ==
    ASSUME NEW R, record \in Seq(R), NEW T, NEW U, NEW k, NEW v, NEW junk
    PROVE  AreLists(Len(record), KeysOf(T, k, junk), KeysOf(U, v, junk),
                    KeyValues(T, U, k, v, junk))
<1>. DEFINE N == Len(record)
            keys == KeysOf(T, k, junk)
            seconds == KeysOf(U, v, junk)
            vec == KeyValues(T, U, k, v, junk)
<1>1. N \in Nat /\ DOMAIN record = 1..N /\ record = [i \in 1..N |-> record[i]]
    OBVIOUS
<1>2. keys = [i \in 1..N |-> keys[i]] /\ seconds = [i \in 1..N |-> seconds[i]]
    BY <1>1 DEF KeysOf
<1>3. IsList(record, N) /\ IsList(keys, N) /\ IsList(seconds, N)
  <2>1. PICK n : n = N
      OBVIOUS
  <2>. HIDE DEF keys, seconds, N
  <2>. QED
      BY <1>1, <1>2, <2>1, ListFacts
<1>4. DOMAIN vec = 1..N /\ \A i \in 1..N : vec[i] = <<keys[i], seconds[i]>>
    BY <1>1 DEF KeyValues, KeysOf
<1>. HIDE DEF vec, keys, seconds
<1>5. \A i \in 1..N : vec[i][1] = keys[i] /\ vec[i][2] = seconds[i]
    BY <1>4
<1>6. Keys(vec) = {keys[i] : i \in DOMAIN keys}
    BY <1>3, <1>4, <1>5 DEF Keys, IsList
<1>7. Seconds(vec) = seconds
    BY <1>2, <1>4, <1>5 DEF Seconds
<1>8. \A x : With(vec, x) = At(keys, x)
    BY <1>3, <1>4, <1>5 DEF With, At, IsList
<1>9. AreLists(N, keys, seconds, vec)
    BY <1>3, <1>4, <1>6, <1>7, <1>8 DEF AreLists
<1>. QED
    BY <1>9 DEF vec, keys, seconds

\* The keys of a column that there is are its cells.
LEMMA KeysAreCells ==
    ASSUME NEW U, NEW v, NEW junk, Column(U, v) # <<>>
    PROVE  KeysOf(U, v, junk) = Cells(Column(U, v)[1])
BY DEF KeysOf, Cells, KeyOf

\* Groups on one level.
LEMMA OneLevel ==
    ASSUME NEW R, record \in Seq(R), NEW T, NEW U, NEW k, NEW v, NEW junk,
           Column(U, v) # <<>>
    PROVE  OneLevelComplete(T, U, k, v, junk)
<1>. DEFINE g == getgroupCols(T, U, k, v, junk)
            vec == KeyValues(T, U, k, v, junk)
            cells == Cells(Column(U, v)[1])
<1>1. PICK keys : keys = KeysOf(T, k, junk)
    OBVIOUS
<1>2. PICK N : N = Len(record)
    OBVIOUS
<1>3. KeysOf(U, v, junk) = cells
    BY KeysAreCells
<1>4. g = Grouped(keys, cells) /\ getCol(U, v) = cells
    BY <1>1 DEF getgroupCols, getCol
<1>5. AreLists(N, keys, cells, vec)
    BY <1>1, <1>2, <1>3, ColumnLists
<1>. HIDE DEF g, vec, cells
<1>6. g = Groups1(keys, cells)
    BY <1>4, <1>5, LoopsOverLists DEF AreLists
<1>7. DOMAIN g = Keys(vec) /\ \A x \in DOMAIN g : g[x] = Kept(Seconds(vec), With(vec, x))
    BY <1>5, <1>6 DEF AreLists, Groups1
<1>8. Seconds(vec) = getCol(U, v)
    BY <1>4, <1>5 DEF AreLists
<1>9. {T, U} \subseteq {Type(c) : c \in Columns} =>
          getvecCols(T, U, k, v, junk) = KeyValues(T, U, k, v, junk)
  <2>1. ToSet(<<"id", "randomnumber">>) = {"id", "randomnumber"}
      BY DEF ToSet
  <2>2. mod = "World" => "text" \notin {Type(c) : c \in Columns}
      BY <2>1 DEF Type, Columns, col_names
  <2>. QED
      BY <2>2 DEF getvecCols
<1>. QED
    BY <1>7, <1>8, <1>9 DEF g, vec, OneLevelComplete

\* Groups on two levels.
LEMMA TwoLevels ==
    ASSUME NEW R, record \in Seq(R), NEW T, NEW U, NEW k, NEW v, NEW junk
    PROVE  TwoLevelsComplete(T, U, k, v, junk)
<1>. DEFINE g == getgroupCols(T, U, k, v, junk)
            vec == KeyValues(T, U, k, v, junk)
            rows == getgroupRows2(T, U, k, v, junk)
            vals == getgroupCols3(T, U, U, k, v, v, junk)
            cells == Cells(Column(U, v)[1])
<1>1. CASE Column(U, v) = <<>>
  <2>1. g = <<>> /\ rows = <<>> /\ vals = <<>>
      BY <1>1 DEF getgroupCols, getgroupRows2, getgroupCols3
  <2>2. DOMAIN <<>> = {}
      OBVIOUS
  <2>. HIDE DEF g, vec, rows, vals
  <2>3. /\ DOMAIN rows = DOMAIN g /\ DOMAIN vals = DOMAIN g
        /\ \A x : x \notin DOMAIN rows
      BY <2>1, <2>2
  <2>. QED
      BY <2>3 DEF g, vec, rows, vals, TwoLevelsComplete
<1>2. CASE Column(U, v) # <<>>
  <2>1. PICK keys : keys = KeysOf(T, k, junk)
      OBVIOUS
  <2>2. PICK N : N = Len(record)
      OBVIOUS
  <2>3. AreLists(N, keys, cells, vec)
    <3>1. KeysOf(U, v, junk) = cells
        BY <1>2, KeysAreCells
    <3>. QED
        BY <2>1, <2>2, <3>1, ColumnLists
  <2>4. /\ g = Grouped(keys, cells) /\ rows = Grouped2(keys, cells, record)
        /\ vals = Grouped2(keys, cells, cells)
      BY <1>2, <2>1, KeysAreCells DEF getgroupCols, getgroupRows2, getgroupCols3
  <2>. HIDE DEF g, vec, rows, vals, cells
  <2>5. g = Groups1(keys, cells)
      BY <2>3, <2>4, LoopsOverLists DEF AreLists
  <2>6. rows = Groups2(keys, cells, record)
      BY <2>3, <2>4, LoopsOverLists DEF AreLists
  <2>7. vals = Groups2(keys, cells, cells)
      BY <2>3, <2>4, LoopsOverLists DEF AreLists
  <2>8. DOMAIN rows = DOMAIN g /\ DOMAIN vals = DOMAIN g
      BY <2>5, <2>6, <2>7 DEF Groups1, Groups2
  <2>9. \A x \in DOMAIN rows :
          /\ DOMAIN rows[x] = {vec[i][2] : i \in With(vec, x)}
          /\ \A y \in DOMAIN rows[x] :
              /\ rows[x][y] = Kept(record, {i \in With(vec, x) : vec[i][2] = y})
              /\ Len(vals[x][y]) = Len(rows[x][y])
    <3>. SUFFICES ASSUME NEW x \in DOMAIN rows
                  PROVE  /\ DOMAIN rows[x] = {vec[i][2] : i \in With(vec, x)}
                         /\ \A y \in DOMAIN rows[x] :
                             /\ rows[x][y] = Kept(record, {i \in With(vec, x) : vec[i][2] = y})
                             /\ Len(vals[x][y]) = Len(rows[x][y])
        OBVIOUS
    <3>1. /\ rows[x] = [y \in {cells[i] : i \in At(keys, x)} |->
                         Kept(record, {i \in At(keys, x) : cells[i] = y})]
          /\ vals[x] = [y \in {cells[i] : i \in At(keys, x)} |->
                         Kept(cells, {i \in At(keys, x) : cells[i] = y})]
        BY <2>6, <2>7 DEF Groups2
    <3>2. With(vec, x) = At(keys, x) /\ \A i \in At(keys, x) : vec[i][2] = cells[i]
        BY <2>3 DEF At, AreLists, IsList
    <3>3. DOMAIN rows[x] = {vec[i][2] : i \in With(vec, x)}
        BY <3>1, <3>2
    <3>4. \A y : {i \in With(vec, x) : vec[i][2] = y} = {i \in At(keys, x) : cells[i] = y}
        BY <3>2
    <3>5. ASSUME NEW y \in DOMAIN rows[x]
          PROVE  /\ rows[x][y] = Kept(record, {i \in With(vec, x) : vec[i][2] = y})
                 /\ Len(vals[x][y]) = Len(rows[x][y])
      <4>1. PICK I : I = {i \in At(keys, x) : cells[i] = y}
          OBVIOUS
      <4>2. rows[x][y] = Kept(record, I) /\ vals[x][y] = Kept(cells, I)
          BY <3>1, <3>5, <4>1
      <4>3. Len(Kept(cells, I)) = Len(Kept(record, I))
          BY <2>3, ListsKeepAlike DEF AreLists
      <4>. QED
          BY <3>4, <4>1, <4>2, <4>3
    <3>. QED
        BY <3>3, <3>5
  <2>. QED
      BY <2>8, <2>9 DEF g, vec, rows, vals, TwoLevelsComplete
<1>. QED
    BY <1>1, <1>2

\* A map of rows, and groups of rows.
LEMMA MapRows ==
    ASSUME NEW R, record \in Seq(R), NEW T, NEW k
    PROVE  FirstRows(T, k)
<1>. DEFINE one == getmapRows(T, k)
            all == getgroupRows(T, k)
            vec == getvecRows(T, k)
            cells == Cells(Column(T, k)[1])
<1>1. CASE Column(T, k) = <<>>
  <2>1. one = <<>> /\ all = <<>> /\ vec = <<>>
      BY <1>1 DEF getmapRows, getgroupRows, getvecRows
  <2>2. DOMAIN <<>> = {}
      OBVIOUS
  <2>. HIDE DEF one, all, vec
  <2>3. Keys(vec) = {}
      BY <2>1, <2>2 DEF Keys
  <2>4. DOMAIN one = {} /\ DOMAIN all = {}
      BY <2>1, <2>2
  <2>. QED
      BY <2>3, <2>4 DEF one, all, vec, FirstRows
<1>2. CASE Column(T, k) # <<>>
  <2>1. PICK N \in Nat : N = Len(record)
      OBVIOUS
  <2>2. DOMAIN record = 1..N
      BY <2>1
  <2>3. cells = [i \in 1..N |-> cells[i]]
      BY <2>2 DEF Cells
  <2>4. DOMAIN vec = 1..N /\ \A i \in 1..N : vec[i] = <<cells[i], record[i]>>
      BY <1>2, <2>2 DEF getvecRows, Cells
  <2>5. one = Firsts(cells, record, {}) /\ all = Grouped(cells, record)
      BY <1>2 DEF getmapRows, getgroupRows
  <2>. HIDE DEF one, all, vec, cells
  <2>6. IsList(cells, N) /\ IsList(record, N)
    <3>1. record = [i \in 1..N |-> record[i]]
        BY <2>1
    <3>. QED
        BY <2>1, <2>3, <3>1, ListFacts
  <2>7. all = Groups1(cells, record)
      BY <2>5, <2>6, LoopsOverLists
  <2>8. one = Heads(cells, record, {})
      BY <2>5, <2>6, LoopsOverLists
  <2>9. Keys(vec) = {cells[i] : i \in DOMAIN cells}
    <3>1. \A i \in 1..N : vec[i][1] = cells[i]
        BY <2>4
    <3>. QED
        BY <2>4, <2>6, <3>1 DEF Keys, IsList
  <2>10. /\ DOMAIN one = DOMAIN all /\ DOMAIN all = Keys(vec)
         /\ \A x \in DOMAIN one : one[x] = Head(all[x])
      BY <2>7, <2>8, <2>9 DEF Groups1, Heads
  <2>. QED
      BY <2>10 DEF one, all, vec, FirstRows
<1>. QED
    BY <1>1, <1>2

\* A map of columns.
LEMMA MapCols ==
    ASSUME NEW R, record \in Seq(R), NEW U, NEW k, NEW v, NEW junk
    PROVE  FirstCols(U, k, v, junk)
<1>. DEFINE cols == getCols(U, k, v, junk)
            pairs == KeyValues("text", U, k, v, junk)
<1>1. PICK keys : keys = KeysOf("text", k, junk)
    OBVIOUS
<1>2. PICK seconds : seconds = KeysOf(U, v, junk)
    OBVIOUS
<1>3. PICK N : N = Len(record)
    OBVIOUS
<1>4. AreLists(N, keys, seconds, pairs)
    BY <1>1, <1>2, <1>3, ColumnLists
<1>5. cols = Firsts(keys, seconds, {<<>>})
    BY <1>1, <1>2 DEF getCols
<1>. HIDE DEF cols, pairs
<1>6. cols = Heads(keys, seconds, {<<>>})
    BY <1>4, <1>5, LoopsOverLists DEF AreLists
<1>7. /\ DOMAIN cols = Keys(pairs) \ {<<>>}
      /\ \A x \in DOMAIN cols : cols[x] = Head(Kept(Seconds(pairs), With(pairs, x)))
    BY <1>4, <1>6 DEF AreLists, Heads
<1>. QED
    BY <1>7 DEF cols, pairs, FirstCols

\* Any list of rows is grouped completely.
LEMMA ListsGroup ==
    ASSUME NEW R, record \in Seq(R)
    PROVE  GroupsComplete
<1>1. \A junk, T, U, k, v : Column(U, v) # <<>> => OneLevelComplete(T, U, k, v, junk)
    BY OneLevel
<1>2. \A junk, T, U, k, v : TwoLevelsComplete(T, U, k, v, junk)
    BY TwoLevels
<1>3. \A T, k : FirstRows(T, k)
    BY MapRows
<1>4. \A junk, U, k, v : FirstCols(U, k, v, junk)
    BY MapCols
<1>. QED
    BY <1>1, <1>2, <1>3, <1>4 DEF GroupsComplete

-----------------------------------------------------------------------------
(* Rows, names and tokens.                                                 *)

WorldType == [id : Int, randomnumber : Int]
FortuneType == [id : Int, message : Seq(Int)]
RowType == IF mod = "World" THEN WorldType ELSE FortuneType

BaseTypeOK ==
    /\ mod \in {"World", "Fortune"}
    /\ record \in Seq(RowType)
    /\ data \in RowType

\* What JSON is made of.
Signs == {"{", "}", "[", "]", ","}
JsonTokens == {Mark(k) : k \in Signs} \cup {Item(c, row[c]) : c \in Columns, row \in RowType}

\* The columns of the two classes.
LEMMA ColumnFacts ==
    ASSUME mod \in {"World", "Fortune"}
    PROVE  /\ mod = "World" => col_names = <<"id", "randomnumber">> /\ Columns = {"id", "randomnumber"}
           /\ mod = "Fortune" => col_names = <<"id", "message">> /\ Columns = {"id", "message"}
           /\ col_names[1] = "id" /\ col_names[2] \in {"randomnumber", "message"}
<1>1. CASE mod = "World"
  <2>1. ToSet(<<"id", "randomnumber">>) = {"id", "randomnumber"}
      BY DEF ToSet
  <2>. QED
      BY <1>1, <2>1 DEF col_names, Columns
<1>2. CASE mod = "Fortune"
  <2>1. ToSet(<<"id", "message">>) = {"id", "message"}
      BY DEF ToSet
  <2>. QED
      BY <1>2, <2>1 DEF col_names, Columns
<1>. QED
    BY <1>1, <1>2

\* The letters of the names.
LEMMA LetterFacts ==
    /\ Letter["id"] = "i" /\ Letter["ident"] = "i" /\ Letter["i"] = "i" /\ Letter["Id"] = "I"
    /\ Letter["randomnumber"] = "r" /\ Letter["message"] = "m"
    /\ Names = {"id", "ident", "i", "Id", "randomnumber", "message"}
BY DEF Letter, Names

\* Where a name is found.
LEMMA FoundAt ==
    ASSUME mod \in {"World", "Fortune"}, NEW name
    PROVE  /\ findcolpos(name) \in 0..2
           /\ findcolpos(name) = 1 <=> Letter[name] = "i"
           /\ findcolpos(name) = 2 <=> Letter[name] = Letter[col_names[2]]
<1>1. Letter[col_names[1]] = "i" /\ Letter[col_names[2]] # "i"
    BY ColumnFacts, LetterFacts
<1>2. CASE Letter[name] = "i"
  <2>1. \A k \in 1..2 : Letter[col_names[k]] = Letter[name] <=> k = 1
      BY <1>1, <1>2
  <2>2. \E k \in 1..2 : Letter[col_names[k]] = Letter[name]
      BY <2>1
  <2>3. findcolpos(name) = CHOOSE k \in 1..2 : Letter[col_names[k]] = Letter[name]
      BY <2>2 DEF findcolpos
  <2>4. findcolpos(name) = 1
      BY <2>1, <2>2, <2>3
  <2>. QED
      BY <1>1, <1>2, <2>4
<1>3. CASE Letter[name] = Letter[col_names[2]]
  <2>1. \A k \in 1..2 : Letter[col_names[k]] = Letter[name] <=> k = 2
      BY <1>1, <1>3
  <2>2. \E k \in 1..2 : Letter[col_names[k]] = Letter[name]
      BY <2>1
  <2>3. findcolpos(name) = CHOOSE k \in 1..2 : Letter[col_names[k]] = Letter[name]
      BY <2>2 DEF findcolpos
  <2>4. findcolpos(name) = 2
      BY <2>1, <2>2, <2>3
  <2>. QED
      BY <1>1, <1>3, <2>4
<1>4. CASE Letter[name] # "i" /\ Letter[name] # Letter[col_names[2]]
  <2>1. \A k \in 1..2 : Letter[col_names[k]] # Letter[name]
      BY <1>1, <1>4
  <2>2. findcolpos(name) = 0
      BY <2>1 DEF findcolpos
  <2>. QED
      BY <1>1, <1>4, <2>2
<1>. QED
    BY <1>2, <1>3, <1>4

\* The columns are found where they are.
LEMMA ColumnsFound ==
    ASSUME mod \in {"World", "Fortune"}
    PROVE  /\ findcolpos("id") = 1
           /\ findcolpos(col_names[2]) = 2
           /\ findcolpos("Id") = 0
           /\ mod = "World" => findcolpos("message") = 0
           /\ \A c \in Columns : findcolpos(c) # 0 /\ col_names[findcolpos(c)] = c
<1>1. findcolpos("id") = 1 /\ findcolpos(col_names[2]) = 2
    BY FoundAt, LetterFacts
<1>2. findcolpos("Id") \notin {1, 2}
    BY FoundAt, LetterFacts, ColumnFacts
<1>3. mod = "World" => findcolpos("message") \notin {1, 2}
    BY FoundAt, LetterFacts, ColumnFacts
<1>4. findcolpos("Id") = 0 /\ (mod = "World" => findcolpos("message") = 0)
    BY <1>2, <1>3, FoundAt
<1>. QED
    BY <1>1, <1>4, ColumnFacts

\* The current row of a reset object.
LEMMA MetaType ==
    ASSUME mod \in {"World", "Fortune"}
    PROVE  /\ meta \in RowType
           /\ mod = "World" => meta = [id |-> 0, randomnumber |-> 0]
           /\ mod = "Fortune" => meta = [id |-> 0, message |-> <<>>]
<1>1. CASE mod = "World"
  <2>1. meta = [c \in {"id", "randomnumber"} |-> 0]
      BY <1>1, ColumnFacts DEF meta, Type, Zero
  <2>. QED
      BY <1>1, <2>1 DEF RowType, WorldType
<1>2. CASE mod = "Fortune"
  <2>1. meta = [c \in {"id", "message"} |-> IF c = "message" THEN <<>> ELSE 0]
      BY <1>2, ColumnFacts DEF meta, Type, Zero
  <2>2. meta = [id |-> 0, message |-> <<>>]
      BY <2>1
  <2>. QED
      BY <1>2, <2>2 DEF RowType, FortuneType
<1>. QED
    BY <1>1, <1>2

\* The number or the text of a column.
LEMMA CellTypes ==
    ASSUME mod \in {"World", "Fortune"}, NEW row \in RowType
    PROVE  \A c \in Columns : row[c] \in IF c = "message" THEN Seq(Int) ELSE Int
BY ColumnFacts DEF RowType, WorldType, FortuneType

\* A pair of a JSON text is set: a number replaces, a text is added.
LEMMA SetTextIs ==
    ASSUME mod \in {"World", "Fortune"}, NEW row \in RowType, NEW c \in Columns,
           NEW v \in IF c = "message" THEN Seq(Int) ELSE Int
    PROVE  /\ SetText(row, c, v) = [row EXCEPT ![c] = IF c = "message" THEN row[c] \o v ELSE v]
           /\ SetText(row, c, v) \in RowType
<1>1. findcolpos(c) # 0 /\ col_names[findcolpos(c)] = c
    BY ColumnsFound
<1>2. CASE c = "message"
  <2>1. SetText(row, c, v) = [row EXCEPT ![c] = row[c] \o v]
      BY <1>1, <1>2 DEF SetText, Type
  <2>2. row[c] \in Seq(Int) /\ v \in Seq(Int)
      BY <1>2, CellTypes
  <2>3. row[c] \o v \in Seq(Int)
      BY <2>2
  <2>. QED
      BY <1>2, <2>1, <2>3, ColumnFacts DEF RowType, WorldType, FortuneType
<1>3. CASE c # "message"
  <2>1. v \in Int /\ v # NotANumber
      BY <1>3, BaseAssumption
  <2>2. SetText(row, c, v) = [row EXCEPT ![c] = v]
      BY <1>1, <1>3, <2>1 DEF SetText, Type, stoll
  <2>. QED
      BY <1>3, <2>1, <2>2, ColumnFacts DEF RowType, WorldType, FortuneType
<1>. QED
    BY <1>2, <1>3

-----------------------------------------------------------------------------
(* from_json.                                                              *)

Modes == {"first", "start", "seek", "fields", "number", "step", "skip", "end"}
ReaderStates == [record : Seq(RowType), data : RowType, isarray : BOOLEAN, mode : Modes]
At_(r, d, a, m) == [record |-> r, data |-> d, isarray |-> a, mode |-> m]
Reset == At_(<<>>, meta, FALSE, "first")

\* A token is a sign or a pair.
LEMMA TokenKinds ==
    ASSUME mod \in {"World", "Fortune"}, NEW t \in JsonTokens
    PROVE  \/ t.k \in Signs /\ t = Mark(t.k)
           \/ /\ t.k = "item" /\ t.col \in Columns
              /\ t.value \in IF t.col = "message" THEN Seq(Int) ELSE Int
<1>1. CASE t \in {Mark(k) : k \in Signs}
    BY <1>1 DEF Mark
<1>2. CASE t \in {Item(c, row[c]) : c \in Columns, row \in RowType}
  <2>1. PICK c \in Columns, row \in RowType : t = Item(c, row[c])
      BY <1>2
  <2>2. t.k = "item" /\ t.col = c /\ t.value = row[c]
      BY <2>1 DEF Item
  <2>. QED
      BY <2>2, CellTypes
<1>. QED
    BY <1>1, <1>2 DEF JsonTokens

\* The state of the reader has its type.
LEMMA ReadTokenType ==
    ASSUME mod \in {"World", "Fortune"}, NEW s \in ReaderStates, NEW t \in JsonTokens
    PROVE  ReadToken(s, t) \in ReaderStates
<1>1. /\ s.record \in Seq(RowType) /\ s.data \in RowType /\ s.isarray \in BOOLEAN
      /\ s.mode \in Modes /\ Append(s.record, s.data) \in Seq(RowType)
    BY DEF ReaderStates
<1>2. meta \in RowType
    BY MetaType
<1>3. EndRow(s) \in ReaderStates
  <2>1. EndRow(s) = [s EXCEPT !.record = Append(s.record, s.data),
                              !.mode = IF s.isarray THEN "skip" ELSE "end"]
      BY DEF EndRow
  <2>. QED
      BY <1>1, <2>1 DEF ReaderStates, Modes
<1>4. t.k = "item" => SetText(s.data, t.col, t.value) \in RowType
  <2>. SUFFICES ASSUME t.k = "item" PROVE SetText(s.data, t.col, t.value) \in RowType
      OBVIOUS
  <2>1. t.col \in Columns /\ t.value \in IF t.col = "message" THEN Seq(Int) ELSE Int
      BY TokenKinds DEF Signs
  <2>2. PICK row \in RowType : row = s.data
      BY <1>1
  <2>3. PICK c \in Columns : c = t.col
      BY <2>1
  <2>4. PICK v \in IF c = "message" THEN Seq(Int) ELSE Int : v = t.value
      BY <2>1, <2>3
  <2>. QED
      BY <2>2, <2>3, <2>4, SetTextIs
<1>5. ReadPair(s, t) \in ReaderStates
  <2>1. CASE t.k # "item"
      BY <1>3, <2>1 DEF ReadPair
  <2>2. CASE t.k = "item"
    <3>1. PICK row \in RowType : row = SetText(s.data, t.col, t.value)
        BY <1>4, <2>2
    <3>2. ReadPair(s, t) = [s EXCEPT !.data = row,
                                     !.mode = IF Type(t.col) = "text" THEN "step" ELSE "number"]
        BY <2>2, <3>1 DEF ReadPair
    <3>. QED
        BY <3>2 DEF ReaderStates, Modes
  <2>. QED
      BY <2>1, <2>2
<1>6. AfterNumber(s, t) \in ReaderStates
    BY <1>3 DEF AfterNumber, ReaderStates, Modes
<1>7. Turn(s, t) \in ReaderStates
    BY <1>1, <1>2 DEF Turn, ReaderStates, Modes
<1>8. /\ [s EXCEPT !.isarray = t.k = "[", !.mode = IF t.k = "[" THEN "start" ELSE "fields"]
            \in ReaderStates
      /\ [s EXCEPT !.mode = "fields"] \in ReaderStates
      /\ [s EXCEPT !.mode = "start"] \in ReaderStates
    BY DEF ReaderStates, Modes
<1>. QED
    BY <1>5, <1>6, <1>7, <1>8 DEF ReadToken

\* The states of the reader along a text.
Readings(json) ==
    LET s[n \in 0..Len(json)] == IF n = 0 THEN Reset ELSE ReadToken(s[n - 1], json[n])
    IN  s

\* Reader is the last of them.
LEMMA ReaderIsLast ==
    ASSUME NEW json
    PROVE  Reader(json) = Readings(json)[Len(json)]
BY DEF Reader, Readings, Reset, At_

\* They are what their definition says.
LEMMA ReadingsRun ==
    ASSUME mod \in {"World", "Fortune"}, NEW json \in Seq(JsonTokens)
    PROVE  /\ Readings(json) = [n \in 0..Len(json) |->
                 IF n = 0 THEN Reset ELSE ReadToken(Readings(json)[n - 1], json[n])]
           /\ Readings(json) \in [0..Len(json) -> ReaderStates]
<1>. DEFINE N == Len(json)
            step == [n \in 1..N |-> [s \in ReaderStates |-> ReadToken(s, json[n])]]
            Eq(f) == f = [n \in 0..N |-> IF n = 0 THEN Reset ELSE ReadToken(f[n - 1], json[n])]
<1>1. N \in Nat
    OBVIOUS
<1>2. Reset \in ReaderStates
    BY MetaType DEF Reset, At_, ReaderStates, Modes
<1>3. step \in [1..N -> [ReaderStates -> ReaderStates]]
    BY ReadTokenType
<1>4. \A n \in 1..N : \A s \in ReaderStates : step[n][s] = ReadToken(s, json[n])
    OBVIOUS
<1>. HIDE DEF step, N
<1>5. PICK g \in [0..N -> ReaderStates] : IsRun(g, N, Reset, step)
    BY <1>1, <1>2, <1>3, RunExists
<1>6. Eq(g)
  <2>1. \A n \in 0..N : g[n] = IF n = 0 THEN Reset ELSE ReadToken(g[n - 1], json[n])
    <3>. SUFFICES ASSUME NEW n \in 0..N, n # 0 PROVE g[n] = ReadToken(g[n - 1], json[n])
        BY <1>5 DEF IsRun
    <3>1. n \in 1..N /\ n - 1 \in 0..N
        BY <1>1
    <3>2. g[n] = step[n][g[n - 1]]
        BY <1>5, <3>1 DEF IsRun
    <3>. QED
        BY <1>4, <3>1, <3>2
  <2>. QED
      BY <2>1
<1>7. Readings(json) = CHOOSE f : Eq(f)
    BY DEF Readings, N
<1>8. Eq(Readings(json))
    BY <1>6, <1>7
<1>9. Readings(json) = g
  <2>1. Readings(json)[0] = g[0]
      BY <1>1, <1>6, <1>8
  <2>2. \A n \in 1..N : Readings(json)[n - 1] = g[n - 1] => Readings(json)[n] = g[n]
      BY <1>1, <1>6, <1>8
  <2>3. GoAlike(Readings(json), g, N)
      BY <2>1, <2>2 DEF GoAlike
  <2>4. \A n \in 0..N : Readings(json)[n] = g[n]
      BY <1>1, <2>3, SameSteps
  <2>. QED
      BY <1>6, <1>8, <2>4
<1>. QED
    BY <1>8, <1>9 DEF N

\* Nothing read.
LEMMA ReaderEmpty ==
    ASSUME mod \in {"World", "Fortune"}
    PROVE  Reader(<<>>) = Reset
<1>0. <<>> \in Seq(JsonTokens)
    OBVIOUS
<1>1. PICK s \in Seq(JsonTokens) : s = <<>>
    BY <1>0
<1>2. 0 \in 0..Len(s) /\ Len(s) = 0
    BY <1>1
<1>3. Readings(s)[0] = Reset
    BY <1>2, ReadingsRun
<1>. QED
    BY <1>1, <1>2, <1>3, ReaderIsLast

\* One token more.
LEMMA ReaderAppend ==
    ASSUME mod \in {"World", "Fortune"}, NEW s \in Seq(JsonTokens), NEW t \in JsonTokens
    PROVE  /\ Reader(s) \in ReaderStates
           /\ Reader(Append(s, t)) = ReadToken(Reader(s), t)
<1>1. PICK u \in Seq(JsonTokens) : u = Append(s, t)
    BY AppendFacts
<1>2. /\ Len(s) \in Nat /\ Len(u) = Len(s) + 1 /\ u[Len(s) + 1] = t
      /\ \A i \in 1..Len(s) : u[i] = s[i]
    BY <1>1
<1>. DEFINE f == Readings(s)
            g == Readings(u)
<1>3. \A n \in 0..Len(s) : f[n] = IF n = 0 THEN Reset ELSE ReadToken(f[n - 1], s[n])
    BY ReadingsRun
<1>4. \A n \in 0..Len(u) : g[n] = IF n = 0 THEN Reset ELSE ReadToken(g[n - 1], u[n])
    BY ReadingsRun
<1>5. f[Len(s)] \in ReaderStates
    BY <1>2, ReadingsRun
<1>. HIDE DEF f, g
<1>6. f[0] = g[0]
    BY <1>2, <1>3, <1>4
<1>7. \A n \in 1..Len(s) : f[n - 1] = g[n - 1] => f[n] = g[n]
  <2>. SUFFICES ASSUME NEW n \in 1..Len(s), f[n - 1] = g[n - 1] PROVE f[n] = g[n]
      OBVIOUS
  <2>1. n \in 0..Len(s) /\ n \in 0..Len(u) /\ n # 0 /\ u[n] = s[n]
      BY <1>2
  <2>. QED
      BY <2>1, <1>3, <1>4
<1>8. f[Len(s)] = g[Len(s)]
  <2>1. PICK N \in Nat : N = Len(s)
      BY <1>2
  <2>2. \A n \in 1..N : f[n - 1] = g[n - 1] => f[n] = g[n]
      BY <1>7, <2>1
  <2>3. GoAlike(f, g, N)
      BY <1>6, <2>2 DEF GoAlike
  <2>4. \A n \in 0..N : f[n] = g[n]
      BY <2>3, SameSteps
  <2>. QED
      BY <2>1, <2>4
<1>9. g[Len(u)] = ReadToken(g[Len(s)], t)
  <2>1. Len(u) \in 0..Len(u) /\ Len(u) # 0 /\ Len(u) - 1 = Len(s) /\ u[Len(u)] = t
      BY <1>2
  <2>. QED
      BY <2>1, <1>4
<1>10. Reader(s) = f[Len(s)] /\ Reader(u) = g[Len(u)]
    BY ReaderIsLast DEF f, g
<1>. QED
    BY <1>1, <1>5, <1>8, <1>9, <1>10

-----------------------------------------------------------------------------
(* to_json.                                                                *)

\* One list and two.
LEMMA FlattenFew ==
    ASSUME NEW S, NEW a \in Seq(S), NEW b \in Seq(S)
    PROVE  FlattenSeq(<<a>>) = a /\ FlattenSeq(<<a, b>>) = a \o b
<1>1. PICK T : T = Seq(S)
    OBVIOUS
<1>2. <<>> \in Seq(T) /\ <<a>> \in Seq(T) /\ <<>> \o a = a
    BY <1>1
<1>3. <<a>> = Append(<<>>, a) /\ <<a, b>> = Append(<<a>>, b)
    BY <1>1
<1>4. PICK e \in Seq(T) : e = <<>>
    BY <1>2
<1>5. FlattenSeq(Append(e, a)) = FlattenSeq(e) \o a
    BY <1>1, FlattenAppend
<1>6. FlattenSeq(<<a>>) = a
    BY <1>2, <1>3, <1>4, <1>5, FlattenEmpty
<1>7. PICK o \in Seq(T) : o = <<a>>
    BY <1>2
<1>8. FlattenSeq(Append(o, b)) = FlattenSeq(o) \o b
    BY <1>1, FlattenAppend
<1>. QED
    BY <1>3, <1>6, <1>7, <1>8

\* Short lists.
LEMMA FewElements ==
    ASSUME NEW S, NEW x \in S, NEW y \in S
    PROVE  /\ <<>> \in Seq(S) /\ <<x>> \in Seq(S) /\ <<x, y>> \in Seq(S)
           /\ <<>> \o <<x>> = <<x>> /\ <<x>> \o <<y>> = <<x, y>>
<1>1. <<>> \in Seq(S) /\ <<x>> \in Seq(S) /\ <<y>> \in Seq(S) /\ <<x, y>> \in Seq(S)
    OBVIOUS
<1>2. <<>> \o <<x>> = <<x>>
    BY <1>1
<1>3. PICK a \in Seq(S) : a = <<x>>
    BY <1>1
<1>4. PICK b \in Seq(S) : b = <<y>>
    BY <1>1
<1>5. PICK c \in Seq(S) : c = <<x, y>>
    BY <1>1
<1>6. Len(a) = 1 /\ a[1] = x /\ Len(b) = 1 /\ b[1] = y /\ Len(c) = 2 /\ c[1] = x /\ c[2] = y
    BY <1>3, <1>4, <1>5
<1>7. a \o b \in Seq(S) /\ Len(a \o b) = 2 /\ (a \o b)[1] = x /\ (a \o b)[2] = y
  <2>1. /\ a \o b \in Seq(S) /\ Len(a \o b) = Len(a) + Len(b)
        /\ \A i \in 1..(Len(a) + Len(b)) : (a \o b)[i] = IF i <= Len(a) THEN a[i] ELSE b[i - Len(a)]
      BY ConcatProperties
  <2>2. 1 \in 1..(Len(a) + Len(b)) /\ 2 \in 1..(Len(a) + Len(b)) /\ 1 <= Len(a) /\ ~(2 <= Len(a))
        /\ 2 - Len(a) = 1
      BY <1>6
  <2>. QED
      BY <1>6, <2>1, <2>2
<1>8. a \o b = c
    BY <1>6, <1>7
<1>. QED
    BY <1>1, <1>2, <1>3, <1>4, <1>5, <1>8

\* The pair at a position, as the first and as the second of a list.
Known(row, p) == IF p = 0 THEN <<>> ELSE <<Item(col_names[p], row[col_names[p]])>>
KnownNext(row, p) ==
    IF p = 0 THEN <<>> ELSE <<Mark(","), Item(col_names[p], row[col_names[p]])>>

\* They are tokens.
LEMMA KnownTypes ==
    ASSUME mod \in {"World", "Fortune"}, NEW row \in RowType, NEW p \in 0..2
    PROVE  /\ Known(row, p) \in Seq(JsonTokens) /\ KnownNext(row, p) \in Seq(JsonTokens)
           /\ p # 0 => Item(col_names[p], row[col_names[p]]) \in JsonTokens
           /\ \A k \in Signs : Mark(k) \in JsonTokens
<1>1. \A k \in Signs : Mark(k) \in JsonTokens
    BY DEF JsonTokens
<1>2. p # 0 => col_names[p] \in Columns
    BY ColumnFacts
<1>3. p # 0 => Item(col_names[p], row[col_names[p]]) \in JsonTokens
    BY <1>2 DEF JsonTokens
<1>4. Mark(",") \in JsonTokens
    BY <1>1 DEF Signs
<1>5. CASE p = 0
  <2>1. <<>> \in Seq(JsonTokens)
      OBVIOUS
  <2>. QED
      BY <1>1, <1>5, <2>1 DEF Known, KnownNext
<1>6. CASE p # 0
  <2>1. PICK x \in JsonTokens : x = Item(col_names[p], row[col_names[p]])
      BY <1>3, <1>6
  <2>2. PICK m \in JsonTokens : m = Mark(",")
      BY <1>4
  <2>3. <<x>> \in Seq(JsonTokens) /\ <<m, x>> \in Seq(JsonTokens)
      BY FewElements
  <2>. QED
      BY <1>1, <1>3, <1>6, <2>1, <2>2, <2>3 DEF Known, KnownNext
<1>. QED
    BY <1>5, <1>6

\* The pairs of one name and of two.
LEMMA PairsAt ==
    ASSUME mod \in {"World", "Fortune"}, NEW row \in RowType, NEW names,
           NEW p \in 0..2, NEW q \in 0..2
    PROVE  /\ keypos(names) = <<p>> => Pairs(row, names) = Known(row, p)
           /\ keypos(names) = <<p, q>> => Pairs(row, names) = Known(row, p) \o KnownNext(row, q)
<1>. DEFINE item(i) == Item(col_names[i], row[col_names[i]])
            pair(pos, k) == (IF k > 1 THEN <<Mark(",")>> ELSE <<>>) \o <<item(pos[k])>>
            lists(pos) == [k \in DOMAIN pos |-> IF pos[k] = 0 THEN <<>> ELSE pair(pos, k)]
<1>1. Pairs(row, names) = FlattenSeq(lists(keypos(names)))
    BY DEF Pairs
<1>2. PICK a \in Seq(JsonTokens) : a = Known(row, p)
    BY KnownTypes
<1>3. PICK b \in Seq(JsonTokens) : b = KnownNext(row, q)
    BY KnownTypes
<1>4. \A pos : pair(pos, 1) = <<item(pos[1])>> /\ pair(pos, 2) = <<Mark(","), item(pos[2])>>
  <2>. SUFFICES ASSUME NEW pos
                PROVE  pair(pos, 1) = <<item(pos[1])>> /\ pair(pos, 2) = <<Mark(","), item(pos[2])>>
      OBVIOUS
  <2>1. PICK S : S = {Mark(","), item(pos[1]), item(pos[2])}
      OBVIOUS
  <2>2. PICK m \in S : m = Mark(",")
      BY <2>1
  <2>3. PICK x \in S : x = item(pos[1])
      BY <2>1
  <2>4. PICK y \in S : y = item(pos[2])
      BY <2>1
  <2>5. pair(pos, 1) = <<>> \o <<x>> /\ pair(pos, 2) = <<m>> \o <<y>>
    <3>1. (IF 1 > 1 THEN <<Mark(",")>> ELSE <<>>) = <<>>
        OBVIOUS
    <3>2. (IF 2 > 1 THEN <<Mark(",")>> ELSE <<>>) = <<m>>
      <4>1. \A A, B : (IF 2 > 1 THEN A ELSE B) = A
          OBVIOUS
      <4>. QED
          BY ONLY <2>2, <4>1
    <3>. HIDE DEF item
    <3>. QED
        BY <2>3, <2>4, <3>1, <3>2
  <2>6. <<>> \o <<x>> = <<x>> /\ <<m>> \o <<y>> = <<m, y>>
      BY FewElements
  <2>. QED
      BY <2>2, <2>3, <2>4, <2>5, <2>6
<1>. HIDE DEF pair
<1>5. lists(<<p>>) = <<Known(row, p)>>
  <2>1. /\ <<p>>[1] = p /\ DOMAIN <<p>> = {1} /\ DOMAIN <<Known(row, p)>> = {1}
        /\ <<Known(row, p)>>[1] = Known(row, p)
      OBVIOUS
  <2>2. lists(<<p>>) = [k \in {1} |-> Known(row, p)]
      BY <1>4, <2>1 DEF Known
  <2>. QED
      BY <2>1, <2>2
<1>6. lists(<<p, q>>) = <<Known(row, p), KnownNext(row, q)>>
  <2>1. <<p, q>>[1] = p /\ <<p, q>>[2] = q /\ DOMAIN <<p, q>> = {1, 2}
      OBVIOUS
  <2>2. \A a_, b_ : <<a_, b_>> = [k \in {1, 2} |-> IF k = 1 THEN a_ ELSE b_]
      OBVIOUS
  <2>3. lists(<<p, q>>) = [k \in {1, 2} |-> IF k = 1 THEN Known(row, p) ELSE KnownNext(row, q)]
      BY <1>4, <2>1 DEF Known, KnownNext
  <2>. QED
      BY <2>2, <2>3
<1>. HIDE DEF lists
<1>. QED
    BY <1>1, <1>2, <1>3, <1>5, <1>6, FlattenFew

\* The pairs of a list of names.
LEMMA PairsIs ==
    ASSUME mod \in {"World", "Fortune"}, NEW row \in RowType
    PROVE  /\ Pairs(row, <<>>) = Known(row, 1) \o KnownNext(row, 2)
           /\ \A x : Pairs(row, <<x>>) = Known(row, findcolpos(x))
           /\ \A x, y : Pairs(row, <<x, y>>)
                          = Known(row, findcolpos(x)) \o KnownNext(row, findcolpos(y))
<1>1. keypos(<<>>) = <<1, 2>>
    BY DEF keypos
<1>2. \A x : keypos(<<x>>) = <<findcolpos(x)>>
    BY DEF keypos
<1>3. \A x, y : keypos(<<x, y>>) = <<findcolpos(x), findcolpos(y)>>
    BY DEF keypos
<1>4. \A x : findcolpos(x) \in 0..2
    BY FoundAt
<1>5. 1 \in 0..2 /\ 2 \in 0..2
    OBVIOUS
<1>6. Pairs(row, <<>>) = Known(row, 1) \o KnownNext(row, 2)
    BY <1>1, <1>5, PairsAt
<1>7. \A x : Pairs(row, <<x>>) = Known(row, findcolpos(x))
    BY <1>2, <1>4, PairsAt
<1>8. \A x, y : Pairs(row, <<x, y>>) = Known(row, findcolpos(x)) \o KnownNext(row, findcolpos(y))
    BY <1>3, <1>4, PairsAt
<1>. QED
    BY <1>6, <1>7, <1>8

\* Lists of at most two names.
Short == {<<>>} \cup {<<x>> : x \in Names} \cup {<<x, y>> : x \in Names, y \in Names}

\* The pairs are tokens.
LEMMA PairsType ==
    ASSUME mod \in {"World", "Fortune"}, NEW row \in RowType, NEW names \in Short
    PROVE  Pairs(row, names) \in Seq(JsonTokens)
<1>1. \A x : findcolpos(x) \in 0..2
    BY FoundAt
<1>2. \A p, q \in 0..2 : Known(row, p) \in Seq(JsonTokens) /\ KnownNext(row, q) \in Seq(JsonTokens)
    BY KnownTypes
<1>3. \A a, b \in Seq(JsonTokens) : a \o b \in Seq(JsonTokens)
    OBVIOUS
<1>4. \A p, q \in 0..2 : Known(row, p) \o KnownNext(row, q) \in Seq(JsonTokens)
    BY <1>2, <1>3
<1>5. 1 \in 0..2 /\ 2 \in 0..2
    OBVIOUS
<1>6. CASE names = <<>>
    BY <1>4, <1>5, <1>6, PairsIs
<1>7. CASE \E x : names = <<x>>
  <2>1. PICK x : names = <<x>>
      BY <1>7
  <2>. QED
      BY <1>1, <1>2, <2>1, PairsIs
<1>8. CASE \E x, y : names = <<x, y>>
  <2>1. PICK x, y : names = <<x, y>>
      BY <1>8
  <2>. QED
      BY <1>1, <1>4, <2>1, PairsIs
<1>. QED
    BY <1>6, <1>7, <1>8 DEF Short

\* The text of a row in an array.
Object(rows, names, k) ==
    (IF k > 1 THEN <<Mark(",")>> ELSE <<>>)
        \o <<Mark("{")>> \o Pairs(rows[k], names) \o <<Mark("}")>>
Objects(rows, names, keep) ==
    [k \in DOMAIN rows |-> IF k \in keep THEN Object(rows, names, k) ELSE <<>>]

\* An array.
LEMMA ArrayIs ==
    ASSUME mod \in {"World", "Fortune"}, NEW rows \in Seq(RowType), NEW names \in Short, NEW keep
    PROVE  /\ to_json_func(rows, names, keep)
                = <<Mark("[")>> \o FlattenSeq(Objects(rows, names, keep)) \o <<Mark("]")>>
           /\ Objects(rows, names, keep) \in Seq(Seq(JsonTokens))
           /\ Len(Objects(rows, names, keep)) = Len(rows)
           /\ FlattenSeq(Objects(rows, names, keep)) \in Seq(JsonTokens)
           /\ to_json_func(rows, names, keep) \in Seq(JsonTokens)
<1>1. to_json_func(rows, names, keep)
        = <<Mark("[")>> \o FlattenSeq(Objects(rows, names, keep)) \o <<Mark("]")>>
    BY DEF to_json_func, Objects, Object
<1>2. /\ <<Mark("{")>> \in Seq(JsonTokens) /\ <<Mark("}")>> \in Seq(JsonTokens)
      /\ <<Mark("[")>> \in Seq(JsonTokens) /\ <<Mark("]")>> \in Seq(JsonTokens)
      /\ <<Mark(",")>> \in Seq(JsonTokens) /\ <<>> \in Seq(JsonTokens)
  <2>1. \A k \in Signs : Mark(k) \in JsonTokens
      BY DEF JsonTokens
  <2>2. \A x \in JsonTokens : <<x>> \in Seq(JsonTokens)
      OBVIOUS
  <2>3. <<>> \in Seq(JsonTokens)
      OBVIOUS
  <2>4. "{" \in Signs /\ "}" \in Signs /\ "[" \in Signs /\ "]" \in Signs /\ "," \in Signs
      BY DEF Signs
  <2>. QED
      BY <2>1, <2>2, <2>3, <2>4
<1>3. \A k \in DOMAIN rows : Object(rows, names, k) \in Seq(JsonTokens)
  <2>. SUFFICES ASSUME NEW k \in DOMAIN rows PROVE Object(rows, names, k) \in Seq(JsonTokens)
      OBVIOUS
  <2>1. PICK row \in RowType : row = rows[k]
      OBVIOUS
  <2>2. Pairs(rows[k], names) \in Seq(JsonTokens)
      BY <2>1, PairsType
  <2>3. \A a, b \in Seq(JsonTokens) : a \o b \in Seq(JsonTokens)
      OBVIOUS
  <2>. QED
      BY <1>2, <2>2, <2>3 DEF Object
<1>4. DOMAIN rows = 1..Len(rows) /\ Len(rows) \in Nat
    OBVIOUS
<1>5. Objects(rows, names, keep) \in Seq(Seq(JsonTokens)) /\ Len(Objects(rows, names, keep)) = Len(rows)
  <2>1. PICK T : T = Seq(JsonTokens)
      OBVIOUS
  <2>2. Objects(rows, names, keep) \in [1..Len(rows) -> T]
      BY <1>2, <1>3, <1>4, <2>1 DEF Objects
  <2>3. Objects(rows, names, keep) \in Seq(T) /\ Len(Objects(rows, names, keep)) = Len(rows)
      BY <1>4, <2>2
  <2>. QED
      BY <2>1, <2>3
<1>6. FlattenSeq(Objects(rows, names, keep)) \in Seq(JsonTokens)
  <2>1. PICK x \in Seq(JsonTokens) : x = <<>>
      BY <1>2
  <2>2. PICK ss \in Seq(Seq(JsonTokens)) : ss = Objects(rows, names, keep)
      BY <1>5
  <2>. QED
      BY <2>2, FlattenAppend
<1>7. \A a, b \in Seq(JsonTokens) : a \o b \in Seq(JsonTokens)
    OBVIOUS
<1>8. to_json_func(rows, names, keep) \in Seq(JsonTokens)
  <2>1. PICK a \in Seq(JsonTokens) : a = <<Mark("[")>>
      BY <1>2
  <2>2. PICK b \in Seq(JsonTokens) : b = FlattenSeq(Objects(rows, names, keep))
      BY <1>6
  <2>3. PICK c \in Seq(JsonTokens) : c = <<Mark("]")>>
      BY <1>2
  <2>4. (a \o b) \o c \in Seq(JsonTokens)
      BY <1>7
  <2>. QED
      BY <1>1, <2>1, <2>2, <2>3, <2>4
<1>. QED
    BY <1>1, <1>5, <1>6, <1>8

\* A single object.
LEMMA ObjectText ==
    ASSUME mod \in {"World", "Fortune"}, data \in RowType, NEW names \in Short
    PROVE  data_tojson(names) \in Seq(JsonTokens)
<1>1. Mark("{") \in JsonTokens /\ Mark("}") \in JsonTokens
    BY DEF JsonTokens, Signs
<1>2. PICK a \in Seq(JsonTokens) : a = <<Mark("{")>>
    BY <1>1, FewElements
<1>3. PICK b \in Seq(JsonTokens) : b = <<Mark("}")>>
    BY <1>1, FewElements
<1>4. PICK c \in Seq(JsonTokens) : c = Pairs(data, names)
    BY PairsType
<1>5. (a \o c) \o b \in Seq(JsonTokens)
    OBVIOUS
<1>. QED
    BY <1>2, <1>3, <1>4, <1>5 DEF data_tojson

\* What from_json sets has its type.
LEMMA ParsedType ==
    ASSUME mod \in {"World", "Fortune"}, NEW json \in Seq(JsonTokens)
    PROVE  Parsed(json).record \in Seq(RowType) /\ Parsed(json).data \in RowType
<1>. DEFINE all(s) == IF s.mode \in {"fields", "step"} THEN Append(s.record, s.data) ELSE s.record
            current(s) == IF s.isarray /\ Len(all(s)) > 1 THEN all(s)[1] ELSE s.data
<1>1. PICK t \in JsonTokens : t = Mark("[")
  <2>1. "[" \in Signs
      BY DEF Signs
  <2>. QED
      BY <2>1 DEF JsonTokens
<1>2. PICK s \in ReaderStates : s = Reader(json)
    BY <1>1, ReaderAppend
<1>3. s.record \in Seq(RowType) /\ s.data \in RowType
    BY DEF ReaderStates
<1>4. all(s) \in Seq(RowType)
    BY <1>3
<1>. HIDE DEF all
<1>5. current(s) \in RowType
    BY <1>3, <1>4
<1>. HIDE DEF current
<1>6. Parsed(json) = [record |-> all(s), data |-> current(s)]
    BY <1>2 DEF Parsed, all, current
<1>. QED
    BY <1>4, <1>5, <1>6

\* The columns the other way round.
LEMMA ReversedColumns ==
    ASSUME mod \in {"World", "Fortune"}
    PROVE  /\ Reverse(col_names) = <<col_names[2], "id">>
           /\ col_names = <<"id", col_names[2]>>
           /\ Reverse(col_names) \in Short /\ col_names \in Short /\ <<>> \in Short
           /\ <<"id">> \in Short /\ <<"Id", "message">> \in Short
<1>1. CASE mod = "World"
  <2>1. col_names = <<"id", "randomnumber">>
      BY <1>1, ColumnFacts
  <2>2. Reverse(<<"id", "randomnumber">>) = <<"randomnumber", "id">>
      BY DEF Reverse
  <2>. QED
      BY <2>1, <2>2, LetterFacts DEF Short
<1>2. CASE mod = "Fortune"
  <2>1. col_names = <<"id", "message">>
      BY <1>2, ColumnFacts
  <2>2. Reverse(<<"id", "message">>) = <<"message", "id">>
      BY DEF Reverse
  <2>. QED
      BY <2>1, <2>2, LetterFacts DEF Short
<1>. QED
    BY <1>1, <1>2

\* from_json keeps the types.
LEMMA FromJsonTypes ==
    ASSUME BaseTypeOK, from_some_json
    PROVE  record' \in Seq(RowType) /\ data' \in RowType
<1>1. PICK names \in {<<>>, <<"id">>, <<"Id", "message">>, Reverse(col_names)} :
        from_json(to_json(record, names)) \/ from_json(data_tojson(names))
    BY DEF from_some_json
<1>2. names \in Short
    BY <1>1, ReversedColumns DEF BaseTypeOK
<1>3. to_json(record, names) \in Seq(JsonTokens)
  <2>1. PICK rows \in Seq(RowType) : rows = record
      BY DEF BaseTypeOK
  <2>2. PICK keep : keep = DOMAIN rows
      OBVIOUS
  <2>3. to_json_func(rows, names, keep) \in Seq(JsonTokens)
      BY <1>2, ArrayIs DEF BaseTypeOK
  <2>. QED
      BY <2>1, <2>2, <2>3 DEF to_json
<1>4. data_tojson(names) \in Seq(JsonTokens)
    BY <1>2, ObjectText DEF BaseTypeOK
<1>5. PICK json \in Seq(JsonTokens) : from_json(json)
    BY <1>1, <1>3, <1>4
<1>. QED
    BY <1>5, ParsedType DEF from_json, BaseTypeOK

\* A number or a text is set.
LEMMA SetTypes ==
    ASSUME BaseTypeOK, set_val \/ \E c \in Columns : set(c)
    PROVE  record' \in Seq(RowType) /\ data' \in RowType
<1>1. CASE \E c \in Columns : set(c)
  <2>1. PICK c \in Columns, r \in Rows : data' = [data EXCEPT ![c] = r[c]] /\ record' = record
      BY <1>1 DEF set
  <2>2. r \in RowType
      BY BaseAssumption DEF Rows, RowType, WorldType, FortuneType, BaseTypeOK
  <2>. QED
      BY <2>1, <2>2, ColumnFacts DEF BaseTypeOK, RowType, WorldType, FortuneType
<1>2. CASE set_val
  <2>1. PICK name \in Names, v \in Numbers \cup {NotANumber} :
        LET p == findcolpos(name) IN
        IF p > 0 /\ Type(col_names[p]) = "text"
        THEN /\ v # NotANumber
             /\ \/ data' = [data EXCEPT ![col_names[p]] = to_string(v)]
                \/ data' = SetText(data, name, to_string(v))
        ELSE data' = SetText(data, name, v)
      BY <1>2 DEF set_val
  <2>2. PICK p \in 0..2 : p = findcolpos(name)
      BY FoundAt DEF BaseTypeOK
  <2>3. p # 0 => col_names[p] \in Columns
      BY ColumnFacts DEF BaseTypeOK
  <2>4. record' = record
      BY <1>2 DEF set_val
  <2>5. CASE p > 0 /\ Type(col_names[p]) = "text"
    <3>1. col_names[p] = "message" /\ mod = "Fortune"
        BY <2>3, <2>5, ColumnFacts DEF Type, BaseTypeOK
    <3>2. v \in Int
        BY <2>1, <2>2, <2>5, BaseAssumption
    <3>3. <<v>> \in Seq(Int) /\ data.message \in Seq(Int)
        BY <3>1, <3>2 DEF BaseTypeOK, RowType, FortuneType
    <3>4. data.message \o <<v>> \in Seq(Int)
        BY <3>3
    <3>5. \/ data' = [data EXCEPT !["message"] = <<v>>]
          \/ data' = [data EXCEPT !["message"] = data.message \o <<v>>]
        BY <2>1, <2>2, <2>5, <3>1 DEF SetText, to_string
    <3>. QED
        BY <2>4, <3>1, <3>3, <3>4, <3>5 DEF BaseTypeOK, RowType, FortuneType
  <2>6. CASE ~(p > 0 /\ Type(col_names[p]) = "text")
    <3>1. data' = SetText(data, name, v)
        BY <2>1, <2>2, <2>6
    <3>2. stoll(v) \in Int
        BY BaseAssumption DEF stoll
    <3>3. data' = IF p = 0 THEN data ELSE [data EXCEPT ![col_names[p]] = stoll(v)]
        BY <2>2, <2>6, <3>1 DEF SetText
    <3>4. p # 0 => col_names[p] # "message"
        BY <2>2, <2>6 DEF Type
    <3>. QED
        BY <2>3, <2>4, <3>2, <3>3, <3>4, ColumnFacts DEF BaseTypeOK, RowType, WorldType, FortuneType
  <2>. QED
      BY <2>5, <2>6
<1>. QED
    BY <1>1, <1>2

\* Calls of the builder stay with the class.
LEMMA BuilderKeepsMod ==
    ASSUME WInv, Builder
    PROVE  mod' = mod
<1>1. CASE Adds
    BY <1>1 DEF Adds, Condition
<1>2. CASE BracketMethods
    BY <1>2 DEF BracketMethods, orsub, andsub, endsub, or_b, and_b, or_e,
                CloseBracket, OpenBracket
<1>3. CASE TailMethods
    BY <1>3 DEF TailMethods, select, order, having, group, limit, TailCall
<1>4. CASE clearWhere \/ wheresql_clear
    BY <1>4 DEF clearWhere, wheresql_clear
<1>. QED
    BY <1>1, <1>2, <1>3, <1>4, IdAdds, RandomnumberAdds, MessageAdds, NamedColumnAdds DEF Builder

\* The rows of an object have their type in every reachable state.
THEOREM BaseTypeCorrect == Spec => []BaseTypeOK
<1>1. Init => BaseTypeOK
  <2>. SUFFICES ASSUME Init PROVE BaseTypeOK
      OBVIOUS
  <2>1. mod \in {"World", "Fortune"} /\ record = <<>> /\ data = meta
      BY DEF Init, BaseInit
  <2>2. <<>> \in Seq(RowType)
      OBVIOUS
  <2>. QED
      BY <2>1, <2>2, MetaType DEF BaseTypeOK
<1>2. WInv /\ BaseTypeOK /\ [Next]_vars => BaseTypeOK'
  <2>. SUFFICES ASSUME WInv, BaseTypeOK, [Next]_vars PROVE BaseTypeOK'
      OBVIOUS
  <2>1. mod' = mod => RowType' = RowType
      BY DEF RowType
  <2>2. CASE UNCHANGED vars
      BY <2>1, <2>2 DEF vars, baseVars, BaseTypeOK
  <2>3. CASE Builder /\ UNCHANGED baseVars
      BY <2>1, <2>3, BuilderKeepsMod DEF baseVars, BaseTypeOK
  <2>4. CASE BaseNext
    <3>1. mod' = mod
        BY <2>4 DEF BaseNext
    <3>2. CASE fetched
      <4>1. PICK r \in Rows : record' = Append(record, r) /\ data' = data
          BY <3>2 DEF fetched
      <4>2. r \in RowType
          BY BaseAssumption DEF Rows, RowType, WorldType, FortuneType, BaseTypeOK
      <4>3. record' \in Seq(RowType)
          BY <4>1, <4>2 DEF BaseTypeOK
      <4>. QED
          BY <2>1, <3>1, <4>1, <4>3 DEF BaseTypeOK
    <3>3. CASE record_reset \/ data_reset
      <4>1. <<>> \in Seq(RowType) /\ meta \in RowType
          BY MetaType DEF BaseTypeOK
      <4>. QED
          BY <2>1, <3>1, <3>3, <4>1 DEF record_reset, data_reset, BaseTypeOK
    <3>4. CASE set_val \/ \E c \in Columns : set(c)
        BY <2>1, <3>1, <3>4, SetTypes DEF BaseTypeOK
    <3>5. CASE from_some_json
        BY <2>1, <3>1, <3>5, FromJsonTypes DEF BaseTypeOK
    <3>. QED
        BY <2>4, <3>2, <3>3, <3>4, <3>5 DEF BaseNext
  <2>. QED
      BY <2>2, <2>3, <2>4 DEF Next
<1>. QED
    BY <1>1, <1>2, BuilderInvariant, PTL DEF Spec

\* The functions that collect columns and group rows lose no row, add none and keep
\* their order, whatever rows the calls have left in the record and of any number.
THEOREM GroupingComplete == Spec => []GroupsComplete
<1>1. BaseTypeOK => GroupsComplete
    BY ListsGroup DEF BaseTypeOK
<1>. QED
    BY <1>1, BaseTypeCorrect, PTL

-----------------------------------------------------------------------------
(* Reading what was written.                                               *)

\* What the reader does with a pair, mode by mode.
LEMMA PairSteps ==
    ASSUME NEW r, NEW d, NEW a, NEW c, NEW v
    PROVE  /\ ReadToken(At_(r, d, a, "fields"), Item(c, v))
                = At_(r, SetText(d, c, v), a, IF Type(c) = "text" THEN "step" ELSE "number")
           /\ r # <<>> => ReadToken(At_(r, d, a, "start"), Item(c, v)) = At_(r, meta, a, "seek")
           /\ ReadToken(At_(r, d, a, "seek"), Item(c, v)) = At_(r, d, a, "seek")
<1>1. Item(c, v).k = "item" /\ Item(c, v).col = c /\ Item(c, v).value = v
    BY DEF Item
<1>2. ReadToken(At_(r, d, a, "fields"), Item(c, v))
        = At_(r, SetText(d, c, v), a, IF Type(c) = "text" THEN "step" ELSE "number")
    BY <1>1 DEF ReadToken, At_, ReadPair
<1>3. r # <<>> => ReadToken(At_(r, d, a, "start"), Item(c, v)) = At_(r, meta, a, "seek")
    BY <1>1 DEF ReadToken, At_, Turn
<1>4. ReadToken(At_(r, d, a, "seek"), Item(c, v)) = At_(r, d, a, "seek")
    BY <1>1 DEF ReadToken, At_
<1>. QED
    BY <1>2, <1>3, <1>4

\* What the reader does with a sign.
LEMMA SignSteps ==
    ASSUME NEW r, NEW d, NEW a
    PROVE  /\ ReadToken(At_(r, d, a, "first"), Mark("[")) = At_(r, d, TRUE, "start")
           /\ ReadToken(At_(r, d, a, "first"), Mark("{")) = At_(r, d, FALSE, "fields")
           /\ r = <<>> => ReadToken(At_(r, d, a, "start"), Mark("{")) = At_(r, d, a, "fields")
           /\ r # <<>> => ReadToken(At_(r, d, a, "start"), Mark("{")) = At_(r, meta, a, "fields")
           /\ r = <<>> => ReadToken(At_(r, d, a, "start"), Mark("]")) = At_(r, d, a, "seek")
           /\ ReadToken(At_(r, d, a, "seek"), Mark("{")) = At_(r, d, a, "fields")
           /\ ReadToken(At_(r, d, a, "seek"), Mark("}")) = At_(r, d, a, "seek")
           /\ ReadToken(At_(r, d, a, "seek"), Mark("]")) = At_(r, d, a, "seek")
           /\ ReadToken(At_(r, d, a, "seek"), Mark(",")) = At_(r, d, a, "seek")
           /\ ReadToken(At_(r, d, TRUE, "fields"), Mark(",")) = At_(Append(r, d), d, TRUE, "skip")
           /\ ReadToken(At_(r, d, TRUE, "fields"), Mark("]")) = At_(Append(r, d), d, TRUE, "skip")
           /\ ReadToken(At_(r, d, TRUE, "number"), Mark("}")) = At_(Append(r, d), d, TRUE, "skip")
           /\ ReadToken(At_(r, d, FALSE, "number"), Mark("}")) = At_(Append(r, d), d, FALSE, "end")
           /\ ReadToken(At_(r, d, a, "number"), Mark(",")) = At_(r, d, a, "fields")
           /\ ReadToken(At_(r, d, a, "step"), Mark(",")) = At_(r, d, a, "fields")
           /\ ReadToken(At_(r, d, a, "step"), Mark("}")) = At_(r, d, a, "fields")
           /\ ReadToken(At_(r, d, a, "skip"), Mark(",")) = At_(r, d, a, "start")
           /\ ReadToken(At_(r, d, a, "skip"), Mark("{")) = At_(r, d, a, "start")
           /\ ReadToken(At_(r, d, a, "skip"), Mark("]")) = At_(r, d, a, "start")
<1>0. \A k : Mark(k).k = k
    BY DEF Mark
<1>1. /\ ReadToken(At_(r, d, a, "first"), Mark("[")) = At_(r, d, TRUE, "start")
      /\ ReadToken(At_(r, d, a, "first"), Mark("{")) = At_(r, d, FALSE, "fields")
    BY <1>0 DEF ReadToken, At_
<1>2. /\ r = <<>> => ReadToken(At_(r, d, a, "start"), Mark("{")) = At_(r, d, a, "fields")
      /\ r # <<>> => ReadToken(At_(r, d, a, "start"), Mark("{")) = At_(r, meta, a, "fields")
      /\ r = <<>> => ReadToken(At_(r, d, a, "start"), Mark("]")) = At_(r, d, a, "seek")
    BY <1>0 DEF ReadToken, At_, Turn
<1>3. /\ ReadToken(At_(r, d, a, "seek"), Mark("{")) = At_(r, d, a, "fields")
      /\ ReadToken(At_(r, d, a, "seek"), Mark("}")) = At_(r, d, a, "seek")
      /\ ReadToken(At_(r, d, a, "seek"), Mark("]")) = At_(r, d, a, "seek")
      /\ ReadToken(At_(r, d, a, "seek"), Mark(",")) = At_(r, d, a, "seek")
    BY <1>0 DEF ReadToken, At_
<1>4. /\ ReadToken(At_(r, d, TRUE, "fields"), Mark(",")) = At_(Append(r, d), d, TRUE, "skip")
      /\ ReadToken(At_(r, d, TRUE, "fields"), Mark("]")) = At_(Append(r, d), d, TRUE, "skip")
    BY <1>0 DEF ReadToken, At_, ReadPair, EndRow
<1>5. /\ ReadToken(At_(r, d, TRUE, "number"), Mark("}")) = At_(Append(r, d), d, TRUE, "skip")
      /\ ReadToken(At_(r, d, FALSE, "number"), Mark("}")) = At_(Append(r, d), d, FALSE, "end")
      /\ ReadToken(At_(r, d, a, "number"), Mark(",")) = At_(r, d, a, "fields")
    BY <1>0 DEF ReadToken, At_, AfterNumber, EndRow
<1>6. /\ ReadToken(At_(r, d, a, "step"), Mark(",")) = At_(r, d, a, "fields")
      /\ ReadToken(At_(r, d, a, "step"), Mark("}")) = At_(r, d, a, "fields")
      /\ ReadToken(At_(r, d, a, "skip"), Mark(",")) = At_(r, d, a, "start")
      /\ ReadToken(At_(r, d, a, "skip"), Mark("{")) = At_(r, d, a, "start")
      /\ ReadToken(At_(r, d, a, "skip"), Mark("]")) = At_(r, d, a, "start")
    BY DEF ReadToken, At_
<1>. QED
    BY <1>1, <1>2, <1>3, <1>4, <1>5, <1>6

\* The tokens of a row with two members.
Row3(row, a, b) == <<Item(a, row[a]), Mark(","), Item(b, row[b])>>

\* A list of names stands for one column and then for the other.
Ordered(names, a, b) ==
    /\ a \in Columns /\ b \in Columns /\ a # b
    /\ names \in Short
    /\ b = Last(IF names = <<>> THEN col_names ELSE names)
    /\ \A row \in RowType : Pairs(row, names) = Row3(row, a, b)

\* The signs and the pairs of a row are tokens.
LEMMA RowTokens ==
    ASSUME mod \in {"World", "Fortune"}
    PROVE  /\ Mark("{") \in JsonTokens /\ Mark("}") \in JsonTokens /\ Mark(",") \in JsonTokens
           /\ Mark("[") \in JsonTokens /\ Mark("]") \in JsonTokens
           /\ \A row \in RowType : \A c \in Columns : Item(c, row[c]) \in JsonTokens
<1>1. "{" \in Signs /\ "}" \in Signs /\ "[" \in Signs /\ "]" \in Signs /\ "," \in Signs
    BY DEF Signs
<1>2. \A k \in Signs : Mark(k) \in JsonTokens
    BY DEF JsonTokens
<1>3. \A row \in RowType : \A c \in Columns : Item(c, row[c]) \in JsonTokens
    BY DEF JsonTokens
<1>. QED
    BY <1>1, <1>2, <1>3

\* One list after the other.
Cat(s, t) == s \o t

\* Which two come first does not matter.
LEMMA CatAssociative ==
    ASSUME NEW S, NEW s \in Seq(S), NEW t \in Seq(S), NEW u \in Seq(S)
    PROVE  Cat(s, t) \in Seq(S) /\ Cat(Cat(s, t), u) = Cat(s, Cat(t, u))
BY DEF Cat

\* Three elements more.
LEMMA ThreeMore ==
    ASSUME NEW S, NEW x \in S, NEW y \in S, NEW z \in S, NEW j \in Seq(S)
    PROVE  /\ <<x, y, z>> \in Seq(S)
           /\ Cat(<<x>>, <<y, z>>) = <<x, y, z>>
           /\ j \o <<x, y, z>> = Append(Append(Append(j, x), y), z)
<1>1. PICK a \in Seq(S) : a = <<x>>
    BY FewElements
<1>2. PICK b \in Seq(S) : b = <<y>>
    BY FewElements
<1>3. PICK c \in Seq(S) : c = <<z>>
    BY FewElements
<1>4. PICK ab \in Seq(S) : ab = <<x, y>>
    BY FewElements
<1>5. a \o b = ab /\ b \o c = <<y, z>>
    BY <1>1, <1>2, <1>3, <1>4, FewElements
<1>6. <<x, y, z>> = Append(<<x, y>>, z) /\ <<x, y, z>> \in Seq(S)
    OBVIOUS
<1>7. Append(ab, z) = ab \o c
    BY <1>3, AppendIsConcat
<1>8. <<x, y, z>> = ab \o c
    BY <1>4, <1>6, <1>7
<1>9. Cat(Cat(a, b), c) = Cat(a, Cat(b, c))
    BY CatAssociative
<1>10. <<x>> \o <<y, z>> = <<x, y, z>>
    BY <1>1, <1>5, <1>8, <1>9 DEF Cat
<1>11. PICK ja \in Seq(S) : ja = Append(j, x)
    BY AppendFacts
<1>12. PICK jab \in Seq(S) : jab = Append(ja, y)
    BY AppendFacts
<1>13. ja = j \o a /\ jab = ja \o b /\ Append(jab, z) = jab \o c
    BY <1>1, <1>2, <1>3, <1>11, <1>12, AppendIsConcat
<1>14. Cat(Cat(j, a), b) = Cat(j, Cat(a, b)) /\ Cat(Cat(j, ab), c) = Cat(j, Cat(ab, c))
    BY CatAssociative
<1>15. j \o (ab \o c) = Append(jab, z)
    BY <1>5, <1>13, <1>14 DEF Cat
<1>. QED
    BY <1>6, <1>8, <1>10, <1>11, <1>12, <1>15 DEF Cat

\* The three lists of names that JsonRoundTrip is about.
LEMMA NamesOrdered ==
    ASSUME mod \in {"World", "Fortune"}, NEW names \in {<<>>, col_names, Reverse(col_names)}
    PROVE  \E a, b : Ordered(names, a, b)
<1>. DEFINE two == col_names[2]
<1>1. "id" \in Columns /\ two \in Columns /\ "id" # two
    BY ColumnFacts
<1>2. names \in Short
    BY ReversedColumns
<1>3. col_names[1] = "id" /\ findcolpos("id") = 1 /\ findcolpos(two) = 2
    BY ColumnFacts, ColumnsFound
<1>4. \A row : /\ Known(row, 1) = <<Item("id", row["id"])>>
               /\ Known(row, 2) = <<Item(two, row[two])>>
               /\ KnownNext(row, 1) = <<Mark(","), Item("id", row["id"])>>
               /\ KnownNext(row, 2) = <<Mark(","), Item(two, row[two])>>
    BY <1>3 DEF Known, KnownNext
<1>5. \A row \in RowType : \A c, d \in Columns :
        <<Item(c, row[c])>> \o <<Mark(","), Item(d, row[d])>> = Row3(row, c, d)
  <2>. SUFFICES ASSUME NEW row \in RowType, NEW c \in Columns, NEW d \in Columns
                PROVE  <<Item(c, row[c])>> \o <<Mark(","), Item(d, row[d])>> = Row3(row, c, d)
      OBVIOUS
  <2>1. PICK x \in JsonTokens : x = Item(c, row[c])
      BY RowTokens
  <2>2. PICK y \in JsonTokens : y = Item(d, row[d])
      BY RowTokens
  <2>3. PICK m \in JsonTokens : m = Mark(",")
      BY RowTokens
  <2>4. PICK j \in Seq(JsonTokens) : j = <<x>>
      BY FewElements
  <2>5. Cat(<<x>>, <<m, y>>) = <<x, m, y>> /\ j \o <<x, m, y>> = Append(Append(Append(j, x), m), y)
      BY ThreeMore
  <2>. QED
      BY <2>1, <2>2, <2>3, <2>5 DEF Row3, Cat
<1>6. Last(<<"id", two>>) = two /\ Last(<<two, "id">>) = "id"
    BY DEF Last
<1>. HIDE DEF two
<1>7. \A row \in RowType : /\ Pairs(row, <<>>) = Row3(row, "id", two)
                          /\ Pairs(row, <<"id", two>>) = Row3(row, "id", two)
                          /\ Pairs(row, <<two, "id">>) = Row3(row, two, "id")
  <2>. SUFFICES ASSUME NEW row \in RowType
                PROVE  /\ Pairs(row, <<>>) = Row3(row, "id", two)
                       /\ Pairs(row, <<"id", two>>) = Row3(row, "id", two)
                       /\ Pairs(row, <<two, "id">>) = Row3(row, two, "id")
      OBVIOUS
  <2>1. /\ <<Item("id", row["id"])>> \o <<Mark(","), Item(two, row[two])>> = Row3(row, "id", two)
        /\ <<Item(two, row[two])>> \o <<Mark(","), Item("id", row["id"])>> = Row3(row, two, "id")
      BY <1>1, <1>5
  <2>2. /\ Pairs(row, <<>>) = Known(row, 1) \o KnownNext(row, 2)
        /\ Pairs(row, <<"id", two>>) = Known(row, findcolpos("id")) \o KnownNext(row, findcolpos(two))
        /\ Pairs(row, <<two, "id">>) = Known(row, findcolpos(two)) \o KnownNext(row, findcolpos("id"))
      BY PairsIs
  <2>. QED
      BY <1>3, <1>4, <2>1, <2>2
<1>8. col_names = <<"id", two>> /\ Reverse(col_names) = <<two, "id">>
    BY ReversedColumns DEF two
<1>9. <<"id", two>> # <<>> /\ <<two, "id">> # <<>>
    OBVIOUS
<1>10. CASE names = <<>> \/ names = col_names
  <2>1. Ordered(names, "id", two)
      BY <1>1, <1>2, <1>6, <1>7, <1>8, <1>9, <1>10 DEF Ordered
  <2>. QED
      BY <2>1
<1>11. CASE names = Reverse(col_names)
  <2>1. Ordered(names, two, "id")
      BY <1>1, <1>2, <1>6, <1>7, <1>8, <1>9, <1>11 DEF Ordered
  <2>. QED
      BY <2>1
<1>. QED
    BY <1>10, <1>11

\* Setting both members of a reset row gives the row.
LEMMA BothSet ==
    ASSUME mod \in {"World", "Fortune"}, NEW row \in RowType, NEW a \in Columns, NEW b \in Columns,
           a # b
    PROVE  SetText(SetText(meta, a, row[a]), b, row[b]) = row
<1>1. meta \in RowType
    BY MetaType
<1>2. PICK v \in IF a = "message" THEN Seq(Int) ELSE Int : v = row[a]
    BY CellTypes
<1>3. PICK w \in IF b = "message" THEN Seq(Int) ELSE Int : w = row[b]
    BY CellTypes
<1>4. PICK one \in RowType : one = SetText(meta, a, v)
    BY <1>1, SetTextIs
<1>5. PICK two \in RowType : two = SetText(one, b, w)
    BY SetTextIs
<1>6. one = [meta EXCEPT ![a] = IF a = "message" THEN meta[a] \o v ELSE v]
    BY <1>1, <1>4, SetTextIs
<1>7. two = [one EXCEPT ![b] = IF b = "message" THEN one[b] \o w ELSE w]
    BY <1>5, SetTextIs
<1>8. CASE mod = "World"
  <2>1. meta = [id |-> 0, randomnumber |-> 0] /\ Columns = {"id", "randomnumber"}
      BY <1>8, MetaType, ColumnFacts
  <2>2. two["id"] = row["id"] /\ two["randomnumber"] = row["randomnumber"]
      BY <1>2, <1>3, <1>6, <1>7, <2>1
  <2>3. two = row
      BY <1>8, <2>2 DEF RowType, WorldType
  <2>. QED
      BY <1>2, <1>3, <1>4, <1>5, <2>3
<1>9. CASE mod = "Fortune"
  <2>1. meta = [id |-> 0, message |-> <<>>] /\ Columns = {"id", "message"}
      BY <1>9, MetaType, ColumnFacts
  <2>2. row["message"] \in Seq(Int)
      BY <1>9 DEF RowType, FortuneType
  <2>3. <<>> \o row["message"] = row["message"]
      BY <2>2
  <2>4. CASE a = "id"
    <3>1. b = "message" /\ one = [id |-> row["id"], message |-> <<>>]
        BY <1>2, <1>6, <2>1, <2>4
    <3>2. two = [id |-> row["id"], message |-> row["message"]]
        BY <1>3, <1>7, <2>3, <3>1
    <3>3. two = row
        BY <1>9, <3>2 DEF RowType, FortuneType
    <3>. QED
        BY <1>2, <1>3, <1>4, <1>5, <3>3
  <2>5. CASE a = "message"
    <3>1. b = "id" /\ one = [id |-> 0, message |-> row["message"]]
        BY <1>2, <1>6, <2>1, <2>3, <2>5
    <3>2. two = [id |-> row["id"], message |-> row["message"]]
        BY <1>3, <1>7, <3>1
    <3>3. two = row
        BY <1>9, <3>2 DEF RowType, FortuneType
    <3>. QED
        BY <1>2, <1>3, <1>4, <1>5, <3>3
  <2>. QED
      BY <2>1, <2>4, <2>5
<1>. QED
    BY <1>8, <1>9

\* The members of a row are read.
LEMMA ReadRow ==
    ASSUME mod \in {"World", "Fortune"}, NEW j \in Seq(JsonTokens), NEW row \in RowType,
           NEW a \in Columns, NEW b \in Columns, a # b, NEW r, NEW array,
           Reader(j) = At_(r, meta, array, "fields")
    PROVE  /\ Cat(j, Row3(row, a, b)) \in Seq(JsonTokens)
           /\ Reader(Cat(j, Row3(row, a, b)))
                = At_(r, row, array, IF b = "message" THEN "step" ELSE "number")
<1>1. PICK x \in JsonTokens : x = Item(a, row[a])
    BY RowTokens
<1>2. PICK m \in JsonTokens : m = Mark(",")
    BY RowTokens
<1>3. PICK y \in JsonTokens : y = Item(b, row[b])
    BY RowTokens
<1>4. PICK j1 \in Seq(JsonTokens) : j1 = Append(j, x)
    BY AppendFacts
<1>5. PICK j2 \in Seq(JsonTokens) : j2 = Append(j1, m)
    BY AppendFacts
<1>6. PICK j3 \in Seq(JsonTokens) : j3 = Append(j2, y)
    BY AppendFacts
<1>7. j \o <<x, m, y>> = j3
    BY <1>4, <1>5, <1>6, ThreeMore
<1>8. Reader(j1) = ReadToken(Reader(j), x) /\ Reader(j2) = ReadToken(Reader(j1), m)
      /\ Reader(j3) = ReadToken(Reader(j2), y)
    BY <1>4, <1>5, <1>6, ReaderAppend
<1>9. PICK d : d = SetText(meta, a, row[a])
    OBVIOUS
<1>10. Reader(j1) = At_(r, d, array, IF Type(a) = "text" THEN "step" ELSE "number")
    BY <1>1, <1>8, <1>9, PairSteps
<1>11. Reader(j1) = At_(r, d, array, "step") \/ Reader(j1) = At_(r, d, array, "number")
    BY <1>10
<1>12. Reader(j2) = At_(r, d, array, "fields")
  <2>1. Reader(j2) = ReadToken(Reader(j1), Mark(","))
      BY <1>2, <1>8
  <2>2. ReadToken(At_(r, d, array, "step"), Mark(",")) = At_(r, d, array, "fields")
      BY SignSteps
  <2>3. ReadToken(At_(r, d, array, "number"), Mark(",")) = At_(r, d, array, "fields")
      BY SignSteps
  <2>. QED
      BY <1>11, <2>1, <2>2, <2>3
<1>13. Reader(j3) = At_(r, SetText(d, b, row[b]), array, IF Type(b) = "text" THEN "step" ELSE "number")
    BY <1>3, <1>8, <1>12, PairSteps
<1>14. SetText(d, b, row[b]) = row
    BY <1>9, BothSet
<1>15. (IF Type(b) = "text" THEN "step" ELSE "number") = IF b = "message" THEN "step" ELSE "number"
    BY DEF Type
<1>16. Cat(j, Row3(row, a, b)) = j3
    BY <1>1, <1>2, <1>3, <1>7 DEF Row3, Cat
<1>. QED
    BY <1>13, <1>14, <1>15, <1>16

\* The text of a row after what was written before it, with a comma and without.
Appended(j, P, comma, open, close) ==
    /\ Cat(j, Cat(Cat(Cat(<<comma>>, <<open>>), P), <<close>>))
         = Append(Cat(Append(Append(j, comma), open), P), close)
    /\ Cat(j, Cat(Cat(Cat(<<>>, <<open>>), P), <<close>>))
         = Append(Cat(Append(j, open), P), close)

\* It is what is appended.
LEMMA ObjectAppended ==
    ASSUME NEW S, NEW j \in Seq(S), NEW P \in Seq(S), NEW comma \in S, NEW open \in S, NEW close \in S
    PROVE  Appended(j, P, comma, open, close)
<1>1. PICK m \in Seq(S) : m = <<comma>>
    BY FewElements
<1>2. PICK o \in Seq(S) : o = <<open>>
    BY FewElements
<1>3. PICK e \in Seq(S) : e = <<close>>
    BY FewElements
<1>4. Cat(<<>>, o) = o
    BY DEF Cat
<1>5. PICK jo \in Seq(S) : jo = Append(j, open)
    BY AppendFacts
<1>6. PICK jm \in Seq(S) : jm = Append(j, comma)
    BY AppendFacts
<1>7. PICK jmo \in Seq(S) : jmo = Append(jm, open)
    BY AppendFacts
<1>8. jo = Cat(j, o) /\ jm = Cat(j, m) /\ jmo = Cat(jm, o)
    BY <1>1, <1>2, <1>5, <1>6, <1>7, AppendIsConcat DEF Cat
<1>9. PICK joP \in Seq(S) : joP = Cat(jo, P)
    BY CatAssociative
<1>10. PICK jmoP \in Seq(S) : jmoP = Cat(jmo, P)
    BY CatAssociative
<1>11. /\ Append(joP, close) = Cat(joP, e) /\ Append(jmoP, close) = Cat(jmoP, e)
       /\ Append(joP, close) \in Seq(S) /\ Append(jmoP, close) \in Seq(S)
    BY <1>3, AppendIsConcat, AppendFacts DEF Cat
<1>12. PICK oP \in Seq(S) : oP = Cat(o, P)
    BY CatAssociative
<1>13. PICK mo \in Seq(S) : mo = Cat(m, o)
    BY CatAssociative
<1>14. PICK moP \in Seq(S) : moP = Cat(mo, P)
    BY CatAssociative
<1>15. Cat(j, Cat(oP, e)) = Cat(Cat(j, oP), e) /\ Cat(j, oP) = Cat(Cat(j, o), P)
  <2>1. Cat(j, Cat(oP, e)) = Cat(Cat(j, oP), e)
      BY CatAssociative
  <2>2. Cat(j, oP) = Cat(Cat(j, o), P)
      BY <1>12, CatAssociative
  <2>. QED
      BY <2>1, <2>2
<1>16. Cat(j, Cat(moP, e)) = Cat(Cat(j, moP), e)
    BY CatAssociative
<1>17. Cat(j, moP) = Cat(Cat(j, mo), P)
    BY <1>14, CatAssociative
<1>18. Cat(j, mo) = Cat(Cat(j, m), o)
    BY <1>13, CatAssociative
<1>19. Cat(j, Cat(oP, e)) = Append(joP, close)
    BY <1>8, <1>9, <1>11, <1>15
<1>20. Cat(j, Cat(moP, e)) = Append(jmoP, close)
    BY <1>8, <1>10, <1>11, <1>16, <1>17, <1>18
<1>. QED
    BY <1>1, <1>2, <1>3, <1>4, <1>5, <1>6, <1>7, <1>9, <1>10, <1>12, <1>13, <1>14, <1>19, <1>20
    DEF Appended

\* The texts after n rows of an array.
Text(rows, names, n) ==
    Cat(<<Mark("[")>>, FlattenSeq(Pre(Objects(rows, names, DOMAIN rows), n)))

\* A text with a row in brackets after it, and what comes before the row.
Opened(j) == Append(j, Mark("{"))
Continued(j) == Append(Append(j, Mark(",")), Mark("{"))
RowText(j, row, a, b) == Append(Cat(j, Row3(row, a, b)), Mark("}"))

\* The text of n rows from that of one row less.
TextGrows(rows, names, a, b, n) ==
    /\ n = 1 => Text(rows, names, n) = RowText(Opened(Text(rows, names, n - 1)), rows[n], a, b)
    /\ n # 1 => Text(rows, names, n) = RowText(Continued(Text(rows, names, n - 1)), rows[n], a, b)

\* One row more.
LEMMA TextStep ==
    ASSUME mod \in {"World", "Fortune"}, NEW rows \in Seq(RowType), NEW names, NEW a, NEW b,
           Ordered(names, a, b), NEW n \in 1..Len(rows)
    PROVE  TextGrows(rows, names, a, b, n)
<1>. DEFINE O == Objects(rows, names, DOMAIN rows)
            T == Seq(JsonTokens)
<1>0. names \in Short
    BY DEF Ordered
<1>1. PICK keep : keep = DOMAIN rows
    OBVIOUS
<1>2. Objects(rows, names, keep) \in Seq(Seq(JsonTokens)) /\ Len(Objects(rows, names, keep)) = Len(rows)
    BY <1>0, ArrayIs
<1>3. PICK ss \in Seq(T) : ss = O
    BY <1>1, <1>2
<1>4. Len(ss) = Len(rows) /\ n \in 1..Len(ss)
    BY <1>1, <1>2, <1>3
<1>5. ss[n] = Object(rows, names, n)
    BY <1>3 DEF Objects
<1>. HIDE DEF T
<1>6. /\ ss[n] \in T /\ n - 1 \in 0..Len(ss)
      /\ Pre(ss, n) = Append(Pre(ss, n - 1), ss[n])
    BY <1>4, PreFacts
<1>7. Pre(ss, n - 1) \in Seq(T)
    BY <1>6, PreFacts
<1>8. PICK pp \in Seq(Seq(JsonTokens)) : pp = Pre(ss, n - 1)
    BY <1>7 DEF T
<1>9. PICK x \in Seq(JsonTokens) : x = ss[n]
    BY <1>6 DEF T
<1>10. FlattenSeq(pp) \in Seq(JsonTokens) /\ FlattenSeq(Append(pp, x)) = FlattenSeq(pp) \o x
    BY FlattenAppend
<1>11. PICK f \in Seq(JsonTokens) : f = FlattenSeq(pp)
    BY <1>10
<1>12. FlattenSeq(Pre(ss, n)) = Cat(f, x)
    BY <1>6, <1>8, <1>9, <1>10, <1>11 DEF Cat
<1>13. PICK begin \in Seq(JsonTokens) : begin = <<Mark("[")>>
    BY RowTokens, FewElements
<1>14. PICK j \in Seq(JsonTokens) : j = Cat(begin, f)
    BY CatAssociative
<1>15. Cat(begin, Cat(f, x)) = Cat(j, x)
    BY <1>14, CatAssociative
<1>16. Text(rows, names, n - 1) = j /\ Text(rows, names, n) = Cat(j, x)
    BY <1>3, <1>8, <1>11, <1>12, <1>13, <1>14, <1>15 DEF Text
<1>17. rows[n] \in RowType
    OBVIOUS
<1>18. Pairs(rows[n], names) = Row3(rows[n], a, b)
    BY <1>17 DEF Ordered
<1>19. PICK P \in Seq(JsonTokens) : P = Row3(rows[n], a, b)
    BY <1>0, <1>17, <1>18, PairsType
<1>20. PICK comma \in JsonTokens : comma = Mark(",")
    BY RowTokens
<1>21. PICK open \in JsonTokens : open = Mark("{")
    BY RowTokens
<1>22. PICK close \in JsonTokens : close = Mark("}")
    BY RowTokens
<1>23. /\ n = 1 => x = Cat(Cat(Cat(<<>>, <<open>>), P), <<close>>)
       /\ n # 1 => x = Cat(Cat(Cat(<<comma>>, <<open>>), P), <<close>>)
  <2>1. n = 1 => (IF n > 1 THEN <<Mark(",")>> ELSE <<>>) = <<>>
      OBVIOUS
  <2>2. n # 1 => (IF n > 1 THEN <<Mark(",")>> ELSE <<>>) = <<comma>>
    <3>1. n # 1 => n > 1
        OBVIOUS
    <3>. QED
        BY <1>20, <3>1
  <2>3. PICK first : first = IF n > 1 THEN <<Mark(",")>> ELSE <<>>
      OBVIOUS
  <2>4. x = Cat(Cat(Cat(first, <<open>>), P), <<close>>)
      BY <1>5, <1>9, <1>18, <1>19, <1>21, <1>22, <2>3 DEF Object, Cat
  <2>. QED
      BY <2>1, <2>2, <2>3, <2>4
<1>24. /\ n = 1 => Cat(j, x) = Append(Cat(Append(j, open), P), close)
       /\ n # 1 => Cat(j, x) = Append(Cat(Append(Append(j, comma), open), P), close)
  <2>1. Appended(j, P, comma, open, close)
      BY ObjectAppended
  <2>. QED
      BY <1>23, <2>1 DEF Appended
<1>. QED
    BY <1>16, <1>19, <1>20, <1>21, <1>22, <1>24 DEF TextGrows, RowText, Opened, Continued

\* Before the first row.
LEMMA TextStart ==
    ASSUME mod \in {"World", "Fortune"}, NEW rows \in Seq(RowType), NEW names \in Short
    PROVE  /\ Text(rows, names, 0) \in Seq(JsonTokens)
           /\ Reader(Text(rows, names, 0)) = At_(<<>>, meta, TRUE, "start")
<1>1. Pre(Objects(rows, names, DOMAIN rows), 0) = <<>>
    BY DEF Pre
<1>2. Text(rows, names, 0) = Cat(<<Mark("[")>>, <<>>)
    BY <1>1, FlattenEmpty DEF Text
<1>3. PICK e \in Seq(JsonTokens) : e = <<>>
  <2>1. <<>> \in Seq(JsonTokens)
      OBVIOUS
  <2>. QED
      BY <2>1
<1>4. PICK t \in JsonTokens : t = Mark("[")
    BY RowTokens
<1>5. <<t>> \o <<>> = <<t>> /\ Append(e, t) = <<t>>
    BY <1>3
<1>6. Text(rows, names, 0) = Append(e, t)
    BY <1>2, <1>4, <1>5 DEF Cat
<1>7. Reader(Append(e, t)) = ReadToken(Reset, t)
    BY <1>3, ReaderAppend, ReaderEmpty
<1>8. ReadToken(At_(<<>>, meta, FALSE, "first"), Mark("[")) = At_(<<>>, meta, TRUE, "start")
    BY SignSteps
<1>9. Append(e, t) \in Seq(JsonTokens)
    BY AppendFacts
<1>. QED
    BY <1>4, <1>6, <1>7, <1>8, <1>9 DEF Reset

\* The whole array, and the reader at its end.
LEMMA TextEnd ==
    ASSUME mod \in {"World", "Fortune"}, NEW rows \in Seq(RowType), NEW names \in Short
    PROVE  /\ Text(rows, names, Len(rows)) \in Seq(JsonTokens)
           /\ Reader(to_json(rows, names)) = ReadToken(Reader(Text(rows, names, Len(rows))), Mark("]"))
<1>. DEFINE O == Objects(rows, names, DOMAIN rows)
            T == Seq(JsonTokens)
<1>1. PICK keep : keep = DOMAIN rows
    OBVIOUS
<1>2. /\ to_json_func(rows, names, keep)
            = <<Mark("[")>> \o FlattenSeq(Objects(rows, names, keep)) \o <<Mark("]")>>
      /\ Objects(rows, names, keep) \in Seq(Seq(JsonTokens)) /\ Len(Objects(rows, names, keep)) = Len(rows)
      /\ FlattenSeq(Objects(rows, names, keep)) \in Seq(JsonTokens)
    BY ArrayIs
<1>3. PICK ss \in Seq(T) : ss = O
    BY <1>1, <1>2
<1>4. Len(ss) = Len(rows)
    BY <1>1, <1>2, <1>3
<1>. HIDE DEF T
<1>5. Pre(ss, Len(rows)) = ss
    BY <1>4, PreFacts
<1>6. PICK f \in Seq(JsonTokens) : f = FlattenSeq(O)
    BY <1>1, <1>2
<1>7. PICK begin \in Seq(JsonTokens) : begin = <<Mark("[")>>
    BY RowTokens, FewElements
<1>8. PICK t \in JsonTokens : t = Mark("]")
    BY RowTokens
<1>9. PICK j \in Seq(JsonTokens) : j = Cat(begin, f)
    BY CatAssociative
<1>10. Text(rows, names, Len(rows)) = j
    BY <1>3, <1>5, <1>6, <1>7, <1>9 DEF Text
<1>11. to_json(rows, names) = j \o <<t>>
    BY <1>1, <1>2, <1>6, <1>7, <1>8, <1>9 DEF to_json, Cat
<1>12. j \o <<t>> = Append(j, t)
    BY AppendIsConcat
<1>13. Reader(Append(j, t)) = ReadToken(Reader(j), t)
    BY ReaderAppend
<1>. QED
    BY <1>8, <1>10, <1>11, <1>12, <1>13

-----------------------------------------------------------------------------
(* to_json and from_json, row by row.                                      *)

\* A text takes the reader to a state.
Reads(j, s) == j \in Seq(JsonTokens) /\ Reader(j) = s

\* A state of the reader in an array.
InArray(r, d, m) == At_(r, d, TRUE, m)

\* A token more.
LEMMA ReadsToken ==
    ASSUME mod \in {"World", "Fortune"}, NEW j, NEW s, Reads(j, s), NEW t \in JsonTokens
    PROVE  Reads(Append(j, t), ReadToken(s, t))
<1>1. PICK i \in Seq(JsonTokens) : i = j
    BY DEF Reads
<1>2. Append(i, t) \in Seq(JsonTokens)
    BY AppendFacts
<1>3. Reader(Append(i, t)) = ReadToken(Reader(i), t)
    BY ReaderAppend
<1>. QED
    BY <1>1, <1>2, <1>3 DEF Reads

\* What the reader does with a sign in an array.
LEMMA SignsInArray ==
    ASSUME NEW r, NEW d
    PROVE  /\ ReadToken(InArray(r, d, "start"), Mark("{")) = InArray(r, IF r = <<>> THEN d ELSE meta, "fields")
           /\ r = <<>> => ReadToken(InArray(r, d, "start"), Mark("]")) = InArray(r, d, "seek")
           /\ ReadToken(InArray(r, d, "seek"), Mark("{")) = InArray(r, d, "fields")
           /\ ReadToken(InArray(r, d, "seek"), Mark("}")) = InArray(r, d, "seek")
           /\ ReadToken(InArray(r, d, "seek"), Mark("]")) = InArray(r, d, "seek")
           /\ ReadToken(InArray(r, d, "seek"), Mark(",")) = InArray(r, d, "seek")
           /\ ReadToken(InArray(r, d, "fields"), Mark(",")) = InArray(Append(r, d), d, "skip")
           /\ ReadToken(InArray(r, d, "fields"), Mark("]")) = InArray(Append(r, d), d, "skip")
           /\ ReadToken(InArray(r, d, "number"), Mark("}")) = InArray(Append(r, d), d, "skip")
           /\ ReadToken(InArray(r, d, "step"), Mark("}")) = InArray(r, d, "fields")
           /\ ReadToken(InArray(r, d, "skip"), Mark(",")) = InArray(r, d, "start")
           /\ ReadToken(InArray(r, d, "skip"), Mark("{")) = InArray(r, d, "start")
           /\ ReadToken(InArray(r, d, "skip"), Mark("]")) = InArray(r, d, "start")
<1>1. PICK a : a = TRUE
    OBVIOUS
<1>2. /\ r = <<>> => ReadToken(At_(r, d, a, "start"), Mark("{")) = At_(r, d, a, "fields")
      /\ r # <<>> => ReadToken(At_(r, d, a, "start"), Mark("{")) = At_(r, meta, a, "fields")
      /\ r = <<>> => ReadToken(At_(r, d, a, "start"), Mark("]")) = At_(r, d, a, "seek")
      /\ ReadToken(At_(r, d, a, "seek"), Mark("{")) = At_(r, d, a, "fields")
      /\ ReadToken(At_(r, d, a, "seek"), Mark("}")) = At_(r, d, a, "seek")
      /\ ReadToken(At_(r, d, a, "seek"), Mark("]")) = At_(r, d, a, "seek")
      /\ ReadToken(At_(r, d, a, "seek"), Mark(",")) = At_(r, d, a, "seek")
      /\ ReadToken(At_(r, d, a, "step"), Mark("}")) = At_(r, d, a, "fields")
      /\ ReadToken(At_(r, d, a, "skip"), Mark(",")) = At_(r, d, a, "start")
      /\ ReadToken(At_(r, d, a, "skip"), Mark("{")) = At_(r, d, a, "start")
      /\ ReadToken(At_(r, d, a, "skip"), Mark("]")) = At_(r, d, a, "start")
  <2>1. r = <<>> => ReadToken(At_(r, d, a, "start"), Mark("{")) = At_(r, d, a, "fields")
      BY SignSteps
  <2>2. r # <<>> => ReadToken(At_(r, d, a, "start"), Mark("{")) = At_(r, meta, a, "fields")
    <3>1. Mark("{").k = "{"
        BY DEF Mark
    <3>. QED
        BY <3>1 DEF ReadToken, At_, Turn
  <2>3. r = <<>> => ReadToken(At_(r, d, a, "start"), Mark("]")) = At_(r, d, a, "seek")
      BY SignSteps
  <2>4. ReadToken(At_(r, d, a, "seek"), Mark("{")) = At_(r, d, a, "fields")
      BY SignSteps
  <2>5. ReadToken(At_(r, d, a, "seek"), Mark("}")) = At_(r, d, a, "seek")
      BY SignSteps
  <2>6. ReadToken(At_(r, d, a, "seek"), Mark("]")) = At_(r, d, a, "seek")
      BY SignSteps
  <2>7. ReadToken(At_(r, d, a, "seek"), Mark(",")) = At_(r, d, a, "seek")
      BY SignSteps
  <2>8. ReadToken(At_(r, d, a, "step"), Mark("}")) = At_(r, d, a, "fields")
      BY SignSteps
  <2>9. ReadToken(At_(r, d, a, "skip"), Mark(",")) = At_(r, d, a, "start")
      BY SignSteps
  <2>10. ReadToken(At_(r, d, a, "skip"), Mark("{")) = At_(r, d, a, "start")
      BY SignSteps
  <2>11. ReadToken(At_(r, d, a, "skip"), Mark("]")) = At_(r, d, a, "start")
      BY SignSteps
  <2>. QED
      BY <2>1, <2>2, <2>3, <2>4, <2>5, <2>6, <2>7, <2>8, <2>9, <2>10, <2>11
<1>3. /\ ReadToken(At_(r, d, TRUE, "fields"), Mark(",")) = At_(Append(r, d), d, TRUE, "skip")
      /\ ReadToken(At_(r, d, TRUE, "fields"), Mark("]")) = At_(Append(r, d), d, TRUE, "skip")
      /\ ReadToken(At_(r, d, TRUE, "number"), Mark("}")) = At_(Append(r, d), d, TRUE, "skip")
    BY SignSteps
<1>. QED
    BY <1>1, <1>2, <1>3 DEF InArray

\* The first row of an array opens.
LEMMA FirstOpens ==
    ASSUME mod \in {"World", "Fortune"}, NEW j, NEW r, r = <<>>, NEW d, Reads(j, InArray(r, d, "start"))
    PROVE  Reads(Opened(j), InArray(r, d, "fields"))
<1>1. PICK o \in JsonTokens : o = Mark("{")
    BY RowTokens
<1>2. PICK s : s = InArray(r, d, "start")
    OBVIOUS
<1>3. Reads(Append(j, o), ReadToken(s, o))
    BY <1>2, ReadsToken
<1>4. ReadToken(s, o) = InArray(r, d, "fields")
    BY <1>1, <1>2, SignsInArray
<1>. QED
    BY <1>1, <1>3, <1>4 DEF Opened

\* A comma and a bracket.
LEMMA CommaOpens ==
    ASSUME mod \in {"World", "Fortune"}, NEW j, NEW s, Reads(j, s)
    PROVE  Reads(Continued(j), ReadToken(ReadToken(s, Mark(",")), Mark("{")))
<1>1. PICK o \in JsonTokens : o = Mark("{")
    BY RowTokens
<1>2. PICK m \in JsonTokens : m = Mark(",")
    BY RowTokens
<1>3. PICK u : u = ReadToken(s, m)
    OBVIOUS
<1>4. PICK i : i = Append(j, m)
    OBVIOUS
<1>5. Reads(i, u)
    BY <1>3, <1>4, ReadsToken
<1>6. Reads(Append(i, o), ReadToken(u, o))
    BY <1>5, ReadsToken
<1>. QED
    BY <1>1, <1>2, <1>3, <1>4, <1>6 DEF Continued

\* A row of which the number was last has been kept: the next opens.
LEMMA SkipOpens ==
    ASSUME mod \in {"World", "Fortune"}, NEW j, NEW r, r # <<>>, NEW d, Reads(j, InArray(r, d, "skip"))
    PROVE  Reads(Continued(j), InArray(r, meta, "fields"))
<1>1. ReadToken(InArray(r, d, "skip"), Mark(",")) = InArray(r, d, "start")
    BY SignsInArray
<1>2. ReadToken(InArray(r, d, "start"), Mark("{")) = InArray(r, meta, "fields")
    BY SignsInArray
<1>3. PICK s : s = InArray(r, d, "skip")
    OBVIOUS
<1>4. Reads(Continued(j), ReadToken(ReadToken(s, Mark(",")), Mark("{")))
    BY <1>3, CommaOpens
<1>. QED
    BY <1>1, <1>2, <1>3, <1>4

\* A row of which the text was last is kept at the comma: the bracket is lost.
LEMMA FieldsOpen ==
    ASSUME mod \in {"World", "Fortune"}, NEW j, NEW r, NEW d, Reads(j, InArray(r, d, "fields"))
    PROVE  Reads(Continued(j), InArray(Append(r, d), d, "start"))
<1>1. ReadToken(InArray(r, d, "fields"), Mark(",")) = InArray(Append(r, d), d, "skip")
    BY SignsInArray
<1>2. PICK rd : rd = Append(r, d)
    OBVIOUS
<1>3. ReadToken(InArray(rd, d, "skip"), Mark("{")) = InArray(rd, d, "start")
    BY SignsInArray
<1>4. PICK s : s = InArray(r, d, "fields")
    OBVIOUS
<1>5. Reads(Continued(j), ReadToken(ReadToken(s, Mark(",")), Mark("{")))
    BY <1>4, CommaOpens
<1>. QED
    BY <1>1, <1>2, <1>3, <1>4, <1>5

\* A reader that has lost a row opens the next.
LEMMA SeekOpens ==
    ASSUME mod \in {"World", "Fortune"}, NEW j, NEW r, NEW d, Reads(j, InArray(r, d, "seek"))
    PROVE  Reads(Continued(j), InArray(r, d, "fields"))
<1>1. ReadToken(InArray(r, d, "seek"), Mark(",")) = InArray(r, d, "seek")
    BY SignsInArray
<1>2. ReadToken(InArray(r, d, "seek"), Mark("{")) = InArray(r, d, "fields")
    BY SignsInArray
<1>3. PICK s : s = InArray(r, d, "seek")
    OBVIOUS
<1>4. Reads(Continued(j), ReadToken(ReadToken(s, Mark(",")), Mark("{")))
    BY <1>3, CommaOpens
<1>. QED
    BY <1>1, <1>2, <1>3, <1>4

\* A row that the reader is about to read: its last member is a number.
LEMMA NumberLast ==
    ASSUME mod \in {"World", "Fortune"}, NEW j, NEW row \in RowType, NEW a \in Columns, NEW b \in Columns,
           a # b, b # "message", NEW r, Reads(j, InArray(r, meta, "fields"))
    PROVE  Reads(RowText(j, row, a, b), InArray(Append(r, row), row, "skip"))
<1>1. PICK array : array = TRUE
    OBVIOUS
<1>2. PICK i \in Seq(JsonTokens) : i = j /\ Reader(i) = At_(r, meta, array, "fields")
    BY <1>1 DEF Reads, InArray
<1>3. /\ Cat(i, Row3(row, a, b)) \in Seq(JsonTokens)
      /\ Reader(Cat(i, Row3(row, a, b)))
           = At_(r, row, array, IF b = "message" THEN "step" ELSE "number")
    BY <1>2, ReadRow
<1>4. PICK k : k = Cat(j, Row3(row, a, b))
    OBVIOUS
<1>5. PICK s : s = InArray(r, row, "number")
    OBVIOUS
<1>6. Reads(k, s)
    BY <1>1, <1>2, <1>3, <1>4, <1>5 DEF Reads, InArray
<1>7. PICK e \in JsonTokens : e = Mark("}")
    BY RowTokens
<1>8. Reads(Append(k, e), ReadToken(s, e))
    BY <1>6, ReadsToken
<1>9. ReadToken(InArray(r, row, "number"), Mark("}")) = InArray(Append(r, row), row, "skip")
    BY SignsInArray
<1>. QED
    BY <1>4, <1>5, <1>7, <1>8, <1>9 DEF RowText

\* The same, if its last member is a text.
LEMMA TextLast ==
    ASSUME mod \in {"World", "Fortune"}, NEW j, NEW row \in RowType, NEW a \in Columns, NEW b \in Columns,
           a # b, b = "message", NEW r, Reads(j, InArray(r, meta, "fields"))
    PROVE  Reads(RowText(j, row, a, b), InArray(r, row, "fields"))
<1>1. PICK array : array = TRUE
    OBVIOUS
<1>2. PICK i \in Seq(JsonTokens) : i = j /\ Reader(i) = At_(r, meta, array, "fields")
    BY <1>1 DEF Reads, InArray
<1>3. /\ Cat(i, Row3(row, a, b)) \in Seq(JsonTokens)
      /\ Reader(Cat(i, Row3(row, a, b)))
           = At_(r, row, array, IF b = "message" THEN "step" ELSE "number")
    BY <1>2, ReadRow
<1>4. PICK k : k = Cat(j, Row3(row, a, b))
    OBVIOUS
<1>5. PICK s : s = InArray(r, row, "step")
    OBVIOUS
<1>6. Reads(k, s)
    BY <1>1, <1>2, <1>3, <1>4, <1>5 DEF Reads, InArray
<1>7. PICK e \in JsonTokens : e = Mark("}")
    BY RowTokens
<1>8. Reads(Append(k, e), ReadToken(s, e))
    BY <1>6, ReadsToken
<1>9. ReadToken(InArray(r, row, "step"), Mark("}")) = InArray(r, row, "fields")
    BY SignsInArray
<1>. QED
    BY <1>4, <1>5, <1>7, <1>8, <1>9 DEF RowText

\* A row that the reader is looking in for a bracket.
LEMMA RowLost ==
    ASSUME mod \in {"World", "Fortune"}, NEW j, NEW row \in RowType, NEW a \in Columns, NEW b \in Columns,
           NEW r, r # <<>>, NEW d, Reads(j, InArray(r, d, "start"))
    PROVE  Reads(RowText(j, row, a, b), InArray(r, meta, "seek"))
<1>1. PICK x \in JsonTokens : x = Item(a, row[a])
    BY RowTokens
<1>2. PICK m \in JsonTokens : m = Mark(",")
    BY RowTokens
<1>3. PICK y \in JsonTokens : y = Item(b, row[b])
    BY RowTokens
<1>4. PICK e \in JsonTokens : e = Mark("}")
    BY RowTokens
<1>5. PICK s : s = InArray(r, meta, "seek")
    OBVIOUS
<1>6. PICK array : array = TRUE
    OBVIOUS
<1>7. ReadToken(InArray(r, d, "start"), x) = s
  <2>1. PICK v : v = row[a]
      OBVIOUS
  <2>2. ReadToken(At_(r, d, array, "start"), Item(a, v)) = At_(r, meta, array, "seek")
      BY PairSteps
  <2>. QED
      BY <1>1, <1>5, <1>6, <2>1, <2>2 DEF InArray
<1>8. ReadToken(s, m) = s /\ ReadToken(s, e) = s
    BY <1>2, <1>4, <1>5, SignsInArray
<1>9. ReadToken(s, y) = s
  <2>1. PICK v : v = row[b]
      OBVIOUS
  <2>2. ReadToken(At_(r, meta, array, "seek"), Item(b, v)) = At_(r, meta, array, "seek")
      BY PairSteps
  <2>. QED
      BY <1>3, <1>5, <1>6, <2>1, <2>2 DEF InArray
<1>10. PICK j0 \in Seq(JsonTokens) : j0 = j
    BY DEF Reads
<1>11. PICK j1 \in Seq(JsonTokens) : j1 = Append(j0, x)
    BY AppendFacts
<1>12. PICK j2 \in Seq(JsonTokens) : j2 = Append(j1, m)
    BY AppendFacts
<1>13. PICK j3 \in Seq(JsonTokens) : j3 = Append(j2, y)
    BY AppendFacts
<1>14. j0 \o <<x, m, y>> = j3
    BY <1>11, <1>12, <1>13, ThreeMore
<1>15. Cat(j, Row3(row, a, b)) = j3
    BY <1>1, <1>2, <1>3, <1>10, <1>14 DEF Row3, Cat
<1>16. PICK u : u = InArray(r, d, "start")
    OBVIOUS
<1>17. Reads(j0, u)
    BY <1>10, <1>16
<1>18. Reads(j1, ReadToken(u, x))
    BY <1>11, <1>17, ReadsToken
<1>19. Reads(j1, s)
    BY <1>7, <1>16, <1>18
<1>20. Reads(j2, ReadToken(s, m))
    BY <1>12, <1>19, ReadsToken
<1>21. Reads(j2, s)
    BY <1>8, <1>20
<1>22. Reads(j3, ReadToken(s, y))
    BY <1>13, <1>21, ReadsToken
<1>23. Reads(j3, s)
    BY <1>9, <1>22
<1>24. Reads(Append(j3, e), ReadToken(s, e))
    BY <1>23, ReadsToken
<1>. QED
    BY <1>4, <1>5, <1>8, <1>15, <1>24 DEF RowText

\* Where the reader is after n rows, if the last member of each is a number.
AllRead(rows, n) ==
    IF n = 0 THEN InArray(<<>>, meta, "start") ELSE InArray(Pre(rows, n), rows[n], "skip")

\* From one row to the next.
LEMMA AllReadStep ==
    ASSUME mod \in {"World", "Fortune"}, NEW rows \in Seq(RowType), NEW names, NEW a, NEW b,
           Ordered(names, a, b), b # "message", NEW n \in 1..Len(rows),
           Reads(Text(rows, names, n - 1), AllRead(rows, n - 1))
    PROVE  Reads(Text(rows, names, n), AllRead(rows, n))
<1>1. PICK j : j = Text(rows, names, n - 1)
    OBVIOUS
<1>2. PICK row \in RowType : row = rows[n]
    OBVIOUS
<1>3. /\ n = 1 => Text(rows, names, n) = RowText(Opened(j), row, a, b)
      /\ n # 1 => Text(rows, names, n) = RowText(Continued(j), row, a, b)
  <2>1. TextGrows(rows, names, a, b, n)
      BY TextStep
  <2>. QED
      BY <1>1, <1>2, <2>1 DEF TextGrows
<1>4. a \in Columns /\ b \in Columns /\ a # b
    BY DEF Ordered
<1>5. /\ n - 1 \in 0..Len(rows) /\ Pre(rows, n) = Append(Pre(rows, n - 1), row)
      /\ Pre(rows, n - 1) \in Seq(RowType) /\ Len(Pre(rows, n - 1)) = n - 1 /\ Pre(rows, 0) = <<>>
    BY <1>2, PreFacts
<1>6. PICK r \in Seq(RowType) : r = Pre(rows, n - 1)
    BY <1>5
<1>7. n # 0
    OBVIOUS
<1>8. AllRead(rows, n) = InArray(Append(r, row), row, "skip")
    BY <1>2, <1>5, <1>6, <1>7 DEF AllRead
<1>9. CASE n = 1
  <2>1. n - 1 = 0
      BY <1>9
  <2>2. r = <<>>
      BY <1>5, <1>6, <2>1
  <2>3. Reads(j, InArray(r, meta, "start"))
      BY <1>1, <2>1, <2>2 DEF AllRead
  <2>4. PICK d : d = meta
      OBVIOUS
  <2>5. Reads(Opened(j), InArray(r, d, "fields"))
      BY <2>2, <2>3, <2>4, FirstOpens
  <2>6. PICK k : k = Opened(j)
      OBVIOUS
  <2>7. Reads(RowText(k, row, a, b), InArray(Append(r, row), row, "skip"))
      BY <1>4, <2>4, <2>5, <2>6, NumberLast
  <2>. QED
      BY <1>3, <1>8, <1>9, <2>6, <2>7
<1>10. CASE n # 1
  <2>1. n - 1 # 0
      BY <1>10
  <2>2. r # <<>>
      BY <1>5, <1>6, <2>1
  <2>3. PICK d : d = rows[n - 1]
      OBVIOUS
  <2>4. Reads(j, InArray(r, d, "skip"))
      BY <1>1, <1>6, <2>1, <2>3 DEF AllRead
  <2>5. PICK k : k = Continued(j)
      OBVIOUS
  <2>6. Reads(k, InArray(r, meta, "fields"))
      BY <2>2, <2>4, <2>5, SkipOpens
  <2>7. Reads(RowText(k, row, a, b), InArray(Append(r, row), row, "skip"))
      BY <1>4, <2>6, NumberLast
  <2>. QED
      BY <1>3, <1>8, <1>10, <2>5, <2>7
<1>. QED
    BY <1>9, <1>10

\* Every second row.
Odd == {k \in Nat : k % 2 = 1}

\* Where the reader is after n rows, if the last member of each is a text.
HalfRead(rows, n) ==
    IF n = 0 THEN InArray(<<>>, meta, "start")
    ELSE IF n \in Odd THEN InArray(Kept(Pre(rows, n - 1), Odd), rows[n], "fields")
    ELSE InArray(Kept(Pre(rows, n), Odd), meta, "seek")

\* From one row to the next.
LEMMA HalfReadStep ==
    ASSUME mod \in {"World", "Fortune"}, NEW rows \in Seq(RowType), NEW names, NEW a, NEW b,
           Ordered(names, a, b), b = "message", NEW n \in 1..Len(rows),
           Reads(Text(rows, names, n - 1), HalfRead(rows, n - 1))
    PROVE  Reads(Text(rows, names, n), HalfRead(rows, n))
<1>1. PICK j : j = Text(rows, names, n - 1)
    OBVIOUS
<1>2. PICK row \in RowType : row = rows[n]
    OBVIOUS
<1>3. /\ n = 1 => Text(rows, names, n) = RowText(Opened(j), row, a, b)
      /\ n # 1 => Text(rows, names, n) = RowText(Continued(j), row, a, b)
  <2>1. TextGrows(rows, names, a, b, n)
      BY TextStep
  <2>. QED
      BY <1>1, <1>2, <2>1 DEF TextGrows
<1>4. a \in Columns /\ b \in Columns /\ a # b
    BY DEF Ordered
<1>5. n = 1 => n \in Odd
    BY DEF Odd
<1>6. n # 1 => (n - 1 \in Odd <=> n \notin Odd)
    BY DEF Odd
<1>7. n # 0
    OBVIOUS
<1>8. PICK meta0 : meta0 = meta
    OBVIOUS
<1>9. PICK none : none = <<>>
    OBVIOUS
<1>10. CASE n = 1
  <2>1. n - 1 = 0 /\ n \in Odd
      BY <1>5, <1>10
  <2>2. Kept(Pre(rows, 0), Odd) = <<>>
      BY KeptEnds
  <2>3. Reads(j, InArray(none, meta0, "start"))
      BY <1>1, <1>8, <1>9, <2>1 DEF HalfRead
  <2>4. PICK k : k = Opened(j)
      OBVIOUS
  <2>5. Reads(k, InArray(none, meta0, "fields"))
      BY <1>9, <2>3, <2>4, FirstOpens
  <2>6. Reads(RowText(k, row, a, b), InArray(none, row, "fields"))
      BY <1>4, <1>8, <2>5, TextLast
  <2>7. HalfRead(rows, n) = InArray(none, row, "fields")
      BY <1>2, <1>7, <1>9, <2>1, <2>2 DEF HalfRead
  <2>. QED
      BY <1>3, <1>10, <2>4, <2>6, <2>7
<1>11. CASE n # 1 /\ n \in Odd
  <2>1. PICK r : r = Kept(Pre(rows, n - 1), Odd)
      OBVIOUS
  <2>2. n - 1 # 0 /\ n - 1 \notin Odd
      BY <1>6, <1>11
  <2>3. Reads(j, InArray(r, meta0, "seek"))
      BY <1>1, <1>8, <2>1, <2>2 DEF HalfRead
  <2>4. PICK k : k = Continued(j)
      OBVIOUS
  <2>5. Reads(k, InArray(r, meta0, "fields"))
      BY <2>3, <2>4, SeekOpens
  <2>6. Reads(RowText(k, row, a, b), InArray(r, row, "fields"))
      BY <1>4, <1>8, <2>5, TextLast
  <2>7. HalfRead(rows, n) = InArray(r, row, "fields")
      BY <1>2, <1>7, <1>11, <2>1 DEF HalfRead
  <2>. QED
      BY <1>3, <1>11, <2>4, <2>6, <2>7
<1>12. CASE n # 1 /\ n \notin Odd
  <2>1. PICK m \in 1..Len(rows) : m = n - 1
      BY <1>12
  <2>2. m \in Odd /\ m # 0
      BY <1>6, <1>12, <2>1
  <2>3. PICK I : I = Odd
      OBVIOUS
  <2>4. /\ Kept(Pre(rows, m - 1), I) \in Seq(RowType)
        /\ m \in I => Kept(Pre(rows, m), I) = Append(Kept(Pre(rows, m - 1), I), rows[m])
      BY KeptNext
  <2>5. n \notin I => Kept(Pre(rows, n), I) = Kept(Pre(rows, n - 1), I)
      BY KeptNext
  <2>6. PICK s \in Seq(RowType) : s = Kept(Pre(rows, m - 1), Odd)
      BY <2>3, <2>4
  <2>7. PICK d \in RowType : d = rows[m]
      OBVIOUS
  <2>8. HalfRead(rows, m) = InArray(s, d, "fields")
      BY <2>2, <2>6, <2>7 DEF HalfRead
  <2>9. Reads(j, InArray(s, d, "fields"))
      BY <1>1, <2>1, <2>8
  <2>10. PICK r \in Seq(RowType) : r = Append(s, d) /\ r # <<>>
      BY AppendFacts
  <2>11. PICK k : k = Continued(j)
      OBVIOUS
  <2>12. Reads(Continued(j), InArray(Append(s, d), d, "start"))
      BY <2>9, FieldsOpen
  <2>13. Reads(k, InArray(r, d, "start"))
      BY <2>10, <2>11, <2>12
  <2>14. Reads(RowText(k, row, a, b), InArray(r, meta, "seek"))
      BY <1>4, <2>10, <2>13, RowLost
  <2>15. Kept(Pre(rows, n), Odd) = r
      BY <1>12, <2>1, <2>2, <2>3, <2>4, <2>5, <2>6, <2>7, <2>10
  <2>16. HalfRead(rows, n) = InArray(r, meta, "seek")
      BY <1>7, <1>12, <2>15 DEF HalfRead
  <2>. QED
      BY <1>3, <1>12, <2>11, <2>14, <2>16
<1>. QED
    BY <1>10, <1>11, <1>12

\* The reader after every row.
LEMMA AllRowsRead ==
    ASSUME mod \in {"World", "Fortune"}, NEW rows \in Seq(RowType), NEW names, NEW a, NEW b,
           Ordered(names, a, b), b # "message"
    PROVE  Reads(Text(rows, names, Len(rows)), AllRead(rows, Len(rows)))
<1>. DEFINE P(n) == Reads(Text(rows, names, n), AllRead(rows, n))
            S == {n \in Nat : n <= Len(rows) => P(n)}
<1>0. names \in Short /\ Len(rows) \in Nat
    BY DEF Ordered
<1>1. P(0)
    BY <1>0, TextStart DEF Reads, AllRead, InArray
<1>2. ASSUME NEW n \in Nat, n \in S PROVE n + 1 \in S
  <2>. SUFFICES ASSUME n + 1 <= Len(rows) PROVE P(n + 1)
      OBVIOUS
  <2>1. PICK m \in 1..Len(rows) : m = n + 1
      BY <1>0
  <2>2. m - 1 = n /\ P(m - 1)
      BY <1>0, <1>2, <2>1
  <2>3. P(m)
      BY <2>2, AllReadStep
  <2>. QED
      BY <2>1, <2>3
<1>3. 0 \in S
    BY <1>1
<1>. HIDE DEF P, S
<1>4. Nat \subseteq S
    BY <1>2, <1>3, AllNumbers
<1>. QED
    BY <1>0, <1>4 DEF S, P

\* The same for rows that end in a text.
LEMMA HalfOfRowsRead ==
    ASSUME mod \in {"World", "Fortune"}, NEW rows \in Seq(RowType), NEW names, NEW a, NEW b,
           Ordered(names, a, b), b = "message"
    PROVE  Reads(Text(rows, names, Len(rows)), HalfRead(rows, Len(rows)))
<1>. DEFINE P(n) == Reads(Text(rows, names, n), HalfRead(rows, n))
            S == {n \in Nat : n <= Len(rows) => P(n)}
<1>0. names \in Short /\ Len(rows) \in Nat
    BY DEF Ordered
<1>1. P(0)
    BY <1>0, TextStart DEF Reads, HalfRead, InArray
<1>2. ASSUME NEW n \in Nat, n \in S PROVE n + 1 \in S
  <2>. SUFFICES ASSUME n + 1 <= Len(rows) PROVE P(n + 1)
      OBVIOUS
  <2>1. PICK m \in 1..Len(rows) : m = n + 1
      BY <1>0
  <2>2. m - 1 = n /\ P(m - 1)
      BY <1>0, <1>2, <2>1
  <2>3. P(m)
      BY <2>2, HalfReadStep
  <2>. QED
      BY <2>1, <2>3
<1>3. 0 \in S
    BY <1>1
<1>. HIDE DEF P, S
<1>4. Nat \subseteq S
    BY <1>2, <1>3, AllNumbers
<1>. QED
    BY <1>0, <1>4 DEF S, P

\* What from_json makes of a reader that has finished an array.
LEMMA ParsedArray ==
    ASSUME NEW json, NEW r, NEW d, NEW m, Reader(json) = InArray(r, d, m), m \notin {"fields", "step"}
    PROVE  Parsed(json) = [record |-> r, data |-> IF Len(r) > 1 THEN r[1] ELSE d]
<1>1. /\ Reader(json).record = r /\ Reader(json).data = d
      /\ Reader(json).isarray = TRUE /\ Reader(json).mode = m
    BY DEF InArray, At_
<1>. QED
    BY <1>1 DEF Parsed

\* Rows that end in a number come back.
LEMMA NumbersBack ==
    ASSUME mod \in {"World", "Fortune"}, NEW rows \in Seq(RowType), NEW names, NEW a, NEW b,
           Ordered(names, a, b), b # "message"
    PROVE  /\ Parsed(to_json(rows, names)).record = rows
           /\ rows # <<>> => Parsed(to_json(rows, names)).data = rows[1]
<1>0. names \in Short
    BY DEF Ordered
<1>1. Reader(Text(rows, names, Len(rows))) = AllRead(rows, Len(rows))
    BY AllRowsRead DEF Reads
<1>2. PICK json : json = to_json(rows, names)
    OBVIOUS
<1>3. Reader(json) = ReadToken(AllRead(rows, Len(rows)), Mark("]"))
    BY <1>0, <1>1, <1>2, TextEnd
<1>4. CASE rows = <<>>
  <2>1. PICK r : r = <<>>
      OBVIOUS
  <2>2. PICK d : d = meta
      OBVIOUS
  <2>3. PICK m : m = "seek"
      OBVIOUS
  <2>4. AllRead(rows, Len(rows)) = InArray(r, d, "start")
      BY <1>4, <2>1, <2>2 DEF AllRead
  <2>5. ReadToken(InArray(r, d, "start"), Mark("]")) = InArray(r, d, "seek")
      BY <2>1, SignsInArray
  <2>6. Parsed(json) = [record |-> r, data |-> IF Len(r) > 1 THEN r[1] ELSE d]
      BY <1>3, <2>3, <2>4, <2>5, ParsedArray
  <2>. QED
      BY <1>2, <1>4, <2>1, <2>6
<1>5. CASE rows # <<>>
  <2>1. Len(rows) # 0 /\ Len(rows) \in Nat
      BY <1>5
  <2>2. PICK d : d = rows[Len(rows)]
      OBVIOUS
  <2>3. PICK m : m = "start"
      OBVIOUS
  <2>4. Pre(rows, Len(rows)) = rows
      BY PreFacts
  <2>5. AllRead(rows, Len(rows)) = InArray(rows, d, "skip")
      BY <2>1, <2>2, <2>4 DEF AllRead
  <2>6. ReadToken(InArray(rows, d, "skip"), Mark("]")) = InArray(rows, d, "start")
      BY SignsInArray
  <2>7. Parsed(json) = [record |-> rows, data |-> IF Len(rows) > 1 THEN rows[1] ELSE d]
      BY <1>3, <2>3, <2>5, <2>6, ParsedArray
  <2>8. (IF Len(rows) > 1 THEN rows[1] ELSE d) = rows[1]
      BY <2>1, <2>2
  <2>. QED
      BY <1>2, <2>7, <2>8
<1>. QED
    BY <1>4, <1>5

\* Of the rows that end in a text, every second one.
LEMMA TextsBack ==
    ASSUME mod \in {"World", "Fortune"}, NEW rows \in Seq(RowType), NEW names, NEW a, NEW b,
           Ordered(names, a, b), b = "message"
    PROVE  Parsed(to_json(rows, names)).record = Kept(rows, {k \in DOMAIN rows : k % 2 = 1})
<1>0. names \in Short
    BY DEF Ordered
<1>1. Reader(Text(rows, names, Len(rows))) = HalfRead(rows, Len(rows))
    BY HalfOfRowsRead DEF Reads
<1>2. PICK json : json = to_json(rows, names)
    OBVIOUS
<1>3. Reader(json) = ReadToken(HalfRead(rows, Len(rows)), Mark("]"))
    BY <1>0, <1>1, <1>2, TextEnd
<1>4. PICK n \in Nat : n = Len(rows)
    OBVIOUS
<1>5. PICK I : I = Odd
    OBVIOUS
<1>6. Kept(Pre(rows, 0), I) = <<>> /\ Kept(Pre(rows, Len(rows)), I) = Kept(rows, I)
    BY KeptEnds
<1>7. Kept(rows, I) = Kept(rows, {k \in DOMAIN rows : k % 2 = 1})
  <2>1. PICK J : J = {k \in DOMAIN rows : k % 2 = 1}
      OBVIOUS
  <2>2. \A k \in DOMAIN rows : k \in I <=> k \in J
      BY <1>5, <2>1 DEF Odd
  <2>3. Kept(rows, I) = Kept(rows, J)
      BY <2>2, KeptSame
  <2>. QED
      BY <2>1, <2>3
<1>8. PICK kept : kept = Kept(Pre(rows, n), I)
    OBVIOUS
<1>9. CASE n = 0
  <2>1. PICK d : d = meta
      OBVIOUS
  <2>2. PICK m : m = "seek"
      OBVIOUS
  <2>3. kept = <<>>
      BY <1>6, <1>8, <1>9
  <2>4. HalfRead(rows, n) = InArray(kept, d, "start")
      BY <1>9, <2>1, <2>3 DEF HalfRead
  <2>5. ReadToken(InArray(kept, d, "start"), Mark("]")) = InArray(kept, d, "seek")
      BY <2>3, SignsInArray
  <2>6. Parsed(json) = [record |-> kept, data |-> IF Len(kept) > 1 THEN kept[1] ELSE d]
      BY <1>3, <1>4, <2>2, <2>4, <2>5, ParsedArray
  <2>. QED
      BY <1>2, <1>4, <1>6, <1>7, <1>8, <2>6
<1>10. CASE n # 0 /\ n \in Odd
  <2>1. PICK d : d = rows[n]
      OBVIOUS
  <2>2. PICK m : m = "skip"
      OBVIOUS
  <2>3. PICK r : r = Kept(Pre(rows, n - 1), I)
      OBVIOUS
  <2>4. n \in 1..Len(rows)
      BY <1>4, <1>10
  <2>5. n \in I => Kept(Pre(rows, n), I) = Append(Kept(Pre(rows, n - 1), I), rows[n])
      BY <2>4, KeptNext
  <2>6. kept = Append(r, d)
      BY <1>5, <1>8, <1>10, <2>1, <2>3, <2>5
  <2>7. HalfRead(rows, n) = InArray(r, d, "fields")
      BY <1>5, <1>10, <2>1, <2>3 DEF HalfRead
  <2>8. ReadToken(InArray(r, d, "fields"), Mark("]")) = InArray(Append(r, d), d, "skip")
      BY SignsInArray
  <2>9. Parsed(json) = [record |-> kept, data |-> IF Len(kept) > 1 THEN kept[1] ELSE d]
    <3>1. Reader(json) = InArray(kept, d, m)
        BY <1>3, <1>4, <2>2, <2>6, <2>7, <2>8
    <3>. QED
        BY <2>2, <3>1, ParsedArray
  <2>. QED
      BY <1>2, <1>4, <1>6, <1>7, <1>8, <2>9
<1>11. CASE n # 0 /\ n \notin Odd
  <2>1. PICK d : d = meta
      OBVIOUS
  <2>2. PICK m : m = "seek"
      OBVIOUS
  <2>3. HalfRead(rows, n) = InArray(kept, d, "seek")
      BY <1>5, <1>8, <1>11, <2>1 DEF HalfRead
  <2>4. ReadToken(InArray(kept, d, "seek"), Mark("]")) = InArray(kept, d, "seek")
      BY SignsInArray
  <2>5. Parsed(json) = [record |-> kept, data |-> IF Len(kept) > 1 THEN kept[1] ELSE d]
      BY <1>3, <1>4, <2>2, <2>3, <2>4, ParsedArray
  <2>. QED
      BY <1>2, <1>4, <1>6, <1>7, <1>8, <2>5
<1>. QED
    BY <1>9, <1>10, <1>11

\* The text of one object.
LEMMA ObjectIs ==
    ASSUME mod \in {"World", "Fortune"}, data \in RowType, NEW a, NEW b, Ordered(<<>>, a, b)
    PROVE  /\ <<Mark("{")>> \in Seq(JsonTokens)
           /\ Cat(<<Mark("{")>>, Row3(data, a, b)) \in Seq(JsonTokens)
           /\ data_tojson(<<>>) = Append(Cat(<<Mark("{")>>, Row3(data, a, b)), Mark("}"))
<1>1. PICK open \in Seq(JsonTokens) : open = <<Mark("{")>>
    BY RowTokens, FewElements
<1>2. PICK e \in JsonTokens : e = Mark("}")
    BY RowTokens
<1>3. <<>> \in Short
    BY DEF Ordered
<1>4. Pairs(data, <<>>) = Row3(data, a, b)
    BY DEF Ordered
<1>5. PICK P \in Seq(JsonTokens) : P = Row3(data, a, b)
    BY <1>3, <1>4, PairsType
<1>6. PICK j \in Seq(JsonTokens) : j = Cat(open, P)
    BY CatAssociative
<1>7. Append(j, e) = j \o <<e>>
    BY AppendIsConcat
<1>8. data_tojson(<<>>) = open \o P \o <<e>>
    BY <1>1, <1>2, <1>4, <1>5 DEF data_tojson
<1>. QED
    BY <1>1, <1>2, <1>5, <1>6, <1>7, <1>8 DEF Cat

\* It comes back.
LEMMA ObjectBack ==
    ASSUME mod \in {"World", "Fortune"}, data \in RowType
    PROVE  Parsed(data_tojson(<<>>)) = [record |-> <<data>>, data |-> data]
<1>1. PICK a, b : Ordered(<<>>, a, b)
    BY NamesOrdered
<1>2. a \in Columns /\ b \in Columns /\ a # b
    BY <1>1 DEF Ordered
<1>3. PICK array : array = FALSE
    OBVIOUS
<1>4. PICK none : none = <<>>
    OBVIOUS
<1>5. PICK row \in RowType : row = data
    OBVIOUS
<1>6. PICK j \in Seq(JsonTokens) : j = <<Mark("{")>>
    BY <1>1, ObjectIs
<1>7. Reader(j) = At_(none, meta, array, "fields")
  <2>1. PICK e \in Seq(JsonTokens) : e = <<>>
    <3>1. <<>> \in Seq(JsonTokens)
        OBVIOUS
    <3>. QED
        BY <3>1
  <2>2. PICK t \in JsonTokens : t = Mark("{")
      BY RowTokens
  <2>3. Append(e, t) = <<t>>
      BY <2>1
  <2>4. Reader(Append(e, t)) = ReadToken(Reset, t)
      BY <2>1, ReaderAppend, ReaderEmpty
  <2>5. ReadToken(At_(<<>>, meta, FALSE, "first"), Mark("{")) = At_(<<>>, meta, FALSE, "fields")
      BY SignSteps
  <2>. QED
      BY <1>3, <1>4, <1>6, <2>2, <2>3, <2>4, <2>5 DEF Reset
<1>8. PICK k \in Seq(JsonTokens) : k = Cat(j, Row3(row, a, b))
    BY <1>1, <1>5, <1>6, ObjectIs
<1>9. Reader(Cat(j, Row3(row, a, b))) = At_(none, row, array, IF b = "message" THEN "step" ELSE "number")
    BY <1>2, <1>7, ReadRow
<1>10. PICK e \in JsonTokens : e = Mark("}")
    BY RowTokens
<1>11. PICK json : json = Append(k, e)
    OBVIOUS
<1>12. data_tojson(<<>>) = json
    BY <1>1, <1>5, <1>6, <1>8, <1>10, <1>11, ObjectIs
<1>13. Reader(json) = ReadToken(Reader(k), e)
    BY <1>11, ReaderAppend
<1>14. Append(none, row) = <<row>>
    BY <1>4
<1>15. CASE b = "message"
  <2>1. ReadToken(At_(none, row, array, "step"), Mark("}")) = At_(none, row, array, "fields")
      BY SignSteps
  <2>2. Reader(json) = At_(none, row, array, "fields")
      BY <1>8, <1>9, <1>10, <1>13, <1>15, <2>1
  <2>3. /\ Reader(json).record = none /\ Reader(json).data = row
        /\ Reader(json).isarray = FALSE /\ Reader(json).mode = "fields"
      BY <1>3, <2>2 DEF At_
  <2>4. Parsed(json) = [record |-> <<row>>, data |-> row]
      BY <1>14, <2>3 DEF Parsed
  <2>. QED
      BY <1>5, <1>12, <2>4
<1>16. CASE b # "message"
  <2>1. ReadToken(At_(none, row, FALSE, "number"), Mark("}")) = At_(Append(none, row), row, FALSE, "end")
      BY SignSteps
  <2>2. Reader(json) = At_(<<row>>, row, FALSE, "end")
      BY <1>3, <1>8, <1>9, <1>10, <1>13, <1>14, <1>16, <2>1
  <2>3. /\ Reader(json).record = <<row>> /\ Reader(json).data = row
        /\ Reader(json).isarray = FALSE /\ Reader(json).mode = "end"
      BY <2>2 DEF At_
  <2>4. Parsed(json) = [record |-> <<row>>, data |-> row]
      BY <2>3 DEF Parsed
  <2>. QED
      BY <1>5, <1>12, <2>4
<1>. QED
    BY <1>15, <1>16

\* What to_json has written comes back.
LEMMA TypedRoundTrip ==
    ASSUME BaseTypeOK
    PROVE  JsonRoundTrip
<1>1. mod \in {"World", "Fortune"} /\ record \in Seq(RowType) /\ data \in RowType
    BY DEF BaseTypeOK
<1>2. ASSUME NEW names \in {<<>>, col_names, Reverse(col_names)}
      PROVE  LET back == Parsed(to_json(record, names))
                 whole == Type(Last(IF names = <<>> THEN col_names ELSE names)) = "int"
             IN  /\ back.record = IF whole THEN record
                                   ELSE Kept(record, {k \in DOMAIN record : k % 2 = 1})
                 /\ whole /\ record # <<>> => back.data = record[1]
  <2>. DEFINE last == Last(IF names = <<>> THEN col_names ELSE names)
  <2>1. PICK a, b : Ordered(names, a, b)
      BY <1>1, NamesOrdered
  <2>2. b = last
      BY <2>1 DEF Ordered
  <2>3. PICK rows \in Seq(RowType) : rows = record
      BY <1>1
  <2>4. CASE b = "message"
    <3>1. Parsed(to_json(rows, names)).record = Kept(rows, {k \in DOMAIN rows : k % 2 = 1})
        BY <1>1, <2>1, <2>4, TextsBack
    <3>2. Type(last) # "int"
        BY <2>2, <2>4 DEF Type
    <3>. QED
        BY <2>3, <3>1, <3>2
  <2>5. CASE b # "message"
    <3>1. /\ Parsed(to_json(rows, names)).record = rows
          /\ rows # <<>> => Parsed(to_json(rows, names)).data = rows[1]
        BY <1>1, <2>1, <2>5, NumbersBack
    <3>2. Type(last) = "int"
        BY <2>2, <2>5 DEF Type
    <3>. QED
        BY <2>3, <3>1, <3>2
  <2>. QED
      BY <2>4, <2>5
<1>3. Parsed(data_tojson(<<>>)) = [record |-> <<data>>, data |-> data]
    BY <1>1, ObjectBack
<1>. QED
    BY <1>2, <1>3 DEF JsonRoundTrip

\* to_json and from_json: rows whose last member is a number all come back, of
\* rows whose last member is a text every second one does, and a single object
\* always does; for every number of rows.
THEOREM RoundTrip == Spec => []JsonRoundTrip
<1>1. BaseTypeOK => JsonRoundTrip
    BY TypedRoundTrip
<1>. QED
    BY <1>1, BaseTypeCorrect, PTL

-----------------------------------------------------------------------------
(* Lists with commas.                                                      *)

\* The first n items of a list with commas between them.
Alternating(S, f, n) ==
    /\ f \in Seq(S)
    /\ n = 0 => f = <<>>
    /\ n # 0 => Len(f) = 2 * n - 1
    /\ \A k \in 1..Len(f) : (f[k].k = "item") <=> (k % 2 = 1)

\* The first item.
LEMMA FirstItem ==
    ASSUME NEW S, NEW f, Alternating(S, f, 0), NEW x \in S, x.k = "item"
    PROVE  Alternating(S, f \o <<x>>, 1)
<1>1. f = <<>>
    BY DEF Alternating
<1>2. f \o <<x>> = <<x>> /\ <<x>> \in Seq(S)
    BY <1>1, FewElements
<1>. QED
    BY <1>2 DEF Alternating

\* A comma and an item more.
LEMMA NextItem ==
    ASSUME NEW S, NEW n \in Nat, n # 0, NEW f, Alternating(S, f, n), NEW m \in S, m.k # "item",
           NEW x \in S, x.k = "item"
    PROVE  Alternating(S, f \o <<m, x>>, n + 1)
<1>1. PICK a \in Seq(S) : a = f
    BY DEF Alternating
<1>2. PICK b \in Seq(S) : b = <<m, x>>
    BY FewElements
<1>3. /\ a \o b \in Seq(S) /\ Len(a \o b) = Len(a) + Len(b)
      /\ \A i \in 1..(Len(a) + Len(b)) : (a \o b)[i] = IF i <= Len(a) THEN a[i] ELSE b[i - Len(a)]
    BY ConcatProperties
<1>4. Len(a) = 2 * n - 1 /\ Len(b) = 2 /\ b[1] = m /\ b[2] = x
    BY <1>1, <1>2 DEF Alternating
<1>5. ASSUME NEW k \in 1..Len(a \o b) PROVE ((a \o b)[k].k = "item") <=> (k % 2 = 1)
  <2>1. k \in 1..(Len(a) + Len(b))
      BY <1>3
  <2>2. CASE k <= Len(a)
    <3>1. (a \o b)[k] = a[k] /\ k \in 1..Len(a)
        BY <1>3, <2>1, <2>2
    <3>. QED
        BY <1>1, <3>1 DEF Alternating
  <2>3. CASE k = 2 * n
    <3>1. k - Len(a) = 1 /\ ~(k <= Len(a)) /\ k % 2 = 0
        BY <1>4, <2>3
    <3>2. (a \o b)[k] = m
        BY <1>3, <1>4, <2>1, <3>1
    <3>. QED
        BY <3>1, <3>2
  <2>4. CASE k = 2 * n + 1
    <3>1. k - Len(a) = 2 /\ ~(k <= Len(a)) /\ k % 2 = 1
        BY <1>4, <2>4
    <3>2. (a \o b)[k] = x
        BY <1>3, <1>4, <2>1, <3>1
    <3>. QED
        BY <3>1, <3>2
  <2>5. k <= Len(a) \/ k = 2 * n \/ k = 2 * n + 1
      BY <1>4, <2>1
  <2>. QED
      BY <2>2, <2>3, <2>4, <2>5
<1>6. Len(a \o b) = 2 * (n + 1) - 1 /\ n + 1 # 0
    BY <1>3, <1>4
<1>. QED
    BY <1>1, <1>2, <1>3, <1>5, <1>6 DEF Alternating

\* What Commas puts together.
Pieces(list) ==
    [k \in DOMAIN list |-> IF k = 1 THEN <<list[1]>> ELSE <<Mark(","), list[k]>>]

\* A list of items is well formed if it has any.
LEMMA CommasValid ==
    ASSUME NEW I, \A x \in I : x.k = "item", NEW list \in Seq(I)
    PROVE  ValidList(Commas(list)) <=> list # <<>>
<1>. DEFINE S == I \cup {Mark(",")}
            T == Seq(S)
            P == Pieces(list)
            A(n) == Alternating(S, FlattenSeq(Pre(P, n)), n)
            Good == {n \in Nat : n <= Len(list) => A(n)}
<1>1. Mark(",") \in S /\ Mark(",").k # "item" /\ \A k \in 1..Len(list) : list[k] \in S /\ list[k].k = "item"
  <2>1. Mark(",").k = ","
      BY DEF Mark
  <2>2. \A k \in 1..Len(list) : list[k] \in I
      OBVIOUS
  <2>. QED
      BY <2>1, <2>2
<1>. HIDE DEF S
<1>2. P \in Seq(Seq(S)) /\ Len(P) = Len(list) /\ Len(list) \in Nat
  <2>1. \A k \in 1..Len(list) : <<list[k]>> \in Seq(S) /\ <<Mark(","), list[k]>> \in Seq(S)
      BY <1>1, FewElements
  <2>2. DOMAIN list = 1..Len(list) /\ Len(list) \in Nat
      OBVIOUS
  <2>3. \A k \in 1..Len(list) : (IF k = 1 THEN <<list[1]>> ELSE <<Mark(","), list[k]>>) \in Seq(S)
      BY <2>1
  <2>4. PICK U : U = Seq(S)
      OBVIOUS
  <2>. DEFINE piece(k) == IF k = 1 THEN <<list[1]>> ELSE <<Mark(","), list[k]>>
  <2>5. P = [k \in 1..Len(list) |-> piece(k)]
      BY <2>2 DEF Pieces
  <2>6. \A k \in 1..Len(list) : piece(k) \in U
      BY <2>3, <2>4
  <2>. HIDE DEF piece, P
  <2>7. P \in Seq(U) /\ Len(P) = Len(list)
      BY <2>2, <2>5, <2>6
  <2>. QED
      BY <2>2, <2>4, <2>7
<1>3. A(0)
  <2>1. Pre(P, 0) = <<>>
      BY DEF Pre
  <2>2. <<>> \in Seq(S) /\ Len(<<>>) = 0
      OBVIOUS
  <2>3. Alternating(S, <<>>, 0)
      BY <2>2 DEF Alternating
  <2>. QED
      BY <2>1, <2>3, FlattenEmpty
<1>. HIDE DEF P
<1>4. ASSUME NEW n \in Nat, n \in Good PROVE n + 1 \in Good
  <2>. SUFFICES ASSUME n + 1 <= Len(list) PROVE A(n + 1)
      OBVIOUS
  <2>1. PICK m \in 1..Len(list) : m = n + 1
      BY <1>2
  <2>2. A(n) /\ m - 1 = n
      BY <1>2, <1>4, <2>1
  <2>. HIDE DEF T
  <2>3. PICK ss \in Seq(T) : ss = P
      BY <1>2 DEF T
  <2>4. m \in 1..Len(ss)
      BY <1>2, <2>3
  <2>5. /\ ss[m] \in T /\ m - 1 \in 0..Len(ss)
        /\ Pre(ss, m) = Append(Pre(ss, m - 1), ss[m])
      BY <2>4, PreFacts
  <2>6. Pre(ss, m - 1) \in Seq(T)
      BY <2>5, PreFacts
  <2>7. PICK pp \in Seq(Seq(S)) : pp = Pre(ss, m - 1)
      BY <2>6 DEF T
  <2>8. PICK x \in Seq(S) : x = ss[m]
      BY <2>5 DEF T
  <2>9. FlattenSeq(Append(pp, x)) = FlattenSeq(pp) \o x
      BY FlattenAppend
  <2>10. PICK f : f = FlattenSeq(pp)
      OBVIOUS
  <2>11. FlattenSeq(Pre(P, m)) = f \o x /\ Alternating(S, f, n)
      BY <2>2, <2>3, <2>5, <2>7, <2>8, <2>9, <2>10
  <2>12. PICK item \in S : item = list[m] /\ item.k = "item"
      BY <1>1
  <2>13. PICK comma \in S : comma = Mark(",") /\ comma.k # "item"
      BY <1>1
  <2>14. DOMAIN list = 1..Len(list)
      OBVIOUS
  <2>15. CASE n = 0
    <3>0. m = 1 /\ P[1] = <<list[1]>>
        BY <2>1, <2>14, <2>15 DEF P, Pieces
    <3>1. x = <<item>> /\ m = 1
        BY <2>3, <2>8, <2>12, <3>0
    <3>2. Alternating(S, f, 0)
        BY <2>11, <2>15
    <3>3. Alternating(S, f \o <<item>>, 1)
        BY <2>12, <3>2, FirstItem
    <3>. QED
        BY <2>1, <2>11, <3>1, <3>3
  <2>16. CASE n # 0
    <3>0. m # 1 /\ P[m] = <<Mark(","), list[m]>>
      <4>1. m # 1
          BY <2>1, <2>16
      <4>. QED
          BY <2>14, <4>1 DEF P, Pieces
    <3>1. x = <<comma, item>>
        BY <2>3, <2>8, <2>12, <2>13, <3>0
    <3>2. Alternating(S, f \o <<comma, item>>, n + 1)
        BY <2>11, <2>12, <2>13, <2>16, NextItem
    <3>. QED
        BY <2>1, <2>11, <3>1, <3>2
  <2>. QED
      BY <2>15, <2>16
<1>5. 0 \in Good
    BY <1>3
<1>. HIDE DEF Good
<1>6. Nat \subseteq Good
    BY <1>4, <1>5, AllNumbers
<1>7. A(Len(list))
    BY <1>2, <1>6 DEF Good
<1>8. Pre(P, Len(list)) = P
  <2>. HIDE DEF T
  <2>1. PICK ss \in Seq(T) : ss = P
      BY <1>2 DEF T
  <2>2. Pre(ss, Len(ss)) = ss
      BY PreFacts
  <2>. QED
      BY <1>2, <2>1, <2>2
<1>9. Commas(list) = FlattenSeq(P)
    BY DEF Commas, Pieces, P
<1>10. PICK f : f = Commas(list) /\ Alternating(S, f, Len(list))
    BY <1>7, <1>8, <1>9
<1>11. CASE list = <<>>
  <2>1. f = <<>>
      BY <1>10, <1>11 DEF Alternating
  <2>2. ~ValidList(<<>>)
      BY DEF ValidList
  <2>. QED
      BY <1>10, <1>11, <2>1, <2>2
<1>12. CASE list # <<>>
  <2>1. Len(list) # 0
      BY <1>12
  <2>2. f \in Seq(S) /\ Len(f) = 2 * Len(list) - 1
      BY <1>10, <2>1 DEF Alternating
  <2>3. Len(f) % 2 = 1
      BY <1>2, <2>2
  <2>4. DOMAIN f = 1..Len(f)
      BY <2>2
  <2>5. ValidList(f)
      BY <1>10, <2>3, <2>4 DEF ValidList, Alternating
  <2>. QED
      BY <1>10, <1>12, <2>5
<1>. QED
    BY <1>11, <1>12

\* Rows to insert need one row.
LEMMA InsertValid ==
    ASSUME NEW R, record \in Seq(R)
    PROVE  ValidList(_makerecordinsertsql(record)) <=> record # <<>>
<1>. DEFINE I == {Item("row", RowValues(row)) : row \in R}
            L == [k \in DOMAIN record |-> Item("row", RowValues(record[k]))]
<1>1. \A x \in I : x.k = "item"
    BY DEF Item
<1>2. L \in Seq(I) /\ Len(L) = Len(record)
  <2>1. DOMAIN record = 1..Len(record) /\ Len(record) \in Nat /\ \A k \in 1..Len(record) : record[k] \in R
      OBVIOUS
  <2>2. \A k \in 1..Len(record) : Item("row", RowValues(record[k])) \in I
      BY <2>1
  <2>. HIDE DEF I
  <2>. QED
      BY <2>1, <2>2
<1>3. _makerecordinsertsql(record) = Commas(L)
    BY DEF _makerecordinsertsql
<1>. HIDE DEF I, L
<1>4. ValidList(Commas(L)) <=> L # <<>>
    BY <1>1, <1>2, CommasValid
<1>5. L = <<>> <=> record = <<>>
    BY <1>2
<1>. QED
    BY <1>3, <1>4, <1>5

-----------------------------------------------------------------------------
(* Arrays that func has thinned out.                                       *)

\* How a text begins, and whether it has a row.
Begins(f, t) == Len(f) >= 1 /\ f[1] = t
HasRow(f) == \E k \in 1..Len(f) : f[k].k = "{"

\* A text and another after it.
LEMMA BeginsOn ==
    ASSUME NEW S, NEW a \in Seq(S), NEW b \in Seq(S), NEW t, Begins(a, t)
    PROVE  Begins(a \o b, t)
<1>1. /\ Len(a \o b) = Len(a) + Len(b) /\ Len(a) \in Nat /\ Len(b) \in Nat
      /\ \A i \in 1..(Len(a) + Len(b)) : (a \o b)[i] = IF i <= Len(a) THEN a[i] ELSE b[i - Len(a)]
    BY ConcatProperties
<1>2. Len(a) >= 1 /\ a[1] = t
    BY DEF Begins
<1>3. 1 \in 1..(Len(a) + Len(b)) /\ 1 <= Len(a)
    BY <1>1, <1>2
<1>. QED
    BY <1>1, <1>2, <1>3 DEF Begins

\* The row stays in it.
LEMMA HasRowOn ==
    ASSUME NEW S, NEW a \in Seq(S), NEW b \in Seq(S), HasRow(a) \/ HasRow(b)
    PROVE  HasRow(a \o b)
<1>1. /\ Len(a \o b) = Len(a) + Len(b) /\ Len(a) \in Nat /\ Len(b) \in Nat
      /\ \A i \in 1..(Len(a) + Len(b)) : (a \o b)[i] = IF i <= Len(a) THEN a[i] ELSE b[i - Len(a)]
    BY ConcatProperties
<1>2. CASE HasRow(a)
  <2>1. PICK k \in 1..Len(a) : a[k].k = "{"
      BY <1>2 DEF HasRow
  <2>2. k \in 1..(Len(a) + Len(b)) /\ k <= Len(a)
      BY <1>1
  <2>3. (a \o b)[k] = a[k]
      BY <1>1, <2>2
  <2>. QED
      BY <1>1, <2>1, <2>2, <2>3 DEF HasRow
<1>3. CASE HasRow(b)
  <2>1. PICK k \in 1..Len(b) : b[k].k = "{"
      BY <1>3 DEF HasRow
  <2>2. PICK i \in 1..(Len(a) + Len(b)) : i = Len(a) + k
      BY <1>1
  <2>3. ~(i <= Len(a)) /\ i - Len(a) = k
      BY <1>1, <2>2
  <2>4. (a \o b)[i] = b[k]
      BY <1>1, <2>3
  <2>. QED
      BY <1>1, <2>1, <2>4 DEF HasRow
<1>. QED
    BY <1>2, <1>3

\* The text of a row in an array.
LEMMA ObjectShape ==
    ASSUME mod \in {"World", "Fortune"}, NEW rows \in Seq(RowType), NEW k \in DOMAIN rows
    PROVE  /\ Object(rows, <<>>, k) \in Seq(JsonTokens)
           /\ k = 1 => Begins(Object(rows, <<>>, k), Mark("{"))
           /\ k # 1 => Begins(Object(rows, <<>>, k), Mark(","))
           /\ HasRow(Object(rows, <<>>, k))
<1>1. PICK P \in Seq(JsonTokens) : P = Pairs(rows[k], <<>>)
  <2>1. PICK names \in Short : names = <<>>
      BY DEF Short
  <2>2. PICK row \in RowType : row = rows[k]
      OBVIOUS
  <2>. QED
      BY <2>1, <2>2, PairsType
<1>2. PICK o \in JsonTokens : o = Mark("{")
    BY RowTokens
<1>3. PICK m \in JsonTokens : m = Mark(",")
    BY RowTokens
<1>4. PICK e \in JsonTokens : e = Mark("}")
    BY RowTokens
<1>5. PICK oo \in Seq(JsonTokens) : oo = <<o>>
    BY FewElements
<1>6. PICK ee \in Seq(JsonTokens) : ee = <<e>>
    BY FewElements
<1>7. PICK first \in Seq(JsonTokens) : /\ k = 1 => first = <<>>
                                       /\ k # 1 => first = <<m>>
                                       /\ first = IF k > 1 THEN <<Mark(",")>> ELSE <<>>
  <2>1. <<m>> \in Seq(JsonTokens) /\ <<>> \in Seq(JsonTokens)
      BY FewElements
  <2>2. k # 1 => k > 1
      OBVIOUS
  <2>3. k = 1 => ~(k > 1)
      OBVIOUS
  <2>. QED
      BY <1>3, <2>1, <2>2, <2>3
<1>8. Object(rows, <<>>, k) = ((first \o oo) \o P) \o ee
    BY <1>1, <1>2, <1>4, <1>5, <1>6, <1>7 DEF Object
<1>9. \A u, v \in Seq(JsonTokens) : u \o v \in Seq(JsonTokens)
    OBVIOUS
<1>10. PICK a \in Seq(JsonTokens) : a = first \o oo
    BY <1>9
<1>11. PICK b \in Seq(JsonTokens) : b = a \o P
    BY <1>9
<1>12. Object(rows, <<>>, k) = b \o ee /\ b \o ee \in Seq(JsonTokens)
    BY <1>8, <1>9, <1>10, <1>11
<1>13. HasRow(oo)
  <2>1. o.k = "{"
      BY <1>2 DEF Mark
  <2>2. 1 \in 1..Len(oo) /\ oo[1] = o
      BY <1>5
  <2>. QED
      BY <2>1, <2>2 DEF HasRow
<1>14. HasRow(first \o oo)
    BY <1>13, HasRowOn
<1>15. HasRow(a \o P)
    BY <1>10, <1>14, HasRowOn
<1>16. HasRow(b \o ee)
    BY <1>11, <1>15, HasRowOn
<1>17. PICK t : (k = 1 => t = o) /\ (k # 1 => t = m)
  <2>1. CASE k = 1
      BY <2>1
  <2>2. CASE k # 1
      BY <2>2
  <2>. QED
      BY <2>1, <2>2
<1>18. Begins(a, t)
  <2>1. CASE k = 1
    <3>1. first = <<>> /\ t = o
        BY <1>7, <1>17, <2>1
    <3>2. first \o oo = oo
        BY <3>1
    <3>3. Begins(<<o>>, o)
        BY DEF Begins
    <3>. QED
        BY <1>5, <1>10, <3>1, <3>2, <3>3
  <2>2. CASE k # 1
    <3>1. first = <<m>> /\ t = m
        BY <1>7, <1>17, <2>2
    <3>2. Begins(first, t)
        BY <3>1 DEF Begins
    <3>3. Begins(first \o oo, t)
        BY <3>2, BeginsOn
    <3>. QED
        BY <1>10, <3>3
  <2>. QED
      BY <2>1, <2>2
<1>19. Begins(a \o P, t)
    BY <1>18, BeginsOn
<1>20. Begins(b \o ee, t)
    BY <1>11, <1>19, BeginsOn
<1>. QED
    BY <1>2, <1>3, <1>12, <1>16, <1>17, <1>20

\* The text of the rows that were kept of the first n.
Thinned(f, keep, n) ==
    /\ f \in Seq(JsonTokens)
    /\ (\A k \in 1..n : k \notin keep) => f = <<>>
    /\ (\E k \in 1..n : k \in keep) => HasRow(f)
    /\ (\E k \in 1..n : k \in keep) /\ 1 \in keep => Begins(f, Mark("{"))
    /\ (\E k \in 1..n : k \in keep) /\ 1 \notin keep => Begins(f, Mark(","))

\* The text of row m in it.
RowOrNothing(x, keep, m) ==
    /\ x \in Seq(JsonTokens)
    /\ m \notin keep => x = <<>>
    /\ m \in keep => HasRow(x)
    /\ m \in keep /\ m = 1 => Begins(x, Mark("{"))
    /\ m \in keep /\ m # 1 => Begins(x, Mark(","))

\* One row more.
LEMMA ThinnedStep ==
    ASSUME NEW keep, NEW n \in Nat, NEW m \in Nat, m = n + 1, NEW f, Thinned(f, keep, n),
           NEW x, RowOrNothing(x, keep, m)
    PROVE  Thinned(f \o x, keep, m)
<1>1. PICK a \in Seq(JsonTokens) : a = f
    BY DEF Thinned
<1>2. PICK y \in Seq(JsonTokens) : y = x
    BY DEF RowOrNothing
<1>3. a \o y \in Seq(JsonTokens) /\ a \o <<>> = a /\ <<>> \o y = y
    OBVIOUS
<1>4. \A k : k \in 1..m <=> k \in 1..n \/ k = m
    OBVIOUS
<1>5. CASE m \notin keep
  <2>1. a \o y = f
      BY <1>1, <1>2, <1>3, <1>5 DEF RowOrNothing
  <2>2. (\E k \in 1..m : k \in keep) <=> (\E k \in 1..n : k \in keep)
      BY <1>4, <1>5
  <2>3. Thinned(f, keep, m)
      BY <2>2 DEF Thinned
  <2>. QED
      BY <1>1, <1>2, <2>1, <2>3
<1>6. CASE m \in keep /\ \A k \in 1..n : k \notin keep
  <2>1. a \o y = y
      BY <1>1, <1>3, <1>6 DEF Thinned
  <2>2. 1 \in keep <=> m = 1
    <3>1. n # 0 => 1 \in 1..n
        OBVIOUS
    <3>2. n = 0 <=> m = 1
        OBVIOUS
    <3>. QED
        BY <1>6, <3>1, <3>2
  <2>3. \E k \in 1..m : k \in keep
      BY <1>4, <1>6
  <2>4. HasRow(y) /\ (1 \in keep => Begins(y, Mark("{"))) /\ (1 \notin keep => Begins(y, Mark(",")))
      BY <1>2, <1>6, <2>2 DEF RowOrNothing
  <2>5. Thinned(y, keep, m)
      BY <2>3, <2>4 DEF Thinned
  <2>. QED
      BY <1>1, <1>2, <2>1, <2>5
<1>7. CASE m \in keep /\ \E k \in 1..n : k \in keep
  <2>1. /\ HasRow(a) /\ (1 \in keep => Begins(a, Mark("{")))
        /\ (1 \notin keep => Begins(a, Mark(",")))
      BY <1>1, <1>7 DEF Thinned
  <2>2. HasRow(a \o y)
      BY <2>1, HasRowOn
  <2>3. PICK o : o = Mark("{")
      OBVIOUS
  <2>4. PICK c : c = Mark(",")
      OBVIOUS
  <2>5. 1 \in keep => Begins(a \o y, o)
      BY <2>1, <2>3, BeginsOn
  <2>6. 1 \notin keep => Begins(a \o y, c)
      BY <2>1, <2>4, BeginsOn
  <2>7. \E k \in 1..m : k \in keep
      BY <1>4, <1>7
  <2>8. Thinned(a \o y, keep, m)
      BY <1>3, <2>2, <2>3, <2>4, <2>5, <2>6, <2>7 DEF Thinned
  <2>. QED
      BY <1>1, <1>2, <2>8
<1>. QED
    BY <1>5, <1>6, <1>7

\* All rows.
LEMMA ArrayThinned ==
    ASSUME mod \in {"World", "Fortune"}, NEW rows \in Seq(RowType), NEW keep
    PROVE  Thinned(FlattenSeq(Objects(rows, <<>>, keep)), keep, Len(rows))
<1>. DEFINE T == Seq(JsonTokens)
            O == Objects(rows, <<>>, keep)
            A(n) == Thinned(FlattenSeq(Pre(O, n)), keep, n)
            Good == {n \in Nat : n <= Len(rows) => A(n)}
<1>0. PICK names \in Short : names = <<>>
    BY DEF Short
<1>1. Objects(rows, names, keep) \in Seq(Seq(JsonTokens)) /\ Len(Objects(rows, names, keep)) = Len(rows)
    BY ArrayIs
<1>2. O \in Seq(Seq(JsonTokens)) /\ Len(O) = Len(rows) /\ Len(rows) \in Nat /\ DOMAIN rows = 1..Len(rows)
    BY <1>0, <1>1
<1>3. A(0)
  <2>1. Pre(O, 0) = <<>>
      BY DEF Pre
  <2>2. <<>> \in Seq(JsonTokens)
      OBVIOUS
  <2>3. Thinned(<<>>, keep, 0)
      BY <2>2 DEF Thinned
  <2>. QED
      BY <2>1, <2>3, FlattenEmpty
<1>. HIDE DEF O
<1>4. ASSUME NEW n \in Nat, n \in Good PROVE n + 1 \in Good
  <2>. SUFFICES ASSUME n + 1 <= Len(rows) PROVE A(n + 1)
      OBVIOUS
  <2>1. PICK m \in 1..Len(rows) : m = n + 1
      BY <1>2
  <2>2. A(n) /\ m - 1 = n
      BY <1>2, <1>4, <2>1
  <2>. HIDE DEF T
  <2>3. PICK ss \in Seq(T) : ss = O
      BY <1>2 DEF T
  <2>4. m \in 1..Len(ss)
      BY <1>2, <2>3
  <2>5. /\ ss[m] \in T /\ m - 1 \in 0..Len(ss)
        /\ Pre(ss, m) = Append(Pre(ss, m - 1), ss[m])
      BY <2>4, PreFacts
  <2>6. Pre(ss, m - 1) \in Seq(T)
      BY <2>5, PreFacts
  <2>7. PICK pp \in Seq(Seq(JsonTokens)) : pp = Pre(ss, m - 1)
      BY <2>6 DEF T
  <2>8. PICK x \in Seq(JsonTokens) : x = ss[m]
      BY <2>5 DEF T
  <2>9. FlattenSeq(Append(pp, x)) = FlattenSeq(pp) \o x
      BY FlattenAppend
  <2>10. PICK f : f = FlattenSeq(pp)
      OBVIOUS
  <2>11. FlattenSeq(Pre(O, m)) = f \o x /\ Thinned(f, keep, n)
      BY <2>2, <2>3, <2>5, <2>7, <2>8, <2>9, <2>10
  <2>12. x = IF m \in keep THEN Object(rows, <<>>, m) ELSE <<>>
      BY <1>2, <2>3, <2>8 DEF O, Objects
  <2>13. /\ m = 1 => Begins(Object(rows, <<>>, m), Mark("{"))
         /\ m # 1 => Begins(Object(rows, <<>>, m), Mark(","))
         /\ HasRow(Object(rows, <<>>, m))
      BY <1>2, ObjectShape
  <2>14. RowOrNothing(x, keep, m)
      BY <2>12, <2>13 DEF RowOrNothing
  <2>15. Thinned(f \o x, keep, m)
      BY <2>1, <2>11, <2>14, ThinnedStep
  <2>. QED
      BY <2>1, <2>11, <2>15
<1>5. 0 \in Good
    BY <1>3
<1>. HIDE DEF Good
<1>6. Nat \subseteq Good
    BY <1>4, <1>5, AllNumbers
<1>7. A(Len(rows))
    BY <1>2, <1>6 DEF Good
<1>8. Pre(O, Len(rows)) = O
  <2>. HIDE DEF T
  <2>1. PICK ss \in Seq(T) : ss = O
      BY <1>2 DEF T
  <2>2. Pre(ss, Len(ss)) = ss
      BY PreFacts
  <2>. QED
      BY <1>2, <2>1, <2>2
<1>. QED
    BY <1>7, <1>8 DEF O

\* A thinned array is well formed if its first row or no row is left.
LEMMA ArrayValid ==
    ASSUME mod \in {"World", "Fortune"}, NEW rows \in Seq(RowType), NEW keep \in SUBSET DOMAIN rows
    PROVE  ValidArray(to_json_func(rows, <<>>, keep)) <=> keep = {} \/ 1 \in keep
<1>0. PICK names \in Short : names = <<>>
    BY DEF Short
<1>1. PICK f : f = FlattenSeq(Objects(rows, <<>>, keep))
    OBVIOUS
<1>2. to_json_func(rows, names, keep) = <<Mark("[")>> \o FlattenSeq(Objects(rows, names, keep)) \o <<Mark("]")>>
    BY ArrayIs
<1>3. Thinned(f, keep, Len(rows))
    BY <1>1, ArrayThinned
<1>4. PICK g \in Seq(JsonTokens) : g = f
    BY <1>3 DEF Thinned
<1>5. PICK b \in JsonTokens : b = Mark("[")
    BY RowTokens
<1>6. PICK e \in JsonTokens : e = Mark("]")
    BY RowTokens
<1>7. PICK bb \in Seq(JsonTokens) : bb = <<b>>
    BY FewElements
<1>8. PICK ee \in Seq(JsonTokens) : ee = <<e>>
    BY FewElements
<1>9. PICK h \in Seq(JsonTokens) : h = bb \o g
    BY CatAssociative DEF Cat
<1>10. PICK json \in Seq(JsonTokens) : json = h \o ee
    BY CatAssociative DEF Cat
<1>11. to_json_func(rows, <<>>, keep) = json
    BY <1>0, <1>1, <1>2, <1>4, <1>5, <1>6, <1>7, <1>8, <1>9, <1>10
<1>12. Len(bb) = 1 /\ bb[1] = b /\ Len(ee) = 1 /\ ee[1] = e
    BY <1>7, <1>8
<1>13. /\ Len(bb \o g) = Len(bb) + Len(g) /\ Len(g) \in Nat
       /\ \A i \in 1..(Len(bb) + Len(g)) : (bb \o g)[i] = IF i <= Len(bb) THEN bb[i] ELSE g[i - Len(bb)]
    BY ConcatProperties
<1>14. /\ Len(h \o ee) = Len(h) + Len(ee)
       /\ \A i \in 1..(Len(h) + Len(ee)) : (h \o ee)[i] = IF i <= Len(h) THEN h[i] ELSE ee[i - Len(h)]
    BY ConcatProperties
<1>15. Len(h) = Len(g) + 1 /\ Len(json) = Len(g) + 2 /\ DOMAIN json = 1..(Len(g) + 2)
    BY <1>9, <1>10, <1>12, <1>13, <1>14
<1>16. keep # {} <=> \E k \in 1..Len(rows) : k \in keep
    OBVIOUS
<1>17. CASE keep = {}
  <2>1. g = <<>>
      BY <1>3, <1>4, <1>16, <1>17 DEF Thinned
  <2>2. Len(g) = 0
      BY <2>1
  <2>3. json[1] = b /\ json[2] = e /\ DOMAIN json = 1..2
    <3>1. 1 \in 1..(Len(bb) + Len(g)) /\ 1 <= Len(bb)
        BY <1>12, <1>13
    <3>2. Len(h) = 1 /\ h[1] = b
      <4>1. (bb \o g)[1] = bb[1]
          BY <1>13, <3>1
      <4>2. Len(h) = 1
          BY <1>15, <2>2
      <4>. QED
          BY <1>9, <1>12, <4>1, <4>2
    <3>3. 1 \in 1..(Len(h) + Len(ee)) /\ 2 \in 1..(Len(h) + Len(ee)) /\ 1 <= Len(h) /\ ~(2 <= Len(h))
          /\ 2 - Len(h) = 1
        BY <1>12, <3>2
    <3>. QED
        BY <1>10, <1>12, <1>14, <1>15, <2>2, <3>2, <3>3
  <2>4. b.k = "[" /\ e.k = "]"
      BY <1>5, <1>6 DEF Mark
  <2>5. \A k \in DOMAIN json : json[k].k # "{"
    <3>1. \A k \in 1..2 : k = 1 \/ k = 2
        OBVIOUS
    <3>. QED
        BY <2>3, <2>4, <3>1
  <2>. QED
      BY <1>11, <1>17, <2>5 DEF ValidArray
<1>18. CASE keep # {}
  <2>1. PICK t : (1 \in keep => t = Mark("{")) /\ (1 \notin keep => t = Mark(","))
    <3>1. CASE 1 \in keep
        BY <3>1
    <3>2. CASE 1 \notin keep
        BY <3>2
    <3>. QED
        BY <3>1, <3>2
  <2>2. HasRow(g) /\ Begins(g, t)
      BY <1>3, <1>4, <1>16, <1>18, <2>1 DEF Thinned
  <2>3. HasRow(bb \o g)
      BY <2>2, HasRowOn
  <2>4. HasRow(h \o ee)
      BY <1>9, <2>3, HasRowOn
  <2>5. \E k \in DOMAIN json : json[k].k = "{"
      BY <1>10, <1>15, <2>4 DEF HasRow
  <2>6. json[2] = t
    <3>1. Len(g) >= 1 /\ g[1] = t
        BY <2>2 DEF Begins
    <3>2. h[2] = g[1]
      <4>1. 2 \in 1..(Len(bb) + Len(g)) /\ ~(2 <= Len(bb)) /\ 2 - Len(bb) = 1
          BY <1>12, <1>13, <3>1
      <4>. QED
          BY <1>9, <1>13, <4>1
    <3>3. json[2] = h[2]
      <4>1. 2 \in 1..(Len(h) + Len(ee)) /\ 2 <= Len(h)
          BY <1>12, <1>13, <1>15, <3>1
      <4>. QED
          BY <1>10, <1>14, <4>1
    <3>. QED
        BY <3>1, <3>2, <3>3
  <2>7. Mark(",") # Mark("{")
    <3>1. Mark(",").k = "," /\ Mark("{").k = "{"
        BY DEF Mark
    <3>. QED
        BY <3>1
  <2>8. ValidArray(json) <=> t = Mark("{")
      BY <2>5, <2>6 DEF ValidArray
  <2>9. t = Mark("{") <=> 1 \in keep
      BY <2>1, <2>7
  <2>. QED
      BY <1>11, <1>18, <2>8, <2>9
<1>. QED
    BY <1>17, <1>18

-----------------------------------------------------------------------------
(* Lists of names.                                                         *)

\* One name or two.
LEMMA OneOrTwoNames ==
    ASSUME NEW names \in NameLists
    PROVE  \/ \E x \in Names : names = <<x>>
           \/ \E x, y \in Names : names = <<x, y>>
<1>1. names # <<>> /\ \E m \in 0..2 : names \in [1..m -> Names]
    BY DEF NameLists, BoundedSeq, SeqOf
<1>2. PICK m \in 0..2 : names \in [1..m -> Names]
    BY <1>1
<1>3. m # 0
    BY <1>1, <1>2
<1>0. names \in Seq(Names) /\ Len(names) = m
    BY <1>2
<1>4. CASE m = 1
  <2>1. names \in Seq(Names) /\ Len(names) = 1 /\ names[1] \in Names
      BY <1>0, <1>2, <1>4
  <2>2. names = <<names[1]>>
      BY <2>1
  <2>. QED
      BY <2>1, <2>2
<1>5. CASE m = 2
  <2>1. names \in Seq(Names) /\ Len(names) = 2 /\ names[1] \in Names /\ names[2] \in Names
      BY <1>0, <1>2, <1>5
  <2>2. names = <<names[1], names[2]>>
      BY <2>1
  <2>. QED
      BY <2>1, <2>2
<1>. QED
    BY <1>3, <1>4, <1>5

\* An element that is kept, or nothing.
Maybe(x, n, I) == IF n \in I THEN <<x>> ELSE <<>>

\* What is kept of a short list.
LEMMA KeptFew ==
    ASSUME NEW S, NEW x \in S, NEW y \in S, NEW I
    PROVE  /\ Kept(<<x>>, I) = Maybe(x, 1, I)
           /\ Kept(<<x, y>>, I) = Maybe(x, 1, I) \o Maybe(y, 2, I)
<1>1. PICK a \in Seq(S) : a = Maybe(x, 1, I)
  <2>1. <<x>> \in Seq(S) /\ <<>> \in Seq(S)
      OBVIOUS
  <2>. QED
      BY <2>1 DEF Maybe
<1>2. PICK b \in Seq(S) : b = Maybe(y, 2, I)
  <2>1. <<y>> \in Seq(S) /\ <<>> \in Seq(S)
      OBVIOUS
  <2>. QED
      BY <2>1 DEF Maybe
<1>3. FlattenSeq(<<a>>) = a /\ FlattenSeq(<<a, b>>) = a \o b
    BY FlattenFew
<1>4. [k \in DOMAIN <<x>> |-> IF k \in I THEN <<(<<x>>)[k]>> ELSE <<>>] = <<a>>
    BY <1>1 DEF Maybe
<1>5. [k \in DOMAIN <<x, y>> |-> IF k \in I THEN <<(<<x, y>>)[k]>> ELSE <<>>] = <<a, b>>
    BY <1>1, <1>2 DEF Maybe
<1>. QED
    BY <1>1, <1>2, <1>3, <1>4, <1>5 DEF Kept

\* The positions that are known.
KnownOf(pos) == Kept(pos, {k \in DOMAIN pos : pos[k] # 0})

\* Those of one name and of two.
LEMMA KnownFew ==
    ASSUME NEW p \in 0..2, NEW q \in 0..2
    PROVE  /\ p = 0 => KnownOf(<<p>>) = <<>>
           /\ p # 0 => KnownOf(<<p>>) = <<p>>
           /\ p = 0 /\ q = 0 => KnownOf(<<p, q>>) = <<>>
           /\ p = 0 /\ q # 0 => KnownOf(<<p, q>>) = <<q>>
           /\ p # 0 /\ q = 0 => KnownOf(<<p, q>>) = <<p>>
           /\ p # 0 /\ q # 0 => KnownOf(<<p, q>>) = <<p, q>>
<1>. DEFINE I == {k \in DOMAIN <<p>> : (<<p>>)[k] # 0}
            J == {k \in DOMAIN <<p, q>> : (<<p, q>>)[k] # 0}
<1>1. (1 \in I <=> p # 0) /\ (1 \in J <=> p # 0) /\ (2 \in J <=> q # 0)
    OBVIOUS
<1>2. KnownOf(<<p>>) = Kept(<<p>>, I) /\ KnownOf(<<p, q>>) = Kept(<<p, q>>, J)
    BY DEF KnownOf
<1>. HIDE DEF I, J
<1>3. Kept(<<p>>, I) = Maybe(p, 1, I)
    BY KeptFew
<1>4. Kept(<<p, q>>, J) = Maybe(p, 1, J) \o Maybe(q, 2, J)
    BY KeptFew
<1>5. PICK e \in Seq(0..2) : e = <<>>
  <2>1. <<>> \in Seq(0..2)
      OBVIOUS
  <2>. QED
      BY <2>1
<1>6. <<p>> \in Seq(0..2) /\ <<q>> \in Seq(0..2) /\ <<p>> \o <<q>> = <<p, q>>
    BY FewElements
<1>7. e \o e = e /\ e \o <<q>> = <<q>> /\ <<p>> \o e = <<p>>
    BY <1>5, <1>6
<1>8. /\ p = 0 => Maybe(p, 1, I) = <<>> /\ Maybe(p, 1, J) = e
      /\ p # 0 => Maybe(p, 1, I) = <<p>> /\ Maybe(p, 1, J) = <<p>>
      /\ q = 0 => Maybe(q, 2, J) = e
      /\ q # 0 => Maybe(q, 2, J) = <<q>>
    BY <1>1, <1>5 DEF Maybe
<1>. QED
    BY <1>2, <1>3, <1>4, <1>5, <1>6, <1>7, <1>8

\* Short lists and one element more.
LEMMA AppendFew ==
    ASSUME NEW S, NEW x \in S, NEW y \in S, NEW z \in S
    PROVE  Append(<<x>>, y) = <<x, y>> /\ Append(<<x, y>>, z) = <<x, y, z>>
<1>1. <<x, y>> = Append(<<x>>, y) /\ <<x, y>> \in Seq(S)
    OBVIOUS
<1>2. <<x, y, z>> = Append(<<x, y>>, z) /\ <<x, y, z>> \in Seq(S)
    OBVIOUS
<1>. QED
    BY <1>1, <1>2

\* The items of a list.
ItemsOf(sql) == Kept(sql, {k \in DOMAIN sql : sql[k].k = "item"})

\* Those of lists of one name and of two.
ItemsAre(i, m, j) ==
    /\ ItemsOf(<<>>) = <<>>
    /\ ItemsOf(<<i>>) = <<i>>
    /\ ItemsOf(<<m, i>>) = <<i>>
    /\ ItemsOf(<<i, m, j>>) = <<i, j>>

\* The commas are not among them.
LEMMA ItemsFew ==
    ASSUME NEW S, NEW i \in S, NEW j \in S, NEW m \in S, i.k = "item", j.k = "item", m.k # "item"
    PROVE  ItemsAre(i, m, j)
<1>1. ItemsOf(<<>>) = <<>>
    BY KeptEmpty DEF ItemsOf
<1>2. ItemsOf(<<i>>) = <<i>>
  <2>1. PICK I : I = {k \in DOMAIN <<i>> : (<<i>>)[k].k = "item"}
      OBVIOUS
  <2>2. 1 \in I
      BY <2>1
  <2>3. Kept(<<i>>, I) = Maybe(i, 1, I)
      BY KeptFew
  <2>. QED
      BY <2>1, <2>2, <2>3 DEF ItemsOf, Maybe
<1>3. ItemsOf(<<m, i>>) = <<i>>
  <2>1. PICK I : I = {k \in DOMAIN <<m, i>> : (<<m, i>>)[k].k = "item"}
      OBVIOUS
  <2>2. 1 \notin I /\ 2 \in I
      BY <2>1
  <2>3. Kept(<<m, i>>, I) = Maybe(m, 1, I) \o Maybe(i, 2, I)
      BY KeptFew
  <2>4. <<>> \o <<i>> = <<i>>
      BY FewElements
  <2>. QED
      BY <2>1, <2>2, <2>3, <2>4 DEF ItemsOf, Maybe
<1>4. ItemsOf(<<i, m, j>>) = <<i, j>>
  <2>1. PICK I : I = {k \in DOMAIN <<i, m, j>> : (<<i, m, j>>)[k].k = "item"}
      OBVIOUS
  <2>2. 1 \in I /\ 2 \notin I /\ 3 \in I
      BY <2>1
  <2>3. Kept(<<i, m>>, I) = Maybe(i, 1, I) \o Maybe(m, 2, I)
      BY KeptFew
  <2>4. <<i>> \in Seq(S) /\ <<i>> \o <<>> = <<i>>
      OBVIOUS
  <2>5. Kept(<<i, m>>, I) = <<i>>
      BY <2>2, <2>3, <2>4 DEF Maybe
  <2>6. PICK s \in Seq(S) : s = <<i, m>>
      BY FewElements
  <2>7. Kept(Append(s, j), I) = IF Len(s) + 1 \in I THEN Append(Kept(s, I), j) ELSE Kept(s, I)
      BY KeptAppend
  <2>8. Append(s, j) = <<i, m, j>> /\ Len(s) + 1 = 3 /\ Append(<<i>>, j) = <<i, j>>
    <3>1. Append(<<i, m>>, j) = <<i, m, j>> /\ Append(<<i>>, j) = <<i, j>>
        BY AppendFew
    <3>2. Len(s) = 2
        BY <2>6
    <3>. QED
        BY <2>6, <3>1, <3>2
  <2>9. Kept(<<i, m, j>>, I) = <<i, j>>
      BY <2>2, <2>5, <2>6, <2>7, <2>8
  <2>. QED
      BY <2>1, <2>9 DEF ItemsOf
<1>. QED
    BY <1>1, <1>2, <1>3, <1>4 DEF ItemsAre

\* The pair of the column at a position.
ItemAt(p) == Item(col_names[p], data[col_names[p]])

\* The pairs of one name and of two, at positions p and q.
SqlIs(x, y, p, q) ==
    /\ p = 0 => Pairs(data, <<x>>) = <<>>
    /\ p # 0 => Pairs(data, <<x>>) = <<ItemAt(p)>>
    /\ p = 0 /\ q = 0 => Pairs(data, <<x, y>>) = <<>>
    /\ p = 0 /\ q # 0 => Pairs(data, <<x, y>>) = <<Mark(","), ItemAt(q)>>
    /\ p # 0 /\ q = 0 => Pairs(data, <<x, y>>) = <<ItemAt(p)>>
    /\ p # 0 /\ q # 0 => Pairs(data, <<x, y>>) = <<ItemAt(p), Mark(","), ItemAt(q)>>

\* They are what the names stand for.
LEMMA SqlFew ==
    ASSUME mod \in {"World", "Fortune"}, data \in RowType, NEW x, NEW y, NEW p, NEW q,
           p = findcolpos(x), q = findcolpos(y)
    PROVE  SqlIs(x, y, p, q)
<1>1. Pairs(data, <<x>>) = Known(data, p) /\ Pairs(data, <<x, y>>) = Known(data, p) \o KnownNext(data, q)
    BY PairsIs
<1>2. PICK i : i = ItemAt(p)
    OBVIOUS
<1>3. PICK j : j = ItemAt(q)
    OBVIOUS
<1>4. PICK m : m = Mark(",")
    OBVIOUS
<1>5. PICK S : S = {i, j, m}
    OBVIOUS
<1>6. /\ p = 0 => Known(data, p) = <<>>
      /\ p # 0 => Known(data, p) = <<i>>
      /\ q = 0 => KnownNext(data, q) = <<>>
      /\ q # 0 => KnownNext(data, q) = <<m, j>>
    BY <1>2, <1>3, <1>4 DEF Known, KnownNext, ItemAt
<1>7. PICK e \in Seq(S) : e = <<>>
  <2>1. <<>> \in Seq(S)
      OBVIOUS
  <2>. QED
      BY <2>1
<1>8. PICK a \in Seq(S) : a = <<i>>
  <2>1. <<i>> \in Seq(S)
      BY <1>5
  <2>. QED
      BY <2>1
<1>9. PICK b \in Seq(S) : b = <<m, j>>
  <2>1. <<m, j>> \in Seq(S)
      BY <1>5
  <2>. QED
      BY <2>1
<1>10. e \o e = e /\ e \o b = b /\ a \o e = a
    BY <1>7
<1>11. a \o b = <<i, m, j>>
  <2>1. i \in S /\ m \in S /\ j \in S
      BY <1>5
  <2>2. Cat(<<i>>, <<m, j>>) = <<i, m, j>> /\ e \o <<i, m, j>> = Append(Append(Append(e, i), m), j)
      BY <2>1, ThreeMore
  <2>. QED
      BY <1>8, <1>9, <2>2 DEF Cat
<1>. QED
    BY <1>1, <1>2, <1>3, <1>4, <1>6, <1>7, <1>8, <1>9, <1>10, <1>11 DEF SqlIs

\* Which short lists are well formed.
WellFormedFew(i, m, j) ==
    /\ ~ValidList(<<>>)
    /\ ValidList(<<i>>)
    /\ ~ValidList(<<m, i>>)
    /\ ValidList(<<i, m, j>>)

\* Items with commas between them.
LEMMA ValidFew ==
    ASSUME NEW S, NEW i \in S, NEW j \in S, NEW m \in S, i.k = "item", j.k = "item", m.k # "item"
    PROVE  WellFormedFew(i, m, j)
<1>1. Len(<<>>) % 2 = 0 /\ Len(<<i>>) % 2 = 1 /\ Len(<<m, i>>) % 2 = 0 /\ Len(<<i, m, j>>) % 2 = 1
    OBVIOUS
<1>2. ~ValidList(<<>>) /\ ~ValidList(<<m, i>>)
    BY <1>1 DEF ValidList
<1>3. \A k \in DOMAIN <<i>> : ((<<i>>)[k].k = "item") <=> (k % 2 = 1)
    OBVIOUS
<1>4. \A k \in DOMAIN <<i, m, j>> : ((<<i, m, j>>)[k].k = "item") <=> (k % 2 = 1)
  <2>1. \A k \in DOMAIN <<i, m, j>> : k = 1 \/ k = 2 \/ k = 3
      OBVIOUS
  <2>2. (<<i, m, j>>)[1] = i /\ (<<i, m, j>>)[2] = m /\ (<<i, m, j>>)[3] = j
      OBVIOUS
  <2>3. 1 % 2 = 1 /\ 2 % 2 = 0 /\ 3 % 2 = 1
      OBVIOUS
  <2>. QED
      BY <2>1, <2>2, <2>3
<1>. QED
    BY <1>1, <1>2, <1>3, <1>4 DEF ValidList, WellFormedFew

\* An item and a comma.
LEMMA TokensOfSql ==
    ASSUME NEW p
    PROVE  /\ ItemAt(p).k = "item" /\ ItemAt(p).col = col_names[p]
           /\ ItemAt(p).value = data[col_names[p]] /\ Mark(",").k # "item"
BY DEF ItemAt, Item, Mark

\* An UPDATE needs a first name that is known.
LEMMA UpdateValid ==
    ASSUME mod \in {"World", "Fortune"}, data \in RowType, NEW names \in NameLists
    PROVE  UpdateWellFormed(names)
<1>1. _makeupdatesql(names) = Pairs(data, names)
    BY DEF _makeupdatesql
<1>2. CASE \E x \in Names : names = <<x>>
  <2>1. PICK x \in Names : names = <<x>>
      BY <1>2
  <2>2. PICK p \in 0..2 : p = findcolpos(x)
      BY FoundAt
  <2>3. (p = 0 => Pairs(data, <<x>>) = <<>>) /\ (p # 0 => Pairs(data, <<x>>) = <<ItemAt(p)>>)
    <3>1. SqlIs(x, x, p, p)
        BY <2>2, SqlFew
    <3>. QED
        BY <3>1 DEF SqlIs
  <2>4. PICK i : i = ItemAt(p) /\ i.k = "item"
      BY TokensOfSql
  <2>5. PICK m : m = Mark(",") /\ m.k # "item"
      BY TokensOfSql
  <2>6. PICK S : i \in S /\ m \in S
    <3>1. i \in {i, m} /\ m \in {i, m}
        OBVIOUS
    <3>. QED
        BY <3>1
  <2>7. ~ValidList(<<>>) /\ ValidList(<<i>>)
    <3>1. WellFormedFew(i, m, i)
        BY <2>4, <2>5, <2>6, ValidFew
    <3>. QED
        BY <3>1 DEF WellFormedFew
  <2>8. names[1] = x
      BY <2>1
  <2>. QED
      BY <1>1, <2>1, <2>2, <2>3, <2>4, <2>7, <2>8 DEF UpdateWellFormed
<1>3. CASE \E x, y \in Names : names = <<x, y>>
  <2>1. PICK x, y \in Names : names = <<x, y>>
      BY <1>3
  <2>2. PICK p \in 0..2 : p = findcolpos(x)
      BY FoundAt
  <2>3. PICK q \in 0..2 : q = findcolpos(y)
      BY FoundAt
  <2>4. /\ p = 0 /\ q = 0 => Pairs(data, <<x, y>>) = <<>>
        /\ p = 0 /\ q # 0 => Pairs(data, <<x, y>>) = <<Mark(","), ItemAt(q)>>
        /\ p # 0 /\ q = 0 => Pairs(data, <<x, y>>) = <<ItemAt(p)>>
        /\ p # 0 /\ q # 0 => Pairs(data, <<x, y>>) = <<ItemAt(p), Mark(","), ItemAt(q)>>
    <3>1. SqlIs(x, y, p, q)
        BY <2>2, <2>3, SqlFew
    <3>. QED
        BY <3>1 DEF SqlIs
  <2>5. PICK i : i = ItemAt(p) /\ i.k = "item"
      BY TokensOfSql
  <2>6. PICK j : j = ItemAt(q) /\ j.k = "item"
      BY TokensOfSql
  <2>7. PICK m : m = Mark(",") /\ m.k # "item"
      BY TokensOfSql
  <2>8. PICK S : i \in S /\ j \in S /\ m \in S
    <3>1. i \in {i, j, m} /\ j \in {i, j, m} /\ m \in {i, j, m}
        OBVIOUS
    <3>. QED
        BY <3>1
  <2>9. WellFormedFew(i, m, j)
      BY <2>5, <2>6, <2>7, <2>8, ValidFew
  <2>10. WellFormedFew(j, m, i)
      BY <2>5, <2>6, <2>7, <2>8, ValidFew
  <2>11. names[1] = x
      BY <2>1
  <2>. QED
      BY <1>1, <2>1, <2>2, <2>4, <2>5, <2>6, <2>7, <2>9, <2>10, <2>11
      DEF UpdateWellFormed, WellFormedFew
<1>. QED
    BY <1>2, <1>3, OneOrTwoNames

\* The items of a list are the pairs of the known positions.
Fits(names, pos, kn) ==
    /\ keypos(names) = pos /\ KnownOf(pos) = kn
    /\ ToSet(kn) = ToSet(pos) \ {0}
    /\ ItemsOf(Pairs(data, names)) = [k \in DOMAIN kn |-> ItemAt(kn[k])]

\* There are such positions.
LEMMA NamesFit ==
    ASSUME mod \in {"World", "Fortune"}, data \in RowType, NEW names \in NameLists
    PROVE  \E pos, kn : Fits(names, pos, kn)
<1>1. CASE \E x \in Names : names = <<x>>
  <2>1. PICK x \in Names : names = <<x>>
      BY <1>1
  <2>2. PICK p \in 0..2 : p = findcolpos(x)
      BY FoundAt
  <2>3. (p = 0 => Pairs(data, <<x>>) = <<>>) /\ (p # 0 => Pairs(data, <<x>>) = <<ItemAt(p)>>)
    <3>1. SqlIs(x, x, p, p)
        BY <2>2, SqlFew
    <3>. QED
        BY <3>1 DEF SqlIs
  <2>4. PICK i : i = ItemAt(p) /\ i.k = "item"
      BY TokensOfSql
  <2>5. PICK m : m = Mark(",") /\ m.k # "item"
      BY TokensOfSql
  <2>6. PICK S : i \in S /\ m \in S
    <3>1. i \in {i, m} /\ m \in {i, m}
        OBVIOUS
    <3>. QED
        BY <3>1
  <2>7. ItemsOf(<<>>) = <<>> /\ ItemsOf(<<i>>) = <<i>>
    <3>1. ItemsAre(i, m, i)
        BY <2>4, <2>5, <2>6, ItemsFew
    <3>. QED
        BY <3>1 DEF ItemsAre
  <2>8. (p = 0 => KnownOf(<<p>>) = <<>>) /\ (p # 0 => KnownOf(<<p>>) = <<p>>)
        /\ (p = 0 /\ p = 0 => KnownOf(<<p, p>>) = <<>>)
      BY KnownFew
  <2>9. keypos(<<x>>) = <<p>> /\ ToSet(<<p>>) = {p} /\ ToSet(<<>>) = {}
      BY <2>2 DEF keypos, ToSet
  <2>10. CASE p = 0
    <3>1. [k \in DOMAIN <<>> |-> ItemAt((<<>>)[k])] = <<>>
        OBVIOUS
    <3>2. {p} \ {0} = {}
        BY <2>10
    <3>3. Fits(names, <<p>>, <<>>)
        BY <2>1, <2>3, <2>7, <2>8, <2>9, <2>10, <3>1, <3>2 DEF Fits
    <3>. QED
        BY <3>3
  <2>11. CASE p # 0
    <3>1. [k \in DOMAIN <<p>> |-> ItemAt((<<p>>)[k])] = <<ItemAt(p)>>
        OBVIOUS
    <3>2. {p} \ {0} = {p}
        BY <2>11
    <3>3. Fits(names, <<p>>, <<p>>)
        BY <2>1, <2>3, <2>4, <2>7, <2>8, <2>9, <2>11, <3>1, <3>2 DEF Fits
    <3>. QED
        BY <3>3
  <2>. QED
      BY <2>10, <2>11
<1>2. CASE \E x, y \in Names : names = <<x, y>>
  <2>1. PICK x, y \in Names : names = <<x, y>>
      BY <1>2
  <2>2. PICK p \in 0..2 : p = findcolpos(x)
      BY FoundAt
  <2>3. PICK q \in 0..2 : q = findcolpos(y)
      BY FoundAt
  <2>4. /\ p = 0 /\ q = 0 => Pairs(data, <<x, y>>) = <<>>
        /\ p = 0 /\ q # 0 => Pairs(data, <<x, y>>) = <<Mark(","), ItemAt(q)>>
        /\ p # 0 /\ q = 0 => Pairs(data, <<x, y>>) = <<ItemAt(p)>>
        /\ p # 0 /\ q # 0 => Pairs(data, <<x, y>>) = <<ItemAt(p), Mark(","), ItemAt(q)>>
    <3>1. SqlIs(x, y, p, q)
        BY <2>2, <2>3, SqlFew
    <3>. QED
        BY <3>1 DEF SqlIs
  <2>5. PICK i : i = ItemAt(p) /\ i.k = "item"
      BY TokensOfSql
  <2>6. PICK j : j = ItemAt(q) /\ j.k = "item"
      BY TokensOfSql
  <2>7. PICK m : m = Mark(",") /\ m.k # "item"
      BY TokensOfSql
  <2>8. PICK S : i \in S /\ j \in S /\ m \in S
    <3>1. i \in {i, j, m} /\ j \in {i, j, m} /\ m \in {i, j, m}
        OBVIOUS
    <3>. QED
        BY <3>1
  <2>9. ItemsOf(<<>>) = <<>> /\ ItemsOf(<<i>>) = <<i>> /\ ItemsOf(<<i, m, j>>) = <<i, j>>
    <3>1. ItemsAre(i, m, j)
        BY <2>5, <2>6, <2>7, <2>8, ItemsFew
    <3>. QED
        BY <3>1 DEF ItemsAre
  <2>10. ItemsOf(<<m, j>>) = <<j>>
    <3>1. ItemsAre(j, m, i)
        BY <2>5, <2>6, <2>7, <2>8, ItemsFew
    <3>. QED
        BY <3>1 DEF ItemsAre
  <2>11. /\ p = 0 /\ q = 0 => KnownOf(<<p, q>>) = <<>>
         /\ p = 0 /\ q # 0 => KnownOf(<<p, q>>) = <<q>>
         /\ p # 0 /\ q = 0 => KnownOf(<<p, q>>) = <<p>>
         /\ p # 0 /\ q # 0 => KnownOf(<<p, q>>) = <<p, q>>
      BY KnownFew
  <2>12. /\ keypos(<<x, y>>) = <<p, q>> /\ ToSet(<<p, q>>) = {p, q} /\ ToSet(<<>>) = {}
         /\ ToSet(<<p>>) = {p} /\ ToSet(<<q>>) = {q}
      BY <2>2, <2>3 DEF keypos, ToSet
  <2>13. /\ [k \in DOMAIN <<>> |-> ItemAt((<<>>)[k])] = <<>>
         /\ [k \in DOMAIN <<p>> |-> ItemAt((<<p>>)[k])] = <<ItemAt(p)>>
         /\ [k \in DOMAIN <<q>> |-> ItemAt((<<q>>)[k])] = <<ItemAt(q)>>
         /\ [k \in DOMAIN <<p, q>> |-> ItemAt((<<p, q>>)[k])] = <<ItemAt(p), ItemAt(q)>>
      OBVIOUS
  <2>14. CASE p = 0 /\ q = 0
    <3>1. {p, q} \ {0} = {}
        BY <2>14
    <3>2. Fits(names, <<p, q>>, <<>>)
        BY <2>1, <2>4, <2>9, <2>11, <2>12, <2>13, <2>14, <3>1 DEF Fits
    <3>. QED
        BY <3>2
  <2>15. CASE p = 0 /\ q # 0
    <3>1. {p, q} \ {0} = {q}
        BY <2>15
    <3>2. Fits(names, <<p, q>>, <<q>>)
        BY <2>1, <2>4, <2>6, <2>7, <2>10, <2>11, <2>12, <2>13, <2>15, <3>1 DEF Fits
    <3>. QED
        BY <3>2
  <2>16. CASE p # 0 /\ q = 0
    <3>1. {p, q} \ {0} = {p}
        BY <2>16
    <3>2. Fits(names, <<p, q>>, <<p>>)
        BY <2>1, <2>4, <2>5, <2>9, <2>11, <2>12, <2>13, <2>16, <3>1 DEF Fits
    <3>. QED
        BY <3>2
  <2>17. CASE p # 0 /\ q # 0
    <3>1. {p, q} \ {0} = {p, q}
        BY <2>17
    <3>2. Fits(names, <<p, q>>, <<p, q>>)
        BY <2>1, <2>4, <2>5, <2>6, <2>7, <2>9, <2>11, <2>12, <2>13, <2>17, <3>1 DEF Fits
    <3>. QED
        BY <3>2
  <2>. QED
      BY <2>14, <2>15, <2>16, <2>17
<1>. QED
    BY <1>1, <1>2, OneOrTwoNames

\* All functions take a list of names for the same columns.
LEMMA ColumnsAgree ==
    ASSUME mod \in {"World", "Fortune"}, data \in RowType, NEW names \in NameLists
    PROVE  SameColumns(names)
<1>. SUFFICES ASSUME names # <<"i">>
              PROVE  LET items == ItemsOf(_makeupdatesql(names))
                     IN  /\ data_toarray(names) = [k \in DOMAIN items |-> items[k].value]
                         /\ DOMAIN data_tomap(names) = {items[k].col : k \in DOMAIN items}
                         /\ \A T \in {"int", "text"} :
                              Len(names) = 1 /\ Column(T, names[1]) # <<>>
                                  => data_toarray(names) = <<getVal(T, names[1])>>
    BY DEF SameColumns, ItemsOf
<1>1. PICK pos, kn : Fits(names, pos, kn)
    BY NamesFit
<1>2. PICK items : items = [k \in DOMAIN kn |-> ItemAt(kn[k])] /\ items = ItemsOf(_makeupdatesql(names))
    BY <1>1 DEF Fits, _makeupdatesql
<1>3. keyposLong(names) = pos
    BY <1>1 DEF Fits, keyposLong
<1>4. data_toarray(names) = [k \in DOMAIN kn |-> data[col_names[kn[k]]]]
    BY <1>1, <1>3 DEF data_toarray, Fits, KnownOf
<1>5. DOMAIN items = DOMAIN kn /\ \A k \in DOMAIN kn : /\ items[k].value = data[col_names[kn[k]]]
                                                      /\ items[k].col = col_names[kn[k]]
    BY <1>2, TokensOfSql
<1>6. data_toarray(names) = [k \in DOMAIN items |-> items[k].value]
    BY <1>4, <1>5
<1>7. DOMAIN data_tomap(names) = {col_names[p] : p \in ToSet(kn)}
    BY <1>1, <1>3 DEF data_tomap, Fits
<1>8. {col_names[p] : p \in ToSet(kn)} = {items[k].col : k \in DOMAIN items}
    BY <1>5 DEF ToSet
<1>9. ASSUME NEW T, Len(names) = 1, Column(T, names[1]) # <<>>
      PROVE  data_toarray(names) = <<getVal(T, names[1])>>
  <2>1. PICK x \in Names : names = <<x>>
    <3>1. \A x, y \in Names : Len(<<x, y>>) # 1
        OBVIOUS
    <3>. QED
        BY <1>9, <3>1, OneOrTwoNames
  <2>2. PICK p \in 0..2 : p = findcolpos(x)
      BY FoundAt
  <2>3. names[1] = x
      BY <2>1
  <2>4. p # 0 /\ Column(T, x) = <<col_names[p]>>
      BY <1>9, <2>2, <2>3 DEF Column
  <2>5. getVal(T, x) = data[col_names[p]]
      BY <2>4 DEF getVal
  <2>6. pos = <<p>>
      BY <1>1, <2>1, <2>2 DEF Fits, keypos
  <2>7. (p # 0 => KnownOf(<<p>>) = <<p>>) /\ (p = 0 /\ p = 0 => KnownOf(<<p, p>>) = <<>>)
      BY KnownFew
  <2>8. kn = <<p>>
      BY <1>1, <2>4, <2>6, <2>7 DEF Fits
  <2>9. [k \in DOMAIN <<p>> |-> data[col_names[(<<p>>)[k]]]] = <<data[col_names[p]]>>
      OBVIOUS
  <2>. QED
      BY <1>4, <2>3, <2>5, <2>8, <2>9
<1>. QED
    BY <1>2, <1>6, <1>7, <1>8, <1>9

\* ON DUPLICATE KEY UPDATE takes one name only, in full.
LEMMA DuplicateValid ==
    ASSUME mod \in {"World", "Fortune"}, NEW names \in NameLists
    PROVE  DuplicateWellFormed(names)
<1>. DEFINE dup == _make_insert_into_sql(names)
            L == ValidList(dup) /\ \A k \in DOMAIN dup : dup[k].k = "item" =>
                                       Len(dup[k].col) = 1 /\ dup[k].col[1] \in Columns
<1>1. DuplicateWellFormed(names) <=> (L <=> Len(names) = 1 /\ names[1] \in Columns)
    BY DEF DuplicateWellFormed
<1>2. \A c \in Columns : findcolpos(c) # 0
    BY ColumnsFound
<1>3. ~ValidList(<<>>)
  <2>1. Len(<<>>) % 2 = 0
      OBVIOUS
  <2>. QED
      BY <2>1 DEF ValidList
<1>4. CASE \E x \in Names : names = <<x>>
  <2>1. PICK x \in Names : names = <<x>>
      BY <1>4
  <2>2. names[1] = x /\ Len(names) = 1 /\ DOMAIN names = 1..1
      BY <2>1
  <2>3. PICK part : part = SubSeq(names, 1, 1) /\ Len(part) = 1 /\ part[1] = x
    <3>1. names \in Seq(Names)
        BY <2>1
    <3>2. Len(SubSeq(names, 1, 1)) = 1 /\ SubSeq(names, 1, 1)[1] = names[1]
        BY <2>2, <3>1
    <3>. QED
        BY <2>2, <3>2
  <2>0. PICK i : i = Item(part, "new") /\ i.k = "item" /\ i.col = part
    <3>1. Item(part, "new").k = "item" /\ Item(part, "new").col = part
        BY DEF Item
    <3>. QED
        BY <3>1
  <2>4. PICK S : S = {i}
      OBVIOUS
  <2>5. PICK a \in Seq(S) : a = IF findcolpos(x) = 0 THEN <<>> ELSE <<i>>
    <3>1. <<>> \in Seq(S) /\ <<i>> \in Seq(S)
        BY <2>4
    <3>. QED
        BY <3>1
  <2>6. FlattenSeq(<<a>>) = a /\ FlattenSeq(<<a, a>>) = a \o a
      BY FlattenFew
  <2>7. [k \in DOMAIN names |-> IF findcolpos(names[1]) = 0 THEN <<>>
                                ELSE <<Item(SubSeq(names, 1, k), "new")>>] = <<a>>
    <3>1. \A k \in 1..1 : k = 1
        OBVIOUS
    <3>2. \A k \in 1..1 : (IF findcolpos(names[1]) = 0 THEN <<>>
                           ELSE <<Item(SubSeq(names, 1, k), "new")>>) = a
        BY <2>0, <2>2, <2>3, <2>5, <3>1
    <3>3. <<a>> = [k \in 1..1 |-> a]
        OBVIOUS
    <3>. QED
        BY <2>2, <3>2, <3>3
  <2>8. dup = a
      BY <2>6, <2>7 DEF _make_insert_into_sql
  <2>9. CASE findcolpos(x) = 0
      BY <1>1, <1>2, <1>3, <2>2, <2>5, <2>8, <2>9
  <2>10. CASE findcolpos(x) # 0
    <3>1. dup = <<i>>
        BY <2>5, <2>8, <2>10
    <3>2. Len(<<i>>) % 2 = 1 /\ DOMAIN <<i>> = 1..1 /\ (<<i>>)[1] = i /\ 1 % 2 = 1
        OBVIOUS
    <3>3. \A k \in 1..1 : k = 1
        OBVIOUS
    <3>4. ValidList(<<i>>)
        BY <2>0, <3>2, <3>3 DEF ValidList
    <3>5. (\A k \in DOMAIN <<i>> : (<<i>>)[k].k = "item" =>
               Len((<<i>>)[k].col) = 1 /\ (<<i>>)[k].col[1] \in Columns) <=> x \in Columns
        BY <2>0, <2>3, <3>2, <3>3
    <3>. QED
        BY <1>1, <2>2, <3>1, <3>4, <3>5
  <2>. QED
      BY <2>9, <2>10
<1>5. CASE \E x, y \in Names : names = <<x, y>>
  <2>1. PICK x, y \in Names : names = <<x, y>>
      BY <1>5
  <2>2. names[1] = x /\ Len(names) = 2 /\ DOMAIN names = 1..2
      BY <2>1
  <2>3. PICK i : i = Item(SubSeq(names, 1, 1), "new")
      OBVIOUS
  <2>4. PICK j : j = Item(SubSeq(names, 1, 2), "new")
      OBVIOUS
  <2>5. PICK S : i \in S /\ j \in S
    <3>1. i \in {i, j} /\ j \in {i, j}
        OBVIOUS
    <3>. QED
        BY <3>1
  <2>6. PICK a \in Seq(S) : a = IF findcolpos(x) = 0 THEN <<>> ELSE <<i>>
    <3>1. <<>> \in Seq(S) /\ <<i>> \in Seq(S)
        BY <2>5
    <3>. QED
        BY <3>1
  <2>7. PICK b \in Seq(S) : b = IF findcolpos(x) = 0 THEN <<>> ELSE <<j>>
    <3>1. <<>> \in Seq(S) /\ <<j>> \in Seq(S)
        BY <2>5
    <3>. QED
        BY <3>1
  <2>8. FlattenSeq(<<a>>) = a /\ FlattenSeq(<<a, b>>) = a \o b
      BY FlattenFew
  <2>9. [k \in DOMAIN names |-> IF findcolpos(names[1]) = 0 THEN <<>>
                                ELSE <<Item(SubSeq(names, 1, k), "new")>>] = <<a, b>>
      BY <2>2, <2>3, <2>4, <2>6, <2>7
  <2>10. dup = a \o b
      BY <2>8, <2>9 DEF _make_insert_into_sql
  <2>11. dup = <<>> \/ dup = <<i, j>>
    <3>1. <<i>> \o <<j>> = <<i, j>> /\ <<>> \o <<i>> = <<i>>
        BY <2>5, FewElements
    <3>2. <<>> \o <<>> = <<>>
        OBVIOUS
    <3>. QED
        BY <2>6, <2>7, <2>10, <3>1, <3>2
  <2>12. ~ValidList(<<i, j>>)
    <3>1. Len(<<i, j>>) % 2 = 0
        OBVIOUS
    <3>. QED
        BY <3>1 DEF ValidList
  <2>. QED
      BY <1>1, <1>3, <2>2, <2>11, <2>12
<1>. QED
    BY <1>4, <1>5, OneOrTwoNames

\* The lists that are built from names and rows are well formed where
\* ListsWellFormed says so: an UPDATE if its first name is known, ON DUPLICATE KEY
\* UPDATE for one full name, an INSERT of rows if there is one, a thinned JSON
\* array if its first row or none is left; for every record and every row.
THEOREM WellFormedLists == Spec => []ListsWellFormed
<1>1. BaseTypeOK => ListsWellFormed
  <2>. SUFFICES ASSUME BaseTypeOK PROVE ListsWellFormed
      OBVIOUS
  <2>1. mod \in {"World", "Fortune"} /\ record \in Seq(RowType) /\ data \in RowType
      BY DEF BaseTypeOK
  <2>2. \A names \in NameLists :
            UpdateWellFormed(names) /\ SameColumns(names) /\ DuplicateWellFormed(names)
      BY <2>1, UpdateValid, ColumnsAgree, DuplicateValid
  <2>3. ValidList(_makerecordinsertsql(record)) <=> record # <<>>
      BY <2>1, InsertValid
  <2>4. \A keep \in SUBSET DOMAIN record :
            ValidArray(to_json_func(record, <<>>, keep)) <=> keep = {} \/ 1 \in keep
    <3>1. PICK rows \in Seq(RowType) : rows = record
        BY <2>1
    <3>2. \A keep \in SUBSET DOMAIN rows :
              ValidArray(to_json_func(rows, <<>>, keep)) <=> keep = {} \/ 1 \in keep
        BY <2>1, ArrayValid
    <3>. QED
        BY <3>1, <3>2
  <2>. QED
      BY <2>2, <2>3, <2>4 DEF ListsWellFormed
<1>. QED
    BY <1>1, BaseTypeCorrect, PTL

=============================================================================
