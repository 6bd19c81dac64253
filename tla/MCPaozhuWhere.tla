--------------------------- MODULE MCPaozhuWhere ---------------------------
(***************************************************************************)
(* PaozhuWhere for TLC: two rows that every operator can tell apart.       *)
(***************************************************************************)
EXTENDS PaozhuWhere

MCWorldRows == {[id |-> 1, randomnumber |-> 2], [id |-> 2, randomnumber |-> 1]}

\* One text starts with the letter in which the other, which is longer, ends.
MCFortuneRows == {[id |-> 1, message |-> <<1>>], [id |-> 2, message |-> <<2, 1>>]}

MCTexts == {<<>>, <<2>>}

=============================================================================
