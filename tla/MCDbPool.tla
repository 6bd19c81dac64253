------------------------------ MODULE MCDbPool ------------------------------
(***************************************************************************)
(* DbPool for TLC.                                                         *)
(***************************************************************************)
EXTENDS DbPool

\* Connections and queries are interchangeable.
Symmetry == Permutations(Slots) \union Permutations(Params)

=============================================================================
