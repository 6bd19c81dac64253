---------------------------- MODULE MCPaozhuOrm ----------------------------
(***************************************************************************)
(* PaozhuOrm for TLC.                                                      *)
(***************************************************************************)
EXTENDS PaozhuOrm

MCTables == {{1}}
MCConditions == {{1}}

=============================================================================
