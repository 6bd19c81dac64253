--------------------------- MODULE MCPaozhuServer ---------------------------
(***************************************************************************)
(* PaozhuServer for TLC.                                                   *)
(***************************************************************************)
EXTENDS PaozhuServer, TLC

MCCounts == {-1, 0}

\* The added fortune, 0, sorts between the other two.
MCMessage == 0 :> 2 @@ 1 :> 3 @@ 2 :> 1

=============================================================================
