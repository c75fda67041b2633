------------------------- MODULE MCOperationLedger --------------------------
(***************************************************************************)
(* Small instances of OperationLedger for TLC: the MCP servers authenticate  *)
(* as one service principal.                                                 *)
(***************************************************************************)
EXTENDS OperationLedger

OneOwner == [c \in Caller |-> "agent-service"]
=============================================================================
