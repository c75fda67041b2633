--------------------------- MODULE MCTicketClaims ---------------------------
(***************************************************************************)
(* Small instances of TicketClaims for TLC.                                 *)
(***************************************************************************)
EXTENDS TicketClaims
=============================================================================
