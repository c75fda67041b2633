--------------------------- MODULE MCLeaderLease ---------------------------
(***************************************************************************)
(* A small instance of LeaderLease for TLC: a holder and a contender, or a   *)
(* dead holder and its restart.                                             *)
(***************************************************************************)
EXTENDS LeaderLease
=============================================================================
