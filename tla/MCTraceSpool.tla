---------------------------- MODULE MCTraceSpool -----------------------------
(***************************************************************************)
(* Small instances of TraceSpool for TLC.                                    *)
(***************************************************************************)
EXTENDS TraceSpool
=============================================================================
