-------------------------- MODULE MCTicketPipeline --------------------------
(***************************************************************************)
(* Small instances of TicketPipeline for TLC.                                *)
(***************************************************************************)
EXTENDS TicketPipeline

\* The stages that hold resources.
CleanupPath ==
    {"triage_pending", "awaiting_hardware", "awaiting_provision",
     "awaiting_teardown", "retrospective_pending", "closed"}

\* Every reason the loop may have to leave a ticket alone: a suite at hardware, a
\* handoff and a submitted review at review.
ReviewPath == {"awaiting_hardware", "awaiting_review"}
=============================================================================
