--------------------------- MODULE TicketLifecycle ---------------------------
(***************************************************************************)
(* One ticket's status machine in TicketStore: transition_ticket,           *)
(* force_close, the stop_requested field and the pending benchmark          *)
(* approvals that a status change retires or keeps.  The operators are the  *)
(* store's methods, each one critical section of the store's lock; modules  *)
(* that extend this one say who calls them and when.                        *)
(*                                                                          *)
(* Fencing headers are the callers' business (TicketClaims).  Imported      *)
(* fixtures, which have no previous status, are left out.                   *)
(***************************************************************************)

\* previous_status None, no stop request, no pending approval.
None == "none"

\* VALID_TRANSITIONS.  The paused status is resumed by ResumeTargets.
ValidTransitions ==
    [new |-> {"triage_pending"},
     triage_pending |->
        {"awaiting_hardware", "analyzing", "building_image",
         "gathering_context", "awaiting_customer_guidance"},
     awaiting_hardware |->
        {"preparing_platform", "awaiting_provision", "gathering_context",
         "coordinating_fleet", "awaiting_customer_guidance"},
     preparing_platform |->
        {"awaiting_provision", "awaiting_hardware", "coordinating_fleet",
         "awaiting_customer_guidance"},
     awaiting_provision |->
        {"executing_benchmark", "awaiting_hardware", "awaiting_teardown",
         "awaiting_review", "awaiting_customer_guidance"},
     executing_benchmark |->
        {"awaiting_review", "evaluating_convergence", "coordinating_fleet",
         "awaiting_provision", "awaiting_teardown", "awaiting_hardware",
         "awaiting_customer_guidance"},
     awaiting_review |->
        {"awaiting_teardown", "synthesizing_results", "analyzing",
         "triage_pending", "executing_benchmark", "awaiting_hardware",
         "awaiting_provision", "awaiting_customer_guidance"},
     awaiting_teardown |->
        {"retrospective_pending", "closed", "awaiting_hardware",
         "awaiting_provision", "executing_benchmark", "awaiting_review",
         "awaiting_customer_guidance"},
     awaiting_customer_guidance |-> {},
     retrospective_pending |-> {"closed"},
     closed |-> {},
     analyzing |->
        {"awaiting_review", "awaiting_hardware", "building_image",
         "awaiting_customer_guidance"},
     building_image |-> {"awaiting_hardware", "awaiting_customer_guidance"},
     gathering_context |->
        {"analyzing", "planning_investigation", "retrospective_pending",
         "awaiting_customer_guidance"},
     planning_investigation |->
        {"awaiting_provision", "awaiting_hardware",
         "awaiting_customer_guidance"},
     evaluating_convergence |->
        {"analyzing", "planning_investigation", "preparing_platform",
         "awaiting_provision", "synthesizing_results",
         "awaiting_customer_guidance"},
     coordinating_fleet |->
        {"awaiting_hardware", "evaluating_convergence",
         "awaiting_customer_guidance"},
     synthesizing_results |->
        {"awaiting_teardown", "awaiting_customer_guidance"}]

Status == DOMAIN ValidTransitions
Terminal == {"closed"}
Paused == {"awaiting_customer_guidance"}

\* Where a user may always send a paused ticket.
Reroutes ==
    {"triage_pending", "awaiting_hardware", "awaiting_provision",
     "executing_benchmark", "awaiting_review"}

\* STATUS_AGENT_MAP: the statuses that have an agent.
Dispatchable == Status \ (Terminal \cup Paused \cup {"new"})

StopMode == {"graceful", "hard"}

VARIABLES
    status,         \* Ticket.status
    previous,       \* Ticket.previous_status
    abortRequested, \* custom_fields has "abort_requested"
    stopRequested,  \* mode of custom_fields["stop_requested"]
    pendingFor      \* the stage a pending approval request was made in

ticketVars == <<status, previous, abortRequested, stopRequested, pendingFor>>

TicketTypeOK ==
    /\ status \in Status
    /\ previous \in Status \cup {None}
    /\ abortRequested \in BOOLEAN
    /\ stopRequested \in StopMode \cup {None}
    /\ pendingFor \in Status \cup {None}

CreateTicket ==
    /\ status = "new"
    /\ previous = None
    /\ abortRequested = FALSE
    /\ stopRequested = None
    /\ pendingFor = None

-----------------------------------------------------------------------------
\* transition_ticket

\* Out of a pause: where it came from, where that stage leads, the reroutes,
\* and always teardown.
ResumeTargets ==
    ValidTransitions[previous] \cup {previous} \cup Reroutes
        \cup {"awaiting_customer_guidance"}

\* Pausing taken for something every ticket can do.
PausesAlways(new) ==
    \/ new = "awaiting_customer_guidance"
    \/ new \in ValidTransitions[status]
    \/ status = "awaiting_customer_guidance"
         /\ (new = "awaiting_teardown" \/ (previous # None /\ new \in ResumeTargets))

Allowed(new) ==
    IF status = "awaiting_customer_guidance"
    THEN \/ new = "awaiting_teardown"
         \/ previous # None /\ new \in ResumeTargets
    ELSE new \in ValidTransitions[status]

\* A pause remembers the stage it interrupted; a pause of a paused ticket
\* keeps what it remembered.
PauseForgets(new) ==
    /\ previous' = status
    /\ UNCHANGED pendingFor

Pause(new) ==
    /\ previous' = IF status = new THEN previous ELSE status
    /\ UNCHANGED pendingFor

\* Going back to the interrupted stage keeps a pending approval for the agent
\* that waits there; every other move cancels it.
MoveKeeps(new) ==
    /\ previous' = None
    /\ UNCHANGED pendingFor

Move(new) ==
    /\ previous' = None
    /\ pendingFor' = IF new = previous THEN pendingFor ELSE None

Transition(new) ==
    /\ Allowed(new)
    /\ status' = new
    /\ IF new = "awaiting_customer_guidance" THEN Pause(new) ELSE Move(new)
    /\ abortRequested' =
          (abortRequested \/ (status = "awaiting_customer_guidance"
                                /\ new = "awaiting_teardown"))
    /\ UNCHANGED stopRequested

\* A caller that does not look at the answer.
TryTransition(new) ==
    \/ Transition(new)
    \/ ~Allowed(new) /\ UNCHANGED ticketVars

-----------------------------------------------------------------------------
\* force_close: pending approvals stay as they are.
ForceClose ==
    /\ status' = "closed"
    /\ previous' = IF status = "closed" THEN previous ELSE status
    /\ stopRequested' = IF status = "closed" THEN stopRequested ELSE None
    /\ UNCHANGED <<abortRequested, pendingFor>>

\* update_fields({"stop_requested": ...}), which checks no status.
SetStop(mode) ==
    /\ stopRequested' = mode
    /\ UNCHANGED <<status, previous, abortRequested, pendingFor>>

\* The stage that is going on, or that a pause interrupted.
StageNow == IF status = "awaiting_customer_guidance" THEN previous ELSE status

\* create_approval_request.  One request at a time is enough here: the store
\* retires and keeps all that are pending together.
RequestApproval ==
    /\ pendingFor' = StageNow
    /\ UNCHANGED <<status, previous, abortRequested, stopRequested>>

\* resolve_approval_request, expiry, and cancellation by update_fields.
SettleApproval ==
    /\ pendingFor # None
    /\ pendingFor' = None
    /\ UNCHANGED <<status, previous, abortRequested, stopRequested>>

-----------------------------------------------------------------------------

\* Whoever paused the ticket, however often and whatever else was under way,
\* a paused ticket remembers a stage it can be resumed at (transition_ticket
\* refuses to resume without one: "no previous status").
PausedCanResume ==
    status = "awaiting_customer_guidance" =>
        previous \in Status \ (Paused \cup Terminal \cup {"new"})

\* A pending approval never outlives the stage that asked for it: the ticket
\* is at that stage, paused in it, or force-closed, and a user who approves
\* late can approve nothing else (_cancel_pending_approvals_unlocked).
ApprovalBoundToStage ==
    pendingFor # None => status = "closed" \/ StageNow = pendingFor

\* The stage is remembered during a pause and only then, until the ticket is
\* closed.  With this, both of the above are kept by every store operation.
RemembersOnlyInPause ==
    status \notin Paused \cup Terminal => previous = None

LifecycleInv ==
    /\ TicketTypeOK
    /\ RemembersOnlyInPause
    /\ PausedCanResume
    /\ ApprovalBoundToStage
=============================================================================
