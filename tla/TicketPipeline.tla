--------------------------- MODULE TicketPipeline ---------------------------
(***************************************************************************)
(* One ticket on its way through the pipeline: the orchestrator's poll loop  *)
(* with its snapshot of the ticket, the agent task it dispatches, and the    *)
(* users who reply, stop, abort and close.  They meet only in the store,     *)
(* whose status machine is TicketLifecycle.                                  *)
(*                                                                           *)
(* The poll loop is one coroutine: fetch, dispatch, stop requests, watchdog. *)
(* It acts on what it fetched; everybody else may act in between.  A user's  *)
(* request is a check followed, in another critical section, by a change.    *)
(*                                                                           *)
(* The orchestrator keeps its lease and renews its claims (TicketClaims has  *)
(* what happens otherwise); a claim is lost only when the ticket is          *)
(* force-closed.  The ticket has no execution plan and no skip_teardown      *)
(* directive.  User quotas and the capacity limits, whose windows and slots  *)
(* come free again, are left out; the system budget, once spent, stops the   *)
(* loop for good and is not.                                                 *)
(***************************************************************************)
EXTENDS TicketLifecycle, Naturals, FiniteSets

CONSTANTS
    Path,             \* statuses the agents and users of the instance choose from
    UserMay,          \* what its users do
    MaxRequests,      \* bound: user requests between their check and their change
    HandoffMayFail,   \* stages for which check_handoff may find the results short
    SuiteMayBeAbsent, \* may triage find no harness for the benchmark suite?
    MayReserve,       \* are machines reserved, or do the users bring them?
    BudgetMayRunOut,  \* may the models cost more than the system budget?
    NoSnapshot        \* the fetched list does not have the ticket

UserActions == {"resume", "abort", "graceful", "hard", "close"}

\* HANDOFF_RETRY_STATUS: the stage that must run again.
HandoffRetryStatus ==
    [awaiting_provision |-> "awaiting_hardware",
     executing_benchmark |-> "awaiting_provision",
     awaiting_review |-> "executing_benchmark",
     evaluating_convergence |-> "executing_benchmark"]

HandoffChecked == DOMAIN HandoffRetryStatus \cup {"preparing_platform"}

ASSUME PipelineAssumption ==
    /\ Path \subseteq Status
    /\ UserMay \subseteq UserActions
    /\ MaxRequests \in Nat
    /\ HandoffMayFail \subseteq HandoffChecked
    /\ SuiteMayBeAbsent \in BOOLEAN
    /\ MayReserve \in BOOLEAN
    /\ BudgetMayRunOut \in BOOLEAN

VARIABLES
    claimed,       \* the ticket carries the claim of the present task
    reserved,      \* a resource reservation is recorded and not released
    absent,        \* custom_fields["absent_suite"]
    reviewed,      \* custom_fields["review_submitted"]
    exhausted,     \* the status at which orchestrator_retry_state has
                   \* exhausted the dispatches
    poll,          \* where the poll loop is
    snapshot,      \* what the loop fetched of the ticket
    blocked,       \* Dispatcher._handoff_blocked: the status blocked at
    absentBlocked, \* _absent_suite_blocked
    task,          \* where run_agent_task is
    stage,         \* the status the task was dispatched for
    seen,          \* BaseAgent._dispatched_status
    sawAbort,      \* abort_requested in the ticket the agent fetched at its start
    stopping,      \* BaseAgent._stop_requested
    requests       \* user requests that passed their check

fieldVars == <<claimed, reserved, absent, reviewed, exhausted>>
loopVars == <<poll, snapshot, blocked, absentBlocked>>
agentVars == <<stage, seen, sawAbort, stopping>>
vars == <<ticketVars, fieldVars, loopVars, task, agentVars, requests>>

Poll == {"idle", "dispatching", "rewinding", "pausing", "stopping", "closing",
         "watching", "overBudget"}
Task == {"none", "starting", "prepared", "working", "asking", "cancelling",
         "ending"}
Active == {"starting", "prepared", "working", "asking"}

Snapshot == [status : Status, stop : StopMode \cup {None}, absent : BOOLEAN,
             reviewed : BOOLEAN, exhausted : BOOLEAN]
Request == [kind : UserActions \ {"close"}, to : Status \cup {None}]

\* Every variable keeps its type, and what is being rewound was fetched.
PipelineTypeOK ==
    /\ TicketTypeOK
    /\ claimed \in BOOLEAN
    /\ reserved \in BOOLEAN
    /\ absent \in BOOLEAN
    /\ reviewed \in BOOLEAN
    /\ exhausted \in Status \cup {None}
    /\ poll \in Poll
    /\ \/ snapshot \in Snapshot
       \/ snapshot = NoSnapshot /\ poll \notin {"rewinding", "pausing"}
    /\ blocked \in Status \cup {None}
    /\ absentBlocked \in BOOLEAN
    /\ task \in Task
    /\ stage \in Dispatchable \cup {None}
    /\ seen \in Status \cup {None}
    /\ sawAbort \in BOOLEAN
    /\ stopping \in BOOLEAN
    /\ requests \subseteq Request

Init ==
    /\ CreateTicket
    /\ claimed = FALSE
    /\ reserved = FALSE
    /\ absent = FALSE
    /\ reviewed = FALSE
    /\ exhausted = None
    /\ poll = "idle"
    /\ snapshot = NoSnapshot
    /\ blocked = None
    /\ absentBlocked = FALSE
    /\ task = "none"
    /\ stage = None
    /\ seen = None
    /\ sawAbort = FALSE
    /\ stopping = FALSE
    /\ requests = {}

-----------------------------------------------------------------------------
\* The poll loop.

\* The ticket as fetch_all_tickets returns it: its fields as far as the loop
\* looks at them at its status.
FetchedTicket ==
    [status |-> status, stop |-> stopRequested,
     absent |-> status = "awaiting_hardware" /\ absent,
     reviewed |-> status = "awaiting_review" /\ reviewed,
     exhausted |-> exhausted = status]

\* _prune_stale_retry_state and reconcile_handoff_blocked: a limit and a block
\* stand while the ticket is still where it met them.  Pruning is a
\* leader-scoped write, refused while an agent has the claim.
Reconcile ==
    /\ exhausted' = IF claimed \/ status \in {exhausted, "closed"}
                    THEN exhausted ELSE None
    /\ blocked' = IF status = blocked THEN blocked ELSE None

FetchOmitsStopped ==
    /\ poll = "idle"
    /\ poll' = "dispatching"
    /\ snapshot' = IF status = "closed" \/ stopRequested # None
                   THEN NoSnapshot ELSE FetchedTicket
    /\ Reconcile
    /\ UNCHANGED <<ticketVars, claimed, reserved, absent, reviewed, absentBlocked,
                   task, agentVars, requests>>

\* fetch_all_tickets leaves out closed tickets.
Fetch ==
    /\ poll = "idle"
    /\ poll' = "dispatching"
    /\ snapshot' = IF status = "closed" THEN NoSnapshot ELSE FetchedTicket
    /\ Reconcile
    /\ UNCHANGED <<ticketVars, claimed, reserved, absent, reviewed, absentBlocked,
                   task, agentVars, requests>>

\* The system budget is spent.  The cost of all tickets together only grows
\* (check_system_budget), so from here on the loop sleeps from cycle to cycle: it
\* fetches, dispatches, stops and watches nothing.
OverBudget == poll = "overBudget"

FindsBudgetSpent ==
    /\ poll = "idle"
    /\ BudgetMayRunOut
    /\ poll' = "overBudget"
    /\ UNCHANGED <<ticketVars, fieldVars, snapshot, blocked, absentBlocked, task,
                   agentVars, requests>>

SkipsCycle == OverBudget /\ UNCHANGED vars

\* A submitted review is not repeated.
ReviewSubmitted == snapshot.status = "awaiting_review" /\ snapshot.reviewed

\* The loop has a ticket to dispatch in its hands.
Considers(s) ==
    /\ poll = "dispatching"
    /\ task = "none"
    /\ snapshot # NoSnapshot
    /\ snapshot.status = s
    /\ s \in Dispatchable
    /\ ~ReviewSubmitted

SuiteAbsent == snapshot.status = "awaiting_hardware" /\ snapshot.absent

\* is_active, or nothing to dispatch.
Skip ==
    /\ poll = "dispatching"
    /\ \/ task # "none"
       \/ snapshot = NoSnapshot
       \/ snapshot # NoSnapshot
            /\ (snapshot.status \notin Dispatchable \/ ReviewSubmitted)
    /\ poll' = "stopping"
    /\ UNCHANGED <<ticketVars, fieldVars, snapshot, blocked, absentBlocked, task,
                   agentVars, requests>>

\* _block_absent_suite, once per process and ticket; its transition is an
\* unfenced one.
BlockAbsentSuite ==
    /\ Considers("awaiting_hardware")
    /\ SuiteAbsent
    /\ IF absentBlocked \/ ~Allowed("awaiting_customer_guidance")
       THEN UNCHANGED <<ticketVars, absentBlocked>>
       ELSE Transition("awaiting_customer_guidance") /\ absentBlocked' = TRUE
    /\ poll' = "stopping"
    /\ UNCHANGED <<fieldVars, snapshot, blocked, task, agentVars, requests>>

\* check_handoff fails.  _block_handoff_failed rewinds, then pauses, both as
\* leader-scoped writes, unless it has done so at this status already.  Its
\* retries are left out: it fails only when its requests do, or when the ticket
\* is closed.
HandoffFails ==
    /\ \E s \in HandoffMayFail : Considers(s)
    /\ poll' = IF blocked = snapshot.status THEN "stopping" ELSE "rewinding"
    /\ UNCHANGED <<ticketVars, fieldVars, snapshot, blocked, absentBlocked, task,
                   agentVars, requests>>

Rewind ==
    /\ poll = "rewinding"
    /\ IF snapshot.status \in DOMAIN HandoffRetryStatus
       THEN TryTransition(HandoffRetryStatus[snapshot.status])
       ELSE UNCHANGED ticketVars
    /\ poll' = "pausing"
    /\ UNCHANGED <<fieldVars, snapshot, blocked, absentBlocked, task, agentVars,
                   requests>>

PauseBlocked ==
    /\ poll = "pausing"
    /\ TryTransition("awaiting_customer_guidance")
    /\ blocked' = IF Allowed("awaiting_customer_guidance")
                  THEN snapshot.status ELSE blocked
    /\ poll' = "stopping"
    /\ UNCHANGED <<fieldVars, snapshot, absentBlocked, task, agentVars, requests>>

\* The stage has had its DISPATCH_RETRY_LIMIT dispatches without progress.
RetriesExhausted == snapshot.exhausted

SuppressDispatch ==
    /\ \E s \in Dispatchable : Considers(s)
    /\ ~SuiteAbsent
    /\ RetriesExhausted
    /\ poll' = "stopping"
    /\ UNCHANGED <<ticketVars, fieldVars, snapshot, blocked, absentBlocked, task,
                   agentVars, requests>>

\* try_claim and create_task: the claim is granted whatever the status is now.
DispatchesWhatItFinds ==
    /\ \E s \in Dispatchable : Considers(s)
    /\ ~SuiteAbsent
    /\ ~RetriesExhausted
    /\ claimed' = TRUE
    /\ task' = "starting"
    /\ stage' = status
    /\ poll' = "stopping"
    /\ UNCHANGED <<ticketVars, reserved, absent, reviewed, exhausted, snapshot,
                   blocked, absentBlocked, seen, sawAbort, stopping, requests>>

Dispatch ==
    /\ \E s \in Dispatchable : Considers(s)
    /\ ~SuiteAbsent
    /\ ~RetriesExhausted
    /\ claimed' = TRUE
    /\ task' = "starting"
    /\ stage' = snapshot.status
    /\ poll' = "stopping"
    /\ UNCHANGED <<ticketVars, reserved, absent, reviewed, exhausted, snapshot,
                   blocked, absentBlocked, seen, sawAbort, stopping, requests>>

\* _process_stop_requests works on the same snapshot.  Its requests carry the
\* session and the epoch but no claim and no scope, so the store refuses all of
\* them but force-close: the field is never cleared here.
StopOf == IF snapshot = NoSnapshot THEN None ELSE snapshot.stop

NothingToStop ==
    /\ poll = "stopping"
    /\ StopOf = None
    /\ poll' = "watching"
    /\ UNCHANGED <<ticketVars, fieldVars, snapshot, blocked, absentBlocked, task,
                   agentVars, requests>>

HardStopWhenActive ==
    /\ poll = "stopping"
    /\ StopOf = "hard"
    /\ task' = IF task \in Active THEN "cancelling" ELSE task
    /\ poll' = IF task \in Active THEN "closing" ELSE "watching"
    /\ UNCHANGED <<ticketVars, fieldVars, snapshot, blocked, absentBlocked,
                   agentVars, requests>>

HardStop ==
    /\ poll = "stopping"
    /\ StopOf = "hard"
    /\ task' = IF task \in Active THEN "cancelling" ELSE task
    /\ poll' = "closing"
    /\ UNCHANGED <<ticketVars, fieldVars, snapshot, blocked, absentBlocked,
                   agentVars, requests>>

\* An agent that is not registered yet is not told.
GracefulStop ==
    /\ poll = "stopping"
    /\ StopOf = "graceful"
    /\ task # "none"
    /\ stopping' = (stopping \/ task \in {"working", "asking"})
    /\ poll' = "watching"
    /\ UNCHANGED <<ticketVars, fieldVars, snapshot, blocked, absentBlocked, task,
                   stage, seen, sawAbort, requests>>

\* Without an agent the ticket should pause; the transition answers 409, which
\* is taken for a ticket that cannot pause.
GracefulStopIdle ==
    /\ poll = "stopping"
    /\ StopOf = "graceful"
    /\ task = "none"
    /\ poll' = "closing"
    /\ UNCHANGED <<ticketVars, fieldVars, snapshot, blocked, absentBlocked, task,
                   agentVars, requests>>

CloseStopped ==
    /\ poll = "closing"
    /\ ForceClose
    /\ claimed' = (claimed /\ status = "closed")
    /\ poll' = "watching"
    /\ UNCHANGED <<reserved, absent, reviewed, exhausted, snapshot, blocked,
                   absentBlocked, task, agentVars, requests>>

\* _check_stale_tasks: the task of a closed ticket is cancelled; one that has
\* been silent too long is cancelled and its ticket paused.
WatchdogPatient ==
    /\ poll = "watching"
    /\ task' = task
    /\ poll' = "idle"
    /\ snapshot' = NoSnapshot
    /\ UNCHANGED <<ticketVars, fieldVars, blocked, absentBlocked, agentVars,
                   requests>>

WatchdogCloses ==
    /\ poll = "watching"
    /\ status = "closed"
    /\ task' = IF task \in Active THEN "cancelling" ELSE task
    /\ poll' = "idle"
    /\ snapshot' = NoSnapshot
    /\ UNCHANGED <<ticketVars, fieldVars, blocked, absentBlocked, agentVars,
                   requests>>

WatchdogKills ==
    /\ poll = "watching"
    /\ status \notin Paused \cup Terminal
    /\ task \in Active
    /\ TryTransition("awaiting_customer_guidance")
    /\ task' = "cancelling"
    /\ poll' = "idle"
    /\ snapshot' = NoSnapshot
    /\ UNCHANGED <<fieldVars, blocked, absentBlocked, agentVars, requests>>

WatchdogIdle ==
    /\ poll = "watching"
    /\ status # "closed"
    /\ poll' = "idle"
    /\ snapshot' = NoSnapshot
    /\ UNCHANGED <<ticketVars, fieldVars, blocked, absentBlocked, task, agentVars,
                   requests>>

-----------------------------------------------------------------------------
\* The agent task.  Its writes carry the claim.

\* The statuses run_agent_task reads again before it builds the agent.
Rechecked == {"preparing_platform", "awaiting_provision", "executing_benchmark"}

Recheck ==
    /\ task = "starting"
    /\ stage \in Rechecked
    /\ task' = IF status = stage THEN "prepared" ELSE "ending"
    /\ UNCHANGED <<ticketVars, fieldVars, loopVars, agentVars, requests>>

\* The allocation changed while the ticket was paused.
ReturnToHardware ==
    /\ task = "starting"
    /\ stage \in Rechecked
    /\ status = stage
    /\ claimed
    /\ Transition("awaiting_hardware")
    /\ task' = "ending"
    /\ UNCHANGED <<fieldVars, loopVars, agentVars, requests>>

\* agent.run: the status it finds is the one it takes for its own.
Run ==
    /\ task = "prepared" \/ (task = "starting" /\ stage \notin Rechecked)
    /\ task' = "working"
    /\ seen' = status
    /\ sawAbort' = abortRequested
    /\ UNCHANGED <<ticketVars, fieldVars, loopVars, stage, stopping, requests>>

Working == task = "working"
Fenced(write) == IF claimed THEN write ELSE UNCHANGED ticketVars

\* The teardown agent is a fixed program; the others follow a language model.
Thinking == Working /\ stage # "awaiting_teardown"

\* _check_drift
Drift ==
    /\ Thinking
    /\ status \notin {seen} \cup Paused
    /\ task' = "ending"
    /\ UNCHANGED <<ticketVars, fieldVars, loopVars, agentVars, requests>>

\* A graceful stop, an exhausted budget, a timeout, an unhandled exception.
GivesUp ==
    /\ Working
    /\ Fenced(TryTransition("awaiting_customer_guidance"))
    /\ task' = "ending"
    /\ UNCHANGED <<fieldVars, loopVars, agentVars, requests>>

\* _request_human_input
AsksHuman ==
    /\ Thinking
    /\ ~stopping
    /\ claimed
    /\ Transition("awaiting_customer_guidance")
    /\ task' = "asking"
    /\ UNCHANGED <<fieldVars, loopVars, agentVars, requests>>

\* _abort_unpausable
CannotAsk ==
    /\ Thinking
    /\ ~Allowed("awaiting_customer_guidance")
    /\ Fenced(TryTransition("closed"))
    /\ task' = "ending"
    /\ UNCHANGED <<fieldVars, loopVars, agentVars, requests>>

\* _HITL_NO_RESUME_STATUSES
NoResume == {"awaiting_teardown", "retrospective_pending", "closed"}

AnsweredWhateverHappened ==
    /\ task = "asking"
    /\ status \notin Paused
    /\ task' = "working"
    /\ UNCHANGED <<ticketVars, fieldVars, loopVars, agentVars, requests>>

Answered ==
    /\ task = "asking"
    /\ status \notin Paused
    /\ task' = IF status \in NoResume \/ abortRequested THEN "ending" ELSE "working"
    /\ UNCHANGED <<ticketVars, fieldVars, loopVars, agentVars, requests>>

StopsWaiting ==
    /\ task = "asking"
    /\ status \in Paused
    /\ task' = "ending"
    /\ UNCHANGED <<ticketVars, fieldVars, loopVars, agentVars, requests>>

\* The review agent marks its review submitted before it sends the ticket on.
SubmitsReview ==
    /\ Thinking
    /\ stage = "awaiting_review"
    /\ claimed
    /\ reviewed' = TRUE
    /\ UNCHANGED <<ticketVars, claimed, reserved, absent, exhausted, loopVars, task,
                   agentVars, requests>>

\* The agent sends the ticket to a next stage; triage also records whether a
\* harness supports the suite.
Proceeds(new) ==
    /\ Thinking
    /\ ~stopping
    /\ claimed
    /\ new \in ValidTransitions[stage] \ Paused
    /\ stage = "awaiting_review" => reviewed
    /\ Transition(new)
    /\ absent' \in IF stage = "triage_pending"
                   THEN {FALSE, SuiteMayBeAbsent} ELSE {absent}
    /\ task' = "ending"
    /\ UNCHANGED <<claimed, reserved, reviewed, exhausted, loopVars, agentVars,
                   requests>>

\* The agent ends without moving the ticket.
Finishes ==
    /\ Thinking
    /\ task' = "ending"
    /\ UNCHANGED <<ticketVars, fieldVars, loopVars, agentVars, requests>>

Allocates ==
    /\ Thinking
    /\ stage = "awaiting_hardware"
    /\ MayReserve
    /\ claimed
    /\ ~reserved
    /\ reserved' = TRUE
    /\ UNCHANGED <<ticketVars, claimed, absent, reviewed, exhausted, loopVars, task,
                   agentVars, requests>>

AsksApproval ==
    /\ Thinking
    /\ stage \in {"awaiting_provision", "executing_benchmark"}
    /\ claimed
    /\ RequestApproval
    /\ UNCHANGED <<fieldVars, loopVars, task, agentVars, requests>>

\* _run_teardown
Releases ==
    /\ Working
    /\ stage = "awaiting_teardown"
    /\ claimed
    /\ TryTransition("retrospective_pending")
    /\ reserved' = FALSE
    /\ task' = "ending"
    /\ UNCHANGED <<claimed, absent, reviewed, exhausted, loopVars, agentVars,
                   requests>>

\* pause_teardown: an aborted ticket goes on to its end, any other pauses.
TeardownGoesOn ==
    /\ Working
    /\ stage = "awaiting_teardown"
    /\ claimed
    /\ reserved
    /\ TryTransition("retrospective_pending")
    /\ task' = "ending"
    /\ UNCHANGED <<fieldVars, loopVars, agentVars, requests>>

TeardownFails ==
    /\ Working
    /\ stage = "awaiting_teardown"
    /\ claimed
    /\ reserved
    /\ TryTransition(IF sawAbort THEN "retrospective_pending"
                                 ELSE "awaiting_customer_guidance")
    /\ task' = "ending"
    /\ UNCHANGED <<fieldVars, loopVars, agentVars, requests>>

\* A refused claim renewal cancels the task.
LosesClaim ==
    /\ task \in Active
    /\ ~claimed
    /\ task' = "cancelling"
    /\ UNCHANGED <<ticketVars, fieldVars, loopVars, agentVars, requests>>

\* The handler of CancelledError pauses the ticket unless it is closed; if the
\* claim was refused, with a leader-scoped write.  A failed read or field write,
\* or another cancellation, leaves the ticket where it is.
Unwinds ==
    /\ task = "cancelling"
    /\ TryTransition("awaiting_customer_guidance") \/ UNCHANGED ticketVars
    /\ task' = "ending"
    /\ UNCHANGED <<fieldVars, loopVars, agentVars, requests>>

\* PLAN_AGENT_STATUS and triage_pending
DispatchRetryStatuses ==
    {"triage_pending", "awaiting_teardown", "awaiting_hardware",
     "awaiting_provision", "executing_benchmark", "awaiting_review", "analyzing",
     "synthesizing_results", "building_image", "gathering_context",
     "evaluating_convergence"}

\* _record_dispatch_retry_outcome counts a task that leaves its ticket where it
\* was.  Which one is the last is a choice.
RecordsOutcome ==
    exhausted' \in
        IF ~claimed \/ stage \notin DispatchRetryStatuses THEN {exhausted}
        ELSE IF status # stage THEN {None}
        ELSE IF exhausted = stage THEN {stage}
        ELSE {None, stage}

\* The outcome is recorded; mark_done gives the claim back and forgets a block.
EndsWithClaim ==
    /\ task = "ending"
    /\ RecordsOutcome
    /\ task' = "none"
    /\ stage' = None
    /\ seen' = None
    /\ sawAbort' = FALSE
    /\ stopping' = FALSE
    /\ blocked' = None
    /\ UNCHANGED <<ticketVars, claimed, reserved, absent, reviewed, poll, snapshot,
                   absentBlocked, requests>>

Ends ==
    /\ task = "ending"
    /\ RecordsOutcome
    /\ task' = "none"
    /\ claimed' = FALSE
    /\ stage' = None
    /\ seen' = None
    /\ sawAbort' = FALSE
    /\ stopping' = FALSE
    /\ blocked' = None
    /\ UNCHANGED <<ticketVars, reserved, absent, reviewed, poll, snapshot,
                   absentBlocked, requests>>

-----------------------------------------------------------------------------
\* Users.

Starts ==
    /\ status = "new"
    /\ Transition("triage_pending")
    /\ UNCHANGED <<fieldVars, loopVars, task, agentVars, requests>>

Ask(kind, to) ==
    /\ kind \in UserMay
    /\ Cardinality(requests) < MaxRequests
    /\ requests' = requests \cup {[kind |-> kind, to |-> to]}
    /\ UNCHANGED <<ticketVars, fieldVars, loopVars, task, agentVars>>

\* A reply resumes the previous status the client has read; the user
\* interfaces also offer other stages.
AsksResume(to) ==
    /\ status \in Paused
    /\ to = previous \/ to \in Reroutes \cap Path
    /\ Ask("resume", to)

AsksAbort ==
    /\ status \in Paused
    /\ Ask("abort", None)

AsksStop(mode) ==
    /\ status \notin Paused \cup Terminal
    /\ Ask(mode, None)

Landed(r) ==
    /\ requests' = requests \ {r}
    /\ UNCHANGED <<fieldVars, loopVars, task, agentVars>>

ResumeLands(r) == r.kind = "resume" /\ TryTransition(r.to) /\ Landed(r)
AbortLands(r) == r.kind = "abort" /\ TryTransition("awaiting_teardown") /\ Landed(r)
StopLands(r) == r.kind \in StopMode /\ SetStop(r.kind) /\ Landed(r)

UserForceCloses ==
    /\ "close" \in UserMay
    /\ status # "closed"
    /\ ForceClose
    /\ claimed' = FALSE
    /\ UNCHANGED <<reserved, absent, reviewed, exhausted, loopVars, task, agentVars,
                   requests>>

\* A user decides on the approval, or it runs out.
ApprovalSettled ==
    /\ SettleApproval
    /\ UNCHANGED <<fieldVars, loopVars, task, agentVars, requests>>

-----------------------------------------------------------------------------

PollLoop ==
    \/ Fetch
    \/ FindsBudgetSpent
    \/ SkipsCycle
    \/ Skip
    \/ BlockAbsentSuite
    \/ HandoffFails
    \/ Rewind
    \/ PauseBlocked
    \/ SuppressDispatch
    \/ Dispatch
    \/ NothingToStop
    \/ HardStop
    \/ GracefulStop
    \/ GracefulStopIdle
    \/ CloseStopped
    \/ WatchdogCloses
    \/ WatchdogKills
    \/ WatchdogIdle

Agent ==
    \/ Recheck
    \/ ReturnToHardware
    \/ Run
    \/ Drift
    \/ GivesUp
    \/ AsksHuman
    \/ CannotAsk
    \/ Answered
    \/ StopsWaiting
    \/ SubmitsReview
    \/ \E new \in Path : Proceeds(new)
    \/ Finishes
    \/ Allocates
    \/ AsksApproval
    \/ Releases
    \/ TeardownFails
    \/ LosesClaim
    \/ Unwinds
    \/ Ends

User ==
    \/ Starts
    \/ \E to \in Status : AsksResume(to)
    \/ AsksAbort
    \/ \E mode \in StopMode : AsksStop(mode)
    \/ \E r \in requests : ResumeLands(r) \/ AbortLands(r) \/ StopLands(r)
    \/ UserForceCloses
    \/ ApprovalSettled

Next == PollLoop \/ Agent \/ User

Spec == Init /\ [][Next]_vars
-----------------------------------------------------------------------------
\* Safety.

\* The claim in the store and the task of the orchestrator go together: a claim
\* never outlives its task and keeps the next agent away (mark_done), and within
\* one leadership an agent loses its claim only to the closing of its ticket, so
\* that what a cancelled agent still writes cannot meet another agent.
ClaimFollowsTask ==
    /\ claimed => task # "none"
    /\ task \in Active /\ ~claimed => status = "closed"

\* Every variable keeps its type, a paused ticket remembers a stage it can
\* resume, a pending approval belongs to the present stage, and the claim goes
\* with the task.
PipelineInv == PipelineTypeOK /\ LifecycleInv /\ ClaimFollowsTask

\* A closed ticket is never opened again, whatever request, agent or poll is
\* still under way (TicketStatus.CLOSED has no transitions; the handlers of
\* cancellation and timeouts transition without knowing the status).
ClosedIsFinal == [][status = "closed" => status' = "closed"]_vars

\* Teardown lets a ticket go on to its end with its reservation unreleased only
\* if it is marked aborted (pause_teardown: "For non-aborted tickets,
\* transitions to HITL").  For a Path without gathering_context, which ends at
\* the same status: its agent, dispatched from an outdated list, may find the
\* ticket at teardown.
UnreleasedIsAborted ==
    [][status = "awaiting_teardown" /\ status' = "retrospective_pending" /\ reserved'
         => abortRequested]_vars

\* A cleanup that a user's abort has begun is neither skipped nor undone by an
\* agent that was at work, or waiting for its user, at an earlier stage when the
\* abort was recorded: the agent does not move the ticket on or back; if it
\* fails or is cancelled it may pause it, and a reply resumes the cleanup
\* (_request_human_input, _check_drift).  For agents that found their ticket at
\* their stage when they started: one dispatched from an outdated list takes the
\* status it finds for its own.
CleanupStands ==
    [][task' # task /\ task \in {"working", "asking", "cancelling"}
         /\ seen = stage /\ stage \notin NoResume
         /\ abortRequested /\ ~sawAbort /\ status \in NoResume
           => status' = status \/ (status' \in Paused /\ previous' = status)]_vars
-----------------------------------------------------------------------------
\* What the documents say and the code does not do.

\* A graceful stop closes a ticket only if it is one that cannot be paused
\* (tests/test_stop.py, docs/user-guide.md).
GracefulStopPauses ==
    [][poll' = "closing" /\ StopOf = "graceful" /\ snapshot.status = status
         => ~Allowed("awaiting_customer_guidance")]_vars

-----------------------------------------------------------------------------
\* Liveness.  The event loop runs the poll loop and delivers cancellations;
\* nothing is assumed of language models or users.

Fairness ==
    /\ WF_vars(PollLoop)
    /\ WF_vars(Unwinds)
    /\ WF_vars(Ends)

FairSpec == Spec /\ Fairness

\* A hard stop closes the ticket, whatever its agent is doing, unless the user
\* asks for a graceful one instead.  Over budget the loop reads no stop requests
\* (main.py, `continue` before _process_stop_requests).
HardStopCloses ==
    stopRequested = "hard" ~>
        status = "closed" \/ stopRequested = "graceful" \/ OverBudget

\* An agent does not run on for a closed ticket, not even one that was
\* dispatched for it too late; over budget the watchdog does not look.
ClosedFreesAgent ==
    <>[](status = "closed" => task = "none" \/ OverBudget)

\* What keeps the agents away from a ticket at stage s.
\* The budget and the retry limit are meant to, and are logged or told to the
\* user.  The other three are gaps nobody is told of: a submitted review whose
\* transition was lost, or that is asked for again, is never dispatched; the
\* absent suite is told once in a process, and a handoff block stands when the
\* user sends the ticket back before the loop has seen it paused.
KeptAway(s) ==
    \/ OverBudget
    \/ exhausted = s
    \/ s = "awaiting_review" /\ reviewed
    \/ s = "awaiting_hardware" /\ absent /\ absentBlocked
    \/ blocked = s

\* The ticket is at a stage, and no agent is at work.
Waits == status \in Dispatchable /\ task = "none" /\ ~KeptAway(status)

\* A ticket does not wait for ever at one stage with no agent at work and nobody
\* asked, whatever was suppressed before, unless KeptAway says why: no
\* suppression outlives its stage.
NeverStuck == []<>(~Waits) \/ []<><<status' # status>>_status
=====
