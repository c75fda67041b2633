---------------------------- MODULE TicketProofs ----------------------------
(***************************************************************************)
(* Proofs about one ticket: the status machine (TicketLifecycle), the        *)
(* pipeline that acts on it (TicketPipeline), and the execution plan that    *)
(* leads it from stage to stage (PlanRunner).  The lemmas on the store's     *)
(* operations serve both.  They hold for every Path, UserMay and MaxRequests *)
(* and for every plan, RetryLimit and MaxEvents.                             *)
(***************************************************************************)
EXTENDS TicketPipeline, PlanRunner, FiniteSetTheorems, SequenceTheorems,
        WellFoundedInduction, TLAPS

-----------------------------------------------------------------------------
\* The table.

LEMMA StatusList ==
    Status = {"new", "triage_pending", "awaiting_hardware", "preparing_platform",
              "awaiting_provision", "executing_benchmark", "awaiting_review",
              "awaiting_teardown", "awaiting_customer_guidance",
              "retrospective_pending", "closed", "analyzing", "building_image",
              "gathering_context", "planning_investigation",
              "evaluating_convergence", "coordinating_fleet",
              "synthesizing_results"}
BY DEF Status, ValidTransitions

\* The table leads to statuses only, and from the new and the closed ones not
\* into a pause.
LEMMA TableFacts ==
    /\ \A s \in Status : ValidTransitions[s] \subseteq Status
    /\ ValidTransitions["new"] = {"triage_pending"}
    /\ ValidTransitions["closed"] = {}
BY StatusList DEF ValidTransitions


\* None is no status: it is not in the table.
LEMMA NoneIsNoStatus == None \notin Status
BY StatusList DEF None

\* Where a transition may lead, and from where a ticket may be paused.
LEMMA AllowedFacts ==
    ASSUME LifecycleInv, NEW new, Allowed(new)
    PROVE  /\ new \in Status
           /\ status # "closed"
           /\ new = "awaiting_customer_guidance" => status # "new"
<1>1. CASE status = "awaiting_customer_guidance"
  <2>1. previous # None => previous \in Status
    BY DEF LifecycleInv, TicketTypeOK
  <2>2. previous # None => ValidTransitions[previous] \subseteq Status
    BY <2>1, TableFacts
  <2>3. previous # None => ResumeTargets \subseteq Status
    BY <2>1, <2>2, StatusList DEF ResumeTargets, Reroutes
  <2> QED
    BY <1>1, <2>3, StatusList DEF Allowed
<1>2. CASE status # "awaiting_customer_guidance"
  <2>1. status \in Status /\ new \in ValidTransitions[status]
    BY <1>2 DEF Allowed, LifecycleInv, TicketTypeOK
  <2> QED
    BY <2>1, TableFacts
<1> QED
  BY <1>1, <1>2

-----------------------------------------------------------------------------
\* Each operation of the store keeps LifecycleInv.

LEMMA PausingKeeps ==
    ASSUME LifecycleInv, Transition("awaiting_customer_guidance")
    PROVE  LifecycleInv'
<1> DEFINE acg == "awaiting_customer_guidance"
<1>1. /\ status' = acg
      /\ previous' = IF status = acg THEN previous ELSE status
      /\ pendingFor' = pendingFor
      /\ stopRequested' = stopRequested
      /\ abortRequested' = (abortRequested \/ (status = acg /\ acg = "awaiting_teardown"))
  BY DEF Transition, Pause
<1>2. status \in Status /\ status # "closed" /\ status # "new" /\ acg \in Status
  BY AllowedFacts, StatusList DEF Transition, LifecycleInv, TicketTypeOK
<1>3. TicketTypeOK'
  BY <1>1, <1>2 DEF LifecycleInv, TicketTypeOK
<1>4. PausedCanResume'
  BY <1>1, <1>2 DEF LifecycleInv, PausedCanResume, Paused, Terminal
<1>5. RemembersOnlyInPause'
  BY <1>1 DEF RemembersOnlyInPause, Paused
<1>6. StageNow' = StageNow
  BY <1>1 DEF StageNow
<1>7. ApprovalBoundToStage'
  BY <1>1, <1>2, <1>6 DEF LifecycleInv, ApprovalBoundToStage
<1> QED
  BY <1>3, <1>4, <1>5, <1>7 DEF LifecycleInv

LEMMA MovingKeeps ==
    ASSUME LifecycleInv, NEW new, Transition(new),
           new # "awaiting_customer_guidance"
    PROVE  LifecycleInv'
<1>1. /\ status' = new
      /\ previous' = None
      /\ pendingFor' = IF new = previous THEN pendingFor ELSE None
      /\ stopRequested' = stopRequested
  BY DEF Transition, Move
<1>2. abortRequested' \in BOOLEAN
  BY DEF Transition, LifecycleInv, TicketTypeOK
<1>3. new \in Status /\ status # "closed" /\ None \notin Status
  BY AllowedFacts, NoneIsNoStatus DEF Transition
<1>4. TicketTypeOK'
  BY <1>1, <1>2, <1>3 DEF LifecycleInv, TicketTypeOK
<1>5. PausedCanResume' /\ RemembersOnlyInPause'
  BY <1>1 DEF PausedCanResume, RemembersOnlyInPause
<1>6. new = previous => status = "awaiting_customer_guidance"
  BY <1>3 DEF LifecycleInv, RemembersOnlyInPause, Paused, Terminal
<1>7. StageNow' = new
  BY <1>1 DEF StageNow
<1>8. new = previous /\ pendingFor # None => pendingFor = new
  BY <1>3, <1>6 DEF LifecycleInv, ApprovalBoundToStage, StageNow
<1>9. ApprovalBoundToStage'
  BY <1>1, <1>7, <1>8 DEF ApprovalBoundToStage
<1> QED
  BY <1>4, <1>5, <1>9 DEF LifecycleInv

LEMMA StandingKeeps ==
    ASSUME LifecycleInv, UNCHANGED ticketVars
    PROVE  LifecycleInv'
BY DEF LifecycleInv, TicketTypeOK, PausedCanResume, RemembersOnlyInPause,
       ApprovalBoundToStage, StageNow, ticketVars

LEMMA TransitionKeeps ==
    ASSUME LifecycleInv, NEW new, Transition(new)
    PROVE  LifecycleInv'
<1>1. CASE new = "awaiting_customer_guidance"
  BY <1>1, PausingKeeps
<1>2. CASE new # "awaiting_customer_guidance"
  BY <1>2, MovingKeeps
<1> QED
  BY <1>1, <1>2

LEMMA TryTransitionKeeps ==
    ASSUME LifecycleInv, NEW new, TryTransition(new)
    PROVE  LifecycleInv'
BY TransitionKeeps, StandingKeeps DEF TryTransition

LEMMA ForceCloseKeeps ==
    ASSUME LifecycleInv, ForceClose
    PROVE  LifecycleInv'
<1>1. /\ status' = "closed"
      /\ previous' \in {previous, status}
      /\ stopRequested' \in {stopRequested, None}
      /\ abortRequested' = abortRequested
      /\ pendingFor' = pendingFor
  BY DEF ForceClose
<1>2. TicketTypeOK'
  BY <1>1, StatusList DEF LifecycleInv, TicketTypeOK
<1> QED
  BY <1>1, <1>2 DEF LifecycleInv, PausedCanResume, RemembersOnlyInPause,
                    ApprovalBoundToStage, Terminal

LEMMA SetStopKeeps ==
    ASSUME LifecycleInv, NEW mode \in StopMode, SetStop(mode)
    PROVE  LifecycleInv'
BY DEF SetStop, LifecycleInv, TicketTypeOK, PausedCanResume,
       RemembersOnlyInPause, ApprovalBoundToStage, StageNow

LEMMA RequestApprovalKeeps ==
    ASSUME LifecycleInv, RequestApproval
    PROVE  LifecycleInv'
BY DEF RequestApproval, LifecycleInv, TicketTypeOK, PausedCanResume,
       RemembersOnlyInPause, ApprovalBoundToStage, StageNow

LEMMA SettleApprovalKeeps ==
    ASSUME LifecycleInv, SettleApproval
    PROVE  LifecycleInv'
BY DEF SettleApproval, LifecycleInv, TicketTypeOK, PausedCanResume,
       RemembersOnlyInPause, ApprovalBoundToStage, StageNow

-----------------------------------------------------------------------------
\* Everybody changes the ticket through these operations.

\* Where somebody may send the ticket.
Targets ==
    Path \cup {r.to : r \in requests} \cup
    {"awaiting_customer_guidance", "triage_pending", "awaiting_hardware",
     "awaiting_provision", "executing_benchmark", "awaiting_teardown",
     "retrospective_pending", "closed"}

StoreStep ==
    \/ UNCHANGED ticketVars
    \/ \E new \in Targets : Transition(new)
    \/ ForceClose
    \/ \E mode \in StopMode : SetStop(mode)
    \/ RequestApproval
    \/ SettleApproval

LEMMA PollLoopSteps == PollLoop => StoreStep
<1> SUFFICES ASSUME PollLoop PROVE StoreStep
  OBVIOUS
<1>1. CASE Fetch \/ Skip \/ HandoffFails \/ SuppressDispatch \/ Dispatch \/ NothingToStop
  BY <1>1 DEF Fetch, Skip, HandoffFails, SuppressDispatch, Dispatch, NothingToStop,
     StoreStep
<1>0. CASE FindsBudgetSpent \/ SkipsCycle
  BY <1>0 DEF FindsBudgetSpent, SkipsCycle, vars, StoreStep
<1>2. CASE HardStop \/ GracefulStop \/ GracefulStopIdle \/ WatchdogCloses \/ WatchdogIdle
  BY <1>2 DEF HardStop, GracefulStop, GracefulStopIdle, WatchdogCloses,
              WatchdogIdle, StoreStep
<1>3. CASE BlockAbsentSuite
  <2>1. UNCHANGED ticketVars \/ Transition("awaiting_customer_guidance")
    BY <1>3 DEF BlockAbsentSuite, ticketVars
  <2> QED
    BY <2>1 DEF StoreStep, Targets
<1>4. CASE Rewind
  <2>1. \/ UNCHANGED ticketVars
        \/ TryTransition(HandoffRetryStatus[snapshot.status])
           /\ HandoffRetryStatus[snapshot.status] \in Targets
    BY <1>4 DEF Rewind, HandoffRetryStatus, Targets
  <2> QED
    BY <2>1 DEF TryTransition, StoreStep
<1>5. CASE PauseBlocked
  BY <1>5 DEF PauseBlocked, TryTransition, StoreStep, Targets
<1>6. CASE CloseStopped
  BY <1>6 DEF CloseStopped, StoreStep
<1>7. CASE WatchdogKills
  BY <1>7 DEF WatchdogKills, TryTransition, StoreStep, Targets
<1> QED
  BY <1>0, <1>1, <1>2, <1>3, <1>4, <1>5, <1>6, <1>7 DEF PollLoop

LEMMA AgentSteps == Agent => StoreStep
<1> SUFFICES ASSUME Agent PROVE StoreStep
  OBVIOUS
<1>1. CASE Recheck \/ Run \/ Drift \/ Answered \/ StopsWaiting \/ SubmitsReview
  BY <1>1 DEF Recheck, Run, Drift, Answered, StopsWaiting, SubmitsReview, StoreStep
<1>2. CASE Finishes \/ Allocates \/ LosesClaim \/ Ends
  BY <1>2 DEF Finishes, Allocates, LosesClaim, Ends, StoreStep
<1>3. CASE ReturnToHardware \/ AsksHuman
  BY <1>3 DEF ReturnToHardware, AsksHuman, StoreStep, Targets
<1>4. CASE GivesUp
  BY <1>4 DEF GivesUp, Fenced, TryTransition, StoreStep, Targets
<1>5. CASE CannotAsk
  BY <1>5 DEF CannotAsk, Fenced, TryTransition, StoreStep, Targets
<1>6. CASE \E new \in Path : Proceeds(new)
  BY <1>6 DEF Proceeds, StoreStep, Targets
<1>7. CASE AsksApproval
  BY <1>7 DEF AsksApproval, StoreStep
<1>8. CASE Releases
  BY <1>8 DEF Releases, TryTransition, StoreStep, Targets
<1>9. CASE TeardownFails
  BY <1>9 DEF TeardownFails, TryTransition, StoreStep, Targets
<1>10. CASE Unwinds
  BY <1>10 DEF Unwinds, TryTransition, StoreStep, Targets
<1> QED
  BY <1>1, <1>2, <1>3, <1>4, <1>5, <1>6, <1>7, <1>8, <1>9, <1>10 DEF Agent

LEMMA UserSteps == User => StoreStep
<1> SUFFICES ASSUME User PROVE StoreStep
  OBVIOUS
<1>1. CASE Starts \/ UserForceCloses \/ ApprovalSettled
  BY <1>1 DEF Starts, UserForceCloses, ApprovalSettled, StoreStep, Targets
<1>2. CASE \E to \in Status : AsksResume(to)
  BY <1>2 DEF AsksResume, Ask, StoreStep
<1>3. CASE AsksAbort \/ \E mode \in StopMode : AsksStop(mode)
  BY <1>3 DEF AsksAbort, AsksStop, Ask, StoreStep
<1>4. ASSUME NEW r \in requests, ResumeLands(r) \/ AbortLands(r) \/ StopLands(r)
      PROVE  StoreStep
  <2>1. CASE ResumeLands(r)
    BY <2>1 DEF ResumeLands, TryTransition, StoreStep, Targets
  <2>2. CASE AbortLands(r)
    BY <2>2 DEF AbortLands, TryTransition, StoreStep, Targets
  <2>3. CASE StopLands(r)
    BY <2>3 DEF StopLands, StoreStep
  <2> QED
    BY <1>4, <2>1, <2>2, <2>3
<1> QED
  BY <1>1, <1>2, <1>3, <1>4 DEF User

LEMMA NextSteps == [Next]_vars => StoreStep
<1>1. Next => StoreStep
  BY PollLoopSteps, AgentSteps, UserSteps DEF Next
<1>2. UNCHANGED vars => StoreStep
  BY DEF vars, StoreStep
<1> QED
  BY <1>1, <1>2

-----------------------------------------------------------------------------

LEMMA StoreStepKeeps == LifecycleInv /\ StoreStep => LifecycleInv'
BY StandingKeeps, TransitionKeeps, ForceCloseKeeps, SetStopKeeps,
   RequestApprovalKeeps, SettleApprovalKeeps DEF StoreStep

\* Whatever the poll loop, the agents and the users do to a ticket, and in
\* whatever order, a paused ticket can be resumed and a pending approval is for
\* the stage that asked for it.
THEOREM LifecycleSafety == Spec => []LifecycleInv
<1>1. Init => LifecycleInv
  BY StatusList DEF Init, CreateTicket, LifecycleInv, TicketTypeOK,
     RemembersOnlyInPause, PausedCanResume, ApprovalBoundToStage, None
<1>2. LifecycleInv /\ [Next]_vars => LifecycleInv'
  BY NextSteps, StoreStepKeeps
<1> QED
  BY <1>1, <1>2, PTL DEF Spec

LEMMA StoreStepStaysClosed ==
    ASSUME LifecycleInv, StoreStep, status = "closed"
    PROVE  status' = "closed"
<1>1. ASSUME NEW new, Transition(new) PROVE FALSE
  BY <1>1, AllowedFacts DEF Transition
<1> QED
  BY <1>1 DEF StoreStep, ticketVars, ForceClose, SetStop, RequestApproval,
              SettleApproval

\* A closed ticket is never opened again, whatever is still under way.
THEOREM ClosedForGood == Spec => ClosedIsFinal
<1>1. LifecycleInv /\ [Next]_vars => [status = "closed" => status' = "closed"]_vars
  BY NextSteps, StoreStepStaysClosed
<1> QED
  BY <1>1, LifecycleSafety, PTL DEF Spec, ClosedIsFinal

-----------------------------------------------------------------------------
\* The claim and the task.

\* The steps that touch neither the claim nor the task, and those that end or
\* change the task, need no more than this of the rest.
LEMMA QuietStepKeepsClaim ==
    ASSUME ClaimFollowsTask, status = "closed" => status' = "closed",
           claimed' = claimed,
           \/ task' = task
           \/ task' \in {"cancelling", "ending"}
           \/ task \in Active /\ task' # "none"
    PROVE  ClaimFollowsTask'
BY DEF ClaimFollowsTask, Active

LEMMA PollLoopKeepsClaim ==
    ASSUME ClaimFollowsTask, PollLoop, status = "closed" => status' = "closed"
    PROVE  ClaimFollowsTask'
<1>1. CASE Fetch \/ Skip \/ BlockAbsentSuite \/ HandoffFails \/ Rewind
  BY <1>1, QuietStepKeepsClaim DEF Fetch, Skip, BlockAbsentSuite, HandoffFails,
                                  Rewind, fieldVars
<1>6. CASE FindsBudgetSpent \/ SkipsCycle \/ SuppressDispatch
  BY <1>6, QuietStepKeepsClaim DEF FindsBudgetSpent, SkipsCycle, SuppressDispatch, vars,
                                  fieldVars
<1>2. CASE PauseBlocked \/ NothingToStop \/ GracefulStop \/ GracefulStopIdle
  BY <1>2, QuietStepKeepsClaim DEF PauseBlocked, NothingToStop, GracefulStop,
                                  GracefulStopIdle, fieldVars
<1>3. CASE HardStop \/ WatchdogCloses \/ WatchdogKills \/ WatchdogIdle
  BY <1>3, QuietStepKeepsClaim DEF HardStop, WatchdogCloses, WatchdogKills,
                                  WatchdogIdle, fieldVars
<1>4. CASE Dispatch
  BY <1>4 DEF Dispatch, ClaimFollowsTask
<1>5. CASE CloseStopped
  BY <1>5 DEF CloseStopped, ForceClose, ClaimFollowsTask
<1> QED
  BY <1>1, <1>2, <1>3, <1>4, <1>5, <1>6 DEF PollLoop

LEMMA AgentKeepsClaim ==
    ASSUME ClaimFollowsTask, Agent, status = "closed" => status' = "closed"
    PROVE  ClaimFollowsTask'
<1>1. CASE Recheck \/ ReturnToHardware \/ Run \/ Drift \/ GivesUp
  BY <1>1, QuietStepKeepsClaim DEF Recheck, ReturnToHardware, Run, Drift, GivesUp,
                                  Working, Thinking, Active, fieldVars
<1>2. CASE AsksHuman \/ CannotAsk \/ Answered \/ StopsWaiting \/ Finishes
  BY <1>2, QuietStepKeepsClaim DEF AsksHuman, CannotAsk, Answered, StopsWaiting,
                                  Finishes, Working, Thinking, Active, fieldVars
<1>3. CASE (\E new \in Path : Proceeds(new)) \/ Allocates \/ AsksApproval \/ SubmitsReview
  BY <1>3, QuietStepKeepsClaim DEF Proceeds, Allocates, AsksApproval, SubmitsReview,
                                  fieldVars
<1>4. CASE Releases \/ TeardownFails \/ LosesClaim \/ Unwinds
  BY <1>4, QuietStepKeepsClaim DEF Releases, TeardownFails, LosesClaim, Unwinds,
                                  fieldVars
<1>5. CASE Ends
  BY <1>5 DEF Ends, ClaimFollowsTask, Active
<1> QED
  BY <1>1, <1>2, <1>3, <1>4, <1>5 DEF Agent

LEMMA UserKeepsClaim ==
    ASSUME ClaimFollowsTask, User, status = "closed" => status' = "closed"
    PROVE  ClaimFollowsTask'
<1>1. CASE UserForceCloses
  BY <1>1 DEF UserForceCloses, ForceClose, ClaimFollowsTask
<1>2. CASE Starts \/ AsksAbort \/ ApprovalSettled
  BY <1>2, QuietStepKeepsClaim DEF Starts, AsksAbort, Ask, ApprovalSettled, fieldVars
<1>3. CASE (\E to \in Status : AsksResume(to)) \/ \E mode \in StopMode : AsksStop(mode)
  BY <1>3, QuietStepKeepsClaim DEF AsksResume, AsksStop, Ask, fieldVars
<1>4. CASE \E r \in requests : ResumeLands(r) \/ AbortLands(r) \/ StopLands(r)
  BY <1>4, QuietStepKeepsClaim DEF ResumeLands, AbortLands, StopLands, Landed,
                                  fieldVars
<1> QED
  BY <1>1, <1>2, <1>3, <1>4 DEF User

\* A claim never outlives its task, and an agent at work loses its claim only
\* to the closing of its ticket.
THEOREM ClaimSafety == Spec => []ClaimFollowsTask
<1>1. Init => ClaimFollowsTask
  BY DEF Init, ClaimFollowsTask, Active
<1>2. ClaimFollowsTask /\ [Next]_vars /\ [status = "closed" => status' = "closed"]_vars
        => ClaimFollowsTask'
  <2>1. CASE UNCHANGED vars
    BY <2>1 DEF vars, ticketVars, fieldVars, ClaimFollowsTask
  <2>2. CASE Next
    BY <2>2, PollLoopKeepsClaim, AgentKeepsClaim, UserKeepsClaim
    DEF Next, vars, ticketVars
  <2> QED
    BY <2>1, <2>2
<1> QED
  BY <1>1, <1>2, ClosedForGood, PTL DEF Spec, ClosedIsFinal

-----------------------------------------------------------------------------
\* The types of the loop, the tasks and the users' requests.

LEMMA PollLoopKeepsTypes ==
    ASSUME PipelineTypeOK, TicketTypeOK', PollLoop
    PROVE  PipelineTypeOK'
<1>2. CASE Fetch
  <2>1. snapshot' \in Snapshot \/ snapshot' = NoSnapshot
    <3>1. FetchedTicket \in Snapshot
      BY DEF FetchedTicket, Snapshot, PipelineTypeOK, TicketTypeOK
    <3> QED
      BY <1>2, <3>1 DEF Fetch
  <2>2. poll' = "dispatching" /\ poll' \in Poll
    BY <1>2 DEF Fetch, Poll
  <2>3. blocked' \in Status \cup {None} /\ exhausted' \in Status \cup {None}
    BY <1>2 DEF Fetch, Reconcile, PipelineTypeOK
  <2> QED
    BY <1>2, <2>1, <2>2, <2>3 DEF Fetch, PipelineTypeOK, agentVars
<1>11. CASE FindsBudgetSpent \/ SkipsCycle \/ SuppressDispatch
  BY <1>11 DEF FindsBudgetSpent, SkipsCycle, SuppressDispatch, PipelineTypeOK, Poll, vars,
               fieldVars, loopVars, agentVars
<1>3. CASE Skip \/ HandoffFails \/ Rewind
  BY <1>3 DEF Skip, HandoffFails, Considers, Rewind, PipelineTypeOK, Poll, fieldVars,
              agentVars
<1>9. CASE BlockAbsentSuite
  BY <1>9 DEF BlockAbsentSuite, PipelineTypeOK, Poll, fieldVars, agentVars
<1>4. CASE PauseBlocked
  <2>1. snapshot.status \in Status
    BY <1>4 DEF PauseBlocked, PipelineTypeOK, Snapshot
  <2> QED
    BY <1>4, <2>1 DEF PauseBlocked, PipelineTypeOK, Poll, fieldVars, agentVars
<1>5. CASE Dispatch
  <2>1. stage' \in Dispatchable
    BY <1>5 DEF Dispatch, Considers
  <2> QED
    BY <1>5, <2>1 DEF Dispatch, PipelineTypeOK, Poll, Task
<1>10. CASE GracefulStop
  <2>1. stopping' \in BOOLEAN
    BY <1>10 DEF GracefulStop, PipelineTypeOK
  <2> QED
    BY <1>10, <2>1 DEF GracefulStop, PipelineTypeOK, Poll, fieldVars
<1>6. CASE NothingToStop \/ HardStop \/ GracefulStopIdle
  BY <1>6 DEF NothingToStop, HardStop, GracefulStopIdle, PipelineTypeOK,
              Poll, Task, fieldVars, agentVars
<1>7. CASE CloseStopped
  BY <1>7 DEF CloseStopped, PipelineTypeOK, Poll, agentVars
<1>8. CASE WatchdogCloses \/ WatchdogKills \/ WatchdogIdle
  BY <1>8 DEF WatchdogCloses, WatchdogKills, WatchdogIdle, PipelineTypeOK, Poll, Task,
              fieldVars, agentVars
<1> QED
  BY <1>2, <1>3, <1>4, <1>5, <1>6, <1>7, <1>8, <1>9, <1>10, <1>11 DEF PollLoop

LEMMA AgentKeepsTypes ==
    ASSUME PipelineTypeOK, TicketTypeOK', Agent
    PROVE  PipelineTypeOK'
<1>1. CASE Recheck \/ ReturnToHardware \/ Drift \/ GivesUp \/ AsksHuman
  BY <1>1 DEF Recheck, ReturnToHardware, Drift, GivesUp, AsksHuman, PipelineTypeOK,
              Task, fieldVars, loopVars, agentVars
<1>2. CASE Run
  BY <1>2 DEF Run, PipelineTypeOK, TicketTypeOK, Task, fieldVars, loopVars
<1>3. CASE CannotAsk \/ Answered \/ StopsWaiting \/ Finishes
  BY <1>3 DEF CannotAsk, Answered, StopsWaiting, Finishes, PipelineTypeOK, Task,
              fieldVars, loopVars, agentVars
<1>4. ASSUME NEW new \in Path, Proceeds(new) PROVE PipelineTypeOK'
  <2>1. absent' \in BOOLEAN
    BY <1>4, PipelineAssumption DEF Proceeds, PipelineTypeOK
  <2> QED
    BY <1>4, <2>1 DEF Proceeds, PipelineTypeOK, Task, loopVars, agentVars
<1>5. CASE Allocates
  <2>1. reserved' = TRUE /\ UNCHANGED <<ticketVars, claimed, absent, reviewed,
                                       exhausted, loopVars, task, agentVars, requests>>
    BY <1>5 DEF Allocates
  <2> QED
    BY <2>1 DEF PipelineTypeOK, loopVars, agentVars
<1>8. CASE AsksApproval \/ Releases \/ TeardownFails
  BY <1>8 DEF AsksApproval, Releases, TeardownFails, PipelineTypeOK, Task,
              fieldVars, loopVars, agentVars
<1>6. CASE LosesClaim \/ Unwinds \/ SubmitsReview
  BY <1>6 DEF LosesClaim, Unwinds, SubmitsReview, PipelineTypeOK, Task, fieldVars,
              loopVars, agentVars
<1>7. CASE Ends
  <2>1. exhausted' \in Status \cup {None}
    <3>1. stage \in DispatchRetryStatuses => stage \in Status
      BY StatusList DEF DispatchRetryStatuses
    <3> QED
      BY <1>7, <3>1 DEF Ends, RecordsOutcome, PipelineTypeOK
  <2> QED
    BY <1>7, <2>1 DEF Ends, PipelineTypeOK, Task, loopVars
<1> QED
  BY <1>1, <1>2, <1>3, <1>4, <1>5, <1>6, <1>7, <1>8 DEF Agent

LEMMA UserKeepsTypes ==
    ASSUME PipelineTypeOK, TicketTypeOK', User
    PROVE  PipelineTypeOK'
<1>1. ASSUME NEW kind \in UserActions \ {"close"}, NEW to \in Status \cup {None},
             Ask(kind, to)
      PROVE  PipelineTypeOK'
  <2>1. [kind |-> kind, to |-> to] \in Request
    BY DEF Request
  <2>2. requests' \subseteq Request
    BY <1>1, <2>1 DEF Ask, PipelineTypeOK
  <2> QED
    BY <1>1, <2>2 DEF Ask, PipelineTypeOK, fieldVars, loopVars, agentVars
<1>2. CASE \E to \in Status : AsksResume(to)
  <2>1. PICK to \in Status : AsksResume(to)
    BY <1>2
  <2> QED
    BY <1>1, <2>1 DEF AsksResume, UserActions
<1>3. CASE AsksAbort
  BY <1>1, <1>3 DEF AsksAbort, UserActions
<1>4. CASE \E mode \in StopMode : AsksStop(mode)
  <2>1. PICK mode \in StopMode : AsksStop(mode)
    BY <1>4
  <2>2. mode \in UserActions \ {"close"}
    BY <2>1 DEF StopMode, UserActions
  <2> QED
    BY <1>1, <2>1, <2>2 DEF AsksStop
<1>5. CASE \E r \in requests : ResumeLands(r) \/ AbortLands(r) \/ StopLands(r)
  BY <1>5 DEF ResumeLands, AbortLands, StopLands, Landed, PipelineTypeOK, fieldVars,
              loopVars, agentVars
<1>6. CASE Starts \/ UserForceCloses \/ ApprovalSettled
  BY <1>6 DEF Starts, UserForceCloses, ApprovalSettled, PipelineTypeOK, fieldVars,
              loopVars, agentVars
<1> QED
  BY <1>2, <1>3, <1>4, <1>5, <1>6 DEF User

LEMMA NextKeepsTypes ==
    ASSUME PipelineTypeOK, TicketTypeOK', [Next]_vars
    PROVE  PipelineTypeOK'
<1>1. CASE UNCHANGED vars
  BY <1>1 DEF vars, fieldVars, loopVars, agentVars, PipelineTypeOK
<1>2. CASE Next
  BY <1>2, PollLoopKeepsTypes, AgentKeepsTypes, UserKeepsTypes DEF Next
<1> QED
  BY <1>1, <1>2

\* All of it together, for every set of user actions and every number of
\* requests under way.
THEOREM PipelineSafety == Spec => []PipelineInv
<1>1. Init => PipelineTypeOK
  BY StatusList DEF Init, CreateTicket, PipelineTypeOK, TicketTypeOK, Poll, Task, Request
<1>2. PipelineTypeOK /\ LifecycleInv' /\ [Next]_vars => PipelineTypeOK'
  BY NextKeepsTypes DEF LifecycleInv
<1>3. LifecycleInv /\ ClaimFollowsTask /\ PipelineTypeOK <=> PipelineInv
  BY DEF PipelineInv
<1> QED
  BY <1>1, <1>2, <1>3, LifecycleSafety, ClaimSafety, PTL DEF Spec

-----------------------------------------------------------------------------
\* Aborts and cleanups.

\* What a cleanup rests on: a task has a stage with an agent; the loop pauses no
\* ticket that has a task; nobody asks to resume a pause or a finished teardown,
\* as none is ever interrupted; what an agent has seen of an abort is there; and an
\* agent at work at its own stage is not paused and has seen every abort.
Staged == task # "none" => stage \in Dispatchable
LoopAlone == poll \in {"rewinding", "pausing"} => task = "none"
RepliesLead ==
    /\ status \in Paused => previous # "retrospective_pending"
    /\ \A r \in requests : r.kind = "resume" =>
          r.to \notin {"awaiting_customer_guidance", "retrospective_pending"}
AbortsStand == sawAbort => abortRequested
AbortsSeen ==
    task = "working" /\ seen = stage =>
        status \notin Paused /\ (abortRequested => sawAbort)

CleanupInv == Staged /\ LoopAlone /\ RepliesLead /\ AbortsStand /\ AbortsSeen

\* A transition records an abort out of a pause only, and remembers no stage
\* that cannot be paused.
LEMMA TransitionMarks ==
    ASSUME LifecycleInv, NEW new, Transition(new)
    PROVE  /\ abortRequested => abortRequested'
           /\ status \notin Paused => abortRequested' = abortRequested
           /\ (status \in Paused => previous # "retrospective_pending")
                 => (status' \in Paused => previous' # "retrospective_pending")
           /\ new # "awaiting_customer_guidance" => status' \notin Paused
<1>1. status' = new
  BY DEF Transition
<1>2. abortRequested' = (abortRequested \/ (status = "awaiting_customer_guidance"
                                              /\ new = "awaiting_teardown"))
  BY DEF Transition
<1>5. abortRequested \in BOOLEAN
  BY DEF LifecycleInv, TicketTypeOK
<1>6. /\ abortRequested => abortRequested'
      /\ status \notin Paused => abortRequested' = abortRequested
  BY <1>2, <1>5 DEF Paused
<1>3. CASE new = "awaiting_customer_guidance"
  <2>1. previous' = IF status = new THEN previous ELSE status
    BY <1>3 DEF Transition, Pause
  <2>2. status = "retrospective_pending" => new \in ValidTransitions[status]
    BY DEF Transition, Allowed
  <2>3. status # "retrospective_pending"
    BY <1>3, <2>2 DEF ValidTransitions
  <2> QED
    BY <1>1, <1>3, <1>6, <2>1, <2>3 DEF Paused
<1>4. CASE new # "awaiting_customer_guidance"
  BY <1>1, <1>4, <1>6 DEF Paused
<1> QED
  BY <1>3, <1>4

LEMMA StoreStepMarks ==
    ASSUME LifecycleInv, StoreStep
    PROVE  /\ abortRequested => abortRequested'
           /\ status \notin Paused => abortRequested' = abortRequested
           /\ (status \in Paused => previous # "retrospective_pending")
                 => (status' \in Paused => previous' # "retrospective_pending")
<1>1. CASE \E new \in Targets : Transition(new)
  BY <1>1, TransitionMarks
<1>2. CASE ~\E new \in Targets : Transition(new)
  BY <1>2 DEF StoreStep, ticketVars, ForceClose, SetStop, RequestApproval, SettleApproval,
              Paused
<1> QED
  BY <1>1, <1>2

\* Nobody but the agent itself pauses a ticket whose agent is at work.
LEMMA RestKeepsCleanup ==
    ASSUME LifecycleInv, CleanupInv, StoreStep,
           task' = "none" \/ UNCHANGED stage,
           task' # "none" => task # "none",
           poll' \in {"rewinding", "pausing"} => task' = "none",
           requests' \subseteq requests,
           UNCHANGED sawAbort \/ sawAbort' = FALSE,
           task' # "working"
    PROVE  CleanupInv'
BY StoreStepMarks DEF CleanupInv, Staged, LoopAlone, RepliesLead, AbortsStand, AbortsSeen

LEMMA WorkKeepsCleanup ==
    ASSUME LifecycleInv, CleanupInv, StoreStep, requests' \subseteq requests,
           UNCHANGED <<task, stage, seen, sawAbort>>,
           poll' \in {"rewinding", "pausing"} => task = "none",
           task = "working" => status \in Paused \/ status' \notin Paused
    PROVE  CleanupInv'
<1>1. Staged' /\ LoopAlone' /\ RepliesLead' /\ AbortsStand'
  BY StoreStepMarks DEF CleanupInv, Staged, LoopAlone, RepliesLead, AbortsStand
<1>2. AbortsSeen'
  BY StoreStepMarks DEF CleanupInv, AbortsSeen
<1> QED
  BY <1>1, <1>2 DEF CleanupInv

LEMMA PollLoopKeepsCleanup ==
    ASSUME LifecycleInv, CleanupInv, PollLoop
    PROVE  CleanupInv'
<1>0. StoreStep /\ UNCHANGED requests
  BY PollLoopSteps DEF PollLoop, vars, loopVars, Fetch, FindsBudgetSpent, SkipsCycle,
     SuppressDispatch, Skip, BlockAbsentSuite, HandoffFails, Rewind, PauseBlocked,
     Dispatch, NothingToStop, HardStop, GracefulStop, GracefulStopIdle, CloseStopped,
     WatchdogCloses, WatchdogKills, WatchdogIdle
<1>1. CASE Fetch \/ FindsBudgetSpent \/ SkipsCycle \/ Skip \/ SuppressDispatch
           \/ NothingToStop \/ GracefulStopIdle \/ WatchdogIdle
  <2>1. /\ UNCHANGED <<status, task, stage, seen, sawAbort>>
        /\ poll' \notin {"rewinding", "pausing"}
    BY <1>1 DEF Fetch, FindsBudgetSpent, SkipsCycle, OverBudget, Skip, SuppressDispatch,
       NothingToStop, GracefulStopIdle, WatchdogIdle, vars, ticketVars, loopVars,
       agentVars
  <2> QED
    BY <1>0, <2>1, WorkKeepsCleanup
<1>2. CASE GracefulStop \/ CloseStopped
  <2>1. /\ UNCHANGED <<task, stage, seen, sawAbort>>
        /\ poll' \notin {"rewinding", "pausing"}
        /\ status' \in {status, "closed"}
    BY <1>2 DEF GracefulStop, CloseStopped, ForceClose, ticketVars, agentVars
  <2> QED
    BY <1>0, <2>1, WorkKeepsCleanup DEF Paused
<1>3. CASE BlockAbsentSuite \/ HandoffFails \/ Rewind \/ PauseBlocked
  <2>1. task = "none" /\ UNCHANGED <<task, stage, seen, sawAbort>>
    BY <1>3 DEF BlockAbsentSuite, HandoffFails, Rewind, PauseBlocked, Considers, agentVars,
       CleanupInv, LoopAlone
  <2> QED
    BY <1>0, <2>1, WorkKeepsCleanup
<1>4. CASE HardStop \/ WatchdogCloses \/ WatchdogKills
  <2>1. /\ UNCHANGED <<stage, sawAbort>>
        /\ task' # "working"
        /\ task' # "none" => task # "none"
        /\ poll' \notin {"rewinding", "pausing"}
    BY <1>4 DEF HardStop, WatchdogCloses, WatchdogKills, agentVars, Active
  <2> QED
    BY <1>0, <2>1, RestKeepsCleanup
<1>5. CASE Dispatch
  <2>1. /\ UNCHANGED <<status, previous, abortRequested, sawAbort, requests>>
        /\ task' = "starting" /\ poll' = "stopping"
        /\ stage' \in Dispatchable
    BY <1>5 DEF Dispatch, Considers, ticketVars
  <2> QED
    BY <2>1 DEF CleanupInv, Staged, LoopAlone, RepliesLead, AbortsStand, AbortsSeen
<1> QED
  BY <1>1, <1>2, <1>3, <1>4, <1>5 DEF PollLoop

LEMMA AgentKeepsCleanup ==
    ASSUME LifecycleInv, CleanupInv, Agent
    PROVE  CleanupInv'
<1>0. StoreStep /\ UNCHANGED <<poll, requests>>
  BY AgentSteps DEF Agent, Recheck, ReturnToHardware, Run, Drift, GivesUp, AsksHuman,
     CannotAsk, Answered, StopsWaiting, SubmitsReview, Proceeds, Finishes, Allocates,
     AsksApproval, Releases, TeardownFails, LosesClaim, Unwinds, Ends, loopVars
<1>1. CASE Recheck \/ ReturnToHardware \/ Drift \/ GivesUp \/ AsksHuman \/ CannotAsk
  <2>1. /\ UNCHANGED <<stage, sawAbort>>
        /\ task' # "working" /\ task # "none"
    BY <1>1 DEF Recheck, ReturnToHardware, Drift, GivesUp, AsksHuman, CannotAsk, agentVars,
       Thinking, Working
  <2> QED
    BY <1>0, <2>1, RestKeepsCleanup DEF CleanupInv, LoopAlone
<1>2. CASE StopsWaiting \/ (\E new \in Path : Proceeds(new)) \/ Finishes \/ Releases
           \/ TeardownFails \/ LosesClaim \/ Unwinds
  <2>1. /\ UNCHANGED <<stage, sawAbort>>
        /\ task' # "working" /\ task # "none"
    BY <1>2 DEF StopsWaiting, Proceeds, Finishes, Releases, TeardownFails, LosesClaim,
       Unwinds, agentVars, Thinking, Working, Active
  <2> QED
    BY <1>0, <2>1, RestKeepsCleanup DEF CleanupInv, LoopAlone
<1>3. CASE Ends
  <2>1. task' = "none" /\ sawAbort' = FALSE
    BY <1>3 DEF Ends
  <2> QED
    BY <1>0, <2>1, RestKeepsCleanup
<1>4. CASE Allocates \/ AsksApproval \/ SubmitsReview
  <2>1. UNCHANGED <<status, task, stage, seen, sawAbort>>
    BY <1>4 DEF Allocates, AsksApproval, SubmitsReview, RequestApproval, ticketVars,
       agentVars
  <2> QED
    BY <1>0, <2>1, WorkKeepsCleanup DEF CleanupInv, LoopAlone
<1>5. CASE Run
  <2>1. /\ UNCHANGED <<status, previous, abortRequested, stage>>
        /\ task # "none" /\ task' = "working"
        /\ seen' = status /\ sawAbort' = abortRequested
    BY <1>5 DEF Run, ticketVars
  <2>2. stage \in Dispatchable /\ stage \notin Paused
    BY <2>1 DEF CleanupInv, Staged, Dispatchable
  <2> QED
    BY <1>0, <2>1, <2>2 DEF CleanupInv, Staged, LoopAlone, RepliesLead, AbortsStand,
       AbortsSeen
<1>6. CASE Answered
  <2>1. /\ UNCHANGED <<status, previous, abortRequested, stage, seen, sawAbort>>
        /\ task # "none" /\ task' \in {"working", "ending"} /\ status \notin Paused
        /\ abortRequested => task' = "ending"
    BY <1>6 DEF Answered, ticketVars, agentVars
  <2> QED
    BY <1>0, <2>1 DEF CleanupInv, Staged, LoopAlone, RepliesLead, AbortsStand, AbortsSeen
<1> QED
  BY <1>1, <1>2, <1>3, <1>4, <1>5, <1>6 DEF Agent

LEMMA UserKeepsCleanup ==
    ASSUME LifecycleInv, CleanupInv, User
    PROVE  CleanupInv'
<1>0. StoreStep /\ UNCHANGED <<poll, task, stage, seen, sawAbort>>
  BY UserSteps DEF User, Starts, AsksResume, AsksAbort, AsksStop, Ask, ResumeLands,
     AbortLands, StopLands, Landed, UserForceCloses, ApprovalSettled, loopVars, agentVars
<1>1. CASE Starts \/ UserForceCloses \/ ApprovalSettled
  <2>1. UNCHANGED requests /\ (status \in Paused \/ status' \notin Paused)
    BY <1>1 DEF Starts, UserForceCloses, ApprovalSettled, Transition, ForceClose,
       SettleApproval, Paused
  <2> QED
    BY <1>0, <2>1, WorkKeepsCleanup DEF CleanupInv, LoopAlone
<1>2. ASSUME NEW kind, NEW to, Ask(kind, to),
             kind = "resume" =>
                to \notin {"awaiting_customer_guidance", "retrospective_pending"}
      PROVE  CleanupInv'
  <2>1. /\ requests' = requests \cup {[kind |-> kind, to |-> to]}
        /\ UNCHANGED <<status, previous, abortRequested>>
    BY <1>2 DEF Ask, ticketVars
  <2>2. RepliesLead'
    BY <1>2, <2>1 DEF CleanupInv, RepliesLead
  <2> QED
    BY <1>0, <2>1, <2>2 DEF CleanupInv, Staged, LoopAlone, AbortsStand, AbortsSeen
<1>3. CASE \E to \in Status : AsksResume(to)
  <2>1. PICK to \in Status : AsksResume(to)
    BY <1>3
  <2>2. status = "awaiting_customer_guidance" /\ (to = previous \/ to \in Reroutes)
    BY <2>1 DEF AsksResume, Paused
  <2>3. previous \notin {"awaiting_customer_guidance", "retrospective_pending"}
    BY <2>2 DEF LifecycleInv, PausedCanResume, CleanupInv, RepliesLead, Paused
  <2>4. to \notin {"awaiting_customer_guidance", "retrospective_pending"}
    BY <2>2, <2>3 DEF Reroutes
  <2> QED
    BY <1>2, <2>1, <2>4 DEF AsksResume
<1>4. CASE AsksAbort \/ \E mode \in StopMode : AsksStop(mode)
  BY <1>2, <1>4 DEF AsksAbort, AsksStop, StopMode
<1>5. ASSUME NEW r \in requests, ResumeLands(r) \/ AbortLands(r) \/ StopLands(r)
      PROVE  CleanupInv'
  <2>1. requests' \subseteq requests
    BY <1>5 DEF ResumeLands, AbortLands, StopLands, Landed
  <2>2. status' = status \/ status' \notin Paused
    <3>1. CASE ResumeLands(r)
      <4>1. r.to # "awaiting_customer_guidance"
        BY <3>1 DEF ResumeLands, CleanupInv, RepliesLead
      <4> QED
        BY <3>1, <4>1 DEF ResumeLands, TryTransition, Transition, Paused, ticketVars
    <3>2. CASE AbortLands(r)
      BY <3>2 DEF AbortLands, TryTransition, Transition, Paused, ticketVars
    <3>3. CASE StopLands(r)
      BY <3>3 DEF StopLands, SetStop
    <3> QED
      BY <1>5, <3>1, <3>2, <3>3
  <2> QED
    BY <1>0, <2>1, <2>2, WorkKeepsCleanup DEF CleanupInv, LoopAlone
<1> QED
  BY <1>1, <1>3, <1>4, <1>5 DEF User

LEMMA CleanupInvariant == Spec => []CleanupInv
<1>1. Init => CleanupInv
  BY DEF Init, CreateTicket, CleanupInv, Staged, LoopAlone, RepliesLead, AbortsStand,
     AbortsSeen, Paused
<1>2. LifecycleInv /\ CleanupInv /\ [Next]_vars => CleanupInv'
  <2>1. LifecycleInv /\ CleanupInv /\ UNCHANGED vars => CleanupInv'
    BY DEF vars, ticketVars, loopVars, agentVars, CleanupInv, Staged, LoopAlone,
       RepliesLead, AbortsStand, AbortsSeen
  <2> QED
    BY <2>1, PollLoopKeepsCleanup, AgentKeepsCleanup, UserKeepsCleanup DEF Next
<1> QED
  BY <1>1, <1>2, LifecycleSafety, PTL DEF Spec

\* Who ends or cancels a task that is not at work leaves the ticket alone or
\* pauses it.
LEMMA OthersOnlyPause ==
    ASSUME Next, task \in {"asking", "cancelling"}, task' # task
    PROVE  UNCHANGED status \/ Transition("awaiting_customer_guidance")
<1>1. CASE PollLoop
  BY <1>1 DEF PollLoop, vars, loopVars, Fetch, FindsBudgetSpent, SkipsCycle,
     SuppressDispatch, Skip, BlockAbsentSuite, HandoffFails, Rewind, PauseBlocked,
     Dispatch, Considers, NothingToStop, HardStop, GracefulStop, GracefulStopIdle,
     CloseStopped, WatchdogCloses, WatchdogKills, WatchdogIdle, TryTransition, ticketVars
<1>2. CASE Agent
  BY <1>2 DEF Agent, Recheck, ReturnToHardware, Run, Drift, GivesUp, AsksHuman,
     CannotAsk, Answered, StopsWaiting, SubmitsReview, Proceeds, Finishes, Allocates,
     AsksApproval, Releases, TeardownFails, LosesClaim, Unwinds, Ends, Thinking,
     Working, TryTransition, ticketVars
<1>3. CASE User
  BY <1>3 DEF User, Starts, AsksResume, AsksAbort, AsksStop, Ask, ResumeLands,
     AbortLands, StopLands, Landed, UserForceCloses, ApprovalSettled
<1> QED
  BY <1>1, <1>2, <1>3 DEF Next

\* Whatever the users do, an abort that was recorded while an agent was at work at
\* its own stage, or waiting for an answer there, is not followed by a move of that
\* agent (base.py: _request_human_input, _check_drift).
THEOREM CleanupIsLeftAlone == Spec => CleanupStands
<1>1. ASSUME CleanupInv, Next
      PROVE  task' # task /\ task \in {"working", "asking", "cancelling"}
             /\ seen = stage /\ stage \notin NoResume
             /\ abortRequested /\ ~sawAbort /\ status \in NoResume
               => status' = status \/ (status' \in Paused /\ previous' = status)
  <2> SUFFICES ASSUME task \in {"working", "asking", "cancelling"}, task' # task,
                      seen = stage, abortRequested, ~sawAbort, status \in NoResume
               PROVE  status' = status \/ (status' \in Paused /\ previous' = status)
    OBVIOUS
  <2>1. task # "working"
    BY <1>1 DEF CleanupInv, AbortsSeen
  <2>2. CASE UNCHANGED status
    BY <2>2
  <2>3. CASE Transition("awaiting_customer_guidance")
    BY <1>1, <2>3 DEF Transition, Pause, Paused, NoResume
  <2> QED
    BY <1>1, <2>1, <2>2, <2>3, OthersOnlyPause
<1>2. CleanupInv /\ [Next]_vars
        => [task' # task /\ task \in {"working", "asking", "cancelling"}
            /\ seen = stage /\ stage \notin NoResume
            /\ abortRequested /\ ~sawAbort /\ status \in NoResume
              => status' = status \/ (status' \in Paused /\ previous' = status)]_vars
  BY <1>1
<1> QED
  BY <1>2, CleanupInvariant, PTL DEF Spec, CleanupStands

-----------------------------------------------------------------------------
\* Tickets that do not gather context: the context stage ends at the same status
\* as the teardown does.

WithoutContext ==
    /\ "gathering_context" \notin {status, previous, stage}
    /\ snapshot # NoSnapshot => snapshot.status # "gathering_context"
    /\ \A r \in requests : r.to # "gathering_context"

LEMMA StoreStepWithoutContext ==
    ASSUME "gathering_context" \notin Path, WithoutContext, StoreStep
    PROVE  "gathering_context" \notin {status', previous'}
<1>1. "gathering_context" \notin Targets
  BY DEF Targets, WithoutContext
<1>2. ASSUME NEW new \in Targets, Transition(new)
      PROVE  "gathering_context" \notin {status', previous'}
  BY <1>1, <1>2 DEF Transition, Pause, Move, WithoutContext, None
<1> QED
  BY <1>2 DEF StoreStep, WithoutContext, ticketVars, ForceClose, SetStop, RequestApproval,
     SettleApproval

LEMMA NextWithoutContext ==
    ASSUME "gathering_context" \notin Path, WithoutContext, LifecycleInv, [Next]_vars
    PROVE  WithoutContext'
<1>1. "gathering_context" \notin {status', previous'}
  BY NextSteps, StoreStepWithoutContext
<1>2. CASE UNCHANGED vars
  BY <1>1, <1>2 DEF vars, loopVars, agentVars, WithoutContext
<1>3. CASE PollLoop
  <2>1. UNCHANGED requests /\ stage' \in {stage, snapshot.status}
    BY <1>3 DEF PollLoop, vars, loopVars, Fetch, FindsBudgetSpent, SkipsCycle,
       SuppressDispatch, Skip, BlockAbsentSuite, HandoffFails, Rewind, PauseBlocked,
       Dispatch, NothingToStop, HardStop, GracefulStop, GracefulStopIdle, CloseStopped,
       WatchdogCloses, WatchdogKills, WatchdogIdle, agentVars
  <2>2. stage' # "gathering_context"
    BY <1>3, <2>1 DEF PollLoop, vars, loopVars, Fetch, FindsBudgetSpent, SkipsCycle,
       SuppressDispatch, Skip, BlockAbsentSuite, HandoffFails, Rewind, PauseBlocked,
       Dispatch, Considers, NothingToStop, HardStop, GracefulStop, GracefulStopIdle,
       CloseStopped, WatchdogCloses, WatchdogKills, WatchdogIdle, agentVars,
       WithoutContext
  <2>3. \/ snapshot' \in {snapshot, NoSnapshot}
        \/ snapshot'.status = status
    BY <1>3 DEF PollLoop, FetchedTicket, loopVars, vars, Fetch, FindsBudgetSpent,
       SkipsCycle, SuppressDispatch, Skip, BlockAbsentSuite, HandoffFails, Rewind,
       PauseBlocked, Dispatch, NothingToStop, HardStop, GracefulStop, GracefulStopIdle,
       CloseStopped, WatchdogCloses, WatchdogKills, WatchdogIdle
  <2> QED
    BY <1>1, <2>1, <2>2, <2>3 DEF WithoutContext
<1>4. CASE Agent
  <2>1. UNCHANGED <<requests, snapshot>> /\ stage' \in {stage, None}
    BY <1>4 DEF Agent, Recheck, ReturnToHardware, Run, Drift, GivesUp, AsksHuman,
       CannotAsk, Answered, StopsWaiting, SubmitsReview, Proceeds, Finishes, Allocates,
       AsksApproval, Releases, TeardownFails, LosesClaim, Unwinds, Ends, loopVars,
       agentVars
  <2> QED
    BY <1>1, <2>1 DEF WithoutContext, None
<1>5. CASE User
  <2>1. UNCHANGED <<stage, snapshot>>
    BY <1>5 DEF User, Starts, AsksResume, AsksAbort, AsksStop, Ask, ResumeLands,
       AbortLands, StopLands, Landed, UserForceCloses, ApprovalSettled, loopVars, agentVars
  <2>2. ASSUME NEW r \in requests' PROVE r.to # "gathering_context"
    <3>1. CASE r \in requests
      BY <3>1 DEF WithoutContext
    <3>2. CASE r \notin requests
      <4>1. PICK kind, to : /\ r = [kind |-> kind, to |-> to]
                            /\ to \in {None, previous} \cup Reroutes
        BY <1>5, <2>2, <3>2 DEF User, Starts, AsksResume, AsksAbort, AsksStop, Ask,
           ResumeLands, AbortLands, StopLands, Landed, UserForceCloses, ApprovalSettled
      <4>2. to # "gathering_context"
        BY <4>1 DEF WithoutContext, Reroutes, None
      <4> QED
        BY <4>1, <4>2
    <3> QED
      BY <3>1, <3>2
  <2> QED
    BY <1>1, <2>1, <2>2 DEF WithoutContext
<1> QED
  BY <1>2, <1>3, <1>4, <1>5 DEF Next

\* The move from teardown to the end of the ticket is the teardown agent's.
LEMMA OnlyTeardownEnds ==
    ASSUME CleanupInv, WithoutContext, [Next]_vars,
           status = "awaiting_teardown", status' = "retrospective_pending", reserved'
    PROVE  abortRequested
<1>1. ASSUME NEW new, Transition(new) PROVE new = "retrospective_pending"
  BY <1>1 DEF Transition
<1>2. Next
  BY DEF vars, ticketVars
<1>3. ~PollLoop
  <2>1. ~TryTransition("awaiting_customer_guidance")
    BY <1>1 DEF TryTransition, ticketVars
  <2>2. ASSUME Rewind PROVE FALSE
    <3>1. \A s \in DOMAIN HandoffRetryStatus :
             HandoffRetryStatus[s] # "retrospective_pending"
      BY DEF HandoffRetryStatus
    <3> QED
      BY <1>1, <2>2, <3>1 DEF Rewind, TryTransition, ticketVars
  <2>3. status' # status /\ status' # "closed"
    OBVIOUS
  <2> QED
    BY <1>1, <2>1, <2>2, <2>3 DEF PollLoop, vars, loopVars, Fetch, FindsBudgetSpent,
       SkipsCycle, SuppressDispatch, Skip, BlockAbsentSuite, HandoffFails, PauseBlocked,
       Dispatch, NothingToStop, HardStop, GracefulStop, GracefulStopIdle, CloseStopped,
       ForceClose, WatchdogCloses, WatchdogKills, WatchdogIdle, ticketVars
<1>4. ~User
  <2>1. ASSUME NEW r \in requests, ResumeLands(r) PROVE FALSE
    BY <1>1, <2>1 DEF ResumeLands, TryTransition, ticketVars, CleanupInv, RepliesLead
  <2>2. ASSUME NEW r \in requests, AbortLands(r) \/ StopLands(r) PROVE FALSE
    BY <1>1, <2>2 DEF AbortLands, StopLands, SetStop, TryTransition, ticketVars
  <2> QED
    BY <1>1, <2>1, <2>2 DEF User, Starts, AsksResume, AsksAbort, AsksStop, Ask,
       UserForceCloses, ForceClose, ApprovalSettled, SettleApproval, ticketVars
<1>5. Agent
  BY <1>2, <1>3, <1>4 DEF Next
<1>6. ASSUME NEW new \in Path, Proceeds(new) PROVE FALSE
  <2>1. /\ new = "retrospective_pending" /\ new \in ValidTransitions[stage]
        /\ stage # "awaiting_teardown" /\ task # "none"
    BY <1>1, <1>6 DEF Proceeds, Thinking, Working
  <2>2. stage \in Status /\ stage # "gathering_context"
    BY <2>1 DEF CleanupInv, Staged, Dispatchable, WithoutContext
  <2>3. \A s \in Status \ {"awaiting_teardown", "gathering_context"} :
           "retrospective_pending" \notin ValidTransitions[s]
    BY StatusList DEF ValidTransitions
  <2> QED
    BY <2>1, <2>2, <2>3
<1>7. CASE TeardownFails
  BY <1>1, <1>7 DEF TeardownFails, TryTransition, ticketVars, CleanupInv, AbortsStand
<1>8. ~Releases
  BY DEF Releases
<1>9. ~(GivesUp \/ CannotAsk \/ AsksHuman \/ ReturnToHardware \/ Unwinds)
  BY <1>1 DEF GivesUp, CannotAsk, AsksHuman, ReturnToHardware, Unwinds, Fenced,
     TryTransition, ticketVars
<1>10. status' # status
  OBVIOUS
<1> QED
  BY <1>5, <1>6, <1>7, <1>8, <1>9, <1>10 DEF Agent, Recheck, Run, Drift, Answered,
     StopsWaiting, SubmitsReview, Finishes, Allocates, AsksApproval, RequestApproval,
     LosesClaim, Ends, ticketVars

\* On a path without a context stage, for all users and all numbers of their requests, a
\* ticket goes on from teardown with its reservation unreleased only if it is marked
\* aborted (pause_teardown).  The assumption is needed: an agent dispatched for the
\* context stage from an outdated list may find its ticket at teardown and end it.
THEOREM ReservationsAreReleased ==
    "gathering_context" \notin Path => (Spec => UnreleasedIsAborted)
<1> SUFFICES ASSUME "gathering_context" \notin Path PROVE Spec => UnreleasedIsAborted
  OBVIOUS
<1>1. Init => WithoutContext
  BY DEF Init, CreateTicket, WithoutContext, None
<1>2. WithoutContext /\ LifecycleInv /\ [Next]_vars => WithoutContext'
  BY NextWithoutContext
<1>3. CleanupInv /\ WithoutContext /\ [Next]_vars
        => [status = "awaiting_teardown" /\ status' = "retrospective_pending" /\ reserved'
              => abortRequested]_vars
  BY OnlyTeardownEnds
<1> QED
  BY <1>1, <1>2, <1>3, CleanupInvariant, LifecycleSafety, PTL DEF Spec, UnreleasedIsAborted

-----------------------------------------------------------------------------
\* Plans.  What the operators of _advance_plan do to a list of steps.

\* The plan whose steps before n are finished and whose steps from n on have
\* not begun.
Cut(s, n) ==
    /\ s \in Seq(Step)
    /\ n \in 1 .. Len(s) + 1
    /\ \A i \in 1 .. n - 1 : s[i].state \in Finished
    /\ \A i \in n .. Len(s) : s[i].state \in {"pending", "skipped"}

\* The cursor at c: what is before it is finished, nothing behind it has begun.
Ordered(s, c) ==
    /\ s \in Seq(Step)
    /\ c \in 1 .. Len(s) + 1
    /\ \A i \in 1 .. c - 1 : s[i].state \in Finished
    /\ \A i \in c + 1 .. Len(s) : s[i].state \in {"pending", "skipped"}

\* The first n steps are those of s.
Begins(t, s, n) ==
    /\ Len(s) <= Len(t)
    /\ \A i \in 1 .. n : t[i] = s[i]

\* What becomes of one step when a range of steps changes its state.
LEMMA StepChanges ==
    ASSUME NEW x \in Step, NEW state \in StepState
    PROVE  /\ [x EXCEPT !.state = state] \in Step
           /\ [x EXCEPT !.state = state].state = state
           /\ [x EXCEPT !.state = state].agent = x.agent
BY DEF Step

\* Changing the steps one by one keeps their number and their order.
LEMMA MappedSteps ==
    ASSUME NEW s \in Seq(Step), NEW t, t = [i \in DOMAIN s |-> t[i]],
           \A i \in 1 .. Len(s) : t[i] \in Step
    PROVE  t \in Seq(Step) /\ Len(t) = Len(s)
<1>1. DOMAIN s = 1 .. Len(s) /\ Len(s) \in Nat
  OBVIOUS
<1>2. t \in [1 .. Len(s) -> Step]
  BY <1>1
<1> QED
  BY <1>1, <1>2

\* InState leaves a list of steps and changes the named range only.
LEMMA InStateFacts ==
    ASSUME NEW s \in Seq(Step), NEW from \in Int, NEW to \in Int,
           NEW state \in StepState, NEW t, t = InState(s, from, to, state)
    PROVE  /\ t \in Seq(Step)
           /\ Len(t) = Len(s)
           /\ \A i \in 1 .. Len(s) :
                 /\ t[i].agent = s[i].agent
                 /\ from <= i /\ i <= to => t[i].state = state
                 /\ ~(from <= i /\ i <= to) => t[i] = s[i]
<1>1. DOMAIN s = 1 .. Len(s) /\ \A i \in 1 .. Len(s) : s[i] \in Step
  OBVIOUS
<1>2. \A i \in 1 .. Len(s) :
         t[i] = IF from <= i /\ i <= to THEN [s[i] EXCEPT !.state = state] ELSE s[i]
  BY <1>1 DEF InState
<1>3. t = [i \in DOMAIN s |-> t[i]]
  BY DEF InState
<1>4. ASSUME NEW i \in 1 .. Len(s)
      PROVE  /\ t[i] \in Step
             /\ t[i].agent = s[i].agent
             /\ from <= i /\ i <= to => t[i].state = state
             /\ ~(from <= i /\ i <= to) => t[i] = s[i]
  <2>1. CASE from <= i /\ i <= to
    <3>1. t[i] = [s[i] EXCEPT !.state = state] /\ s[i] \in Step
      BY <1>1, <1>2, <2>1
    <3> QED
      BY <2>1, <3>1, StepChanges
  <2>2. CASE ~(from <= i /\ i <= to)
    BY <1>1, <1>2, <2>2
  <2> QED
    BY <2>1, <2>2
<1>5. t \in Seq(Step) /\ Len(t) = Len(s)
  BY <1>3, <1>4, MappedSteps
<1> QED
  BY <1>4, <1>5

\* Skipped skips what has not ended in its range, and changes nothing else.
LEMMA SkippedFacts ==
    ASSUME NEW s \in Seq(Step), NEW from \in Int, NEW to \in Int,
           NEW t, t = Skipped(s, from, to)
    PROVE  /\ t \in Seq(Step)
           /\ Len(t) = Len(s)
           /\ \A i \in 1 .. Len(s) :
                 /\ from <= i /\ i <= to /\ s[i].state \in {"pending", "in_progress"}
                      => t[i].state = "skipped"
                 /\ ~(from <= i /\ i <= to /\ s[i].state \in {"pending", "in_progress"})
                      => t[i] = s[i]
<1>1. DOMAIN s = 1 .. Len(s) /\ \A i \in 1 .. Len(s) : s[i] \in Step
  OBVIOUS
<1> DEFINE In(i) == from <= i /\ i <= to /\ s[i].state \in {"pending", "in_progress"}
<1>2. \A i \in 1 .. Len(s) :
         t[i] = IF In(i) THEN [s[i] EXCEPT !.state = "skipped"] ELSE s[i]
  BY <1>1 DEF Skipped
<1>3. t = [i \in DOMAIN s |-> t[i]]
  BY DEF Skipped
<1>4. ASSUME NEW i \in 1 .. Len(s)
      PROVE  /\ t[i] \in Step
             /\ In(i) => t[i].state = "skipped"
             /\ ~In(i) => t[i] = s[i]
  <2>1. CASE In(i)
    <3>1. t[i] = [s[i] EXCEPT !.state = "skipped"] /\ s[i] \in Step
      BY <1>1, <1>2, <2>1
    <3>2. "skipped" \in StepState
      BY DEF StepState
    <3> QED
      BY <2>1, <3>1, <3>2, StepChanges
  <2>2. CASE ~In(i)
    BY <1>1, <1>2, <2>2
  <2> QED
    BY <2>1, <2>2
<1>5. t \in Seq(Step) /\ Len(t) = Len(s)
  <2> HIDE DEF In
  <2> QED
    BY <1>3, <1>4, MappedSteps
<1> QED
  BY <1>4, <1>5

\* Skipping up to n moves the cut to n.
LEMMA SkippedCuts ==
    ASSUME NEW s, NEW m, Cut(s, m), NEW n \in m .. Len(s) + 1,
           NEW t, t = Skipped(s, m, n - 1)
    PROVE  Cut(t, n) /\ Begins(t, s, m - 1)
<1>1. s \in Seq(Step) /\ Len(s) \in Nat /\ m \in 1 .. Len(s) + 1
  BY DEF Cut
<1>2. m \in Int /\ n \in Int /\ n - 1 \in Int /\ n \in 1 .. Len(s) + 1
  BY <1>1
<1>3. /\ t \in Seq(Step)
      /\ Len(t) = Len(s)
      /\ \A i \in 1 .. Len(s) :
            /\ m <= i /\ i <= n - 1 /\ s[i].state \in {"pending", "in_progress"}
                 => t[i].state = "skipped"
            /\ ~(m <= i /\ i <= n - 1 /\ s[i].state \in {"pending", "in_progress"})
                 => t[i] = s[i]
  BY <1>1, <1>2, SkippedFacts
<1>4. ASSUME NEW i \in 1 .. n - 1 PROVE t[i].state \in Finished
  <2>1. i \in 1 .. Len(s)
    BY <1>1, <1>2
  <2>2. CASE i < m
    BY <1>1, <1>2, <1>3, <2>1, <2>2 DEF Cut
  <2>3. CASE i >= m
    <3>1. s[i].state \in {"pending", "skipped"}
      BY <1>1, <1>2, <2>1, <2>3 DEF Cut
    <3> QED
      BY <1>2, <1>3, <2>1, <2>3, <3>1 DEF Finished
  <2> QED
    BY <1>1, <1>2, <2>2, <2>3
<1>5. ASSUME NEW i \in n .. Len(t) PROVE t[i].state \in {"pending", "skipped"}
  <2>1. i \in 1 .. Len(s) /\ i \in m .. Len(s) /\ ~(i <= n - 1)
    BY <1>1, <1>2, <1>3
  <2> QED
    BY <1>3, <2>1 DEF Cut
<1>6. ASSUME NEW i \in 1 .. m - 1 PROVE t[i] = s[i]
  <2>1. i \in 1 .. Len(s) /\ ~(m <= i)
    BY <1>1, <1>2
  <2> QED
    BY <1>3, <2>1
<1> QED
  BY <1>1, <1>2, <1>3, <1>4, <1>5, <1>6 DEF Cut, Begins

\* A set of positions that is not empty has a first and a last one.
LEMMA Least ==
    ASSUME NEW T \in SUBSET Nat, T # {}
    PROVE  \E x \in T : \A y \in T : x <= y
<1> DEFINE R == OpToRel(<, Nat)
<1>1. IsWellFoundedOn(R, Nat)
  BY NatLessThanWellFounded
<1>2. \A x, y \in Nat : y < x => <<y, x>> \in R
  BY DEF OpToRel
<1> HIDE DEF R
<1>3. PICK x \in T : \A y \in T : ~ (<<y, x>> \in R)
  BY <1>1, WFMin
<1>4. x \in Nat /\ \A y \in T : y \in Nat /\ ~(y < x)
  BY <1>2, <1>3
<1> QED
  BY <1>4

LEMMA Greatest ==
    ASSUME NEW n \in Nat, NEW T \in SUBSET (0 .. n), T # {}
    PROVE  \E x \in T : \A y \in T : y <= x
<1> DEFINE U == {n - x : x \in T}
<1>0. \A x \in T : x \in Nat /\ n - x \in Nat
  OBVIOUS
<1>1. U \in SUBSET Nat /\ U # {}
  BY <1>0
<1>2. PICK u \in U : \A v \in U : u <= v
  <2> HIDE DEF U
  <2> QED
    BY <1>1, Least
<1>3. PICK x \in T : u = n - x
  BY <1>2
<1>4. \A y \in T : n - x <= n - y
  BY <1>2, <1>3
<1> QED
  BY <1>4

LEMMA FirstIsLeast ==
    ASSUME NEW T \in SUBSET Nat, T # {}
    PROVE  First(T) \in T /\ \A y \in T : First(T) <= y
BY Least DEF First

LEMMA LastIsGreatest ==
    ASSUME NEW n \in Nat, NEW T \in SUBSET (0 .. n), T # {}
    PROVE  Last(T) \in T /\ \A y \in T : y <= Last(T)
BY Greatest DEF Last

Inserted(s, n, x) == SubSeq(s, 1, n - 1) \o <<x>> \o SubSeq(s, n, Len(s))

\* One step put in before the n-th.
LEMMA InsertFacts ==
    ASSUME NEW s \in Seq(Step), NEW n \in 1 .. Len(s), NEW x \in Step,
           NEW t, t = Inserted(s, n, x)
    PROVE  /\ t \in Seq(Step)
           /\ Len(t) = Len(s) + 1
           /\ \A i \in 1 .. n - 1 : t[i] = s[i]
           /\ t[n] = x
           /\ \A i \in n + 1 .. Len(t) : t[i] = s[i - 1]
<1>1. Len(s) \in Nat /\ n \in Int /\ n - 1 \in Int /\ 1 \in Int
  OBVIOUS
<1>2. PICK a : a = SubSeq(s, 1, n - 1)
  OBVIOUS
<1>3. PICK b : b = SubSeq(s, n, Len(s))
  OBVIOUS
<1>4. /\ a \in Seq(Step)
      /\ Len(a) = n - 1
      /\ \A i \in 1 .. n - 1 : a[i] = s[i]
  <2>1. \A i \in 1 .. n - 1 : s[i] \in Step
    BY <1>1
  <2>2. /\ SubSeq(s, 1, n - 1) \in Seq(Step)
        /\ Len(SubSeq(s, 1, n - 1)) = IF 1 <= n - 1 THEN n - 1 - 1 + 1 ELSE 0
        /\ \A i \in 1 .. n - 1 - 1 + 1 : SubSeq(s, 1, n - 1)[i] = s[1 + i - 1]
    BY <1>1, <2>1, SubSeqProperties
  <2> QED
    BY <1>1, <1>2, <2>2
<1>5. /\ b \in Seq(Step)
      /\ Len(b) = Len(s) - n + 1
      /\ \A i \in 1 .. Len(s) - n + 1 : b[i] = s[n + i - 1]
  <2>1. \A i \in n .. Len(s) : s[i] \in Step
    BY <1>1
  <2>2. /\ SubSeq(s, n, Len(s)) \in Seq(Step)
        /\ Len(SubSeq(s, n, Len(s))) = IF n <= Len(s) THEN Len(s) - n + 1 ELSE 0
        /\ \A i \in 1 .. Len(s) - n + 1 : SubSeq(s, n, Len(s))[i] = s[n + i - 1]
    BY <1>1, <2>1, SubSeqProperties
  <2> QED
    BY <1>1, <1>3, <2>2
<1>6. PICK y : y = <<x>>
  OBVIOUS
<1>7. y \in Seq(Step) /\ Len(y) = 1 /\ y[1] = x
  BY <1>6
<1>16. PICK c : c = a \o y
  OBVIOUS
<1>8. /\ c \in Seq(Step)
      /\ Len(c) = n
      /\ \A i \in 1 .. n : c[i] = IF i <= n - 1 THEN a[i] ELSE y[i - (n - 1)]
  <2>1. /\ c \in Seq(Step)
        /\ Len(c) = Len(a) + Len(y)
        /\ \A i \in 1 .. Len(a) + Len(y) :
              c[i] = IF i <= Len(a) THEN a[i] ELSE y[i - Len(a)]
    BY <1>4, <1>16, <1>7, ConcatProperties
  <2>2. Len(a) + Len(y) = n
    BY <1>1, <1>4, <1>7
  <2> QED
    BY <1>4, <2>1, <2>2
<1>9. c[n] = x
  <2>1. n \in 1 .. n /\ ~(n <= n - 1) /\ n - (n - 1) = 1
    BY <1>1
  <2> QED
    BY <1>7, <1>8, <2>1
<1>10. ASSUME NEW i \in 1 .. n - 1 PROVE c[i] = s[i]
  <2>1. i \in 1 .. n /\ i <= n - 1
    BY <1>1
  <2>2. c[i] = a[i]
    BY <1>8, <2>1
  <2> QED
    BY <1>4, <2>2
<1>11. t = c \o b
  BY <1>2, <1>3, <1>6, <1>16 DEF Inserted
<1>12. /\ t \in Seq(Step)
       /\ Len(t) = Len(s) + 1
       /\ \A i \in 1 .. Len(s) + 1 : t[i] = IF i <= n THEN c[i] ELSE b[i - n]
  <2>1. /\ t \in Seq(Step)
        /\ Len(t) = Len(c) + Len(b)
        /\ \A i \in 1 .. Len(c) + Len(b) : t[i] = IF i <= Len(c) THEN c[i] ELSE b[i - Len(c)]
    <3>1. b \in Seq(Step) /\ c \in Seq(Step)
      BY <1>5, <1>8
    <3> QED
      BY <1>11, <3>1, ConcatProperties
  <2>2. Len(c) + Len(b) = Len(s) + 1
    BY <1>1, <1>5, <1>8
  <2> QED
    BY <1>8, <2>1, <2>2
<1>13. ASSUME NEW i \in n + 1 .. Len(t) PROVE t[i] = s[i - 1]
  <2>1. i \in 1 .. Len(s) + 1 /\ ~(i <= n) /\ i - n \in 1 .. Len(s) - n + 1
        /\ n + (i - n) - 1 = i - 1
    BY <1>1, <1>12
  <2> QED
    BY <1>5, <1>12, <2>1
<1>14. \A i \in 1 .. n - 1 : t[i] = s[i]
  BY <1>1, <1>10, <1>12
<1>15. t[n] = x
  BY <1>1, <1>9, <1>12
<1> QED
  BY <1>12, <1>13, <1>14, <1>15

\* The injected steps have not begun, and nothing before the cut changes.
LEMMA InjectedCuts ==
    ASSUME NEW s, NEW n, Cut(s, n), NEW t, t = Injected(s, n)
    PROVE  Cut(t, n) /\ Begins(t, s, n - 1)
<1>1. s \in Seq(Step) /\ Len(s) \in Nat /\ n \in 1 .. Len(s) + 1
  BY DEF Cut
<1>2. CASE t = s
  BY <1>1, <1>2 DEF Begins
<1>3. CASE t # s
  <2>0. PICK x : x = [agent |-> "provision", state |-> "pending"]
    OBVIOUS
  <2>1. n \in 1 .. Len(s) /\ t = SubSeq(s, 1, n - 1) \o <<x>> \o SubSeq(s, n, Len(s))
    <3>1. /\ steps[current].agent = "resource" /\ n <= Len(s) /\ s[n].agent # "provision"
          /\ t = SubSeq(s, 1, n - 1) \o <<[agent |-> "provision", state |-> "pending"]>>
                    \o SubSeq(s, n, Len(s))
      BY <1>3 DEF Injected
    <3> QED
      BY <1>1, <2>0, <3>1
  <2>2. x \in Step /\ x.state = "pending"
    BY <2>0 DEF Step, StepAgent, PlanStatus, StepState
  <2>3. /\ t \in Seq(Step)
        /\ Len(t) = Len(s) + 1
        /\ \A i \in 1 .. n - 1 : t[i] = s[i]
        /\ t[n] = x
        /\ \A i \in n + 1 .. Len(t) : t[i] = s[i - 1]
    <3>1. s \in Seq(Step) /\ n \in 1 .. Len(s) /\ x \in Step
      BY <1>1, <2>1, <2>2
    <3>2. t = Inserted(s, n, x)
      BY <2>1 DEF Inserted
    <3>3. \A u : u = Inserted(s, n, x) =>
            /\ u \in Seq(Step)
            /\ Len(u) = Len(s) + 1
            /\ \A i \in 1 .. n - 1 : u[i] = s[i]
            /\ u[n] = x
            /\ \A i \in n + 1 .. Len(u) : u[i] = s[i - 1]
      BY <3>1, InsertFacts
    <3> QED
      BY <3>2, <3>3
  <2>4. \A i \in 1 .. n - 1 : t[i].state \in Finished
    BY <2>3 DEF Cut
  <2>5. ASSUME NEW i \in n .. Len(t) PROVE t[i].state \in {"pending", "skipped"}
    <3>1. CASE i = n
      BY <2>2, <2>3, <3>1
    <3>2. CASE i # n
      <4>0. n \in 1 .. Len(s) /\ Len(t) = Len(s) + 1 /\ Len(s) \in Nat
        BY <1>1, <2>1, <2>3
      <4>1. i \in n + 1 .. Len(t) /\ i - 1 \in n .. Len(s)
        BY <3>2, <4>0
      <4> QED
        BY <2>3, <4>1 DEF Cut
    <3> QED
      BY <3>1, <3>2
  <2> QED
    BY <1>1, <2>1, <2>3, <2>4, <2>5 DEF Cut, Begins
<1> QED
  BY <1>2, <1>3

\* Skipping the steps behind the cut lets the cut move over what was skipped.
LEMMA RetiredCuts ==
    ASSUME NEW s, NEW n, Cut(s, n), NEW to \in Int, NEW m \in n .. Len(s) + 1,
           m - 1 <= to, to <= Len(s), NEW t, t = InState(s, n, to, "skipped")
    PROVE  Cut(t, m) /\ Begins(t, s, n - 1)
<1>1. s \in Seq(Step) /\ Len(s) \in Nat /\ n \in 1 .. Len(s) + 1 /\ n \in Int
  BY DEF Cut
<1>2. "skipped" \in StepState
  BY DEF StepState
<1>3. /\ t \in Seq(Step)
      /\ Len(t) = Len(s)
      /\ \A i \in 1 .. Len(s) :
            /\ t[i].agent = s[i].agent
            /\ n <= i /\ i <= to => t[i].state = "skipped"
            /\ ~(n <= i /\ i <= to) => t[i] = s[i]
  BY <1>1, <1>2, InStateFacts
<1>4. ASSUME NEW i \in 1 .. m - 1 PROVE t[i].state \in Finished
  <2>1. i \in 1 .. Len(s) /\ i <= to
    BY <1>1
  <2>2. CASE i < n
    <3>1. i \in 1 .. n - 1 /\ ~(n <= i)
      BY <1>1, <2>2
    <3> QED
      BY <1>3, <2>1, <3>1 DEF Cut
  <2>3. CASE n <= i
    BY <1>3, <2>1, <2>3 DEF Finished
  <2> QED
    BY <1>1, <2>2, <2>3
<1>5. ASSUME NEW i \in m .. Len(t) PROVE t[i].state \in {"pending", "skipped"}
  <2>1. i \in 1 .. Len(s) /\ i \in n .. Len(s)
    BY <1>1, <1>3
  <2>2. CASE i <= to
    BY <1>3, <2>1, <2>2
  <2>3. CASE ~(i <= to)
    BY <1>3, <2>1, <2>3 DEF Cut
  <2> QED
    BY <2>2, <2>3
<1>6. ASSUME NEW i \in 1 .. n - 1 PROVE t[i] = s[i]
  <2>1. i \in 1 .. Len(s) /\ ~(n <= i)
    BY <1>1
  <2> QED
    BY <1>3, <2>1
<1>7. m \in 1 .. Len(t) + 1
  BY <1>1, <1>3
<1> QED
  BY <1>1, <1>3, <1>4, <1>5, <1>6, <1>7 DEF Cut, Begins

\* A conclusive analysis or evaluation moves the cut on, never back.
LEMMA ShortcutCuts ==
    ASSUME NEW s, NEW n, Cut(s, n), NEW u, NEW m, Shortcut(s, n) = [steps |-> u, current |-> m]
    PROVE  Cut(u, m) /\ n <= m /\ Begins(u, s, n - 1)
<1>1. s \in Seq(Step) /\ Len(s) \in Nat /\ n \in 1 .. Len(s) + 1
  BY DEF Cut
<1>2. PICK ends : ends = {i \in n .. Len(s) : s[i].agent = Destination}
  OBVIOUS
<1>3. \/ u = s /\ m = n
      \/ ends = {} /\ u = InState(s, n, Len(s), "skipped") /\ m = n
      \/ ends # {} /\ u = InState(s, n, First(ends) - 1, "skipped") /\ m = First(ends)
  BY <1>2 DEF Shortcut
<1>4. CASE u = s /\ m = n
  BY <1>1, <1>4 DEF Begins
<1>5. CASE u = InState(s, n, Len(s), "skipped") /\ m = n
  <2>1. Len(s) \in Int /\ n \in n .. Len(s) + 1 /\ n - 1 <= Len(s) /\ n <= n
    BY <1>1
  <2> QED
    BY <1>1, <1>5, <2>1, RetiredCuts
<1>6. CASE ends # {} /\ u = InState(s, n, First(ends) - 1, "skipped") /\ m = First(ends)
  <2>1. ends \in SUBSET Nat /\ ends \subseteq n .. Len(s)
    BY <1>1, <1>2
  <2>2. m \in ends
    BY <1>6, <2>1, FirstIsLeast
  <2>3. /\ m - 1 \in Int /\ m \in n .. Len(s) + 1 /\ m - 1 <= m - 1 /\ m - 1 <= Len(s)
        /\ n <= m
    BY <1>1, <2>1, <2>2
  <2>4. u = InState(s, n, m - 1, "skipped")
    BY <1>6
  <2> QED
    BY <2>3, <2>4, RetiredCuts
<1> QED
  BY <1>3, <1>4, <1>5, <1>6

\* An agent that chose its own way has its next step behind the cursor, or none.
LEMMA RoutedBounds ==
    ASSUME NEW s \in Seq(Step), current \in 1 .. Len(s)
    PROVE  Routed(s) \in current + 1 .. Len(s) + 1
<1>1. PICK next : next = {i \in current + 1 .. Len(s) :
                    /\ PlanStatus[s[i].agent] =
                         IF decision = "loop_plan" /\ status = "planning_investigation"
                              /\ assigned = "evaluating_convergence"
                         THEN "executing_benchmark" ELSE status
                    /\ s[i].state \in {"pending", "in_progress"}}
  OBVIOUS
<1>2. Len(s) \in Nat /\ next \subseteq current + 1 .. Len(s)
  BY <1>1
<1>3. next \in SUBSET Nat /\ next \in SUBSET (0 .. Len(s))
  BY <1>2
<1>4. \/ next = {} /\ Routed(s) = Len(s) + 1
      \/ next # {} /\ Routed(s) \in {First(next), Last(next)}
  BY <1>1 DEF Routed
<1>5. next # {} => First(next) \in next /\ Last(next) \in next
  BY <1>2, <1>3, FirstIsLeast, LastIsGreatest
<1>6. CASE next = {}
  BY <1>2, <1>4, <1>6
<1>7. CASE next # {}
  <2>1. PICK r : r = Routed(s)
    OBVIOUS
  <2>2. r \in next
    BY <1>4, <1>5, <1>7, <2>1
  <2>3. r \in current + 1 .. Len(s)
    BY <1>2, <2>2
  <2>4. r \in current + 1 .. Len(s) + 1
    BY <1>2, <2>3
  <2> QED
    BY <2>1, <2>4
<1> QED
  BY <1>6, <1>7

\* What a computed plan promises of the stored one, as long as its task holds it.
Fits(d) ==
    /\ d \in Draft
    /\ Ordered(d.steps, d.current)
    /\ current <= d.current
    /\ current <= Len(steps)
    /\ Len(steps) <= Len(d.steps)
    /\ \A i \in 1 .. current - 1 : d.steps[i] = steps[i]
    /\ d.steps[current].agent = steps[current].agent
    /\ d.steps[current].state = "completed"

\* The current step is completed: the plan is cut behind the cursor.
LEMMA CompletedFacts ==
    ASSUME Ordered(steps, current), current <= Len(steps),
           NEW t, t = InState(steps, current, current, "completed")
    PROVE  /\ Cut(t, current + 1)
           /\ Len(t) = Len(steps)
           /\ \A i \in 1 .. current - 1 : t[i] = steps[i]
           /\ t[current].agent = steps[current].agent
           /\ t[current].state = "completed"
<1>1. /\ steps \in Seq(Step) /\ Len(steps) \in Nat /\ current \in 1 .. Len(steps)
      /\ current \in Int
  BY DEF Ordered
<1>2. "completed" \in StepState
  BY DEF StepState
<1>3. /\ t \in Seq(Step)
      /\ Len(t) = Len(steps)
      /\ \A i \in 1 .. Len(steps) :
            /\ t[i].agent = steps[i].agent
            /\ current <= i /\ i <= current => t[i].state = "completed"
            /\ ~(current <= i /\ i <= current) => t[i] = steps[i]
  BY <1>1, <1>2, InStateFacts
<1>4. ASSUME NEW i \in 1 .. current - 1 PROVE t[i] = steps[i]
  <2>1. i \in 1 .. Len(steps) /\ ~(current <= i)
    BY <1>1
  <2> QED
    BY <1>3, <2>1
<1>5. t[current].agent = steps[current].agent /\ t[current].state = "completed"
  <2>1. current <= current
    BY <1>1
  <2> QED
    BY <1>1, <1>3, <2>1
<1>6. ASSUME NEW i \in 1 .. current PROVE t[i].state \in Finished
  <2>1. CASE i = current
    BY <1>5, <2>1 DEF Finished
  <2>2. CASE i # current
    <3>1. i \in 1 .. current - 1
      BY <1>1, <2>2
    <3> QED
      BY <1>4, <3>1 DEF Ordered
  <2> QED
    BY <2>1, <2>2
<1>7. ASSUME NEW i \in current + 1 .. Len(t) PROVE t[i].state \in {"pending", "skipped"}
  <2>1. i \in 1 .. Len(steps) /\ ~(i <= current) /\ i \in current + 1 .. Len(steps)
    BY <1>1, <1>3
  <2>2. t[i] = steps[i]
    BY <1>3, <2>1
  <2> QED
    BY <2>1, <2>2 DEF Ordered
<1>8. PICK c : c = current + 1
  OBVIOUS
<1>9. c \in 1 .. Len(t) + 1 /\ c - 1 = current
  BY <1>1, <1>3, <1>8
<1>10. Cut(t, c)
  BY <1>3, <1>6, <1>7, <1>8, <1>9 DEF Cut
<1> QED
  BY <1>3, <1>4, <1>5, <1>8, <1>10

\* The steps that NextPlan puts together are cut at the new cursor, and up to the
\* old one they are those of the completed plan.
LEMMA NextStepsCut ==
    ASSUME Ordered(steps, current), current <= Len(steps),
           NEW done, done = InState(steps, current, current, "completed"),
           NEW n, n = (IF assigned \in AgentRouted THEN Routed(done) ELSE current + 1),
           NEW u, NEW m,
           Shortcut(Injected(Skipped(done, current + 1, n - 1), n), n)
             = [steps |-> u, current |-> m]
    PROVE  /\ Cut(u, m) /\ current < m /\ Begins(u, done, current)
           /\ n \in Nat \ {0}
           /\ Injected(Skipped(done, current + 1, n - 1), n) \in Seq(Step)
<1>1. /\ steps \in Seq(Step) /\ Len(steps) \in Nat /\ current \in 1 .. Len(steps)
  BY DEF Ordered
<1>2. Cut(done, current + 1) /\ Len(done) = Len(steps)
  BY CompletedFacts
<1>3. done \in Seq(Step) /\ current \in 1 .. Len(done)
  BY <1>1, <1>2 DEF Cut
<1>12. PICK c : c = current + 1
  OBVIOUS
<1>4. n \in current + 1 .. Len(done) + 1
  <2>1. Routed(done) \in current + 1 .. Len(done) + 1
    BY <1>3, RoutedBounds
  <2>2. current + 1 \in current + 1 .. Len(done) + 1
    BY <1>1, <1>3
  <2> QED
    BY <2>1, <2>2
<1>5. PICK k : k = Skipped(done, current + 1, n - 1)
  OBVIOUS
<1>6. Cut(k, n) /\ Begins(k, done, current)
  <2>1. Cut(done, c) /\ n \in c .. Len(done) + 1 /\ k = Skipped(done, c, n - 1)
    BY <1>2, <1>4, <1>5, <1>12
  <2>2. Cut(k, n) /\ Begins(k, done, c - 1)
    BY <2>1, SkippedCuts
  <2>3. c - 1 = current
    BY <1>1, <1>12
  <2> QED
    BY <2>2, <2>3
<1>7. PICK j : j = Injected(k, n)
  OBVIOUS
<1>8. Cut(j, n) /\ Begins(j, k, n - 1)
  BY <1>6, <1>7, InjectedCuts
<1>9. Cut(u, m) /\ n <= m /\ Begins(u, j, n - 1)
  <2>1. Shortcut(j, n) = [steps |-> u, current |-> m]
    BY <1>5, <1>7
  <2> QED
    BY <1>8, <2>1, ShortcutCuts
<1>10. Begins(u, done, current)
  <2>0. done \in Seq(Step) /\ k \in Seq(Step) /\ j \in Seq(Step) /\ u \in Seq(Step)
    BY <1>3, <1>6, <1>8, <1>9 DEF Cut
  <2>4. current \in Nat /\ n \in Nat /\ current <= n - 1
    BY <1>1, <1>3, <1>4
  <2>1. /\ Len(done) \in Nat /\ Len(k) \in Nat /\ Len(j) \in Nat /\ Len(u) \in Nat
        /\ current \in Nat /\ n \in Nat /\ current <= n - 1
    BY <2>0, <2>4
  <2>2. Len(done) <= Len(u)
    BY <1>6, <1>8, <1>9, <2>1 DEF Begins
  <2>3. ASSUME NEW i \in 1 .. current PROVE u[i] = done[i]
    <3>1. i \in 1 .. n - 1
      BY <2>1
    <3> QED
      BY <1>6, <1>8, <1>9, <3>1 DEF Begins
  <2> QED
    BY <2>2, <2>3 DEF Begins
<1>11. current < m
  <2>1. m \in Nat /\ n \in Nat /\ current \in Nat /\ current < n
    BY <1>1, <1>3, <1>4, <1>9 DEF Cut
  <2> QED
    BY <1>9, <2>1
<1>13. j \in Seq(Step) /\ n \in Nat \ {0}
  BY <1>1, <1>3, <1>4, <1>8 DEF Cut
<1> QED
  BY <1>5, <1>7, <1>9, <1>10, <1>11, <1>13

\* Every step has a stage of its own.
LEMMA StatusOfSteps ==
    /\ \A a \in StepAgent : PlanStatus[a] \in Status
    /\ PlanManaged \subseteq Status
    /\ "preparing_platform" \in Status /\ "closed" \in Status
BY StatusList DEF StepAgent, PlanStatus, PlanManaged

\* The step at the cut is started: the plan is in order with its cursor there.
LEMMA StartedFacts ==
    ASSUME NEW u, NEW m, Cut(u, m), m <= Len(u),
           NEW v, v = InState(u, m, m, "in_progress")
    PROVE  Ordered(v, m) /\ Begins(v, u, m - 1)
<1>1. u \in Seq(Step) /\ Len(u) \in Nat /\ m \in 1 .. Len(u) /\ m \in Int
  BY DEF Cut
<1>2. "in_progress" \in StepState
  BY DEF StepState
<1>3. /\ v \in Seq(Step)
      /\ Len(v) = Len(u)
      /\ \A i \in 1 .. Len(u) :
            /\ v[i].agent = u[i].agent
            /\ m <= i /\ i <= m => v[i].state = "in_progress"
            /\ ~(m <= i /\ i <= m) => v[i] = u[i]
  BY <1>1, <1>2, InStateFacts
<1>4. ASSUME NEW i \in 1 .. Len(u), i # m PROVE v[i] = u[i]
  <2>1. ~(m <= i /\ i <= m)
    BY <1>1, <1>4
  <2> QED
    BY <1>3, <2>1
<1>5. ASSUME NEW i \in 1 .. m - 1 PROVE v[i] = u[i] /\ v[i].state \in Finished
  <2>1. i \in 1 .. Len(u) /\ i # m
    BY <1>1
  <2> QED
    BY <1>4, <2>1 DEF Cut
<1>6. ASSUME NEW i \in m + 1 .. Len(v) PROVE v[i].state \in {"pending", "skipped"}
  <2>1. i \in 1 .. Len(u) /\ i # m /\ i \in m .. Len(u)
    BY <1>1, <1>3
  <2> QED
    BY <1>4, <2>1 DEF Cut
<1>7. m \in 1 .. Len(v) + 1 /\ Len(u) <= Len(v)
  BY <1>1, <1>3
<1> QED
  BY <1>3, <1>5, <1>6, <1>7 DEF Ordered, Begins

\* What makes a draft fit the stored plan.
LEMMA DraftFacts ==
    ASSUME Ordered(steps, current), current <= Len(steps),
           NEW done, done = InState(steps, current, current, "completed"),
           NEW v, NEW m, Ordered(v, m), current <= m, Begins(v, done, current),
           NEW next \in Status \cup {None},
           NEW d, d = [steps |-> v, current |-> m, next |-> next]
    PROVE  Fits(d)
<1>1. d.steps = v /\ d.current = m
  OBVIOUS
<1>2. /\ Len(done) = Len(steps)
      /\ \A i \in 1 .. current - 1 : done[i] = steps[i]
      /\ done[current].agent = steps[current].agent
      /\ done[current].state = "completed"
  BY CompletedFacts
<1>3. current \in 1 .. Len(steps) /\ Len(steps) \in Nat
  BY DEF Ordered
<1>4. \A i \in 1 .. current - 1 : v[i] = steps[i]
  BY <1>2, <1>3 DEF Begins
<1>5. v[current] = done[current]
  <2>1. current \in 1 .. current
    BY <1>3
  <2> QED
    BY <2>1 DEF Begins
<1>6. m \in Nat \ {0} /\ v \in Seq(Step)
  BY DEF Ordered
<1>7. d \in Draft
  BY <1>6 DEF Draft
<1>8. Len(steps) <= Len(v)
  BY <1>2 DEF Begins
<1> QED
  BY <1>1, <1>2, <1>4, <1>5, <1>7, <1>8 DEF Fits

\* The plan that NextPlan computes fits the one it was computed from.
LEMMA NextPlanFits ==
    ASSUME Ordered(steps, current), current <= Len(steps)
    PROVE  Fits(NextPlan)
<1>1. PICK done : done = InState(steps, current, current, "completed")
  OBVIOUS
<1>2. PICK n : n = IF assigned \in AgentRouted THEN Routed(done) ELSE current + 1
  OBVIOUS
<1>3. PICK j : j = Injected(Skipped(done, current + 1, n - 1), n)
  OBVIOUS
<1>4. \E u, m : Shortcut(j, n) = [steps |-> u, current |-> m]
  BY DEF Shortcut
<1>5. PICK u, m : Shortcut(j, n) = [steps |-> u, current |-> m]
  BY <1>4
<1>6. Cut(u, m) /\ current < m /\ Begins(u, done, current)
  BY <1>1, <1>2, <1>3, <1>5, NextStepsCut
<1>7. /\ u \in Seq(Step) /\ Len(u) \in Nat /\ m \in 1 .. Len(u) + 1
      /\ current \in Nat /\ current <= m /\ current <= m - 1
  BY <1>6 DEF Cut, Ordered
<1>8. PICK d : d = NextPlan
  OBVIOUS
<1>9. CASE m > Len(u)
  <2>1. d = [steps |-> u, current |-> m, next |-> None]
    BY <1>1, <1>2, <1>3, <1>5, <1>8, <1>9 DEF NextPlan
  <2>2. Ordered(u, m)
    <3>1. /\ u \in Seq(Step) /\ m \in 1 .. Len(u) + 1
          /\ \A i \in 1 .. m - 1 : u[i].state \in Finished
      BY <1>6 DEF Cut
    <3>2. \A i \in m + 1 .. Len(u) : u[i].state \in {"pending", "skipped"}
      BY <1>7, <1>9
    <3> QED
      BY <3>1, <3>2 DEF Ordered
  <2> QED
    BY <1>1, <1>6, <1>7, <1>8, <2>1, <2>2, DraftFacts
<1>10. CASE m <= Len(u)
  <2>1. PICK v : v = InState(u, m, m, "in_progress")
    OBVIOUS
  <2>2. PICK to : to = PlanStatus[u[m].agent]
    OBVIOUS
  <2>3. PICK next : next = IF assigned \in AgentRouted THEN None
                           ELSE IF to = "awaiting_provision" /\ assigned = "awaiting_hardware"
                           THEN "preparing_platform" ELSE to
    OBVIOUS
  <2>4. ~(m > Len(u))
    BY <1>7, <1>10
  <2>5. d = [steps |-> v, current |-> m, next |-> next]
    BY <1>1, <1>2, <1>3, <1>5, <1>8, <2>1, <2>2, <2>3, <2>4 DEF NextPlan
  <2>6. next \in Status \cup {None}
    <3>1. m \in 1 .. Len(u)
      BY <1>7, <1>10
    <3>2. u[m].agent \in StepAgent
      <4>1. u[m] \in Step
        BY <1>7, <3>1
      <4> QED
        BY <4>1 DEF Step
    <3> QED
      BY <2>2, <2>3, <3>2, StatusOfSteps
  <2>7. Ordered(v, m) /\ Begins(v, u, m - 1)
    BY <1>6, <1>10, <2>1, StartedFacts
  <2>8. Begins(v, done, current)
    <3>1. v \in Seq(Step) /\ done \in Seq(Step)
      BY <1>1, <2>7, CompletedFacts DEF Ordered, Cut
    <3>2. Len(v) \in Nat /\ Len(done) \in Nat
      BY <3>1
    <3>3. Len(done) <= Len(v)
      BY <1>6, <1>7, <2>7, <3>2 DEF Begins
    <3>4. ASSUME NEW i \in 1 .. current PROVE v[i] = done[i]
      <4>1. i \in 1 .. m - 1
        BY <1>7
      <4> QED
        BY <1>6, <2>7, <4>1 DEF Begins
    <3> QED
      BY <3>3, <3>4 DEF Begins
  <2> QED
    BY <1>1, <1>7, <1>8, <2>5, <2>6, <2>7, <2>8, DraftFacts
<1> QED
  BY <1>7, <1>9, <1>10

\* So does the plan of a ticket that stops after this step.
LEMMA HaltedPlanFits ==
    ASSUME Ordered(steps, current), current <= Len(steps)
    PROVE  Fits(HaltedPlan)
<1>1. PICK done : done = InState(steps, current, current, "completed")
  OBVIOUS
<1>2. PICK m : m = current
  OBVIOUS
<1>3. /\ steps \in Seq(Step) /\ Len(steps) \in Nat /\ current \in 1 .. Len(steps)
      /\ \A i \in 1 .. current - 1 : steps[i].state \in Finished
  BY DEF Ordered
<1>4. /\ done \in Seq(Step)
      /\ Len(done) = Len(steps)
      /\ \A i \in 1 .. current - 1 : done[i] = steps[i]
      /\ \A i \in current + 1 .. Len(done) : done[i].state \in {"pending", "skipped"}
  BY <1>1, CompletedFacts DEF Cut
<1>5. Ordered(done, m)
  BY <1>2, <1>3, <1>4 DEF Ordered
<1>6. Begins(done, done, current)
  BY <1>4 DEF Begins
<1>7. "closed" \in Status \cup {None}
  BY StatusOfSteps
<1>8. PICK d : d = HaltedPlan
  OBVIOUS
<1>9. d = [steps |-> done, current |-> m, next |-> "closed"] /\ current <= m
  BY <1>1, <1>2, <1>3, <1>8 DEF HaltedPlan
<1> QED
  BY <1>1, <1>5, <1>6, <1>7, <1>8, <1>9, DraftFacts

-----------------------------------------------------------------------------
\* Every step changes the ticket through the store, the plan in one of five ways,
\* and the computed plan only where there is none.

TicketStep ==
    \/ UNCHANGED ticketVars
    \/ \E new : Transition(new)
    \/ ForceClose

Aborts == steps' = InState(steps, current, current, "aborted") /\ current' = current

Appends ==
    \E a \in StepAgent : steps' = Append(steps, [agent |-> a, state |-> "pending"])

Persists == phase = "persisting" /\ steps' = draft.steps /\ current' = draft.current

\* Only what aborts the ticket aborts a step.
PlanStep ==
    \/ UNCHANGED <<steps, current, abortRequested>>
    \/ Aborts
    \/ /\ phase' # "persisting"
       /\ UNCHANGED abortRequested
       /\ (Appends /\ UNCHANGED current) \/ Persists

DraftStep ==
    \/ phase' # "persisting"
    \/ UNCHANGED <<phase, draft>>
    \/ draft' \in {HaltedPlan, NextPlan} /\ current <= Len(steps)
       /\ UNCHANGED <<steps, current>>

LEMMA MovesSteps ==
    ASSUME LifecycleInv, NEW new, Moves(new), current' = current
    PROVE  TicketStep /\ (UNCHANGED <<steps, current, abortRequested>> \/ Aborts)
<1>1. Transition(new)
  BY DEF Moves
<1>2. CASE status \in Paused /\ new = "awaiting_teardown"
  BY <1>1, <1>2 DEF Moves, TicketStep, Aborts
<1>3. CASE ~(status \in Paused /\ new = "awaiting_teardown")
  <2>1. UNCHANGED steps
    BY <1>3 DEF Moves
  <2>2. abortRequested' = (abortRequested \/ FALSE)
    BY <1>1, <1>3 DEF Transition, Paused
  <2>3. abortRequested \in BOOLEAN
    BY DEF LifecycleInv, TicketTypeOK
  <2> QED
    BY <1>1, <2>1, <2>2, <2>3 DEF TicketStep
<1> QED
  BY <1>2, <1>3

LEMMA StaysSteps ==
    ASSUME Stays, current' = current
    PROVE  TicketStep /\ UNCHANGED <<steps, current, abortRequested>>
BY DEF Stays, TicketStep, ticketVars

LEMMA TryMoveSteps ==
    ASSUME LifecycleInv, NEW new, TryMove(new), current' = current
    PROVE  TicketStep /\ (UNCHANGED <<steps, current, abortRequested>> \/ Aborts)
BY MovesSteps, StaysSteps DEF TryMove

LEMMA PollSteps ==
    ASSUME RunnerPoll
    PROVE  TicketStep /\ PlanStep /\ DraftStep
BY DEF RunnerPoll, FetchTicket, SkipTicket, DispatchStep, TicketStep, PlanStep,
   DraftStep, planVars, plan,
       taskVars, ticketVars

LEMMA StartSteps ==
    ASSUME Start, steps \in Seq(Step)
    PROVE  TicketStep /\ PlanStep /\ DraftStep
<1>1. ~Admits({"session"})
  BY DEF Admits
<1>2. steps = [i \in DOMAIN steps |-> steps[i]]
  OBVIOUS
<1>3. steps' = steps
  <2>1. CASE UNCHANGED steps
    BY <2>1
  <2>2. CASE RetirePending({"session"})
    BY <1>1, <1>2, <2>2 DEF RetirePending
  <2> QED
    BY <2>1, <2>2 DEF Start
<1>4. phase' # "persisting" /\ UNCHANGED <<ticketVars, current>>
  BY DEF Start
<1> QED
  BY <1>3, <1>4 DEF TicketStep, PlanStep, DraftStep, ticketVars

LEMMA RunAgentSteps ==
    ASSUME LifecycleInv, RunAgent, steps \in Seq(Step)
    PROVE  TicketStep /\ PlanStep /\ DraftStep
<1>1. CASE Start
  BY <1>1, StartSteps
<1>2. CASE AgentSucceeds
  <2>1. UNCHANGED current /\ phase' # "persisting"
    BY <1>2 DEF AgentSucceeds
  <2>2. Stays \/ \E new : Moves(new)
    BY <1>2 DEF AgentSucceeds
  <2> QED
    BY <2>1, <2>2, StaysSteps, MovesSteps DEF PlanStep, DraftStep
<1>3. CASE AgentPauses \/ AgentGivesUp \/ Route
  <2>1. UNCHANGED current /\ phase' # "persisting"
    BY <1>3 DEF AgentPauses, AgentGivesUp, Route, plan
  <2>2. Stays \/ \E new : Moves(new)
    BY <1>3 DEF AgentPauses, AgentGivesUp, Route
  <2> QED
    BY <2>1, <2>2, StaysSteps, MovesSteps DEF PlanStep, DraftStep
<1>4. CASE AgentLosesTrace
  <2>1. UNCHANGED current /\ phase' # "persisting"
    BY <1>4 DEF AgentLosesTrace
  <2>2. Stays \/ \E new : Moves(new)
    BY <1>4 DEF AgentLosesTrace
  <2> QED
    BY <2>1, <2>2, StaysSteps, MovesSteps DEF PlanStep, DraftStep
<1>5. ASSUME NEW d \in Decision, Evaluate(d)
      PROVE  TicketStep /\ PlanStep /\ DraftStep
  <2>1. UNCHANGED <<ticketVars, current>> /\ phase' # "persisting"
    BY <1>5 DEF Evaluate
  <2>2. UNCHANGED steps \/ Appends
    <3>1. "benchmark" \in StepAgent /\ "analyze" \in StepAgent
      BY DEF StepAgent, PlanStatus
    <3>2. CASE d = "loop_plan"
      <4>1. steps' = Append(steps, [agent |-> "benchmark", state |-> "pending"])
        BY <1>5, <3>2 DEF Evaluate
      <4> QED
        BY <3>1, <4>1 DEF Appends
    <3>3. CASE d = "loop_analyze"
      <4>1. steps' = Append(steps, [agent |-> "analyze", state |-> "pending"])
        BY <1>5, <3>3 DEF Evaluate
      <4> QED
        BY <3>1, <4>1 DEF Appends
    <3>4. CASE d \notin {"loop_plan", "loop_analyze"}
      BY <1>5, <3>4 DEF Evaluate
    <3> QED
      BY <3>2, <3>3, <3>4
  <2> QED
    BY <2>1, <2>2 DEF TicketStep, PlanStep, DraftStep, ticketVars
<1> QED
  BY <1>1, <1>2, <1>3, <1>4, <1>5 DEF RunAgent

LEMMA AdvanceSteps ==
    ASSUME LifecycleInv, Advance
    PROVE  TicketStep /\ PlanStep /\ DraftStep
<1>1. CASE AdvanceReads
  BY <1>1 DEF AdvanceReads, Matches, TicketStep, PlanStep, DraftStep, planVars, plan, ticketVars
<1>2. CASE GateBlocks
  <2>1. UNCHANGED current /\ phase' # "persisting"
    BY <1>2 DEF GateBlocks, plan
  <2>2. Stays \/ TryMove("awaiting_customer_guidance")
    BY <1>2 DEF GateBlocks
  <2> QED
    BY <2>1, <2>2, StaysSteps, TryMoveSteps DEF PlanStep, DraftStep
<1>3. CASE AdvancePersists
  BY <1>3 DEF AdvancePersists, TicketStep, PlanStep, DraftStep, Persists, ticketVars
<1>4. CASE AdvanceMoves
  <2>1. UNCHANGED current /\ phase' # "persisting"
    BY <1>4 DEF AdvanceMoves, plan
  <2>2. (ForceClose /\ UNCHANGED steps) \/ TryMove(draft.next)
    BY <1>4 DEF AdvanceMoves
  <2> QED
    BY <2>1, <2>2, TryMoveSteps DEF PlanStep, DraftStep, TicketStep, ForceClose
<1>5. CASE AdvanceFails
  <2>1. phase' # "persisting"
    BY <1>5 DEF AdvanceFails
  <2>2. \/ Stays /\ UNCHANGED current
        \/ Persists /\ UNCHANGED ticketVars
        \/ Moves(draft.next) /\ UNCHANGED current
        \/ ForceClose /\ UNCHANGED <<steps, current>>
    BY <1>5 DEF AdvanceFails, Persists
  <2> QED
    BY <2>1, <2>2, StaysSteps, MovesSteps
       DEF PlanStep, DraftStep, TicketStep, ForceClose, ticketVars
<1> QED
  BY <1>1, <1>2, <1>3, <1>4, <1>5 DEF Advance

LEMMA RecordSteps ==
    ASSUME LifecycleInv, Record
    PROVE  TicketStep /\ PlanStep /\ DraftStep
<1>1. CASE RecordAmbiguous \/ RecordMove \/ RecordAttempt \/ RecordFails
  BY <1>1 DEF RecordAmbiguous, RecordMove, RecordAttempt, RecordFails, Ended, TicketStep,
              PlanStep, DraftStep, planVars, plan, ticketVars
<1>2. CASE RequestGuidance
  <2>1. UNCHANGED current /\ phase' # "persisting"
    BY <1>2 DEF RequestGuidance, plan, Ended
  <2>2. Stays \/ TryMove("awaiting_customer_guidance")
    BY <1>2 DEF RequestGuidance
  <2> QED
    BY <2>1, <2>2, StaysSteps, TryMoveSteps DEF PlanStep, DraftStep
<1> QED
  BY <1>1, <1>2 DEF Record

LEMMA ReplySteps ==
    ASSUME LifecycleInv, RunnerUser
    PROVE  TicketStep /\ PlanStep /\ DraftStep
<1>1. CASE \E new \in Status : Reply(new)
  <2>1. PICK new \in Status : Reply(new)
    BY <1>1
  <2>2. UNCHANGED <<current, phase, draft>> /\ Moves(new)
    BY <2>1 DEF Reply, plan, taskVars
  <2> QED
    BY <2>2, MovesSteps DEF PlanStep, DraftStep
<1>2. CASE CloseByUser
  BY <1>2 DEF CloseByUser, TicketStep, PlanStep, DraftStep, planVars, plan, taskVars, ForceClose
<1> QED
  BY <1>1, <1>2 DEF RunnerUser

\* Each step of the system is a step of the store, of the plan and of the draft.
LEMMA RunnerSteps ==
    ASSUME LifecycleInv, [RunnerNext]_runnerVars, steps \in Seq(Step)
    PROVE  TicketStep /\ PlanStep /\ DraftStep
<1>1. CASE Crash
  BY <1>1 DEF Crash, Ended, TicketStep, PlanStep, DraftStep, planVars, plan, ticketVars
<1>2. CASE UNCHANGED runnerVars
  BY <1>2 DEF runnerVars, planVars, plan, taskVars, TicketStep, PlanStep, DraftStep, ticketVars
<1> QED
  BY <1>1, <1>2, PollSteps, RunAgentSteps, AdvanceSteps, RecordSteps, ReplySteps DEF RunnerNext

-----------------------------------------------------------------------------
\* The order of the plan.

DraftFits == phase = "persisting" => Fits(draft)

CompletedKept ==
    /\ current' >= current
    /\ \A i \in DOMAIN steps : steps[i].state \in {"completed", "aborted"} =>
          /\ i \in DOMAIN steps'
          /\ steps'[i].state \in {"completed", "aborted"}
          /\ steps'[i].agent = steps[i].agent

\* An abort marks the current step and no other; the plan stays in order.
LEMMA AbortFacts ==
    ASSUME Ordered(steps, current), Aborts
    PROVE  /\ Ordered(steps, current)'
           /\ Len(steps') = Len(steps)
           /\ \A i \in 1 .. Len(steps) :
                 /\ steps'[i].agent = steps[i].agent
                 /\ i = current => steps'[i].state = "aborted"
                 /\ i # current => steps'[i] = steps[i]
<1>1. /\ steps \in Seq(Step) /\ Len(steps) \in Nat /\ current \in 1 .. Len(steps) + 1
      /\ current \in Int
  BY DEF Ordered
<1>2. "aborted" \in StepState
  BY DEF StepState
<1>3. PICK s : s = steps
  OBVIOUS
<1>4. PICK c : c = current
  OBVIOUS
<1>5. PICK t : t = InState(s, c, c, "aborted")
  OBVIOUS
<1>6. steps' = t
  BY <1>3, <1>4, <1>5 DEF Aborts
<1>7. /\ t \in Seq(Step)
      /\ Len(t) = Len(s)
      /\ \A i \in 1 .. Len(s) :
            /\ t[i].agent = s[i].agent
            /\ c <= i /\ i <= c => t[i].state = "aborted"
            /\ ~(c <= i /\ i <= c) => t[i] = s[i]
  BY <1>1, <1>2, <1>3, <1>4, <1>5, InStateFacts
<1>8. ASSUME NEW i \in 1 .. Len(s)
      PROVE  /\ t[i].agent = s[i].agent
             /\ i = c => t[i].state = "aborted"
             /\ i # c => t[i] = s[i]
  <2>1. c \in Int /\ i \in Int
    BY <1>1, <1>4
  <2>2. (i = c <=> (c <= i /\ i <= c))
    BY <2>1
  <2> QED
    BY <1>7, <2>2
<1>9. ASSUME NEW i \in 1 .. c - 1 PROVE t[i].state \in Finished
  <2>1. i \in 1 .. Len(s) /\ i # c
    BY <1>1, <1>3, <1>4
  <2> QED
    BY <1>3, <1>4, <1>8, <2>1 DEF Ordered
<1>10. ASSUME NEW i \in c + 1 .. Len(t) PROVE t[i].state \in {"pending", "skipped"}
  <2>1. i \in 1 .. Len(s) /\ i # c /\ i \in c + 1 .. Len(s)
    BY <1>1, <1>3, <1>4, <1>7
  <2> QED
    BY <1>3, <1>4, <1>8, <2>1 DEF Ordered
<1>11. c \in 1 .. Len(t) + 1 /\ current' = c
  BY <1>1, <1>3, <1>4, <1>7 DEF Aborts
<1>12. Ordered(steps, current)'
  BY <1>6, <1>7, <1>9, <1>10, <1>11 DEF Ordered
<1> QED
  BY <1>3, <1>4, <1>6, <1>7, <1>8, <1>12

\* An evaluation's appended step has not begun and is behind the cursor.
LEMMA AppendFacts ==
    ASSUME Ordered(steps, current), Appends, UNCHANGED current
    PROVE  /\ Ordered(steps, current)'
           /\ Len(steps') = Len(steps) + 1
           /\ \A i \in 1 .. Len(steps) : steps'[i] = steps[i]
<1>1. /\ steps \in Seq(Step) /\ Len(steps) \in Nat /\ current \in 1 .. Len(steps) + 1
  BY DEF Ordered
<1>2. PICK a \in StepAgent : steps' = Append(steps, [agent |-> a, state |-> "pending"])
  BY DEF Appends
<1>3. PICK x : x = [agent |-> a, state |-> "pending"]
  OBVIOUS
<1>4. x \in Step /\ x.state = "pending"
  BY <1>3 DEF Step, StepState
<1>5. /\ steps' \in Seq(Step)
      /\ Len(steps') = Len(steps) + 1
      /\ \A i \in 1 .. Len(steps) : steps'[i] = steps[i]
      /\ steps'[Len(steps) + 1] = x
  BY <1>1, <1>2, <1>3, <1>4
<1>6. ASSUME NEW i \in 1 .. current' - 1 PROVE steps'[i].state \in Finished
  <2>1. i \in 1 .. Len(steps) /\ i \in 1 .. current - 1
    BY <1>1
  <2> QED
    BY <1>5, <2>1 DEF Ordered
<1>7. ASSUME NEW i \in current' + 1 .. Len(steps')
      PROVE  steps'[i].state \in {"pending", "skipped"}
  <2>1. CASE i = Len(steps) + 1
    BY <1>4, <1>5, <2>1
  <2>2. CASE i # Len(steps) + 1
    <3>1. i \in 1 .. Len(steps) /\ i \in current + 1 .. Len(steps)
      BY <1>1, <1>5, <2>2
    <3> QED
      BY <1>5, <3>1 DEF Ordered
  <2> QED
    BY <2>1, <2>2
<1>8. current' \in 1 .. Len(steps') + 1
  BY <1>1, <1>5
<1> QED
  BY <1>5, <1>6, <1>7, <1>8 DEF Ordered

\* A step keeps the order, and what is completed.
LEMMA PlanStepKeeps ==
    ASSUME Ordered(steps, current), DraftFits, PlanStep
    PROVE  Ordered(steps, current)' /\ CompletedKept
<1>1. /\ steps \in Seq(Step) /\ Len(steps) \in Nat /\ current \in 1 .. Len(steps) + 1
      /\ DOMAIN steps = 1 .. Len(steps)
  BY DEF Ordered
<1>2. CASE UNCHANGED <<steps, current>>
  <2>1. current' >= current
    BY <1>1, <1>2
  <2> QED
    BY <1>2, <2>1 DEF Ordered, CompletedKept
<1>3. CASE Aborts
  <2>1. /\ Ordered(steps, current)'
        /\ Len(steps') = Len(steps)
        /\ \A i \in 1 .. Len(steps) :
              /\ steps'[i].agent = steps[i].agent
              /\ i = current => steps'[i].state = "aborted"
              /\ i # current => steps'[i] = steps[i]
    BY <1>3, AbortFacts
  <2>2. current' >= current
    BY <1>1, <1>3 DEF Aborts
  <2>3. DOMAIN steps' = 1 .. Len(steps)
    BY <2>1 DEF Ordered
  <2>4. ASSUME NEW i \in DOMAIN steps, steps[i].state \in {"completed", "aborted"}
        PROVE  /\ steps'[i].state \in {"completed", "aborted"}
               /\ steps'[i].agent = steps[i].agent
    BY <1>1, <2>1, <2>4
  <2> QED
    BY <1>1, <2>1, <2>2, <2>3, <2>4 DEF CompletedKept
<1>4. CASE Appends /\ UNCHANGED current
  <2>1. /\ Ordered(steps, current)'
        /\ Len(steps') = Len(steps) + 1
        /\ \A i \in 1 .. Len(steps) : steps'[i] = steps[i]
    BY <1>4, AppendFacts
  <2>2. current' >= current
    BY <1>1, <1>4
  <2>3. DOMAIN steps' = 1 .. Len(steps')
    BY <2>1 DEF Ordered
  <2>4. \A i \in DOMAIN steps : i \in DOMAIN steps'
    BY <1>1, <2>1, <2>3
  <2> QED
    BY <1>1, <2>1, <2>2, <2>4 DEF CompletedKept
<1>5. CASE Persists
  <2>1. Fits(draft) /\ steps' = draft.steps /\ current' = draft.current
    BY <1>5 DEF Persists, DraftFits
  <2>2. Ordered(steps, current)'
    BY <2>1 DEF Fits, Ordered
  <2>3. current' >= current
    <3>1. current \in Nat /\ current' \in Nat /\ current <= current'
      BY <1>1, <2>1, <2>2 DEF Fits, Ordered
    <3> QED
      BY <3>1
  <2>4. /\ Len(steps') \in Nat /\ Len(steps) <= Len(steps')
        /\ DOMAIN steps' = 1 .. Len(steps')
    BY <2>1, <2>2 DEF Fits, Ordered
  <2>5. ASSUME NEW i \in DOMAIN steps, steps[i].state \in {"completed", "aborted"}
        PROVE  /\ i \in DOMAIN steps'
               /\ steps'[i].state \in {"completed", "aborted"}
               /\ steps'[i].agent = steps[i].agent
    <3>1. i \in 1 .. Len(steps) /\ i \in DOMAIN steps'
      BY <1>1, <2>4
    <3>2. CASE i \in 1 .. current - 1
      <4>1. steps'[i] = steps[i]
        BY <2>1, <3>2 DEF Fits
      <4> QED
        BY <2>5, <3>1, <4>1
    <3>3. CASE i = current
      BY <2>1, <3>1, <3>3 DEF Fits
    <3>4. CASE i \in current + 1 .. Len(steps)
      <4>1. steps[i].state \in {"pending", "skipped"}
        BY <3>4 DEF Ordered
      <4> QED
        BY <2>5, <4>1
    <3> QED
      BY <1>1, <3>1, <3>2, <3>3, <3>4
  <2> QED
    BY <2>2, <2>3, <2>5 DEF CompletedKept
<1> QED
  BY <1>2, <1>3, <1>4, <1>5 DEF PlanStep

\* A plan that waits to be written still fits the stored one.
LEMMA DraftStepKeeps ==
    ASSUME Ordered(steps, current), DraftFits, PlanStep, DraftStep
    PROVE  DraftFits'
<1> SUFFICES ASSUME phase' = "persisting" PROVE Fits(draft)'
  BY DEF DraftFits
<1>1. CASE UNCHANGED <<phase, draft>>
  <2>1. Fits(draft)
    BY <1>1 DEF DraftFits
  <2>2. CASE UNCHANGED <<steps, current>>
    BY <1>1, <2>1, <2>2 DEF Fits
  <2>3. CASE Aborts
    <3>1. current \in 1 .. Len(steps) /\ Len(steps) \in Nat
      BY <2>1 DEF Ordered, Fits
    <3>2. /\ Len(steps') = Len(steps)
          /\ \A i \in 1 .. current - 1 : steps'[i] = steps[i]
          /\ steps'[current].agent = steps[current].agent
      <4>1. /\ Len(steps') = Len(steps)
            /\ \A i \in 1 .. Len(steps) :
                  /\ steps'[i].agent = steps[i].agent
                  /\ i # current => steps'[i] = steps[i]
        BY <2>3, AbortFacts
      <4>2. \A i \in 1 .. current - 1 : i \in 1 .. Len(steps) /\ i # current
        BY <3>1
      <4> QED
        BY <3>1, <4>1, <4>2
    <3>3. UNCHANGED <<draft, current>>
      BY <1>1, <2>3 DEF Aborts
    <3> QED
      BY <2>1, <3>2, <3>3 DEF Fits, Ordered
  <2> QED
    BY <1>1, <2>2, <2>3 DEF PlanStep
<1>2. CASE /\ draft' \in {HaltedPlan, NextPlan} /\ current <= Len(steps)
           /\ UNCHANGED <<steps, current>>
  <2>1. PICK d : d = draft'
    OBVIOUS
  <2>2. Fits(d)
    BY <1>2, <2>1, NextPlanFits, HaltedPlanFits
  <2> QED
    BY <1>2, <2>1, <2>2 DEF Fits
<1> QED
  BY <1>1, <1>2 DEF DraftStep

-----------------------------------------------------------------------------
\* The types of everything but the ticket and the steps.

RunnerTypeOK ==
    /\ conclusive \in BOOLEAN /\ decision \in Decision
    /\ halt \in StepAgent \cup {None} /\ alert \in BOOLEAN
    /\ retry \in Entry \cup {Nothing}
    /\ unsaved \in Entry \cup {Nothing}
    /\ fetched \in Fetched \cup {Nothing}
    /\ phase \in Phase /\ assigned \in Status /\ found \in Status
    /\ draft \in Draft \cup {Nothing}
    /\ lost \in BOOLEAN /\ changed \in BOOLEAN
    /\ runs \in Nat
    /\ guarded \in Status \cup {None} /\ waited \in BOOLEAN
    /\ faults \in Nat /\ loops \in Nat /\ replies \in Nat
    /\ faults + loops + replies <= MaxEvents

HistoryOK == guarded \in Status \cup {None} /\ waited \in BOOLEAN

CountsOK ==
    /\ faults \in Nat /\ loops \in Nat /\ replies \in Nat
    /\ faults + loops + replies <= MaxEvents

LEMMA HistoryKept ==
    ASSUME HistoryOK, NEW new, Moves(new) \/ Stays \/ TryMove(new) \/ Counted
    PROVE  HistoryOK'
<1>1. CASE Counted
  BY <1>1 DEF Counted, HistoryOK
<1>2. CASE Stays
  BY <1>2 DEF Stays, HistoryOK
<1> QED
  BY <1>1, <1>2 DEF Moves, TryMove

LEMMA CountsKept ==
    ASSUME RunnerAssumption, CountsOK,
           \/ UNCHANGED <<faults, loops, replies>>
           \/ Room /\ faults' = faults + 1 /\ UNCHANGED <<loops, replies>>
           \/ Room /\ loops' = loops + 1 /\ UNCHANGED <<faults, replies>>
           \/ Room /\ replies' = replies + 1 /\ UNCHANGED <<faults, loops>>
    PROVE  CountsOK'
BY DEF CountsOK, Room, RunnerAssumption

LEMMA OverlaidTypes ==
    ASSUME RunnerTypeOK
    PROVE  Kept \in Entry \cup {Nothing} /\ Overlaid \in Entry \cup {Nothing}
BY DEF RunnerTypeOK, Kept, Overlaid

LEMMA FailureTypes ==
    ASSUME RunnerTypeOK, NEW at \in Status, NEW limit \in Nat
    PROVE  /\ Failure(at, limit) \in Entry
           /\ Failure(at, limit).at = at
           /\ limit = 1 => Failure(at, limit).exhausted
<1>1. PICK n : n = IF Overlaid # Nothing /\ Overlaid.at = at
                   THEN Overlaid.attempts + 1 ELSE 1
  OBVIOUS
<1>2. n \in Nat /\ n >= 1
  <2>1. CASE Overlaid # Nothing /\ Overlaid.at = at
    <3>1. Overlaid \in Entry
      BY <2>1, OverlaidTypes
    <3>2. Overlaid.attempts \in Nat
      BY <3>1 DEF Entry
    <3> QED
      BY <1>1, <2>1, <3>2
  <2>2. CASE ~(Overlaid # Nothing /\ Overlaid.at = at)
    BY <1>1, <2>2
  <2> QED
    BY <2>1, <2>2
<1>3. Failure(at, limit) = [at |-> at, attempts |-> n, exhausted |-> n >= limit]
  BY <1>1 DEF Failure
<1>4. (n >= limit) \in BOOLEAN
  OBVIOUS
<1>5. Failure(at, limit) \in Entry /\ Failure(at, limit).at = at
  BY <1>2, <1>3, <1>4 DEF Entry
<1>6. Failure(at, limit).exhausted = (n >= limit)
  BY <1>3
<1>7. ASSUME limit = 1 PROVE n >= limit
  BY <1>2, <1>7
<1> QED
  BY <1>5, <1>6, <1>7

LEMMA PersistTypes ==
    ASSUME RunnerTypeOK, NEW entry \in Entry \cup {Nothing}, Persist(entry)
    PROVE  /\ retry' \in Entry \cup {Nothing} /\ unsaved' \in Entry \cup {Nothing}
           /\ UNCHANGED faults \/ (Room /\ faults' = faults + 1)
BY OverlaidTypes DEF Persist, NoFault, Fault, RunnerTypeOK

LEMMA PollTypes ==
    ASSUME RunnerAssumption, RunnerTypeOK, status \in Status, RunnerPoll
    PROVE  RunnerTypeOK'
<1>1. CASE FetchTicket
  <2>1. Kept \in Entry \cup {Nothing} /\ Overlaid \in Entry \cup {Nothing}
    BY OverlaidTypes
  <2>2. fetched' \in Fetched \cup {Nothing}
    BY <1>1, <2>1 DEF FetchTicket, Fetched
  <2>3. retry' \in Entry \cup {Nothing} /\ unsaved' \in Entry \cup {Nothing}
    BY <1>1, <2>1 DEF FetchTicket, RunnerTypeOK
  <2>4. CountsOK'
    <3>1. CountsOK
      BY DEF RunnerTypeOK, CountsOK
    <3>2. \/ UNCHANGED <<faults, loops, replies>>
          \/ Room /\ faults' = faults + 1 /\ UNCHANGED <<loops, replies>>
      BY <1>1 DEF FetchTicket, Fault, NoFault
    <3> QED
      BY <3>1, <3>2, CountsKept
  <2>5. UNCHANGED <<conclusive, decision, halt, alert, phase, assigned, found, draft, lost,
                    changed, runs, guarded, waited>>
    BY <1>1 DEF FetchTicket, planVars, plan, taskVars, history
  <2> QED
    BY <2>2, <2>3, <2>4, <2>5 DEF RunnerTypeOK, CountsOK
<1>2. CASE SkipTicket
  BY <1>2 DEF SkipTicket, planVars, plan, taskVars, history, bounds, RunnerTypeOK
<1>3. CASE DispatchStep
  <2>1. fetched.status \in Status
    BY <1>3 DEF DispatchStep, RunnerTypeOK, Fetched
  <2> QED
    BY <1>3, <2>1 DEF DispatchStep, planVars, plan, bounds, RunnerTypeOK, Phase
<1> QED
  BY <1>1, <1>2, <1>3 DEF RunnerPoll

LEMMA RunAgentTypes ==
    ASSUME RunnerAssumption, RunnerTypeOK, status \in Status, RunAgent
    PROVE  RunnerTypeOK'
<1>0. HistoryOK /\ CountsOK
  BY DEF RunnerTypeOK, HistoryOK, CountsOK
<1>1. CASE Start
  BY <1>1 DEF Start, retryVars, history, bounds, RunnerTypeOK, Phase
<1>2. CASE AgentSucceeds
  <2>1. HistoryOK'
    BY <1>0, <1>2, HistoryKept DEF AgentSucceeds
  <2>2. conclusive' \in BOOLEAN
    BY <1>2 DEF AgentSucceeds, RunnerTypeOK
  <2>3. runs' \in Nat /\ phase' \in Phase /\ changed' \in BOOLEAN
    BY <1>2 DEF AgentSucceeds, RunnerTypeOK, Phase
  <2> QED
    BY <1>2, <2>1, <2>2, <2>3 DEF AgentSucceeds, retryVars, bounds, RunnerTypeOK, HistoryOK
<1>3. CASE AgentPauses \/ AgentGivesUp \/ Route
  <2>1. HistoryOK'
    BY <1>0, <1>3, HistoryKept DEF AgentPauses, AgentGivesUp, Route
  <2>2. phase' \in Phase
    BY <1>3 DEF AgentPauses, AgentGivesUp, Route, Phase
  <2> QED
    BY <1>3, <2>1, <2>2 DEF AgentPauses, AgentGivesUp, Route, plan, retryVars, bounds,
       RunnerTypeOK, HistoryOK
<1>4. CASE AgentLosesTrace
  <2>1. HistoryOK'
    BY <1>0, <1>4, HistoryKept DEF AgentLosesTrace
  <2>2. CountsOK'
    BY <1>0, <1>4, CountsKept DEF AgentLosesTrace, Fault
  <2>3. changed' \in BOOLEAN /\ phase' \in Phase /\ lost' \in BOOLEAN
    BY <1>4 DEF AgentLosesTrace, RunnerTypeOK, Phase
  <2> QED
    BY <1>4, <2>1, <2>2, <2>3 DEF AgentLosesTrace, retryVars, RunnerTypeOK, HistoryOK,
       CountsOK
<1>5. ASSUME NEW d \in Decision, Evaluate(d)
      PROVE  RunnerTypeOK'
  <2>1. CountsOK'
    BY <1>0, <1>5, CountsKept DEF Evaluate
  <2>2. decision' \in Decision /\ phase' \in Phase /\ changed' \in BOOLEAN
    BY <1>5 DEF Evaluate, Phase
  <2> QED
    BY <1>5, <2>1, <2>2 DEF Evaluate, retryVars, history, RunnerTypeOK, CountsOK
<1> QED
  BY <1>1, <1>2, <1>3, <1>4, <1>5 DEF RunAgent

LEMMA AdvanceTypes ==
    ASSUME RunnerAssumption, RunnerTypeOK, DraftFits', Advance
    PROVE  RunnerTypeOK'
<1>0. HistoryOK /\ CountsOK
  BY DEF RunnerTypeOK, HistoryOK, CountsOK
<1>1. CASE AdvanceReads
  <2>1. draft' \in Draft \cup {Nothing}
    <3>1. CASE Matches
      <4>1. phase' = "persisting"
        BY <1>1, <3>1 DEF AdvanceReads
      <4> QED
        BY <4>1 DEF DraftFits, Fits
    <3>2. CASE ~Matches
      BY <1>1, <3>2 DEF AdvanceReads, RunnerTypeOK
    <3> QED
      BY <3>1, <3>2
  <2>2. phase' \in Phase
    BY <1>1 DEF AdvanceReads, Phase
  <2> QED
    BY <1>1, <2>1, <2>2 DEF AdvanceReads, planVars, plan, retryVars, history, bounds,
       RunnerTypeOK
<1>2. CASE GateBlocks
  <2>1. HistoryOK'
    BY <1>0, <1>2, HistoryKept DEF GateBlocks
  <2> QED
    BY <1>2, <2>1 DEF GateBlocks, plan, retryVars, bounds, RunnerTypeOK, HistoryOK, Phase
<1>3. CASE AdvancePersists
  <2>1. phase' \in Phase
    BY <1>3 DEF AdvancePersists, Phase
  <2> QED
    BY <1>3, <2>1 DEF AdvancePersists, retryVars, bounds, RunnerTypeOK
<1>4. CASE AdvanceMoves
  <2>1. HistoryOK'
    BY <1>0, <1>4, HistoryKept DEF AdvanceMoves
  <2> QED
    BY <1>4, <2>1 DEF AdvanceMoves, plan, retryVars, bounds, RunnerTypeOK, HistoryOK, Phase
<1>5. CASE AdvanceFails
  <2>1. HistoryOK'
    BY <1>0, <1>5, HistoryKept DEF AdvanceFails, HistoryOK
  <2>2. CountsOK'
    BY <1>0, <1>5, CountsKept DEF AdvanceFails, Fault
  <2>3. phase' \in Phase /\ lost' \in BOOLEAN
    BY <1>5 DEF AdvanceFails, Phase
  <2> QED
    BY <1>5, <2>1, <2>2, <2>3 DEF AdvanceFails, retryVars, RunnerTypeOK, HistoryOK, CountsOK
<1> QED
  BY <1>1, <1>2, <1>3, <1>4, <1>5 DEF Advance

LEMMA EndedTypes ==
    ASSUME Ended
    PROVE  /\ phase' \in Phase /\ assigned' \in Status /\ found' \in Status
           /\ draft' = Nothing /\ lost' \in BOOLEAN /\ changed' \in BOOLEAN
BY StatusList DEF Ended, Phase

LEMMA RecordTypes ==
    ASSUME RunnerAssumption, RunnerTypeOK, status \in Status, Record
    PROVE  RunnerTypeOK'
<1>0. HistoryOK /\ CountsOK /\ 1 \in Nat /\ RetryLimit \in Nat
  BY DEF RunnerTypeOK, HistoryOK, CountsOK, RunnerAssumption
<1>1. CASE RecordAmbiguous
  <2>1. PICK e : e = Failure(status, 1)
    OBVIOUS
  <2>2. PICK at : at = status
    OBVIOUS
  <2>3. e \in Entry
    BY <1>0, <2>1, <2>2, FailureTypes
  <2>4. Persist(e)
    BY <1>1, <2>1 DEF RecordAmbiguous
  <2>5. /\ retry' \in Entry \cup {Nothing} /\ unsaved' \in Entry \cup {Nothing}
        /\ UNCHANGED faults \/ (Room /\ faults' = faults + 1)
    BY <2>3, <2>4, PersistTypes
  <2>6. CountsOK'
    BY <1>0, <1>1, <2>5, CountsKept DEF RecordAmbiguous
  <2> QED
    BY <1>1, <2>5, <2>6 DEF RecordAmbiguous, planVars, plan, RunnerTypeOK, CountsOK, Phase
<1>2. CASE RequestGuidance
  <2>1. HistoryOK'
    BY <1>0, <1>2, HistoryKept DEF RequestGuidance
  <2>2. CountsOK'
    BY <1>0, <1>2, CountsKept DEF RequestGuidance, Fault, NoFault
  <2>3. Ended
    BY <1>2 DEF RequestGuidance
  <2> QED
    BY <1>2, <2>1, <2>2, <2>3, EndedTypes DEF RequestGuidance, plan, retryVars,
       RunnerTypeOK, HistoryOK, CountsOK
<1>3. CASE RecordMove
  <2>1. /\ retry' \in Entry \cup {Nothing} /\ unsaved' \in Entry \cup {Nothing}
        /\ UNCHANGED faults \/ (Room /\ faults' = faults + 1)
    <3>1. CASE UNCHANGED <<retry, unsaved, faults>>
      BY <3>1 DEF RunnerTypeOK
    <3>2. CASE UNCHANGED <<retry, faults>> /\ unsaved' = Kept
      BY <3>2, OverlaidTypes DEF RunnerTypeOK
    <3>3. CASE Persist(Nothing)
      BY <3>3, PersistTypes
    <3> QED
      BY <1>3, <3>1, <3>2, <3>3 DEF RecordMove
  <2>2. CountsOK'
    BY <1>0, <1>3, <2>1, CountsKept DEF RecordMove
  <2>3. Ended
    BY <1>3 DEF RecordMove
  <2> QED
    BY <1>3, <2>1, <2>2, <2>3, EndedTypes DEF RecordMove, planVars, plan, history,
       RunnerTypeOK, CountsOK
<1>4. CASE RecordAttempt
  <2>1. /\ retry' \in Entry \cup {Nothing} /\ unsaved' \in Entry \cup {Nothing}
        /\ UNCHANGED faults \/ (Room /\ faults' = faults + 1)
    <3>1. CASE UNCHANGED <<retry, unsaved, faults>>
      BY <3>1 DEF RunnerTypeOK
    <3>2. CASE Persist(Failure(assigned, RetryLimit))
      <4>1. PICK at : at = assigned
        OBVIOUS
      <4>2. PICK e : e = Failure(at, RetryLimit)
        OBVIOUS
      <4>3. at \in Status
        BY <4>1 DEF RunnerTypeOK
      <4>4. e \in Entry
        BY <1>0, <4>2, <4>3, FailureTypes
      <4> QED
        BY <3>2, <4>1, <4>2, <4>4, PersistTypes
    <3> QED
      BY <1>4, <3>1, <3>2 DEF RecordAttempt
  <2>2. CountsOK'
    BY <1>0, <1>4, <2>1, CountsKept DEF RecordAttempt
  <2>3. Ended
    BY <1>4 DEF RecordAttempt
  <2> QED
    BY <1>4, <2>1, <2>2, <2>3, EndedTypes DEF RecordAttempt, planVars, plan, history,
       RunnerTypeOK, CountsOK
<1>5. CASE RecordFails
  <2>1. CountsOK'
    BY <1>0, <1>5, CountsKept DEF RecordFails, Fault
  <2>2. Ended
    BY <1>5 DEF RecordFails
  <2> QED
    BY <1>5, <2>1, <2>2, EndedTypes DEF RecordFails, planVars, plan, retryVars, history,
       RunnerTypeOK, CountsOK
<1> QED
  BY <1>1, <1>2, <1>3, <1>4, <1>5 DEF Record

LEMMA OtherTypes ==
    ASSUME RunnerAssumption, RunnerTypeOK, RunnerUser \/ Crash
    PROVE  RunnerTypeOK'
<1>0. HistoryOK /\ CountsOK
  BY DEF RunnerTypeOK, HistoryOK, CountsOK
<1>1. CASE \E new \in Status : Reply(new)
  <2>1. PICK new \in Status : Reply(new)
    BY <1>1
  <2>2. HistoryOK'
    BY <1>0, <2>1, HistoryKept DEF Reply
  <2>3. CountsOK'
    BY <1>0, <2>1, CountsKept DEF Reply
  <2> QED
    BY <2>1, <2>2, <2>3 DEF Reply, plan, retryVars, taskVars, RunnerTypeOK, HistoryOK,
       CountsOK
<1>2. CASE CloseByUser
  <2>1. HistoryOK'
    BY <1>0, <1>2, HistoryKept DEF CloseByUser
  <2>2. CountsOK'
    BY <1>0, <1>2, CountsKept DEF CloseByUser
  <2> QED
    BY <1>2, <2>1, <2>2 DEF CloseByUser, planVars, plan, retryVars, taskVars, RunnerTypeOK,
       HistoryOK, CountsOK
<1>3. CASE Crash
  <2>1. CountsOK'
    BY <1>0, <1>3, CountsKept DEF Crash, Fault
  <2>2. Ended
    BY <1>3 DEF Crash
  <2> QED
    BY <1>3, <2>1, <2>2, EndedTypes DEF Crash, planVars, plan, RunnerTypeOK, CountsOK
<1> QED
  BY <1>1, <1>2, <1>3 DEF RunnerUser

-----------------------------------------------------------------------------
\* The guard after work that may have been committed.

GuardStands ==
    guarded # None =>
        /\ guarded = status
        /\ phase \in {"guiding", "none"}
        /\ Suppressed(status, Overlaid)

LEMMA GuardMoves ==
    ASSUME NEW new, Moves(new) \/ Stays \/ TryMove(new) \/ Counted
    PROVE  guarded' = None \/ UNCHANGED <<guarded, status>>
BY DEF Moves, TryMove, Stays, Counted, ticketVars

\* No guard is up while a task is at work.
LEMMA GuardAtWork ==
    ASSUME GuardStands, phase \notin {"guiding", "none"}, guarded' \in {guarded, None}
    PROVE  GuardStands'
BY DEF GuardStands

\* A guard stands as long as nobody touches the ticket and the retry entry.
LEMMA GuardKept ==
    ASSUME GuardStands, UNCHANGED <<retry, unsaved>>,
           guarded' = None \/ UNCHANGED <<guarded, status>>,
           UNCHANGED phase \/ phase' \in {"guiding", "none"}
    PROVE  GuardStands'
<1>1. CASE guarded' = None
  BY <1>1 DEF GuardStands
<1>2. CASE UNCHANGED <<guarded, status>>
  <2>1. Overlaid' = Overlaid
    BY <1>2 DEF Overlaid, Kept
  <2> QED
    BY <1>2, <2>1 DEF GuardStands, Suppressed
<1> QED
  BY <1>1, <1>2

LEMMA PollKeepsGuard ==
    ASSUME GuardStands, RunnerPoll
    PROVE  GuardStands'
<1>1. CASE FetchTicket
  <2>1. UNCHANGED <<status, guarded, phase>>
    BY <1>1 DEF FetchTicket, ticketVars, history, taskVars
  <2> SUFFICES ASSUME guarded # None PROVE Suppressed(status, Overlaid')
    BY <2>1 DEF GuardStands, Suppressed
  <2>2. Suppressed(status, Overlaid)
    BY DEF GuardStands
  <2>3. CASE /\ Kept # Nothing /\ retry' = Kept /\ unsaved' = Nothing
    <3>1. Overlaid' = Kept /\ Overlaid = Kept
      BY <2>3 DEF Overlaid, Kept
    <3> QED
      BY <2>2, <3>1
  <2>4. CASE Kept = Nothing /\ retry # Nothing /\ retry.at # status
    BY <2>2, <2>4 DEF Overlaid, Suppressed
  <2>5. CASE unsaved' = Kept /\ UNCHANGED retry
    <3>1. Kept' = Kept
      BY <2>1, <2>5 DEF Kept
    <3>2. Overlaid' = Overlaid
      BY <2>5, <3>1 DEF Overlaid
    <3> QED
      BY <2>2, <3>2
  <2> QED
    BY <1>1, <2>3, <2>4, <2>5 DEF FetchTicket
<1>2. CASE SkipTicket
  <2>1. UNCHANGED <<status, guarded, phase, retry, unsaved>>
    BY <1>2 DEF SkipTicket, ticketVars, history, taskVars
  <2> QED
    BY <2>1, GuardKept
<1>3. CASE DispatchStep
  BY <1>3 DEF DispatchStep, GuardStands
<1> QED
  BY <1>1, <1>2, <1>3 DEF RunnerPoll

LEMMA RunAgentKeepsGuard ==
    ASSUME GuardStands, RunAgent
    PROVE  GuardStands'
<1>1. CASE Start \/ \E d \in Decision : Evaluate(d)
  BY <1>1, GuardAtWork DEF Start, Evaluate, history
<1>2. CASE AgentSucceeds \/ AgentLosesTrace
  <2>1. phase \notin {"guiding", "none"}
    BY <1>2 DEF AgentSucceeds, AgentLosesTrace
  <2>2. Stays \/ \E new : Moves(new)
    BY <1>2 DEF AgentSucceeds, AgentLosesTrace
  <2> QED
    BY <2>1, <2>2, GuardMoves, GuardAtWork
<1>3. CASE AgentPauses \/ AgentGivesUp \/ Route
  <2>1. phase \notin {"guiding", "none"}
    BY <1>3 DEF AgentPauses, AgentGivesUp, Route
  <2>2. Stays \/ \E new : Moves(new)
    BY <1>3 DEF AgentPauses, AgentGivesUp, Route
  <2> QED
    BY <2>1, <2>2, GuardMoves, GuardAtWork
<1> QED
  BY <1>1, <1>2, <1>3 DEF RunAgent

LEMMA AdvanceKeepsGuard ==
    ASSUME GuardStands, Advance
    PROVE  GuardStands'
<1>1. phase \notin {"guiding", "none"}
  BY DEF Advance, AdvanceReads, GateBlocks, AdvancePersists, AdvanceMoves, AdvanceFails
<1>2. CASE AdvanceReads \/ AdvancePersists
  BY <1>1, <1>2, GuardAtWork DEF AdvanceReads, AdvancePersists, history
<1>3. CASE GateBlocks \/ AdvanceMoves \/ AdvanceFails
  <2>1. UNCHANGED guarded \/ Counted \/ \E new : Moves(new) \/ Stays \/ TryMove(new)
    BY <1>3 DEF GateBlocks, AdvanceMoves, AdvanceFails
  <2> QED
    BY <1>1, <2>1, GuardMoves, GuardAtWork
<1> QED
  BY <1>2, <1>3 DEF Advance

LEMMA RecordKeepsGuard ==
    ASSUME PlansAssumption, RunnerTypeOK, status \in Status, GuardStands, Record
    PROVE  GuardStands'
<1>1. CASE RecordAmbiguous
  <2>1. PICK at : at = status
    OBVIOUS
  <2>2. PICK e : e = Failure(at, 1)
    OBVIOUS
  <2>3. e \in Entry /\ e.at = at /\ e.exhausted
    <3>1. at \in Status /\ 1 \in Nat
      BY <2>1
    <3> QED
      BY <2>2, <3>1, FailureTypes
  <2>4. e # Nothing /\ Suppressed(at, e)
    BY <2>3 DEF PlansAssumption, Suppressed
  <2>5. /\ guarded' = at /\ status' = at /\ phase' = "guiding"
        /\ Persist(e)
    BY <1>1, <2>1, <2>2 DEF RecordAmbiguous, ticketVars
  <2>6. Overlaid' = e
    <3>1. CASE retry' = e /\ unsaved' = Nothing
      BY <3>1 DEF Overlaid, Kept
    <3>2. CASE unsaved' = e
      BY <2>3, <2>4, <2>5, <3>2 DEF Overlaid, Kept
    <3> QED
      BY <2>4, <2>5, <3>1, <3>2 DEF Persist
  <2> QED
    BY <2>4, <2>5, <2>6 DEF GuardStands
<1>2. CASE RequestGuidance
  <2>1. UNCHANGED <<retry, unsaved>> /\ phase' = "none"
    BY <1>2 DEF RequestGuidance, retryVars, Ended
  <2>2. guarded' = None \/ UNCHANGED <<guarded, status>>
    BY <1>2, GuardMoves DEF RequestGuidance
  <2> QED
    BY <2>1, <2>2, GuardKept
<1>3. CASE RecordMove \/ RecordAttempt \/ RecordFails
  <2>1. phase \notin {"guiding", "none"} /\ UNCHANGED guarded
    BY <1>3 DEF RecordMove, RecordAttempt, RecordFails, history
  <2> QED
    BY <2>1, GuardAtWork
<1> QED
  BY <1>1, <1>2, <1>3 DEF Record

LEMMA OthersKeepGuard ==
    ASSUME GuardStands, RunnerUser \/ Crash
    PROVE  GuardStands'
<1>1. CASE \E new \in Status : Reply(new)
  <2>1. PICK new \in Status : Reply(new)
    BY <1>1
  <2>2. UNCHANGED <<retry, unsaved, phase>> /\ Moves(new)
    BY <2>1 DEF Reply, retryVars, taskVars
  <2> QED
    BY <2>2, GuardMoves, GuardKept
<1>2. CASE CloseByUser
  <2>1. UNCHANGED <<retry, unsaved, phase>> /\ Counted
    BY <1>2 DEF CloseByUser, retryVars, taskVars
  <2> QED
    BY <2>1, GuardMoves, GuardKept
<1>3. CASE Crash
  BY <1>3 DEF Crash, GuardStands
<1> QED
  BY <1>1, <1>2, <1>3 DEF RunnerUser

-----------------------------------------------------------------------------
\* The inductive invariant.

RunnerInv ==
    /\ LifecycleInv
    /\ PlanTypeOK
    /\ OneStepRuns
    /\ DraftFits
    /\ GuardStands

LEMMA InvParts ==
    RunnerInv <=> /\ LifecycleInv
                  /\ RunnerTypeOK
                  /\ Ordered(steps, current)
                  /\ DraftFits
                  /\ GuardStands
BY DEF RunnerInv, LifecycleInv, PlanTypeOK, RunnerTypeOK, OneStepRuns, Ordered

\* One agent before the others.
LEMMA PrependFacts ==
    ASSUME NEW x \in StepAgent, NEW s \in Seq(StepAgent), NEW t, t = <<x>> \o s
    PROVE  t \in Seq(StepAgent) /\ Len(t) = Len(s) + 1 /\ t[1] = x
<1>1. PICK r : r = <<x>>
  OBVIOUS
<1>2. r \in Seq(StepAgent) /\ Len(r) = 1 /\ r[1] = x /\ Len(s) \in Nat
  BY <1>1
<1>3. t = r \o s
  BY <1>1
<1>4. /\ t \in Seq(StepAgent)
      /\ Len(t) = Len(r) + Len(s)
      /\ \A i \in 1 .. Len(r) + Len(s) : t[i] = IF i <= Len(r) THEN r[i] ELSE s[i - Len(r)]
  BY <1>2, <1>3, ConcatProperties
<1>5. 1 \in 1 .. Len(r) + Len(s) /\ 1 <= Len(r)
  BY <1>2
<1> QED
  BY <1>2, <1>4, <1>5

\* Whatever triage was told, its plan has a step that the ticket can begin with.
LEMMA PreparedFacts ==
    ASSUME PlansAssumption, NEW p \in Plans, NEW q, q = Prepared(p)
    PROVE  /\ q \in Seq(StepAgent)
           /\ Len(q) \in Nat /\ Len(q) >= 1
           /\ q[1] \in {"resource", "analyze", "gathering_context", "build_image"}
<1>1. PICK planned : planned = IF p.agents = <<>> THEN DefaultAgents ELSE p.agents
  OBVIOUS
<1>2. p.agents \in Seq(StepAgent)
  BY DEF PlansAssumption
<1>3. /\ "resource" \in StepAgent /\ "build_image" \in StepAgent
      /\ DefaultAgents \in Seq(StepAgent) /\ Len(DefaultAgents) = 5
  <2>1. \A a \in {"resource", "provision", "benchmark", "review", "teardown", "build_image"} :
           a \in StepAgent
    BY DEF StepAgent, PlanStatus
  <2> QED
    BY <2>1 DEF DefaultAgents
<1>4. planned \in Seq(StepAgent) /\ Len(planned) \in Nat /\ Len(planned) >= 1
  <2>1. CASE p.agents = <<>>
    <3>1. planned = DefaultAgents
      BY <1>1, <2>1
    <3>2. PICK k : k = Len(planned)
      OBVIOUS
    <3>3. k = 5
      BY <1>3, <3>1, <3>2
    <3> QED
      BY <1>3, <3>1, <3>2, <3>3
  <2>2. CASE p.agents # <<>>
    <3>1. planned = p.agents
      BY <1>1, <2>2
    <3>2. Len(p.agents) \in Nat \ {0}
      BY <1>2, <2>2, EmptySeq
    <3> QED
      BY <1>2, <3>1, <3>2
  <2> QED
    BY <2>1, <2>2
<1>5. PICK hosted : hosted = IF planned[1] \in {"resource", "analyze", "gathering_context"}
                             THEN planned ELSE <<"resource">> \o planned
  OBVIOUS
<1>6. /\ hosted \in Seq(StepAgent) /\ Len(hosted) \in Nat /\ Len(hosted) >= 1
      /\ hosted[1] \in {"resource", "analyze", "gathering_context"}
  <2>1. CASE planned[1] \in {"resource", "analyze", "gathering_context"}
    BY <1>4, <1>5, <2>1
  <2>2. CASE planned[1] \notin {"resource", "analyze", "gathering_context"}
    <3>1. hosted = <<"resource">> \o planned
      BY <1>5, <2>2
    <3> QED
      BY <1>3, <1>4, <3>1, PrependFacts
  <2> QED
    BY <2>1, <2>2
<1>7. q = IF p.image THEN <<"build_image">> \o hosted ELSE hosted
  BY <1>1, <1>5 DEF Prepared
<1>8. CASE ~p.image
  BY <1>6, <1>7, <1>8
<1>9. CASE p.image
  <2>1. q = <<"build_image">> \o hosted
    BY <1>7, <1>9
  <2> QED
    BY <1>3, <1>6, <2>1, PrependFacts
<1> QED
  BY <1>8, <1>9

\* The first status is a stage of the first step, and no pause.
LEMMA FirstFacts ==
    ASSUME PlansAssumption, NEW p \in Plans
    PROVE  FirstStatus(p) \in {"gathering_context", "analyzing", "building_image",
                               "awaiting_hardware"}
<1>1. PICK q : q = Prepared(p)
  OBVIOUS
<1>2. q[1] \in {"resource", "analyze", "gathering_context", "build_image"}
  BY <1>1, PreparedFacts
<1>3. FirstStatus(p) \in {"gathering_context", PlanStatus[q[1]]}
  BY <1>1 DEF FirstStatus
<1> QED
  BY <1>2, <1>3 DEF PlanStatus

LEMMA InitHolds ==
    ASSUME RunnerAssumption, PlansAssumption, RunnerInit
    PROVE  RunnerInv
<1>1. PICK p \in Plans :
         /\ steps = [i \in 1 .. Len(Prepared(p)) |->
                       [agent |-> Prepared(p)[i],
                        state |-> IF i = 1 THEN "in_progress" ELSE "pending"]]
         /\ halt = p.halt
         /\ alert = p.investigation
         /\ status = FirstStatus(p)
  BY DEF RunnerInit
<1>2. p.halt \in StepAgent \cup {None} /\ p.investigation \in BOOLEAN
  BY DEF PlansAssumption
<1>3. status \in Status /\ status # "awaiting_customer_guidance"
  BY <1>1, FirstFacts, StatusList
<1>4. LifecycleInv
  BY <1>3 DEF RunnerInit, LifecycleInv, TicketTypeOK, RemembersOnlyInPause, PausedCanResume,
     ApprovalBoundToStage, None
<1>5. RunnerTypeOK
  <2>1. halt \in StepAgent \cup {None} /\ alert \in BOOLEAN
    BY <1>1, <1>2
  <2>2. CountsOK /\ runs \in Nat
    BY DEF RunnerInit, CountsOK, RunnerAssumption
  <2>3. /\ retry = Nothing /\ unsaved = Nothing /\ fetched = Nothing /\ draft = Nothing
        /\ guarded = None
    BY DEF RunnerInit
  <2>4. phase \in Phase /\ assigned \in Status /\ found \in Status /\ decision \in Decision
    BY StatusList DEF RunnerInit, Phase, Decision
  <2>5. conclusive \in BOOLEAN /\ lost \in BOOLEAN /\ changed \in BOOLEAN /\ waited \in BOOLEAN
    BY DEF RunnerInit
  <2> QED
    BY <2>1, <2>2, <2>3, <2>4, <2>5 DEF RunnerTypeOK, CountsOK
<1>6. Ordered(steps, current)
  <2>0. PICK q : q = Prepared(p)
    OBVIOUS
  <2>1. PICK n : n = Len(q)
    OBVIOUS
  <2>2. n \in Nat /\ \A i \in 1 .. n : q[i] \in StepAgent
    BY <2>0, <2>1, PreparedFacts
  <2>3. \A i \in 1 .. n : steps[i] \in Step /\ (i # 1 => steps[i].state = "pending")
    BY <1>1, <2>0, <2>1, <2>2 DEF Step, StepState
  <2>4. steps \in Seq(Step) /\ Len(steps) = n
    <3>1. DOMAIN steps = 1 .. n
      BY <1>1, <2>0, <2>1
    <3>2. steps = [i \in 1 .. n |-> steps[i]]
      BY <1>1, <2>0, <2>1
    <3>3. steps \in [1 .. n -> Step]
      BY <2>3, <3>2
    <3> QED
      BY <2>2, <3>3
  <2>5. current = 1
    BY DEF RunnerInit
  <2> QED
    BY <2>2, <2>3, <2>4, <2>5 DEF Ordered
<1>7. DraftFits /\ GuardStands
  BY DEF RunnerInit, DraftFits, GuardStands
<1> QED
  BY <1>4, <1>5, <1>6, <1>7, InvParts

LEMMA TicketStepKeeps ==
    ASSUME LifecycleInv, TicketStep
    PROVE  LifecycleInv'
BY StandingKeeps, TransitionKeeps, ForceCloseKeeps DEF TicketStep

LEMMA NextKeeps ==
    ASSUME RunnerAssumption, PlansAssumption, RunnerInv, [RunnerNext]_runnerVars
    PROVE  RunnerInv' /\ CompletedKept
<1>1. /\ LifecycleInv /\ RunnerTypeOK /\ Ordered(steps, current) /\ DraftFits
      /\ GuardStands /\ status \in Status /\ steps \in Seq(Step)
  BY InvParts DEF LifecycleInv, TicketTypeOK, Ordered
<1>2. TicketStep /\ PlanStep /\ DraftStep
  BY <1>1, RunnerSteps
<1>3. LifecycleInv'
  BY <1>1, <1>2, TicketStepKeeps
<1>4. Ordered(steps, current)' /\ CompletedKept
  BY <1>1, <1>2, PlanStepKeeps
<1>5. DraftFits'
  BY <1>1, <1>2, DraftStepKeeps
<1>6. RunnerTypeOK'
  <2>1. CASE UNCHANGED runnerVars
    BY <1>1, <2>1 DEF runnerVars, planVars, plan, retryVars, taskVars, history, bounds,
       RunnerTypeOK
  <2>2. CASE RunnerNext
    BY <1>1, <1>5, <2>2, PollTypes, RunAgentTypes, AdvanceTypes, RecordTypes, OtherTypes
    DEF RunnerNext
  <2> QED
    BY <2>1, <2>2
<1>7. GuardStands'
  <2>1. CASE UNCHANGED runnerVars
    <3>1. UNCHANGED <<status, guarded, phase, retry, unsaved>>
      BY <2>1 DEF runnerVars, ticketVars, history, taskVars, retryVars
    <3> QED
      BY <1>1, <3>1, GuardKept
  <2>2. CASE RunnerNext
    BY <1>1, <2>2, PollKeepsGuard, RunAgentKeepsGuard, AdvanceKeepsGuard,
       RecordKeepsGuard, OthersKeepGuard DEF RunnerNext
  <2> QED
    BY <2>1, <2>2
<1>8. RunnerInv' <=> /\ LifecycleInv'
                     /\ RunnerTypeOK'
                     /\ Ordered(steps, current)'
                     /\ DraftFits'
                     /\ GuardStands'
  BY DEF RunnerInv, LifecycleInv, PlanTypeOK, RunnerTypeOK, OneStepRuns, Ordered
<1> QED
  BY <1>3, <1>4, <1>5, <1>6, <1>7, <1>8

\* The invariant of the plan, strengthened by the draft and the guard, is inductive.
LEMMA InductiveInvariant == RunnerSpec => []RunnerInv
<1>1. RunnerInit => RunnerInv
  BY InitHolds, RunnerAssumption, PlansAssumption
<1>2. RunnerInv /\ [RunnerNext]_runnerVars => RunnerInv'
  BY NextKeeps, RunnerAssumption, PlansAssumption
<1> QED
  BY <1>1, <1>2, PTL DEF RunnerSpec

\* For every plan triage may write, and whatever calls fail, the orchestrator
\* crashes or the user does: the steps before the cursor are finished, those behind
\* it have not begun, and every value keeps its type (_advance_plan computes the plan,
\* writes it and moves the ticket in separate calls).
THEOREM PlanOrder == RunnerSpec => []PlanInv
<1>1. RunnerInv => PlanInv
  BY DEF RunnerInv, PlanInv
<1> QED
  BY <1>1, InductiveInvariant, PTL

\* Neither a loop back, nor the injected image or resource steps, nor a plan computed
\* before somebody else changed the stored one, takes a completed or aborted step out
\* of the plan or back to work, and the cursor never moves back (_advance_plan,
\* transition_ticket).
THEOREM CompletedWorkStays == RunnerSpec => CompletedStepsStay
<1>1. RunnerInv /\ [RunnerNext]_runnerVars
        => [/\ current' >= current
            /\ \A i \in DOMAIN steps : steps[i].state \in {"completed", "aborted"} =>
                  /\ i \in DOMAIN steps'
                  /\ steps'[i].state \in {"completed", "aborted"}
                  /\ steps'[i].agent = steps[i].agent]_runnerVars
  BY NextKeeps, RunnerAssumption, PlansAssumption DEF CompletedKept
<1> QED
  BY <1>1, InductiveInvariant, PTL DEF RunnerSpec, CompletedStepsStay

\* While a ticket stays at a stage whose agent may have committed work without its
\* trace, no list fetched lets the stage be dispatched again, for every number of
\* failed writes and crashes (_record_dispatch_retry_outcome, retry_guard).
THEOREM AmbiguousWorkIsHeld == RunnerSpec => AmbiguousWorkStaysStopped
<1>1. ASSUME RunnerInv, [RunnerNext]_runnerVars, fetched = Nothing, fetched' # Nothing,
             guarded # None
      PROVE  Suppressed(status, fetched'.entry)
  <2>1. FetchTicket
    BY <1>1 DEF RunnerNext, RunnerPoll, SkipTicket, DispatchStep, RunAgent, Start,
       AgentSucceeds, AgentPauses,
       AgentGivesUp, AgentLosesTrace, Evaluate, Route, Advance, AdvanceReads, GateBlocks,
       AdvancePersists, AdvanceMoves, AdvanceFails, Record, RecordAmbiguous,
       RequestGuidance, RecordMove, RecordAttempt, RecordFails, RunnerUser, Reply, CloseByUser,
       Crash, retryVars, runnerVars
  <2>2. fetched'.entry = Overlaid
    BY <2>1 DEF FetchTicket
  <2> QED
    BY <1>1, <2>2 DEF RunnerInv, GuardStands
<1>2. RunnerInv /\ [RunnerNext]_runnerVars
        => [fetched = Nothing /\ fetched' # Nothing /\ guarded # None
              => Suppressed(status, fetched'.entry)]_runnerVars
  BY <1>1
<1> QED
  BY <1>2, InductiveInvariant, PTL DEF RunnerSpec, AmbiguousWorkStaysStopped
-----------------------------------------------------------------------------
\* The benchmarks that are run.  A round is never taken back: the agents of the
\* steps up to the cursor stay those they are, and the cursor stays or moves on.

AgentsStay ==
    /\ current <= current'
    /\ Len(steps) <= Len(steps')
    /\ \A i \in 1 .. Len(steps) : i <= current => steps'[i].agent = steps[i].agent

LEMMA AgentsAreKept ==
    ASSUME Ordered(steps, current), DraftFits, PlanStep
    PROVE  AgentsStay
<1>1. steps \in Seq(Step) /\ Len(steps) \in Nat /\ current \in 1 .. Len(steps) + 1
  BY DEF Ordered
<1>2. CASE UNCHANGED <<steps, current>>
  BY <1>1, <1>2 DEF AgentsStay
<1>3. CASE Aborts
  <2>1. current' = current
    BY <1>3 DEF Aborts
  <2> QED
    BY <1>1, <1>3, <2>1, AbortFacts DEF AgentsStay
<1>4. CASE Appends /\ UNCHANGED current
  BY <1>1, <1>4, AppendFacts DEF AgentsStay
<1>5. CASE Persists
  <2>1. Fits(draft) /\ steps' = draft.steps /\ current' = draft.current
    BY <1>5 DEF Persists, DraftFits
  <2>2. current <= current' /\ Len(steps) <= Len(steps')
    BY <2>1 DEF Fits
  <2>3. ASSUME NEW i \in 1 .. Len(steps), i <= current
        PROVE  steps'[i].agent = steps[i].agent
    <3>1. i = current \/ i \in 1 .. current - 1
      BY <1>1, <2>3
    <3> QED
      BY <2>1, <3>1 DEF Fits
  <2> QED
    BY <2>2, <2>3 DEF AgentsStay
<1> QED
  BY <1>2, <1>3, <1>4, <1>5 DEF PlanStep

\* The condition under which the step after x opens a round with y.
OpensWith(x, y) ==
    IF x = "benchmark" THEN y \notin {"review", "teardown", "evaluate"}
    ELSE x \notin Leading /\ y \in Leading

LEMMA RoundsGrow ==
    ASSUME Ordered(steps, current), Ordered(steps, current)', AgentsStay
    PROVE  /\ Cardinality(Rounds) \in Nat /\ Cardinality(Rounds') \in Nat
           /\ Cardinality(Rounds) <= Cardinality(Rounds')
           /\ (/\ current' = current + 1
               /\ current' <= Len(steps')
               /\ OpensWith(steps'[current].agent, steps'[current + 1].agent))
              => Cardinality(Rounds) < Cardinality(Rounds')
<1>1. /\ DOMAIN steps = 1 .. Len(steps) /\ Len(steps) \in Nat /\ current \in Nat
      /\ current >= 1
      /\ DOMAIN steps' = 1 .. Len(steps') /\ Len(steps') \in Nat /\ current' \in Nat
  BY DEF Ordered
<1>2. IsFiniteSet(Rounds) /\ IsFiniteSet(Rounds')
  <2>1. Rounds \subseteq 1 .. Len(steps) /\ Rounds' \subseteq 1 .. Len(steps')
    BY <1>1 DEF Rounds
  <2>2. IsFiniteSet(1 .. Len(steps)) /\ IsFiniteSet(1 .. Len(steps'))
    BY <1>1, FS_Interval
  <2> QED
    BY <2>1, <2>2, FS_Subset
<1>3. Rounds \subseteq Rounds'
  <2> SUFFICES ASSUME NEW i \in Rounds PROVE i \in Rounds'
    OBVIOUS
  <2>1. i \in 1 .. Len(steps) /\ i <= current /\ Opens(i)
    BY <1>1 DEF Rounds
  <2>2. i \in 1 .. Len(steps') /\ i <= current' /\ steps'[i].agent = steps[i].agent
    BY <1>1, <2>1 DEF AgentsStay
  <2>3. i # 1 => steps'[i - 1].agent = steps[i - 1].agent
    <3>1. i # 1 => i - 1 \in 1 .. Len(steps) /\ i - 1 <= current
      BY <1>1, <2>1
    <3> QED
      BY <3>1 DEF AgentsStay
  <2>4. Opens(i)'
    BY <2>1, <2>2, <2>3 DEF Opens
  <2> QED
    BY <1>1, <2>2, <2>4 DEF Rounds
<1>4. Cardinality(Rounds) <= Cardinality(Rounds')
  BY <1>2, <1>3, FS_Subset
<1>5. Cardinality(Rounds) \in Nat /\ Cardinality(Rounds') \in Nat
  BY <1>2, FS_CardinalityType
<1>6. ASSUME current' = current + 1, current' <= Len(steps'),
             OpensWith(steps'[current].agent, steps'[current + 1].agent)
      PROVE  Cardinality(Rounds) < Cardinality(Rounds')
  <2>1. PICK r : r = current + 1
    OBVIOUS
  <2>2. r \in 1 .. Len(steps') /\ r # 1 /\ r - 1 = current /\ r <= current' /\ ~(r <= current)
    BY <1>1, <1>6, <2>1
  <2>3. Opens(r)'
    BY <1>6, <2>1, <2>2 DEF Opens, OpensWith
  <2>4. r \in Rounds' /\ r \notin Rounds
    BY <1>1, <2>2, <2>3 DEF Rounds
  <2>5. Cardinality(Rounds) # Cardinality(Rounds')
    BY <1>2, <1>3, <2>4, FS_Subset
  <2> QED
    BY <1>4, <1>5, <2>5
<1> QED
  BY <1>4, <1>5, <1>6

-----------------------------------------------------------------------------
\* What a task and its draft rest on while others act.

\* The stages that lead to a benchmark, and those of them whose agents run on
\* whatever status they find.
Early ==
    {"gathering_context", "analyzing", "building_image", "planning_investigation",
     "awaiting_hardware", "preparing_platform", "awaiting_provision", "executing_benchmark"}

Preparing == Early \ {"executing_benchmark"}

Sources == Early \ Rechecks

\* A plan is advanced on a ticket that nobody has paused.
Unpaused == phase \in {"advancing", "persisting", "moving"} => status \notin Paused

\* A ticket that is aborted has no step in progress, and no plan that waits.
AbortMarked ==
    abortRequested => /\ phase # "persisting"
                      /\ current \in DOMAIN steps => steps[current].state # "in_progress"

\* A list that is fetched during a task shows the ticket as it is until the task ends,
\* or paused, or is of a ticket that is closed.
ListIsNew ==
    phase \in {"starting", "working"} /\ fetched # Nothing =>
        status = "closed" \/ fetched.status \in {status} \cup Paused

\* Three stages are worked at only if the ticket is there; only evaluation routes.
TaskIsSent ==
    /\ phase = "working" /\ assigned \in Rechecks => found = assigned
    /\ phase = "routing" => assigned = "evaluating_convergence"

\* A benchmark that has been run and has not moved the ticket has a step behind it.
RunIsPlanned ==
    phase = "advancing" /\ assigned = "executing_benchmark" /\ status = "executing_benchmark"
        => Matches /\ current < Len(steps)

\* Where a computed plan leads that is not of a stage before the benchmark: to the
\* next step, or to a teardown.
Leads(d) ==
    /\ current <= Len(steps)
    /\ PlanStatus[steps[current].agent] = assigned
    /\ assigned = "executing_benchmark" /\ status = "executing_benchmark" => d.next # None
    /\ d.next \notin {None, "closed"} /\ assigned \notin Preparing =>
          /\ d.current \in 1 .. Len(d.steps)
          /\ d.next = PlanStatus[d.steps[d.current].agent]
          /\ d.current = current + 1 \/ d.next = "awaiting_teardown"

DraftLeads == phase = "persisting" => Leads(draft)

TaskInv == Unpaused /\ AbortMarked /\ ListIsNew /\ TaskIsSent /\ RunIsPlanned /\ DraftLeads

\* What a step does that leaves the task and the plan alone.
Bystands ==
    /\ UNCHANGED <<taskVars, planVars>>
    /\ \/ /\ UNCHANGED ticketVars
          /\ fetched' \in {fetched, Nothing} \/ fetched'.status = status
       \/ ForceClose /\ UNCHANGED fetched

\* Every step ends a task's work, leaves it alone, or is one of these.
LEMMA TaskSteps ==
    ASSUME [RunnerNext]_runnerVars
    PROVE  \/ phase' \in {"none", "recording", "guiding"}
           \/ Bystands
           \/ \E new \in Status : Reply(new)
           \/ DispatchStep \/ Start \/ AgentSucceeds \/ (\E d \in Decision : Evaluate(d))
           \/ Route \/ AdvanceReads \/ AdvancePersists
<1>1. CASE UNCHANGED runnerVars
  BY <1>1 DEF runnerVars, retryVars, Bystands
<1>2. CASE RunnerPoll
  BY <1>2 DEF RunnerPoll, FetchTicket, SkipTicket, Bystands
<1>3. CASE RunAgent
  BY <1>3 DEF RunAgent, AgentPauses, AgentGivesUp, AgentLosesTrace
<1>4. CASE Advance
  BY <1>4 DEF Advance, GateBlocks, AdvanceMoves, AdvanceFails
<1>5. CASE Record
  BY <1>5 DEF Record, RecordAmbiguous, RequestGuidance, RecordMove, RecordAttempt,
     RecordFails, Ended
<1>6. CASE CloseByUser
  BY <1>6 DEF CloseByUser, Bystands, retryVars
<1>7. CASE Crash
  BY <1>7 DEF Crash, Ended
<1> QED
  BY <1>1, <1>2, <1>3, <1>4, <1>5, <1>6, <1>7 DEF RunnerNext, RunnerUser

LEMMA BystandsKeeps ==
    ASSUME TaskInv, Bystands
    PROVE  TaskInv'
<1>1. /\ UNCHANGED <<phase, assigned, found, draft, steps, current, abortRequested>>
      /\ UNCHANGED status \/ (status' = "closed" /\ UNCHANGED fetched)
  BY DEF Bystands, taskVars, planVars, plan, ticketVars, ForceClose
<1>2. Unpaused'
  BY <1>1 DEF TaskInv, Unpaused, Paused
<1>3. AbortMarked'
  BY <1>1 DEF TaskInv, AbortMarked
<1>4. ListIsNew'
  <2>1. CASE status' = "closed"
    BY <2>1 DEF ListIsNew
  <2>2. CASE UNCHANGED status /\ (fetched' \in {fetched, Nothing} \/ fetched'.status = status)
    BY <1>1, <2>2 DEF TaskInv, ListIsNew
  <2> QED
    BY <1>1, <2>1, <2>2 DEF Bystands, ticketVars, ForceClose
<1>5. TaskIsSent'
  BY <1>1 DEF TaskInv, TaskIsSent
<1>6. RunIsPlanned'
  BY <1>1 DEF TaskInv, RunIsPlanned, Matches
<1>7. DraftLeads'
  <2> SUFFICES ASSUME phase' = "persisting" PROVE Leads(draft)'
    BY DEF DraftLeads
  <2>1. Leads(draft)
    BY <1>1 DEF TaskInv, DraftLeads
  <2>2. status' = "executing_benchmark" => status = "executing_benchmark"
    BY <1>1
  <2> QED
    BY <1>1, <2>1, <2>2 DEF Leads
<1> QED
  BY <1>2, <1>3, <1>4, <1>5, <1>6, <1>7 DEF TaskInv

\* A step in progress is none of an aborted ticket.
LEMMA AbortMarkedKept ==
    ASSUME Ordered(steps, current), AbortMarked, PlanStep,
           phase' # "persisting" \/ ~abortRequested'
    PROVE  AbortMarked'
<1>1. /\ steps \in Seq(Step) /\ Len(steps) \in Nat /\ current \in 1 .. Len(steps) + 1
      /\ DOMAIN steps = 1 .. Len(steps)
  BY DEF Ordered
<1> SUFFICES ASSUME abortRequested', current' \in DOMAIN steps'
             PROVE  steps'[current'].state # "in_progress"
  BY DEF AbortMarked
<1>2. CASE UNCHANGED <<steps, current, abortRequested>>
  BY <1>2 DEF AbortMarked
<1>3. CASE Aborts
  <2>1. current' = current /\ Len(steps') = Len(steps) /\ steps' \in Seq(Step)
    BY <1>3, AbortFacts DEF Aborts, Ordered
  <2>2. current \in 1 .. Len(steps)
    BY <1>1, <2>1
  <2>3. steps'[current].state = "aborted"
    BY <1>3, <2>2, AbortFacts
  <2> QED
    BY <2>1, <2>3
<1>4. CASE UNCHANGED abortRequested /\ Appends /\ UNCHANGED current
  <2>1. PICK a \in StepAgent : steps' = Append(steps, [agent |-> a, state |-> "pending"])
    BY <1>4 DEF Appends
  <2>2. PICK x : x = [agent |-> a, state |-> "pending"]
    OBVIOUS
  <2>3. x \in Step /\ x.state = "pending" /\ steps' = Append(steps, x)
    BY <2>1, <2>2 DEF Step, StepState
  <2>4. CASE current \in 1 .. Len(steps)
    <3>1. steps'[current] = steps[current]
      BY <1>1, <2>3, <2>4
    <3> QED
      BY <1>1, <1>4, <2>4, <3>1 DEF AbortMarked
  <2>5. CASE current = Len(steps) + 1
    <3>1. steps'[current] = x
      BY <1>1, <2>3, <2>5
    <3> QED
      BY <1>4, <2>3, <3>1
  <2> QED
    BY <1>1, <2>4, <2>5
<1>5. CASE UNCHANGED abortRequested /\ Persists
  BY <1>5 DEF Persists, AbortMarked
<1> QED
  BY <1>2, <1>3, <1>4, <1>5 DEF PlanStep

LEMMA ReplyKeeps ==
    ASSUME LifecycleInv, Ordered(steps, current), TaskInv, NEW new \in Status, Reply(new)
    PROVE  TaskInv'
<1>1. /\ UNCHANGED <<phase, assigned, found, draft, fetched, current>>
      /\ status \in Paused /\ Moves(new)
  BY DEF Reply, taskVars, retryVars, plan
<1>2. phase \notin {"advancing", "persisting", "moving"}
  BY <1>1 DEF TaskInv, Unpaused
<1>3. AbortMarked'
  <2>1. PlanStep
    BY <1>1, MovesSteps DEF PlanStep
  <2> QED
    BY <1>1, <1>2, <2>1, AbortMarkedKept DEF TaskInv
<1>4. ListIsNew'
  BY <1>1 DEF TaskInv, ListIsNew, Paused
<1>5. TaskIsSent'
  BY <1>1 DEF TaskInv, TaskIsSent
<1>6. Unpaused' /\ RunIsPlanned' /\ DraftLeads'
  BY <1>1, <1>2 DEF Unpaused, RunIsPlanned, DraftLeads
<1> QED
  BY <1>3, <1>4, <1>5, <1>6 DEF TaskInv

-----------------------------------------------------------------------------
\* Where the computed plan leads.

\* Only an analysis is followed by another step than the next one or a teardown.
LEMMA ShortcutLeads ==
    ASSUME NEW j \in Seq(Step), NEW n \in Nat \ {0}, NEW u, NEW m,
           Shortcut(j, n) = [steps |-> u, current |-> m],
           steps[current].agent # "analyze"
    PROVE  m = n \/ (m \in 1 .. Len(u) /\ u[m].agent = "teardown")
<1>1. PICK ends : ends = {i \in n .. Len(j) : j[i].agent = Destination}
  OBVIOUS
<1>2. \/ m = n
      \/ ends # {} /\ u = InState(j, n, First(ends) - 1, "skipped") /\ m = First(ends)
  BY <1>1 DEF Shortcut
<1>3. Len(j) \in Nat
  OBVIOUS
<1>4. CASE ends # {} /\ u = InState(j, n, First(ends) - 1, "skipped") /\ m = First(ends)
  <2>1. ends \in SUBSET Nat
    BY <1>1, <1>3
  <2>2. m \in ends
    BY <1>4, <2>1, FirstIsLeast
  <2>3. m \in 1 .. Len(j) /\ m \in Int /\ m - 1 \in Int /\ n \in Int
    BY <1>1, <1>3, <2>2
  <2>4. j[m].agent = "teardown"
    BY <1>1, <2>2 DEF Destination
  <2>5. u = InState(j, n, m - 1, "skipped") /\ "skipped" \in StepState
    BY <1>4 DEF StepState
  <2>6. /\ Len(u) = Len(j)
        /\ \A i \in 1 .. Len(j) : u[i].agent = j[i].agent
    BY <2>3, <2>5, InStateFacts
  <2> QED
    BY <2>3, <2>4, <2>6
<1> QED
  BY <1>2, <1>4

\* The computed plan leads to the next step or to a teardown, unless its stage is one
\* before the benchmark.
LEMMA NextPlanLeads ==
    ASSUME Ordered(steps, current), Matches,
           assigned = "executing_benchmark" /\ status = "executing_benchmark"
             => current < Len(steps)
    PROVE  Leads(NextPlan)
<1>1. /\ steps \in Seq(Step) /\ Len(steps) \in Nat /\ current \in 1 .. Len(steps)
      /\ PlanStatus[steps[current].agent] = assigned
  BY DEF Ordered, Matches
<1>2. PICK done : done = InState(steps, current, current, "completed")
  OBVIOUS
<1>3. PICK n : n = IF assigned \in AgentRouted THEN Routed(done) ELSE current + 1
  OBVIOUS
<1>4. PICK k : k = Skipped(done, current + 1, n - 1)
  OBVIOUS
<1>5. PICK j : j = Injected(k, n)
  OBVIOUS
<1>6. \E u, m : Shortcut(j, n) = [steps |-> u, current |-> m]
  BY DEF Shortcut
<1>7. PICK u, m : Shortcut(j, n) = [steps |-> u, current |-> m]
  BY <1>6
<1>8. Cut(u, m) /\ current < m /\ Begins(u, done, current) /\ n \in Nat \ {0} /\ j \in Seq(Step)
  BY <1>1, <1>2, <1>3, <1>4, <1>5, <1>7, NextStepsCut
<1>9. /\ u \in Seq(Step) /\ Len(u) \in Nat /\ m \in 1 .. Len(u) + 1
      /\ Len(steps) <= Len(u)
  BY <1>1, <1>2, <1>8, CompletedFacts DEF Cut, Begins
<1>10. PICK d : d = NextPlan
  OBVIOUS
<1>11. assigned = "executing_benchmark" => steps[current].agent = "benchmark"
  <2>1. steps[current] \in Step
    BY <1>1
  <2>2. steps[current].agent \in StepAgent
    BY <2>1 DEF Step
  <2> QED
    BY <1>1, <2>2 DEF StepAgent, PlanStatus
<1>12. CASE m > Len(u)
  <2>1. d = [steps |-> u, current |-> m, next |-> None]
    BY <1>2, <1>3, <1>4, <1>5, <1>7, <1>10, <1>12 DEF NextPlan
  <2>2. ASSUME assigned = "executing_benchmark", status = "executing_benchmark" PROVE FALSE
    <3>1. n = current + 1
      BY <1>3, <2>2 DEF AgentRouted
    <3>2. m = n
      BY <1>7, <1>11, <2>2 DEF Shortcut
    <3> QED
      BY <1>1, <1>9, <1>12, <2>2, <3>1, <3>2
  <2> QED
    BY <1>1, <1>10, <2>1, <2>2 DEF Leads
<1>13. CASE m <= Len(u)
  <2>1. PICK v : v = InState(u, m, m, "in_progress")
    OBVIOUS
  <2>2. PICK to : to = PlanStatus[u[m].agent]
    OBVIOUS
  <2>3. PICK next : next = IF assigned \in AgentRouted THEN None
                           ELSE IF to = "awaiting_provision" /\ assigned = "awaiting_hardware"
                           THEN "preparing_platform" ELSE to
    OBVIOUS
  <2>4. ~(m > Len(u))
    BY <1>9, <1>13
  <2>5. d = [steps |-> v, current |-> m, next |-> next]
    BY <1>2, <1>3, <1>4, <1>5, <1>7, <1>10, <2>1, <2>2, <2>3, <2>4 DEF NextPlan
  <2>6. m \in 1 .. Len(u) /\ m \in Int /\ "in_progress" \in StepState
    BY <1>9, <1>13 DEF StepState
  <2>7. Len(v) = Len(u) /\ v[m].agent = u[m].agent
    BY <1>9, <2>1, <2>6, InStateFacts
  <2>8. assigned = "executing_benchmark" => next # None
    <3>0. u[m] \in Step
      BY <1>9, <2>6
    <3>1. u[m].agent \in StepAgent
      BY <3>0 DEF Step
    <3>2. to # None
      BY <2>2, <3>1, StatusOfSteps, NoneIsNoStatus
    <3> QED
      BY <2>3, <3>2 DEF AgentRouted
  <2>9. ASSUME next # None, assigned \notin Preparing
        PROVE  next = PlanStatus[v[m].agent] /\ (m = current + 1 \/ next = "awaiting_teardown")
    <3>1. assigned \notin AgentRouted /\ n = current + 1
      BY <1>3, <2>3, <2>9
    <3>2. next = to
      BY <2>3, <2>9, <3>1 DEF Preparing, Early
    <3>3. steps[current].agent # "analyze"
      BY <1>1, <2>9 DEF PlanStatus, Preparing, Early
    <3>4. m = n \/ (m \in 1 .. Len(u) /\ u[m].agent = "teardown")
      BY <1>7, <1>8, <3>3, ShortcutLeads
    <3>5. u[m].agent = "teardown" => to = "awaiting_teardown"
      BY <2>2 DEF PlanStatus
    <3> QED
      BY <2>2, <2>7, <3>1, <3>2, <3>4, <3>5
  <2> QED
    BY <1>1, <1>9, <1>10, <2>5, <2>6, <2>7, <2>8, <2>9 DEF Leads
<1> QED
  BY <1>9, <1>12, <1>13

-----------------------------------------------------------------------------
\* The steps of a task keep what it rests on.

LEMMA HaltedPlanLeads ==
    ASSUME Matches
    PROVE  Leads(HaltedPlan)
<1>1. PICK d : d = HaltedPlan
  OBVIOUS
<1>2. d.next = "closed"
  BY <1>1 DEF HaltedPlan
<1>3. Leads(d)
  BY <1>2 DEF Matches, Leads, None
<1> QED
  BY <1>1, <1>3

LEMMA ReadsKeeps ==
    ASSUME Ordered(steps, current), TaskInv, AdvanceReads
    PROVE  TaskInv'
<1>1. UNCHANGED <<status, abortRequested, steps, current, assigned, found>>
  BY DEF AdvanceReads, ticketVars, planVars, plan
<1>2. CASE phase' = "recording"
  BY <1>1, <1>2 DEF TaskInv, Unpaused, AbortMarked, ListIsNew, TaskIsSent, RunIsPlanned,
     DraftLeads
<1>3. CASE phase' # "recording"
  <2>1. Matches /\ phase' = "persisting" /\ draft' \in {HaltedPlan, NextPlan}
    BY <1>3 DEF AdvanceReads
  <2>2. assigned = "executing_benchmark" /\ status = "executing_benchmark"
          => current < Len(steps)
    BY DEF TaskInv, RunIsPlanned, AdvanceReads
  <2>3. PICK d : d = draft'
    OBVIOUS
  <2>4. Leads(d)
    BY <2>1, <2>2, <2>3, NextPlanLeads, HaltedPlanLeads
  <2>5. DraftLeads'
    BY <1>1, <2>3, <2>4 DEF DraftLeads, Leads
  <2>6. Unpaused' /\ AbortMarked'
    BY <1>1, <2>1 DEF Unpaused, AbortMarked, Matches
  <2>7. ListIsNew' /\ TaskIsSent' /\ RunIsPlanned'
    BY <2>1 DEF ListIsNew, TaskIsSent, RunIsPlanned
  <2> QED
    BY <2>5, <2>6, <2>7 DEF TaskInv
<1> QED
  BY <1>2, <1>3

\* An agent never pauses the ticket it moves on, and leaves the move to a plan only
\* where the plan has a step to go on with.
LEMMA SucceedsKeeps ==
    ASSUME LifecycleInv, Ordered(steps, current), TaskInv, PlanStep, AgentSucceeds
    PROVE  TaskInv'
<1>1. phase' \in {"advancing", "recording"} /\ UNCHANGED <<assigned, current>>
  BY DEF AgentSucceeds
<1>2. AbortMarked'
  BY <1>1, AbortMarkedKept DEF TaskInv
<1>3. ListIsNew' /\ TaskIsSent' /\ DraftLeads'
  BY <1>1 DEF ListIsNew, TaskIsSent, DraftLeads
<1>4. CASE YieldsToPlan(assigned)
  <2>1. Stays /\ PlanControls
    BY <1>4 DEF AgentSucceeds, YieldsToPlan
  <2>2. UNCHANGED <<status, abortRequested, steps>>
    BY <2>1 DEF Stays, ticketVars
  <2>3. status \notin Paused
    <3>1. steps[current].agent \in BaseAgent /\ PlanStatus[steps[current].agent] = status
      BY <2>1 DEF PlanControls
    <3> QED
      BY <3>1 DEF BaseAgent, StepAgent, PlanStatus, Paused
  <2>4. Unpaused'
    BY <2>2, <2>3 DEF Unpaused
  <2>5. RunIsPlanned'
    <3> SUFFICES ASSUME assigned = "executing_benchmark", status = "executing_benchmark"
                 PROVE  Matches' /\ (current < Len(steps))'
      BY <1>1, <2>2 DEF RunIsPlanned
    <3>1. /\ current < Len(steps) /\ steps[current].state = "in_progress"
          /\ PlanStatus[steps[current].agent] = assigned
      BY <2>1 DEF PlanControls
    <3>2. current \in DOMAIN steps /\ current <= Len(steps)
      BY <3>1 DEF Ordered
    <3>3. ~abortRequested
      BY <3>1, <3>2 DEF TaskInv, AbortMarked
    <3> QED
      BY <1>1, <2>2, <2>3, <3>1, <3>2, <3>3 DEF Matches, AgentRouted
  <2> QED
    BY <1>2, <1>3, <2>4, <2>5 DEF TaskInv
<1>5. CASE ~YieldsToPlan(assigned)
  <2>1. PICK new \in OwnTargets(assigned) : Moves(new)
    BY <1>5 DEF AgentSucceeds
  <2>2. status' = new
    BY <2>1 DEF Moves, Transition
  <2>3. new = "executing_benchmark" => assigned = "awaiting_provision"
    BY <2>1 DEF OwnTargets
  <2>4. new \notin Paused
    BY <2>1 DEF OwnTargets, Paused
  <2> QED
    BY <1>1, <1>2, <1>3, <2>2, <2>3, <2>4 DEF TaskInv, Unpaused, RunIsPlanned
<1> QED
  BY <1>4, <1>5

LEMMA TaskStepsKeep ==
    ASSUME LifecycleInv, Ordered(steps, current), TaskInv, PlanStep,
           \/ DispatchStep \/ Start \/ AgentSucceeds \/ (\E d \in Decision : Evaluate(d))
           \/ Route \/ AdvanceReads \/ AdvancePersists
    PROVE  TaskInv'
<1>1. CASE DispatchStep
  <2>1. /\ phase' = "starting" /\ fetched' = Nothing
    BY <1>1 DEF DispatchStep
  <2>2. AbortMarked'
    BY <2>1, AbortMarkedKept DEF TaskInv
  <2> QED
    BY <2>1, <2>2 DEF TaskInv, Unpaused, ListIsNew, TaskIsSent, RunIsPlanned, DraftLeads
<1>2. CASE Start
  <2>1. /\ phase = "starting" /\ UNCHANGED <<status, assigned, fetched>>
        /\ phase' \in {"working", "recording"} /\ found' = status
        /\ phase' = "working" => ~(assigned \in Rechecks /\ status # assigned)
    BY <1>2 DEF Start, ticketVars, retryVars
  <2>2. AbortMarked'
    BY <2>1, AbortMarkedKept DEF TaskInv
  <2>3. ListIsNew'
    BY <2>1 DEF TaskInv, ListIsNew
  <2>4. TaskIsSent'
    BY <2>1 DEF TaskIsSent
  <2> QED
    BY <2>1, <2>2, <2>3, <2>4 DEF TaskInv, Unpaused, RunIsPlanned, DraftLeads
<1>3. CASE AgentSucceeds
  BY <1>3, SucceedsKeeps
<1>4. CASE \E d \in Decision : Evaluate(d)
  <2>1. phase' = "routing" /\ assigned' = "evaluating_convergence"
    BY <1>4 DEF Evaluate
  <2>2. AbortMarked'
    BY <2>1, AbortMarkedKept DEF TaskInv
  <2> QED
    BY <2>1, <2>2 DEF TaskInv, Unpaused, ListIsNew, TaskIsSent, RunIsPlanned, DraftLeads
<1>5. CASE Route
  <2>1. phase' = "advancing" /\ assigned' = "evaluating_convergence" /\ status' = RouteTarget
    BY <1>5 DEF Route, Moves, Transition, TaskInv, TaskIsSent
  <2>2. status' \notin Paused
    BY <2>1 DEF RouteTarget, Paused
  <2>3. AbortMarked'
    BY <2>1, AbortMarkedKept DEF TaskInv
  <2> QED
    BY <2>1, <2>2, <2>3 DEF TaskInv, Unpaused, ListIsNew, TaskIsSent, RunIsPlanned, DraftLeads
<1>6. CASE AdvanceReads
  BY <1>6, ReadsKeeps
<1>7. CASE AdvancePersists
  <2>1. phase = "persisting" /\ phase' \in {"recording", "moving"} /\ UNCHANGED status
    BY <1>7 DEF AdvancePersists, ticketVars
  <2>2. AbortMarked'
    BY <2>1, AbortMarkedKept DEF TaskInv
  <2> QED
    BY <2>1, <2>2 DEF TaskInv, Unpaused, ListIsNew, TaskIsSent, RunIsPlanned, DraftLeads
<1> QED
  BY <1>1, <1>2, <1>3, <1>4, <1>5, <1>6, <1>7

LEMMA TaskInvKept ==
    ASSUME RunnerInv, TaskInv, [RunnerNext]_runnerVars
    PROVE  TaskInv'
<1>1. LifecycleInv /\ Ordered(steps, current) /\ steps \in Seq(Step)
  BY InvParts DEF Ordered
<1>2. PlanStep
  BY <1>1, RunnerSteps
<1>3. CASE phase' \in {"none", "recording", "guiding"}
  <2>1. AbortMarked'
    BY <1>1, <1>2, <1>3, AbortMarkedKept DEF TaskInv
  <2> QED
    BY <1>3, <2>1 DEF TaskInv, Unpaused, ListIsNew, TaskIsSent, RunIsPlanned, DraftLeads
<1>4. CASE \E new \in Status : Reply(new)
  BY <1>1, <1>4, ReplyKeeps
<1> QED
  BY <1>1, <1>2, <1>3, <1>4, TaskSteps, TaskStepsKeep, BystandsKeeps

-----------------------------------------------------------------------------
\* The benchmark that may still be run without anything else to pay for it.

\* The benchmark of this task has been run, and the ticket is about to leave its stage.
HasRun ==
    \/ phase \in {"advancing", "persisting"} /\ assigned = "executing_benchmark"
    \/ /\ phase = "moving"
       /\ draft.next \in {"closed", "awaiting_review", "awaiting_teardown",
                          "evaluating_convergence"}

\* The ticket is, or is being moved, or may be moved from an older list, to a stage
\* that leads to a benchmark.
MayRun ==
    \/ status \in Preparing
    \/ status = "executing_benchmark" /\ ~HasRun
    \/ status \in Paused /\ previous \in Preparing
    \/ fetched # Nothing /\ fetched.status \in Sources
    \/ phase \in {"starting", "working"} /\ assigned \in Sources
    \/ phase \in {"advancing", "persisting"} /\ assigned \in Preparing
    \/ /\ phase \in {"routing", "advancing", "persisting"}
       /\ assigned = "evaluating_convergence" /\ decision # "conclude"
    \/ phase = "moving" /\ draft.next \in Early

Budget == Cardinality(Rounds) + faults + loops + replies

\* What may still be run is accounted for as well.
Accounted == runs <= Budget /\ (MayRun => runs < Budget)

\* What a step does to the account: nothing, a payment, or the run that was paid for.
Balanced ==
    \/ UNCHANGED runs /\ (MayRun' => MayRun)
    \/ UNCHANGED runs /\ Budget < Budget'
    \/ runs' = runs + 1 /\ MayRun /\ ~MayRun'

LEMMA BalancedKeeps ==
    ASSUME runs \in Nat, Budget \in Nat, Budget' \in Nat, Budget <= Budget',
           Accounted, Balanced
    PROVE  Accounted'
<1>1. runs' \in Nat
  BY DEF Balanced
<1>2. CASE UNCHANGED runs /\ (MayRun' => MayRun)
  BY <1>2 DEF Accounted
<1>3. CASE UNCHANGED runs /\ Budget < Budget'
  BY <1>3 DEF Accounted
<1>4. CASE runs' = runs + 1 /\ MayRun /\ ~MayRun'
  BY <1>4 DEF Accounted
<1> QED
  BY <1>2, <1>3, <1>4 DEF Balanced

\* A fault, a loop and a reply pay.
Pays ==
    \/ faults' = faults + 1 /\ UNCHANGED <<loops, replies>>
    \/ loops' = loops + 1 /\ UNCHANGED <<faults, replies>>
    \/ replies' = replies + 1 /\ UNCHANGED <<faults, loops>>

LEMMA BudgetGrows ==
    ASSUME RunnerTypeOK, Ordered(steps, current), Ordered(steps, current)', AgentsStay,
           Pays \/ UNCHANGED <<faults, loops, replies>>
    PROVE  /\ Budget \in Nat /\ Budget' \in Nat /\ Budget <= Budget'
           /\ Pays => Budget < Budget'
           /\ Cardinality(Rounds) < Cardinality(Rounds') => Budget < Budget'
<1>1. PICK a : a = Cardinality(Rounds)
  OBVIOUS
<1>2. PICK b : b = Cardinality(Rounds')
  OBVIOUS
<1>3. a \in Nat /\ b \in Nat /\ a <= b
  BY <1>1, <1>2, RoundsGrow
<1>4. faults \in Nat /\ loops \in Nat /\ replies \in Nat
  BY DEF RunnerTypeOK
<1>5. Budget = a + faults + loops + replies /\ Budget' = b + faults' + loops' + replies'
  BY <1>1, <1>2 DEF Budget
<1>6. CASE UNCHANGED <<faults, loops, replies>>
  BY <1>1, <1>2, <1>3, <1>4, <1>5, <1>6 DEF Pays
<1>7. CASE Pays
  BY <1>1, <1>2, <1>3, <1>4, <1>5, <1>7 DEF Pays
<1> QED
  BY <1>6, <1>7

\* The steps after which the task works on nothing.
Rests == phase' \in {"none", "recording", "guiding"} /\ UNCHANGED fetched

\* A step that changes nothing else than the task of a ticket that is not being moved
\* raises no claim to a benchmark.
LEMMA RestBalances ==
    ASSUME UNCHANGED <<runs, status, previous>>, Rests,
           phase \notin {"advancing", "persisting", "moving"} \/ status # "executing_benchmark"
    PROVE  Balanced
<1>1. MayRun' => MayRun
  BY DEF Rests, MayRun, HasRun
<1> QED
  BY <1>1 DEF Balanced

\* A pause keeps the claim of the stage it interrupts.
LEMMA PauseBalances ==
    ASSUME Moves("awaiting_customer_guidance"), UNCHANGED runs, Rests
    PROVE  Balanced
<1>1. /\ status' = "awaiting_customer_guidance"
      /\ previous' = IF status = "awaiting_customer_guidance" THEN previous ELSE status
  BY DEF Moves, Transition, Pause
<1>2. ASSUME MayRun' PROVE MayRun
  <2>1. \/ previous' \in Preparing
        \/ fetched # Nothing /\ fetched.status \in Sources
    BY <1>1, <1>2 DEF MayRun, Rests, Preparing, Early
  <2> QED
    BY <1>1, <2>1 DEF MayRun, Paused
<1> QED
  BY <1>2 DEF Balanced

LEMMA PollBalances ==
    ASSUME RunnerPoll
    PROVE  Balanced
<1>1. UNCHANGED <<runs, status, previous, draft, decision>>
  BY DEF RunnerPoll, FetchTicket, SkipTicket, DispatchStep, ticketVars, history, taskVars,
     planVars, plan
<1>2. ASSUME MayRun' PROVE MayRun
  <2>1. CASE FetchTicket
    <3>1. UNCHANGED <<phase, assigned>> /\ fetched'.status = status
      BY <2>1 DEF FetchTicket, taskVars
    <3>2. fetched'.status \in Sources => status \in Preparing
      BY <3>1 DEF Sources, Preparing, Early, Rechecks
    <3> QED
      BY <1>1, <1>2, <3>1, <3>2 DEF MayRun, HasRun
  <2>2. CASE SkipTicket
    <3>1. UNCHANGED <<phase, assigned>> /\ fetched' = Nothing
      BY <2>2 DEF SkipTicket, taskVars
    <3> QED
      BY <1>1, <1>2, <3>1 DEF MayRun, HasRun
  <2>3. CASE DispatchStep
    <3>1. /\ phase = "none" /\ phase' = "starting" /\ fetched' = Nothing
          /\ fetched # Nothing /\ assigned' = fetched.status
      BY <2>3 DEF DispatchStep
    <3> QED
      BY <1>1, <1>2, <3>1 DEF MayRun, HasRun
  <2> QED
    BY <2>1, <2>2, <2>3 DEF RunnerPoll
<1> QED
  BY <1>1, <1>2 DEF Balanced

LEMMA StartBalances ==
    ASSUME Start
    PROVE  Balanced
<1>1. /\ UNCHANGED <<runs, status, previous, fetched, assigned, draft, decision>>
      /\ phase = "starting" /\ phase' \in {"working", "recording"}
  BY DEF Start, ticketVars, retryVars, history
<1>2. MayRun' => MayRun
  BY <1>1 DEF MayRun, HasRun
<1> QED
  BY <1>1, <1>2 DEF Balanced

\* Evaluation's own move: a loop has been paid for, and a synthesis leads to no run.
LEMMA RouteBalances ==
    ASSUME TaskInv, Route
    PROVE  Balanced
<1>1. /\ UNCHANGED <<runs, fetched, assigned, decision>>
      /\ phase = "routing" /\ phase' = "advancing" /\ assigned = "evaluating_convergence"
      /\ status' = RouteTarget
  BY DEF TaskInv, TaskIsSent, Route, Moves, Transition, retryVars, plan
<1>2. CASE decision # "conclude"
  BY <1>1, <1>2 DEF MayRun, Balanced
<1>3. CASE decision = "conclude"
  <2>1. status' = "synthesizing_results"
    BY <1>1, <1>3 DEF RouteTarget
  <2>2. MayRun' => MayRun
    BY <1>1, <1>3, <2>1 DEF MayRun, HasRun, Preparing, Early, Paused
  <2> QED
    BY <1>1, <2>2 DEF Balanced
<1> QED
  BY <1>2, <1>3

\* Where agents send the ticket: to a stage before the benchmark only from another.
LEMMA OwnTargetsLead ==
    ASSUME NEW at, NEW new \in OwnTargets(at)
    PROVE  /\ new \notin Paused
           /\ at = "executing_benchmark" => new \in {"awaiting_review", "evaluating_convergence"}
           /\ new \in Early => at \in Preparing
BY DEF OwnTargets, Paused, Preparing, Early

\* An agent's work: the run, which its claim pays for, and the moves of the others.
LEMMA SucceedsBalances ==
    ASSUME TaskInv, AgentSucceeds
    PROVE  Balanced
<1>1. /\ UNCHANGED <<fetched, assigned, draft, decision>>
      /\ phase = "working" /\ phase' \in {"advancing", "recording"}
      /\ status = found /\ assigned # "evaluating_convergence"
      /\ runs' = IF assigned = "executing_benchmark" THEN runs + 1 ELSE runs
  BY DEF AgentSucceeds, retryVars
<1>2. \/ UNCHANGED <<status, previous>>
      \/ \E new \in OwnTargets(assigned) : status' = new
  BY DEF AgentSucceeds, Stays, Moves, Transition, ticketVars
<1>3. CASE assigned = "executing_benchmark"
  <2>1. status = "executing_benchmark"
    BY <1>1, <1>3 DEF TaskInv, TaskIsSent, Rechecks
  <2>2. MayRun
    BY <1>1, <2>1 DEF MayRun, HasRun
  <2>3. phase' = "advancing"
    <3>1. "executing_benchmark" \in PlanManaged
      BY DEF PlanManaged, StepAgent, PlanStatus
    <3> QED
      BY <1>3, <3>1 DEF AgentSucceeds
  <2>4. fetched # Nothing => fetched.status \notin Sources
    BY <1>1, <2>1 DEF TaskInv, ListIsNew, Sources, Early, Rechecks, Paused
  <2>5. status' \in {"executing_benchmark", "awaiting_review", "evaluating_convergence"}
    BY <1>2, <1>3, <2>1, OwnTargetsLead
  <2>6. ~MayRun'
    BY <1>1, <1>3, <2>3, <2>4, <2>5 DEF MayRun, HasRun, Preparing, Early, Paused
  <2> QED
    BY <1>1, <1>3, <2>2, <2>6 DEF Balanced
<1>4. CASE assigned \in Preparing
  <2>1. MayRun
    <3>1. CASE assigned \in Rechecks
      BY <1>1, <1>4, <3>1 DEF TaskInv, TaskIsSent, MayRun
    <3>2. CASE assigned \notin Rechecks
      BY <1>1, <1>4, <3>2 DEF MayRun, Sources, Preparing
    <3> QED
      BY <3>1, <3>2
  <2> QED
    BY <1>1, <1>4, <2>1 DEF Balanced, Preparing
<1>5. CASE assigned \notin Early
  <2>1. assigned # "executing_benchmark" /\ assigned \notin Preparing
    BY <1>5 DEF Early, Preparing
  <2>2. CASE UNCHANGED <<status, previous>>
    <3>1. MayRun' => MayRun
      BY <1>1, <2>1, <2>2 DEF MayRun, HasRun
    <3> QED
      BY <1>1, <2>1, <3>1 DEF Balanced
  <2>3. CASE \E new \in OwnTargets(assigned) : status' = new
    <3>1. status' \notin Early /\ status' \notin Paused
      BY <2>1, <2>3, OwnTargetsLead
    <3>2. MayRun' => MayRun
      BY <1>1, <2>1, <3>1 DEF MayRun, Preparing, Early
    <3> QED
      BY <1>1, <2>1, <3>2 DEF Balanced
  <2> QED
    BY <1>2, <2>2, <2>3
<1> QED
  BY <1>3, <1>4, <1>5 DEF Preparing

LEMMA GivesUpBalances ==
    ASSUME AgentPauses \/ AgentGivesUp
    PROVE  Balanced
<1>1. CASE AgentPauses
  BY <1>1, PauseBalances DEF AgentPauses, Rests, retryVars
<1>2. CASE AgentGivesUp
  BY <1>2, RestBalances DEF AgentGivesUp, Stays, ticketVars, Rests, retryVars
<1> QED
  BY <1>1, <1>2

LEMMA ReadsBalances ==
    ASSUME TaskInv, AdvanceReads
    PROVE  Balanced
<1>1. /\ UNCHANGED <<runs, status, previous, fetched, assigned, decision>>
      /\ phase = "advancing" /\ phase' \in {"persisting", "recording"}
      /\ Matches => phase' = "persisting"
  BY DEF AdvanceReads, ticketVars, retryVars, history, planVars, plan
<1>2. assigned = "executing_benchmark" /\ status = "executing_benchmark"
        => phase' = "persisting"
  BY <1>1 DEF TaskInv, RunIsPlanned
<1>3. MayRun' => MayRun
  BY <1>1, <1>2 DEF MayRun, HasRun
<1> QED
  BY <1>1, <1>3 DEF Balanced

LEMMA GateBalances ==
    ASSUME LifecycleInv, GateBlocks
    PROVE  Balanced
<1>1. Rests /\ UNCHANGED runs
  BY DEF GateBlocks, Rests, retryVars
<1>2. CASE Moves("awaiting_customer_guidance")
  BY <1>1, <1>2, PauseBalances
<1>3. CASE ~Allowed("awaiting_customer_guidance") /\ Stays
  <2>1. status # "executing_benchmark"
    BY <1>3 DEF Allowed, ValidTransitions
  <2> QED
    BY <1>1, <1>3, <2>1, RestBalances DEF Stays, ticketVars
<1> QED
  BY <1>2, <1>3 DEF GateBlocks, TryMove

\* The move of the plan: the claim was with the move, and no refusal restores it.
LEMMA MovesBalances ==
    ASSUME AdvanceMoves
    PROVE  Balanced
<1>1. Rests /\ UNCHANGED runs /\ phase = "moving"
  BY DEF AdvanceMoves, Rests, retryVars
<1>2. CASE ForceClose
  <2>1. status' = "closed"
    BY <1>2 DEF ForceClose
  <2>2. MayRun' => MayRun
    BY <1>1, <2>1 DEF Rests, MayRun, Preparing, Early, Paused
  <2> QED
    BY <1>1, <2>2 DEF Balanced
<1>3. CASE Moves(draft.next)
  <2>1. CASE draft.next = "awaiting_customer_guidance"
    BY <1>1, <1>3, <2>1, PauseBalances
  <2>2. CASE draft.next # "awaiting_customer_guidance"
    <3>1. status' = draft.next /\ status' \notin Paused
      BY <1>3, <2>2 DEF Moves, Transition, Paused
    <3>2. MayRun' => MayRun
      BY <1>1, <3>1 DEF Rests, MayRun, Preparing, Early
    <3> QED
      BY <1>1, <3>2 DEF Balanced
  <2> QED
    BY <2>1, <2>2
<1>4. CASE draft.next # "closed" /\ ~Allowed(draft.next) /\ Stays
  <2>1. ASSUME status = "executing_benchmark" PROVE ~HasRun
    <3>1. draft.next \notin {"awaiting_review", "awaiting_teardown", "evaluating_convergence"}
      BY <1>4, <2>1 DEF Allowed, ValidTransitions
    <3> QED
      BY <1>1, <1>4, <3>1 DEF HasRun
  <2>2. MayRun' => MayRun
    BY <1>1, <1>4, <2>1 DEF Stays, ticketVars, Rests, MayRun
  <2> QED
    BY <1>1, <2>2 DEF Balanced
<1> QED
  BY <1>2, <1>3, <1>4 DEF AdvanceMoves, TryMove

LEMMA RecordBalances ==
    ASSUME Record
    PROVE  Balanced
<1>1. Rests /\ UNCHANGED runs /\ phase \in {"recording", "guiding"}
  BY DEF Record, RecordAmbiguous, RequestGuidance, RecordMove, RecordAttempt, RecordFails,
     Ended, Rests, retryVars, history
<1>2. \/ UNCHANGED <<status, previous>>
      \/ Moves("awaiting_customer_guidance")
  BY DEF Record, RecordAmbiguous, RequestGuidance, RecordMove, RecordAttempt, RecordFails,
     TryMove, Stays, ticketVars
<1> QED
  BY <1>1, <1>2, RestBalances, PauseBalances

\* Which step opens a round, seen from the stages.
LEMMA StagesOpen ==
    ASSUME NEW x \in StepAgent, NEW y \in StepAgent, PlanStatus[x] \notin Preparing,
           \/ PlanStatus[y] \in Early
           \/ /\ PlanStatus[x] = "executing_benchmark"
              /\ PlanStatus[y] \notin {"awaiting_review", "awaiting_teardown",
                                       "evaluating_convergence"}
    PROVE  OpensWith(x, y)
BY DEF StepAgent, PlanStatus, Preparing, Early, OpensWith, Leading

\* A written plan that leads to a benchmark again opens a round, unless it comes from
\* a stage before the benchmark.
LEMMA PersistsOpens ==
    ASSUME Ordered(steps, current), Fits(draft), Leads(draft), Persists,
           draft.next \notin {None, "closed"}, assigned \notin Preparing,
           \/ draft.next \in Early
           \/ /\ assigned = "executing_benchmark"
              /\ draft.next \notin {"awaiting_review", "awaiting_teardown",
                                    "evaluating_convergence"}
    PROVE  /\ current' = current + 1
           /\ current' <= Len(steps')
           /\ OpensWith(steps'[current].agent, steps'[current + 1].agent)
<1>1. PICK c : c = draft.current
  OBVIOUS
<1>2. PICK v : v = draft.steps
  OBVIOUS
<1>3. /\ c \in 1 .. Len(v) /\ draft.next = PlanStatus[v[c].agent]
      /\ c = current + 1 \/ draft.next = "awaiting_teardown"
      /\ steps' = v /\ current' = c
  BY <1>1, <1>2 DEF Leads, Persists
<1>4. /\ v \in Seq(Step) /\ v[current].agent = steps[current].agent
      /\ steps \in Seq(Step) /\ current \in 1 .. Len(steps) /\ Len(steps) \in Nat
      /\ Len(v) \in Nat /\ Len(steps) <= Len(v)
      /\ PlanStatus[steps[current].agent] = assigned
  BY <1>2 DEF Fits, Leads, Ordered
<1>5. c = current + 1
  BY <1>3 DEF Early
<1>6. v[c] \in Step /\ steps[current] \in Step
  BY <1>3, <1>4
<1>7. v[c].agent \in StepAgent /\ steps[current].agent \in StepAgent
  BY <1>6 DEF Step
<1>8. OpensWith(steps[current].agent, v[c].agent)
  BY <1>3, <1>4, <1>7, StagesOpen
<1>9. c <= Len(v)
  BY <1>3, <1>4
<1> QED
  BY <1>3, <1>4, <1>5, <1>8, <1>9

LEMMA PersistsBalances ==
    ASSUME RunnerTypeOK, Ordered(steps, current), Ordered(steps, current)', AgentsStay,
           DraftFits, TaskInv, AdvancePersists
    PROVE  Balanced
<1>1. /\ UNCHANGED <<runs, status, previous, fetched, assigned, draft, decision>>
      /\ UNCHANGED <<faults, loops, replies>>
      /\ phase = "persisting"
      /\ phase' = IF draft.next = None THEN "recording" ELSE "moving"
      /\ Persists
  BY DEF AdvancePersists, ticketVars, retryVars, bounds, Persists
<1>2. Fits(draft) /\ Leads(draft)
  BY <1>1 DEF DraftFits, TaskInv, DraftLeads
<1>3. CASE /\ draft.next \notin {None, "closed"} /\ assigned \notin Preparing
           /\ \/ draft.next \in Early
              \/ /\ assigned = "executing_benchmark"
                 /\ draft.next \notin {"awaiting_review", "awaiting_teardown",
                                       "evaluating_convergence"}
  <2>1. Cardinality(Rounds) < Cardinality(Rounds')
    BY <1>1, <1>2, <1>3, PersistsOpens, RoundsGrow
  <2>2. Budget < Budget'
    BY <1>1, <2>1, BudgetGrows
  <2> QED
    BY <1>1, <2>2 DEF Balanced
<1>4. CASE assigned \in Preparing
  BY <1>1, <1>4 DEF Balanced, MayRun
<1>5. CASE /\ assigned \notin Preparing
           /\ \/ draft.next \in {None, "closed"}
              \/ /\ draft.next \notin Early
                 /\ assigned = "executing_benchmark"
                      => draft.next \in {"awaiting_review", "awaiting_teardown",
                                         "evaluating_convergence"}
  <2>1. draft.next \notin Early
    BY <1>5 DEF Early, None
  <2>2. status = "executing_benchmark" /\ assigned = "executing_benchmark" => HasRun'
    <3>1. status = "executing_benchmark" /\ assigned = "executing_benchmark"
            => draft.next # None
      BY <1>2 DEF Leads
    <3> QED
      BY <1>1, <1>5, <3>1 DEF HasRun
  <2>3. MayRun' => MayRun
    BY <1>1, <1>5, <2>1, <2>2 DEF MayRun, HasRun
  <2> QED
    BY <1>1, <2>3 DEF Balanced
<1> QED
  BY <1>3, <1>4, <1>5

\* Faults, loops and acts of the user run nothing themselves and pay for what follows.
LEMMA OthersPay ==
    ASSUME AgentLosesTrace \/ AdvanceFails \/ RunnerUser \/ Crash
    PROVE  UNCHANGED runs /\ Pays
BY DEF AgentLosesTrace, AdvanceFails, RunnerUser, Reply, CloseByUser, Crash, Fault, Pays, bounds

\* An evaluation that ends the benchmarks asks for none, and every other one pays.
LEMMA EvaluateBalances ==
    ASSUME NEW d \in Decision, Evaluate(d)
    PROVE  UNCHANGED runs /\ (Pays \/ (MayRun' => MayRun))
<1>1. /\ UNCHANGED <<runs, status, previous, fetched, faults, replies>>
      /\ phase = "working" /\ phase' = "routing" /\ decision' = d
      /\ loops' = IF d = "conclude" THEN loops ELSE loops + 1
  BY DEF Evaluate, ticketVars, retryVars, history
<1>2. CASE d = "conclude"
  BY <1>1, <1>2 DEF MayRun, HasRun
<1>3. CASE d # "conclude"
  BY <1>1, <1>3 DEF Pays
<1> QED
  BY <1>1, <1>2, <1>3

\* What each step spends of the events.
LEMMA EventsPay ==
    ASSUME [RunnerNext]_runnerVars
    PROVE  Pays \/ UNCHANGED <<faults, loops, replies>>
<1>1. CASE UNCHANGED runnerVars
  BY <1>1 DEF runnerVars, bounds
<1>2. CASE RunnerPoll
  BY <1>2 DEF RunnerPoll, FetchTicket, SkipTicket, DispatchStep, Fault, NoFault, Pays, bounds
<1>3. CASE RunAgent
  BY <1>3 DEF RunAgent, Start, AgentSucceeds, AgentPauses, AgentGivesUp, AgentLosesTrace,
     Evaluate, Route, Fault, Pays, bounds
<1>4. CASE Advance
  BY <1>4 DEF Advance, AdvanceReads, GateBlocks, AdvancePersists, AdvanceMoves, AdvanceFails,
     Fault, Pays, bounds
<1>5. CASE Record
  BY <1>5 DEF Record, RecordAmbiguous, RequestGuidance, RecordMove, RecordAttempt,
     RecordFails, Persist, Fault, NoFault, Pays
<1>6. CASE RunnerUser \/ Crash
  BY <1>6, OthersPay
<1> QED
  BY <1>1, <1>2, <1>3, <1>4, <1>5, <1>6 DEF RunnerNext

LEMMA AccountedKept ==
    ASSUME RunnerInv, RunnerInv', TaskInv, Accounted, [RunnerNext]_runnerVars
    PROVE  Accounted'
<1>1. /\ LifecycleInv /\ RunnerTypeOK /\ Ordered(steps, current) /\ DraftFits
      /\ steps \in Seq(Step)
  BY InvParts DEF Ordered
<1>2. Ordered(steps, current)'
  BY DEF RunnerInv, PlanTypeOK, OneStepRuns, Ordered
<1>3. AgentsStay
  BY <1>1, RunnerSteps, AgentsAreKept
<1>4. /\ Budget \in Nat /\ Budget' \in Nat /\ Budget <= Budget'
      /\ Pays => Budget < Budget'
  BY <1>1, <1>2, <1>3, EventsPay, BudgetGrows
<1>5. Balanced
  <2>1. CASE UNCHANGED runnerVars
    <3>1. MayRun' => MayRun
      BY <2>1 DEF runnerVars, ticketVars, planVars, plan, retryVars, taskVars, MayRun, HasRun
    <3> QED
      BY <2>1, <3>1 DEF runnerVars, history, Balanced
  <2>2. CASE RunnerPoll
    BY <2>2, PollBalances
  <2>3. CASE Start \/ Route \/ AgentSucceeds \/ AgentPauses \/ AgentGivesUp
    BY <2>3, StartBalances, RouteBalances, SucceedsBalances, GivesUpBalances
  <2>4. CASE \E d \in Decision : Evaluate(d)
    BY <1>4, <2>4, EvaluateBalances DEF Balanced
  <2>5. CASE AdvanceReads \/ GateBlocks \/ AdvancePersists \/ AdvanceMoves \/ Record
    BY <1>1, <1>2, <1>3, <2>5, ReadsBalances, GateBalances, PersistsBalances, MovesBalances,
       RecordBalances
  <2>6. CASE AgentLosesTrace \/ AdvanceFails \/ RunnerUser \/ Crash
    BY <1>4, <2>6, OthersPay DEF Balanced
  <2> QED
    BY <2>1, <2>2, <2>3, <2>4, <2>5, <2>6 DEF RunnerNext, RunAgent, Advance
<1>6. runs \in Nat
  BY <1>1 DEF RunnerTypeOK
<1> QED
  BY <1>4, <1>5, <1>6, BalancedKeeps

LEMMA InitAccounts ==
    ASSUME RunnerAssumption, PlansAssumption, RunnerInit
    PROVE  TaskInv /\ Accounted
<1>1. TaskInv
  BY DEF RunnerInit, TaskInv, Unpaused, AbortMarked, ListIsNew, TaskIsSent, RunIsPlanned,
     DraftLeads
<1>2. PICK p \in Plans : Len(steps) = Len(Prepared(p)) /\ DOMAIN steps = 1 .. Len(Prepared(p))
  <2>1. PICK p \in Plans :
           steps = [i \in 1 .. Len(Prepared(p)) |->
                      [agent |-> Prepared(p)[i],
                       state |-> IF i = 1 THEN "in_progress" ELSE "pending"]]
    BY DEF RunnerInit
  <2>2. PICK q : q = Prepared(p)
    OBVIOUS
  <2>3. Len(q) \in Nat
    BY <2>2, PreparedFacts
  <2> QED
    BY <2>1, <2>2, <2>3
<1>3. 1 \in DOMAIN steps
  <2>1. PICK q : q = Prepared(p)
    OBVIOUS
  <2>2. Len(q) \in Nat /\ Len(q) >= 1
    BY <2>1, PreparedFacts
  <2> QED
    BY <1>2, <2>1, <2>2
<1>4. Rounds = {1}
  <2>1. current = 1 /\ DOMAIN steps \subseteq Nat \ {0}
    BY <1>2 DEF RunnerInit
  <2>2. \A i \in DOMAIN steps : i <= current <=> i = 1
    BY <2>1
  <2> QED
    BY <1>3, <2>1, <2>2 DEF Rounds, Opens
<1>5. Budget = 1
  <2>1. Cardinality(Rounds) = 1
    BY <1>4, FS_Singleton
  <2> QED
    BY <2>1 DEF Budget, RunnerInit
<1> QED
  BY <1>1, <1>5 DEF Accounted, RunnerInit

\* For every plan, and whatever calls fail and whatever the user does: a benchmark is
\* run no oftener than the plan has had rounds, but for the faults, the loops of an
\* evaluation and the replies.  No old list, no refused move and no crash between the
\* write of a plan and the move of its ticket runs one again unseen
\* (_advance_plan, run_agent_task, transition_ticket).
THEOREM RunsAreAccounted == RunnerSpec => []BenchmarksAreAccounted
<1>1. RunnerInit => TaskInv /\ Accounted
  BY InitAccounts, RunnerAssumption, PlansAssumption
<1>2. RunnerInv /\ RunnerInv' /\ TaskInv /\ Accounted /\ [RunnerNext]_runnerVars
        => TaskInv' /\ Accounted'
  BY TaskInvKept, AccountedKept
<1>3. Accounted => BenchmarksAreAccounted
  BY DEF Accounted, Budget, BenchmarksAreAccounted
<1> QED
  BY <1>1, <1>2, <1>3, InductiveInvariant, PTL DEF RunnerSpec
=============================================================================
