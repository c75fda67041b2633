----------------------------- MODULE PlanRunner ------------------------------
(***************************************************************************)
(* The execution plan of a ticket.  Triage writes a list of steps, one agent *)
(* each; when the agent of the current step is done, the orchestrator reads  *)
(* the ticket, writes the plan with the next step and moves the ticket to    *)
(* the stage of that step, in separate calls (_advance_plan).  Agents move   *)
(* the ticket themselves where the plan does not (_plan_controls_next_       *)
(* transition), evaluation and context gathering always, and an evaluation   *)
(* may append a step.  An attempt that leaves the ticket where it was is     *)
(* counted, and a stage with RetryLimit of them is not dispatched again      *)
(* (retry_guard).                                                            *)
(*                                                                           *)
(* One ticket and one orchestrator, which may crash; its calls may fail,     *)
(* whether the store has taken them or not.  Back-off delays are left out:   *)
(* a dispatch may wait.  Steps are numbered from 1.                          *)
(***************************************************************************)
EXTENDS TicketLifecycle, Naturals, Sequences, FiniteSets

CONSTANTS
    Plans,       \* what triage may be told: [agents, image, halt, investigation]
    RetryLimit,  \* DISPATCH_RETRY_LIMIT (5)
    MaxEvents,   \* faults (crashes, failed calls, lost traces), evaluations that
                 \* loop back and acts of the user, together
    Nothing      \* no retry entry, no fetched ticket, no draft

ASSUME RunnerAssumption ==
    /\ RetryLimit \in Nat \ {0}
    /\ MaxEvents \in Nat

VARIABLES
    steps,      \* execution_plan["steps"]
    current,    \* execution_plan["current_step"]
    conclusive, \* analysis_result["conclusive"]
    decision,   \* evaluation_result["decision"]
    halt,       \* stop_after_step
    alert,      \* whether the ticket is an investigation
    retry,      \* the stored dispatch entry of orchestrator_retry_state
    unsaved,    \* _pending_retry_writes: an entry that could not be stored
    fetched,    \* the ticket in the list the poll loop works through
    phase,      \* what the agent task is doing
    assigned,   \* the status it was dispatched for
    found,      \* the status its agent found
    draft,      \* the plan _advance_plan has computed
    lost,       \* a trace delivery failed in this task
    changed,    \* the task changed the ticket's fields
    runs,       \* history: benchmarks that were run
    guarded,    \* history: the stage of work that may have been committed
    waited,     \* history: the ticket was paused
    faults, loops, replies

plan == <<current, conclusive, decision, halt, alert>>
planVars == <<steps, plan>>
retryVars == <<retry, unsaved, fetched>>
taskVars == <<phase, assigned, found, draft, lost, changed>>
history == <<runs, guarded, waited>>
bounds == <<faults, loops, replies>>
runnerVars == <<ticketVars, planVars, retryVars, taskVars, history, bounds>>

\* PLAN_AGENT_STATUS.
PlanStatus ==
    [teardown |-> "awaiting_teardown", resource |-> "awaiting_hardware",
     provision |-> "awaiting_provision", benchmark |-> "executing_benchmark",
     review |-> "awaiting_review", analyze |-> "analyzing",
     synthesis |-> "synthesizing_results", build_image |-> "building_image",
     gathering_context |-> "gathering_context",
     evaluate |-> "evaluating_convergence"]

StepAgent == DOMAIN PlanStatus
PlanManaged == {PlanStatus[a] : a \in StepAgent}

\* AGENT_ROUTED_PLAN_STATUSES: these agents choose where the ticket goes.
AgentRouted == {"gathering_context", "evaluating_convergence"}

StepState == {"pending", "in_progress", "completed", "skipped", "aborted"}
Finished == {"completed", "skipped", "aborted"}
Step == [agent : StepAgent, state : StepState]
Entry == [at : Status, attempts : Nat, exhausted : BOOLEAN]
Fetched == [status : Status, entry : Entry \cup {Nothing}]
Decision == {"none", "conclude", "loop_plan", "loop_analyze", "loop_provision"}
Phase == {"none", "starting", "working", "routing", "advancing", "persisting",
         "moving", "recording", "guiding"}
Draft == [steps : Seq(Step), current : Nat \ {0}, next : Status \cup {None}]

ASSUME PlansAssumption ==
    /\ \A p \in Plans : /\ p.agents \in Seq(StepAgent)
                        /\ p.image \in BOOLEAN
                        /\ p.halt \in StepAgent \cup {None}
                        /\ p.investigation \in BOOLEAN
    /\ Nothing \notin Entry

\* Every variable keeps its type, and the cursor stays in the plan or just
\* after its end.
PlanTypeOK ==
    /\ TicketTypeOK
    /\ steps \in Seq(Step)
    /\ current \in 1 .. Len(steps) + 1
    /\ conclusive \in BOOLEAN
    /\ decision \in Decision
    /\ halt \in StepAgent \cup {None}
    /\ alert \in BOOLEAN
    /\ retry \in Entry \cup {Nothing}
    /\ unsaved \in Entry \cup {Nothing}
    /\ fetched \in Fetched \cup {Nothing}
    /\ phase \in Phase
    /\ assigned \in Status
    /\ found \in Status
    /\ draft \in Draft \cup {Nothing}
    /\ lost \in BOOLEAN
    /\ changed \in BOOLEAN
    /\ runs \in Nat
    /\ guarded \in Status \cup {None}
    /\ waited \in BOOLEAN
    /\ faults \in Nat /\ loops \in Nat /\ replies \in Nat
    /\ faults + loops + replies <= MaxEvents

\* The plan of a model that gives none.
DefaultAgents == <<"resource", "provision", "benchmark", "review", "teardown">>

\* Triage has hosts validated before a plan that does not begin with its data,
\* and the image of the ticket built before everything.
Prepared(p) ==
    LET planned == IF p.agents = <<>> THEN DefaultAgents ELSE p.agents
        hosted == IF planned[1] \in {"resource", "analyze", "gathering_context"}
                  THEN planned ELSE <<"resource">> \o planned
    IN IF p.image THEN <<"build_image">> \o hosted ELSE hosted

\* It puts the first step in progress and sends the ticket to its stage, an
\* alert to gather context.
FirstStatus(p) ==
    IF p.investigation THEN "gathering_context" ELSE PlanStatus[Prepared(p)[1]]

RunnerInit ==
    /\ \E p \in Plans :
          /\ steps = [i \in 1 .. Len(Prepared(p)) |->
                        [agent |-> Prepared(p)[i],
                         state |-> IF i = 1 THEN "in_progress" ELSE "pending"]]
          /\ halt = p.halt
          /\ alert = p.investigation
          /\ status = FirstStatus(p)
    /\ previous = None
    /\ abortRequested = FALSE
    /\ stopRequested = None
    /\ pendingFor = None
    /\ current = 1
    /\ conclusive = FALSE
    /\ decision = "none"
    /\ retry = Nothing /\ unsaved = Nothing /\ fetched = Nothing
    /\ phase = "none"
    /\ assigned = "new" /\ found = "new"
    /\ draft = Nothing
    /\ lost = FALSE /\ changed = FALSE
    /\ runs = 0 /\ guarded = None
    /\ waited = FALSE
    /\ faults = 0 /\ loops = 0 /\ replies = 0

-----------------------------------------------------------------------------
\* The guard is for the stage it was set at.
Counted ==
    /\ waited' = (waited \/ status' \in Paused)
    /\ guarded' = IF status' = status THEN guarded ELSE None

InState(s, from, to, state) ==
    [i \in DOMAIN s |-> IF from <= i /\ i <= to THEN [s[i] EXCEPT !.state = state] ELSE s[i]]

\* transition_ticket: a paused ticket sent to teardown is aborted, and so is
\* its current step.
Moves(new) ==
    /\ Transition(new)
    /\ Counted
    /\ steps' = IF status \in Paused /\ new = "awaiting_teardown"
                THEN InState(steps, current, current, "aborted") ELSE steps

Stays == UNCHANGED <<ticketVars, steps, guarded, waited>>

TryMove(new) == Moves(new) \/ (~Allowed(new) /\ Stays)

Room == faults + loops + replies < MaxEvents

Fault == Room /\ faults' = faults + 1

NoFault == UNCHANGED faults

-----------------------------------------------------------------------------
(* The poll loop *)

\* retry_is_suppressed.
Suppressed(at, entry) == entry # Nothing /\ entry.at = at /\ entry.exhausted

\* _overlay_pending_retry_state: an entry that could not be stored stands for
\* the stored one while the ticket is where it was.
Kept == IF unsaved # Nothing /\ unsaved.at = status THEN unsaved ELSE Nothing
Overlaid == IF Kept # Nothing THEN Kept ELSE retry

\* The poll loop writes such an entry again and removes one of another status.
\* It writes without a claim, which the store refuses while an agent is at work.
FetchTicket ==
    /\ fetched = Nothing
    /\ status # "closed"
    /\ fetched' = [status |-> status, entry |-> Overlaid]
    /\ \/ /\ Kept # Nothing /\ phase = "none"
          /\ retry' = Kept
          /\ unsaved' = Nothing
          /\ NoFault
       \/ /\ Kept = Nothing /\ retry # Nothing /\ retry.at # status /\ phase = "none"
          /\ retry' = Nothing
          /\ unsaved' = Nothing
          /\ NoFault
       \/ /\ unsaved' = Kept
          /\ UNCHANGED retry
          /\ IF phase = "none" /\ Overlaid # Nothing /\ Overlaid = retry /\ retry.at # status
             THEN Fault ELSE NoFault
    /\ UNCHANGED <<ticketVars, planVars, taskVars, history, loops, replies>>

\* The list is what it was when it was fetched.  (An agent dispatched from a
\* list older than the guard of its ticket may clear that guard: the history
\* forgets it.)
SkipTicket ==
    /\ fetched # Nothing
    /\ \/ fetched.status \notin Dispatchable
       \/ phase # "none"
       \/ Suppressed(fetched.status, fetched.entry)
    /\ fetched' = Nothing
    /\ UNCHANGED <<ticketVars, planVars, retry, unsaved, taskVars, history, bounds>>

DispatchStep ==
    /\ fetched # Nothing
    /\ fetched.status \in Dispatchable
    /\ phase = "none"
    /\ ~Suppressed(fetched.status, fetched.entry)
    /\ fetched' = Nothing
    /\ phase' = "starting"
    /\ assigned' = fetched.status
    /\ lost' = FALSE
    /\ changed' = FALSE
    /\ guarded' = None
    /\ UNCHANGED <<ticketVars, planVars, retry, unsaved, found, draft, runs, waited,
                   bounds>>

\* run_agent_task up to the agent.  Three stages look at the ticket again; the
\* others take the status they find for theirs.
Rechecks == {"preparing_platform", "awaiting_provision", "executing_benchmark"}

\* mutation_fence: a request that names the session of the orchestrator also
\* names the claim, or asks as the leader.
Admits(headers) ==
    "session" \in headers => headers \cap {"claim", "leader"} # {}

\* Steps that have not begun are retired before synthesis, by a request whose
\* answer is not looked at.
RetirePending(headers) ==
    steps' = [i \in DOMAIN steps |->
                IF Admits(headers) /\ steps[i].state = "pending"
                THEN [steps[i] EXCEPT !.state = "skipped"] ELSE steps[i]]

Start ==
    /\ phase = "starting"
    /\ found' = status
    /\ IF assigned \in Rechecks /\ status # assigned
       THEN phase' = "recording" /\ UNCHANGED steps
       ELSE /\ phase' = "working"
            /\ IF assigned = "synthesizing_results" THEN RetirePending({"session"})
               ELSE UNCHANGED steps
    /\ UNCHANGED <<ticketVars, current, conclusive, decision, halt, alert, retryVars,
                   assigned, draft, lost, changed, history, bounds>>

-----------------------------------------------------------------------------
(* Agents *)

\* A table without the teardown between two iterations.
NoTeardownAgent == StepAgent \ {"teardown", "build_image", "gathering_context", "evaluate"}

\* _plan_controls_next_transition; its table has fewer agents.
BaseAgent == StepAgent \ {"build_image", "gathering_context", "evaluate"}

PlanControls ==
    /\ current < Len(steps)
    /\ steps[current].state = "in_progress"
    /\ steps[current].agent \in BaseAgent
    /\ PlanStatus[steps[current].agent] = status

\* Where the agent of a stage sends the ticket on its own.
OwnTargets(at) ==
    CASE at = "awaiting_hardware" -> {"preparing_platform"}
      [] at = "preparing_platform" -> {"awaiting_provision"}
      [] at = "awaiting_provision" -> {"executing_benchmark"}
      [] at = "executing_benchmark" ->
            IF alert THEN {"evaluating_convergence"} ELSE {"awaiting_review"}
      [] at = "awaiting_review" -> {"awaiting_teardown"}
      [] at = "awaiting_teardown" -> {"retrospective_pending"}
      [] at = "retrospective_pending" -> {"closed"}
      [] at = "analyzing" ->
            IF conclusive' THEN {"awaiting_review"} ELSE {"awaiting_hardware"}
      [] at = "building_image" -> {"awaiting_hardware"}
      [] at = "gathering_context" -> {"analyzing", "retrospective_pending"}
      [] at = "planning_investigation" -> {"awaiting_provision", "awaiting_hardware"}
      [] at = "synthesizing_results" -> {"awaiting_teardown"}
      [] OTHER -> {}

\* These leave the move to a plan that has one to make.
YieldsToPlan(at) ==
    /\ \/ at \in {"awaiting_hardware", "preparing_platform", "awaiting_provision",
                  "awaiting_review", "awaiting_teardown", "analyzing"}
       \/ at = "executing_benchmark" /\ ~alert
    /\ PlanControls

\* The agent has done its work and moved the ticket, or left that to the plan.
AgentSucceeds ==
    /\ phase = "working"
    /\ status = found
    /\ assigned # "evaluating_convergence"
    /\ conclusive' \in IF assigned = "analyzing" THEN BOOLEAN ELSE {conclusive}
    /\ IF YieldsToPlan(assigned) THEN Stays ELSE \E new \in OwnTargets(assigned) : Moves(new)
    /\ phase' = IF assigned \in PlanManaged THEN "advancing" ELSE "recording"
    /\ changed' = TRUE
    /\ runs' = IF assigned = "executing_benchmark" THEN runs + 1 ELSE runs
    /\ UNCHANGED <<current, decision, halt, alert, retryVars, assigned, found, draft,
                   lost, bounds>>

\* It opens the benchmark of the plan again instead.
EvaluateReopens(d) ==
    /\ phase = "working"
    /\ assigned = "evaluating_convergence"
    /\ status = found
    /\ d \in Decision \ {"none"}
    /\ d # "conclude" => Room
    /\ loops' = IF d = "conclude" THEN loops ELSE loops + 1
    /\ decision' = d
    /\ steps' = [i \in DOMAIN steps |->
                   IF d = "loop_plan" /\ steps[i].agent = "benchmark"
                   THEN [steps[i] EXCEPT !.state = "pending"] ELSE steps[i]]
    /\ phase' = "routing"
    /\ changed' = TRUE
    /\ UNCHANGED <<ticketVars, current, conclusive, halt, alert, retryVars, assigned, found,
                   draft, lost, history, faults, replies>>

\* An evaluation that loops back to a benchmark or an analysis appends it ...
Evaluate(d) ==
    /\ phase = "working"
    /\ assigned = "evaluating_convergence"
    /\ status = found
    /\ d \in Decision \ {"none"}
    /\ d # "conclude" => Room
    /\ loops' = IF d = "conclude" THEN loops ELSE loops + 1
    /\ decision' = d
    /\ steps' = CASE d = "loop_plan" ->
                        Append(steps, [agent |-> "benchmark", state |-> "pending"])
                  [] d = "loop_analyze" ->
                        Append(steps, [agent |-> "analyze", state |-> "pending"])
                  [] OTHER -> steps
    /\ phase' = "routing"
    /\ changed' = TRUE
    /\ UNCHANGED <<ticketVars, current, conclusive, halt, alert, retryVars, assigned, found,
                   draft, lost, history, faults, replies>>

\* ... and then moves the ticket.
RouteTarget ==
    CASE decision = "conclude" -> "synthesizing_results"
      [] decision = "loop_plan" -> "planning_investigation"
      [] decision = "loop_analyze" -> "analyzing"
      [] OTHER -> "awaiting_provision"

Route ==
    /\ phase = "routing"
    /\ Moves(RouteTarget)
    /\ phase' = "advancing"
    /\ UNCHANGED <<plan, retryVars, assigned, found, draft, lost, changed, runs, bounds>>

\* The agent asks for guidance, or fails and is paused.
AgentPauses ==
    /\ phase \in {"working", "routing"}
    /\ status = found
    /\ status \notin Paused
    /\ Moves("awaiting_customer_guidance")
    /\ phase' = "recording"
    /\ UNCHANGED <<plan, retryVars, assigned, found, draft, lost, changed, runs, bounds>>

\* It returns without having done anything, or is aborted as the status is
\* no longer the one it found, or the store refuses its move.
AgentGivesUp ==
    /\ phase \in {"working", "routing"}
    /\ Stays
    /\ phase' = "recording"
    /\ UNCHANGED <<plan, retryVars, assigned, found, draft, lost, changed, runs, bounds>>

\* A trace cannot be delivered, with the agent's work not begun, begun or done.
AgentLosesTrace ==
    /\ phase \in {"working", "routing"}
    /\ Fault
    /\ conclusive' = conclusive
    /\ \/ Stays /\ changed' \in {changed, TRUE}
       \/ /\ status = found
          /\ ~YieldsToPlan(assigned)
          /\ \E new \in IF phase = "routing" THEN {RouteTarget} ELSE OwnTargets(assigned) :
                Moves(new)
          /\ changed' = TRUE
    /\ lost' = TRUE
    /\ phase' = "recording"
    /\ UNCHANGED <<current, decision, halt, alert, retryVars, assigned, found, draft, runs,
                   loops, replies>>

-----------------------------------------------------------------------------
(* _advance_plan *)

First(S) == CHOOSE i \in S : \A j \in S : i <= j
Last(S) == CHOOSE i \in S : \A j \in S : j <= i

\* Off by one where no step is left.
RoutedPastEnd(s) ==
    LET next == {i \in current + 1 .. Len(s) : PlanStatus[s[i].agent] = status}
    IN IF next = {} THEN Len(s) + 2 ELSE First(next)

\* The step the choice of a routing agent leads to.
Routed(s) ==
    LET to == IF decision = "loop_plan" /\ status = "planning_investigation"
                 /\ assigned = "evaluating_convergence"
              THEN "executing_benchmark" ELSE status
        next == {i \in current + 1 .. Len(s) :
                    PlanStatus[s[i].agent] = to /\ s[i].state \in {"pending", "in_progress"}}
    IN IF next = {} THEN Len(s) + 1
       ELSE IF assigned = "evaluating_convergence" /\ decision \in {"loop_plan", "loop_analyze"}
       THEN Last(next) ELSE First(next)

\* None of them.
SkipsNone(s, from, to) == s

\* The steps that a routing agent jumps over.
Skipped(s, from, to) ==
    [i \in DOMAIN s |->
        IF from <= i /\ i <= to /\ s[i].state \in {"pending", "in_progress"}
        THEN [s[i] EXCEPT !.state = "skipped"] ELSE s[i]]

\* A plan without it gets its provision step after resource allocation.
Injected(s, n) ==
    IF steps[current].agent = "resource" /\ n <= Len(s) /\ s[n].agent # "provision"
    THEN SubSeq(s, 1, n - 1) \o <<[agent |-> "provision", state |-> "pending"]>>
            \o SubSeq(s, n, Len(s))
    ELSE s

\* Where a conclusive analysis leads: to the review, and after synthesis to
\* the teardown, or to the step it is at when there is none.
Destination == IF steps[current].agent = "analyze" THEN "review" ELSE "teardown"

Shortcut(s, n) ==
    LET ends == {i \in n .. Len(s) : s[i].agent = Destination}
    IN IF conclusive /\ steps[current].agent \in {"analyze", "synthesis"}
       THEN IF ends = {} THEN [steps |-> InState(s, n, Len(s), "skipped"), current |-> n]
            ELSE [steps |-> InState(s, n, First(ends) - 1, "skipped"), current |-> First(ends)]
       ELSE [steps |-> s, current |-> n]

\* The plan with its next step in progress, and the stage of that step.
NextPlan ==
    LET done == InState(steps, current, current, "completed")
        n == IF assigned \in AgentRouted THEN Routed(done) ELSE current + 1
        cut == Shortcut(Injected(Skipped(done, current + 1, n - 1), n), n)
        at == cut.current
        to == PlanStatus[cut.steps[at].agent]
    IN IF at > Len(cut.steps)
       THEN [steps |-> cut.steps, current |-> at, next |-> None]
       ELSE [steps |-> InState(cut.steps, at, at, "in_progress"), current |-> at,
             next |-> IF assigned \in AgentRouted THEN None
                      ELSE IF to = "awaiting_provision" /\ assigned = "awaiting_hardware"
                      THEN "preparing_platform" ELSE to]

\* stop_after_step completes the step and closes the ticket.
HaltedPlan ==
    [steps |-> InState(steps, current, current, "completed"), current |-> current,
     next |-> "closed"]

Matches ==
    /\ current <= Len(steps)
    /\ steps[current].state = "in_progress"
    /\ PlanStatus[steps[current].agent] = assigned
    /\ ~(assigned \in AgentRouted /\ status = assigned)
    /\ status \notin Paused
    /\ ~abortRequested

AdvanceReads ==
    /\ phase = "advancing"
    /\ IF Matches
       THEN /\ draft' = IF steps[current].agent = halt THEN HaltedPlan ELSE NextPlan
            /\ phase' = "persisting"
       ELSE phase' = "recording" /\ UNCHANGED draft
    /\ UNCHANGED <<ticketVars, planVars, retryVars, assigned, found, lost, changed, history,
                   bounds>>

\* Missing tuning, an unverified kernel, a comparison without its receipt.
GateBlocks ==
    /\ phase = "advancing"
    /\ Matches
    /\ assigned \in {"awaiting_provision", "executing_benchmark"}
    /\ TryMove("awaiting_customer_guidance")
    /\ phase' = "recording"
    /\ UNCHANGED <<plan, retryVars, assigned, found, draft, lost, changed, runs, bounds>>

\* The overrides of the next step and the plan.
AdvancePersists ==
    /\ phase = "persisting"
    /\ steps' = draft.steps
    /\ current' = draft.current
    /\ phase' = IF draft.next = None THEN "recording" ELSE "moving"
    /\ UNCHANGED <<ticketVars, conclusive, decision, halt, alert, retryVars, assigned, found,
                   draft, lost, changed, runs, guarded, waited, bounds>>

\* The ticket is left where it is.
MoveForgotten ==
    /\ phase = "moving"
    /\ Stays
    /\ phase' = "recording"
    /\ UNCHANGED <<plan, retryVars, assigned, found, draft, lost, changed, runs, bounds>>

\* The comment, and the move, which the store may refuse.
AdvanceMoves ==
    /\ phase = "moving"
    /\ IF draft.next = "closed" THEN ForceClose /\ Counted /\ UNCHANGED steps
       ELSE TryMove(draft.next)
    /\ phase' = "recording"
    /\ UNCHANGED <<plan, retryVars, assigned, found, draft, lost, changed, runs, bounds>>

\* A call fails, or its trace cannot be delivered, before or after the store
\* has taken it: the rest is not done.
AdvanceFails ==
    /\ phase \in {"advancing", "persisting", "moving"}
    /\ Fault
    /\ lost' \in BOOLEAN
    /\ \/ Stays /\ UNCHANGED current
       \/ /\ phase = "persisting"
          /\ steps' = draft.steps
          /\ current' = draft.current
          /\ UNCHANGED <<ticketVars, guarded, waited>>
       \/ /\ phase = "moving"
          /\ draft.next # "closed"
          /\ Moves(draft.next)
          /\ UNCHANGED current
       \/ /\ phase = "moving"
          /\ draft.next = "closed"
          /\ ForceClose /\ Counted
          /\ UNCHANGED <<steps, current>>
    /\ phase' = "recording"
    /\ UNCHANGED <<conclusive, decision, halt, alert, retryVars, assigned, found, draft,
                   changed, runs, loops, replies>>

-----------------------------------------------------------------------------
(* _record_dispatch_retry_outcome *)

\* Every failure is taken for the first.
FailureForgets(at, limit) == [at |-> at, attempts |-> 1, exhausted |-> 1 >= limit]

\* record_retry_failure.
Failure(at, limit) ==
    LET attempts == IF Overlaid # Nothing /\ Overlaid.at = at THEN Overlaid.attempts + 1 ELSE 1
    IN [at |-> at, attempts |-> attempts, exhausted |-> attempts >= limit]

\* What cannot be stored is dropped.
PersistOrDrop(entry) ==
    \/ retry' = entry /\ unsaved' = Nothing /\ NoFault
    \/ Fault /\ UNCHANGED <<retry, unsaved>>

\* _persist_retry_state: what cannot be stored is kept in memory.
Persist(entry) ==
    \/ retry' = entry /\ unsaved' = Nothing /\ NoFault
    \/ /\ Fault
       /\ UNCHANGED retry
       /\ unsaved' = IF entry = Nothing THEN Kept ELSE entry

Ambiguous == lost /\ (status # assigned \/ changed)

Ended ==
    /\ phase' = "none"
    /\ assigned' = "new" /\ found' = "new"
    /\ draft' = Nothing
    /\ lost' = FALSE /\ changed' = FALSE

\* Work may have been committed: the guard first, then the pause.
RecordAmbiguous ==
    /\ phase = "recording"
    /\ Ambiguous
    /\ status \notin Terminal \cup Paused
    /\ Persist(Failure(status, 1))
    /\ guarded' = status
    /\ phase' = "guiding"
    /\ UNCHANGED <<ticketVars, planVars, fetched, assigned, found, draft, lost, changed,
                   runs, waited, loops, replies>>

\* The pause may fail; the guard stands.
RequestGuidance ==
    /\ phase = "guiding"
    /\ \/ TryMove("awaiting_customer_guidance") /\ NoFault
       \/ Stays /\ Fault
    /\ Ended
    /\ UNCHANGED <<plan, retryVars, runs, loops, replies>>

\* Stages whose attempts are counted.
Recorded == assigned \in PlanManaged \cup {"triage_pending"} \/ lost

\* The ticket moved: its attempts are forgotten, unless that could hide work.
RecordMove ==
    /\ phase = "recording"
    /\ status # assigned
    /\ Ambiguous => status \in Terminal \cup Paused
    /\ \/ ~Recorded /\ UNCHANGED <<retry, unsaved, faults>>
       \/ /\ Recorded
          /\ Ambiguous \/ Overlaid = Nothing
          /\ UNCHANGED <<retry, faults>>
          /\ unsaved' = Kept
       \/ Recorded /\ ~Ambiguous /\ Overlaid # Nothing /\ Persist(Nothing)
    /\ Ended
    /\ UNCHANGED <<ticketVars, planVars, fetched, history, loops, replies>>

\* It did not.
RecordAttempt ==
    /\ phase = "recording"
    /\ ~Ambiguous
    /\ status = assigned
    /\ IF Recorded THEN Persist(Failure(assigned, RetryLimit))
       ELSE UNCHANGED <<retry, unsaved, faults>>
    /\ Ended
    /\ UNCHANGED <<ticketVars, planVars, fetched, history, loops, replies>>

\* The ticket cannot be read.
RecordFails ==
    /\ phase = "recording"
    /\ Fault
    /\ Ended
    /\ UNCHANGED <<ticketVars, planVars, retryVars, history, loops, replies>>

-----------------------------------------------------------------------------
(* The user and the machine *)

\* To teardown is an abort.
Reply(new) ==
    /\ status \in Paused
    /\ new \notin Paused
    /\ Room
    /\ replies' = replies + 1
    /\ Moves(new)
    /\ UNCHANGED <<plan, retryVars, taskVars, runs, faults, loops>>

CloseByUser ==
    /\ status # "closed"
    /\ Room
    /\ replies' = replies + 1
    /\ ForceClose
    /\ Counted
    /\ UNCHANGED <<planVars, retryVars, taskVars, runs, faults, loops>>

\* The orchestrator dies and another takes over, once the claim has run out.
Crash ==
    /\ Fault
    /\ phase # "none" \/ fetched # Nothing \/ unsaved # Nothing
    /\ Ended
    /\ fetched' = Nothing
    /\ unsaved' = Nothing
    /\ guarded' = None
    /\ UNCHANGED <<ticketVars, planVars, retry, runs, waited, loops,
                   replies>>

-----------------------------------------------------------------------------
RunnerPoll == FetchTicket \/ SkipTicket \/ DispatchStep

RunAgent ==
    \/ Start \/ AgentSucceeds \/ AgentPauses \/ AgentGivesUp \/ AgentLosesTrace
    \/ \E d \in Decision : Evaluate(d)
    \/ Route

Advance == AdvanceReads \/ GateBlocks \/ AdvancePersists \/ AdvanceMoves \/ AdvanceFails

Record == RecordAmbiguous \/ RequestGuidance \/ RecordMove \/ RecordAttempt \/ RecordFails

RunnerUser == (\E new \in Status : Reply(new)) \/ CloseByUser

RunnerNext == RunnerPoll \/ RunAgent \/ Advance \/ Record \/ RunnerUser \/ Crash

RunnerSpec == RunnerInit /\ [][RunnerNext]_runnerVars

\* The poll loop goes on, and an agent task ends: agents have a timeout.
RunnerFairSpec ==
    RunnerSpec /\ WF_runnerVars(RunnerPoll) /\ WF_runnerVars(RunAgent \/ Advance \/ Record)

-----------------------------------------------------------------------------
(* Properties *)

\* The cursor orders the plan, whatever was skipped, injected, appended or
\* aborted: what is before it is finished, and behind it nothing has begun.
OneStepRuns ==
    /\ \A i \in 1 .. current - 1 : steps[i].state \in Finished
    /\ \A i \in current + 1 .. Len(steps) : steps[i].state \in {"pending", "skipped"}

PlanInv == PlanTypeOK /\ OneStepRuns

\* The cursor never goes back and no completed step is run or replaced,
\* neither by an evaluation that loops back nor by a failed call
\* (architecture.md:519, "Completed steps are immutable").  A skipped one may:
\* a conclusive analysis with no review after it skips the steps it goes on to.
CompletedStepsStay ==
    [][/\ current' >= current
       /\ \A i \in DOMAIN steps : steps[i].state \in {"completed", "aborted"} =>
             /\ i \in DOMAIN steps'
             /\ steps'[i].state \in {"completed", "aborted"}
             /\ steps'[i].agent = steps[i].agent]_runnerVars

\* The hardware is released for good when no benchmark of the plan is left to
\* run: no teardown between two runs is taken for the last one, unless a call
\* failed, an evaluation has appended a run behind the teardown, or the ticket
\* was paused and then moved or aborted.
ReleaseDropsNoRun ==
    [][status = "awaiting_teardown" /\ status' = "retrospective_pending"
         /\ ~waited /\ faults' = 0 /\ loops = 0
       => \A i \in DOMAIN steps :
             steps[i].agent = "benchmark" => steps[i].state \in Finished]_runnerVars

\* The steps whose stages lead to a benchmark, left to themselves.
Leading == {"gathering_context", "analyze", "build_image", "resource", "provision",
            "benchmark"}

\* A benchmark is run once in a round of the plan, and again only for a fault, a
\* reply or a loop of its own.  A round of its steps leads to one run: what
\* comes before the benchmark, if only an analysis that does not suffice, and
\* after a benchmark whatever does not leave its stage.
Opens(i) ==
    IF i = 1 THEN TRUE
    ELSE IF steps[i - 1].agent = "benchmark"
    THEN steps[i].agent \notin {"review", "teardown", "evaluate"}
    ELSE steps[i - 1].agent \notin Leading /\ steps[i].agent \in Leading

Rounds == {i \in DOMAIN steps : i <= current /\ Opens(i)}

BenchmarksAreAccounted == runs <= Cardinality(Rounds) + faults + loops + replies

\* After work that may have been committed without its trace, no list fetched
\* from then on lets the stage be dispatched, even if neither the guard could
\* be stored nor the ticket be paused (architecture.md:556), as long as no
\* agent is dispatched from an older list.
AmbiguousWorkStaysStopped ==
    [][fetched = Nothing /\ fetched' # Nothing /\ guarded # None
       => Suppressed(status, fetched'.entry)]_runnerVars

\* A ticket comes to rest: it does not go round the stages of its plan, or
\* stay at one, for ever, but for one left to a human because its attempts
\* are exhausted.
PlanSettles ==
    <>[](status \notin PlanManaged \/ Suppressed(status, Overlaid))
=============================================================================
