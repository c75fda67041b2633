# agentic-perf: formal models

agentic-perf runs performance investigations as tickets that LLM agents carry
through a pipeline: triage, hardware, provisioning, benchmark, review, teardown,
retrospective.  This directory holds TLA+ models of the parts that decide who may
do what and when, the TLC runs that check them on small instances, and TLAPS
proofs of their main safety properties.

1. [The system](#the-system)
2. [Modules](#modules)
3. [What each module says and how it matches the code](#the-orchestrator-lease)
4. [Runs](#runs), [Proofs](#proofs)
5. [Where the program and its documents disagree](#where-the-program-and-its-documents-disagree)
6. [Not modelled](#not-modelled), [Plan](#plan)

`tlc -config X.cfg M` runs a check, `tlapm M.tla` the proofs of a module.
`PROJECT.json` maps every definition to the lines it stands for and lists runs,
mutants, hazards and theorems.

## The system

Four kinds of process share the work, all talking HTTP to the first.

| Part | State it keeps | Operations |
|---|---|---|
| **State store** (`state_store/`, one FastAPI process) | tickets (one JSON file each and a copy in memory), the orchestrator lease (file and cache), claims and approvals inside the tickets; everything under one `threading.Lock` | transition, update, force-close, stop and abort requests, lease acquire/renew/release, claim acquire/renew/release, approvals |
| **Trace store** (`state_store/trace_store.py`, SQLite) | trace events, the registry of protected operations | append, acquire, fenced transitions, renewal |
| **Trace spools** (`providers/tracing/`, a file per producer) | events not yet delivered, the position acknowledged | append, flush, compact, sweep, prune |
| **Orchestrator** (`orchestrator/`, one asyncio process leads, others wait) | leader session and its confirmed deadline, claims held, active tasks, in-memory blocks, retry entries not yet stored | lease renewal loop, poll loop (fetch, dispatch, stop requests, watchdog), advancing plans, one task and one claim renewal loop per ticket |
| **Agents** (`agents/`, tasks of the orchestrator) | the status they were dispatched for, what they have been told | run a stage with a language model, write to the ticket, ask the user, transition |
| **MCP servers** (`agents/*/server.py`, one process per ticket and kind) | a lease per protected tool call | touch real machines, under `MCPAuditMiddleware` |
| **Users** (CLI, TUI, web, API) | nothing | create, reply, approve, stop, abort, force-close |

How they interact:

- The orchestrator's **lease** makes one process the leader.  Its session and epoch
  travel as headers with every mutation.
- A **claim** binds one ticket to one agent task of the leader.  Its id travels with
  the agent's writes, and the store refuses writes under any other claim.
- The **status** of a ticket decides which agent runs next.  Agents, the loop and
  users all change it, from what each last read.
- A **protected operation** (starting a benchmark, rebooting hosts) is recorded in
  the registry before and after, with a fencing token, so that a retried or
  duplicated tool call does not do it twice.
- An **approval** binds a user's decision to one claim and one operation, and is spent
  on it.  The kernel tools keep an **intent** for each set of actions on the hosts and a
  transition record, and write to them before they touch a host.
- The **execution plan** of a ticket, written by triage, decides the next stage where
  agents do not; failed attempts are counted on the ticket.

What is hard about it, and what would make each part correct:

| Part | Hard behaviour | Correct means |
|---|---|---|
| Lease | late answers, expiry against the holder's own clock, failed writes, restarts of either side | never two leaders; a live lease is not taken away; waiting ends |
| Claims and fences | lost and late claims, renewals and writes; a claim that a restart brings back | writes of one agent after another, in claim order; dead claims run out |
| Status machine | pauses of paused tickets, resumption to a remembered stage, approvals pending across changes | a paused ticket can be resumed; an approval never outlives its stage; closed is final |
| Loop, agents, users | stale lists, check and change in separate critical sections, cancellation at any point | cleanup and closing stand; nothing keeps running for a closed ticket; no ticket is forgotten |
| Protected operations | calls that time out and are handled later, expiry under a running tool, lost terminal records | at most one launch; one verdict, and a true one; no result that is not recorded |
| Trace spools | crashes between system calls, answers lost after a commit, two processes on one file | acknowledged means stored; nothing accepted is lost; each event stored once |
| Execution plans | read, persist and transition in three calls; agents that move the ticket themselves; lost traces | no run without a cause, no run dropped, repeated failures stop |
| Benchmark launch | an approval, an operation and a controller, each of which may answer late or never | one approval spent, one launch, success only of a recorded run |
| Kernel change | SSH sessions that break while their command goes on; copies of a record held over many awaits | one writer per host; verified hosts run the kernel; no completion while a command may run |
| Iterations of an agent | grants while it runs, ambiguous and repeated, last calls of several guards, restarts | nothing beyond what was granted; every run ends |

## Modules

| Module | About | Built on |
|---|---|---|
| `SingleLeader` | abstract: at most one leader, and nobody in between | |
| `OrchestratorLease` | the store's lease record, its operations as operators | |
| `LeaderLease` | the store and the orchestrators that compete for the lease | `OrchestratorLease`, implements `SingleLeader` |
| `TicketClaims` | one ticket's claim, the fences, the dispatchers | `OrchestratorLease` |
| `TicketLifecycle` | one ticket's status machine, its operations as operators | |
| `TicketPipeline` | the poll loop, the agent task and the users of one ticket | `TicketLifecycle` |
| `AtMostOnce` | abstract: one launch, one verdict | |
| `OperationLedger` | the registry of operations and the tool calls that use it | implements `AtMostOnce` |
| `EventDelivery` | abstract: each written event is kept at most once, or given up by setting its spool aside | |
| `TraceSpool` | producers, their spool files, sweepers and the store's rows | implements `EventDelivery` |
| `PlanRunner` | the execution plan of one ticket, its agents and its retry guard | `TicketLifecycle` |
| `AuthorisedLaunch` | abstract: one approval spent, then one launch, then one verdict | |
| `BenchmarkLaunch` | a validated benchmark: its approvals, its operation and the calls that want to run it | implements `AuthorisedLaunch` |
| `KernelChange` | the intents, transition record and hosts of one kernel step, and the kernel tools' calls | |
| `AgentLoop` | the iterations of an agent, its limits and their grants, interjections | |
| `TicketProofs` | theorems about the three modules of one ticket | `TicketLifecycle`, `TicketPipeline`, `PlanRunner` |
| other `...Proofs` | theorems about the module they are named after | `TLAPS` |
| `MC...` | constants for TLC | |

The composition follows the program: what the store does in one critical section is
an operator (`AcquireLease`, `Transition`), and the module of the processes that call
it says when.  Abstract modules state what users of a component may rely on.
Definitions named like another with a suffix, such as `AcquirableWhenExpired` beside
`Acquirable`, are plausible mistakes that show what a property is sensitive to; no
specification uses them.

## The orchestrator lease

*`OrchestratorLease`, `LeaderLease`.*  `lease` and `leaseFile` are `_lease_cache` and
`orchestrator-lease.json`, written in that program's order (file first, cache after),
and a write may fail on either side of the replacement.  Reading an expired lease
deletes it.  A session is one start of an orchestrator: a restarted process is another
session, so `Session` also bounds restarts.

A client is `acquiring`, `leading` or `stopped`, has one awaited call at most, and
leaves a call behind when it gives up.  `window` is what remains until
`confirmed_deadline`, counted from the moment the request was *sent*
(`leader_lease.py:106`).  `RenewRefused`, `RenewErrors`, `RenewTimesOut` and
`DeadlineReached` are the exits of `_renew_leader_lease`.  Clocks run at one speed:
`PassTime` ages the lease, the windows and the answers in flight together.

- `ConfirmedWindowIsCovered`, a conjunct of `IInv`: a process inside its window has the
  lease in memory and on disk for at least that long.
- `LiveLeaseIsNotLost`, `ImplementsSingleLeader`: a live lease is not taken away, and
  there are never two leaders.
- `SuccessorTakesOver`: a restarted orchestrator outlasts its predecessor.  It needs
  `(MaxAttempts - 1) * RetryInterval >= Ttl`, which the defaults (11 * 5 s >= 30 s) give.

## Claims and write fences

*`TicketClaims`.*  One ticket, since the store's lock makes the claims of different
tickets independent.  `claim` and `claimFile` are the ticket in memory and on disk:
`_persist_ticket` swallows an `OSError`, so that they may differ until a restart makes
the older one current.  `Matches`, `WriteAdmitted` and `RecoverAdmitted` are
`_validate_ticket_claim`, `mutation_fence` and the leader-scoped branch of
`_validate_mutation_fence`.  The dispatcher's part is `try_claim`, the renewal loop,
`mark_deposed`, `mark_done` and `shutdown`; calls may be given up and handled later.

- `WritesFollowClaims`: accepted agent writes follow the order in which claims were
  granted, whatever is lost, delayed, rolled back or taken over.
- `RecoveryStands`: once a leader-scoped recovery is in the ticket, no agent whose claim
  was granted before it can write any more, over late renewals, takeovers, expiry and
  restarts of either side.  `recovered` and `recoveredFile` are histories: the last claim
  issued before the recovery that the ticket has, in memory and on disk.
- `LostClaimStopsAgent`, `DeadClaimsEnd`: an agent whose claim is gone is stopped, and
  a dead process does not block the ticket.

## Status, poll loop, agents and users

*`TicketLifecycle`, `TicketPipeline`.*  `VALID_TRANSITIONS` is in the model as it is in
`models.py`.  `Transition` is the whole of `transition_ticket`: the resume rules,
`previous_status`, `abort_requested`, and what happens to a pending approval.

`TicketPipeline` puts one ticket between three actors.  The **poll loop** is one
coroutine that acts on `snapshot`, the ticket as it fetched it.  Its phases are the
awaits of `_poll_loop_after_lease`: dispatch (with the handoff check, the absent suite
and the rewind of a failed handoff), stop requests, watchdog.  The **agent task** is
`run_agent_task` and, inside it, the agent: `seen` is the status it takes for its own,
`Drift` its check at the start of an iteration, `AsksHuman`/`Answered` its wait for a
reply, `Unwinds` and `Ends` the cancellation handler and the cleanup.  What the
language model does is a choice among the outcomes an agent has.  A **user request** is
two steps, the check and the change, because `stop.py` and the clients check first.

What may keep agents away is state of its own.  `poll = "overBudget"`: the system budget
is spent, and the loop goes from cycle to cycle without dispatch, stop requests or
watchdog (`main.py:3710`).  `exhausted`: the status at which the dispatch retry limit is
reached.  `reviewed`: `review_submitted`.  `blocked` and `absentBlocked`: the loop's own
memory of a failed handoff and of an absent suite.  The constants `UserMay`,
`HandoffMayFail`, `SuiteMayBeAbsent`, `MayReserve` and `BudgetMayRunOut` say what an
instance has of it.

- `PipelineInv`: a paused ticket remembers a stage it can resume, a pending approval
  belongs to the present stage, the stage is remembered only during a pause
  (`LifecycleInv`), and claim and task end together.
- `ClosedIsFinal` (proved), `ClosedFreesAgent`: a closed ticket stays closed and loses its
  agent, also one dispatched too late.
- `UnreleasedIsAborted`, `CleanupStands`: teardown does not end with the reservation
  held, and an agent that was at work, or waiting for an answer, when a user aborted
  neither undoes the cleanup nor skips it.
- `HardStopCloses`: a hard stop closes.  It and `ClosedFreesAgent` except the loop that is
  over budget, which looks at neither.
- `NeverStuck`: no ticket waits for ever at one stage without an agent and without anybody
  asked, unless `KeptAway` says why: the budget or the retry limit, which are meant to,
  and three gaps the code has and tells nobody of
  ([below](#where-the-program-and-its-documents-disagree)): a review already submitted, an
  absent suite already told, and a handoff block that outlives its pause.  What it shows
  is that nothing else suppresses a ticket, and no suppression outlives its stage.

Two races are real and bound these statements.  An agent dispatched from an outdated
list takes the status it finds for its own, so its drift check never fires and it can
move on a ticket that is being cleaned up (only three stages re-read the status,
`main.py:1619`); `CleanupStands` is therefore about agents that found their ticket at
their stage, and `UnreleasedIsAborted` about tickets that gather no context, whose agent
ends where teardown does.  An abort whose change lands after the ticket moved is an
ordinary move: both speak of aborts that were recorded.

## Protected operations

*`OperationLedger`.*  The row of one operation key and the tool calls that want it.
Registry calls (`Grant`, `Advance`, `Settle`, `Renew`, `Refuse`) are transactions of
`TraceStore`; a tool call follows `on_call_tool` from `_protect_operation` through
"prepared", "side-effect-started", the tool under a renewed lease, and the terminal
record.  Its calls are synchronous, except the renewal, which has a thread of its own
and can be cancelled while it is joined.  Any call may time out and be handled later,
be lost, or lose its answer; a process may die at any point.  SQLite makes each
registry step durable, so that a restart of the store adds nothing but lost calls.

- `ImplementsAtMostOnce`: the tool is launched at most once for a key; the verdict is
  given once; success and failure are recorded only if the tool ended that way.
- `IInv`, with `HandlerOwnsOperation` (while a tool runs, its operation is recorded as
  started under its token, though the lease may have run out) and `ResultsAreRecorded`
  (a result is answered only when the registry holds the same one).
- `CallsEnd`: no call hangs in the registry.

Two identical late acquisitions of one caller count as one: either would be granted to
nobody.  Left out: request hashes, reconciliation (no caller in the program), and external ids
and the outcome "rejected", which only the benchmark server's own client uses.

## Trace spools

*`TraceSpool`.*  A spool is a sequence of frames, `ack` an index into it, `Torn` a frame
written in part.  Every step between two system calls may be the last of its process:
append and fsync, the replacement of the acknowledgement, the rename that compacts, the
unlink.  A client (a producer that flushes or closes, or the sweeper of a leader) is at a
`stage` of one spool with the `batch` it read; the store's transaction takes all of the
batch, a prefix, or what it had already, and its answer may be lost.  While a flush is suspended in its
generator between two batches the spool's mutex is taken and its producer cannot append;
the `last`, partial batch is sent after the generator has ended, with the mutex free.
Locks are held for
the life of a producer and for one visit of a sweeper.  `Prune` removes spools that are
too old or too large, and may lose its place to a sweeper between its look at the lock
and its unlink.  `Quarantine`, `Release` and `Prune` are one step each: of their renames and
unlinks one counts, and what a crash after it leaves (an acknowledgement or a lock file
without a spool, or beside an empty one) holds no event.

- `AcknowledgedIsStored` (in `SpoolInv`), `AcceptedIsAccounted`: what is acknowledged is in the store;
  what a producer accepted is there, in its spool, set aside or pruned.
- `OnlyTornFilesAreQuarantined`: no crash, pruning or compaction makes a spool unreadable.
- `AbandonedIsSwept`: events of a dead producer are delivered by somebody else.
- `ImplementsEventDelivery`: each event is stored once, whatever is sent again.

No thread appends between `spool.close()` and `_closed = True`, so a producer has one
stage.  Redelivery is by the principal that delivered first: the hash the store compares
covers it (`traces.py:508`), and a spool swept under another one is refused for ever.

## Execution plans

*`PlanRunner`.* `Prepared` is what triage makes of a plan: the default one if it is
empty, hosts validated first, an image built before everything.  `steps` and `current`
are the plan in the ticket; `draft` is the plan that `_advance_plan` has computed and
not yet written.  `AdvanceReads`, `AdvancePersists` and `AdvanceMoves` are its three
calls, each of which may fail, handled or not (`AdvanceFails`, `MoveForgotten`; also the
force-close of a halt that is handled though its answer is lost), with a crash between any
two.  `NextPlan` is what it computes: the route back of an evaluation
(`Routed`), the steps skipped (`Skipped`), the provision step it injects, the shortcut
of a conclusive analysis, the halt a user asked for.  Agents move the ticket themselves
where `PlanControls` says the plan does not.  `Ended` and the `Record...` actions are
the retry guard: an attempt that left the ticket where it was counts, one whose trace
was lost after a change raises the guard against ambiguous work, and an entry that could
not be stored stays in `unsaved` and is laid over the stored one by `FetchTicket`.

- `PlanInv`: what is before the cursor is finished, behind it nothing has begun, and the
  records have their types.
- `CompletedStepsStay`: a completed step stays so, and the cursor never goes back.
- `BenchmarksAreAccounted`: a benchmark is run no oftener than the plan has had rounds,
  but for faults, loops of the evaluation and replies.  A round (`Rounds`) is what leads
  to the benchmark stage and away from it.  Benchmark steps are not what bounds the runs:
  an inconclusive analysis of existing data goes on to hardware where the plan does not
  hold it back, and a benchmark is run though the plan has none.
- `ReleaseDropsNoRun`: hardware is not released while a run of the plan is pending.
- `AmbiguousWorkStaysStopped`: while a ticket stays at a stage whose agent may have
  committed work without a trace, every list fetched suppresses its dispatch.
- `PlanSettles`: a plan comes to rest, finished, waiting for a user, or stopped.

The plans of the run are those the triage prompt teaches: two runs with hosts of their
own; an image with a halt after its review; a run that is evaluated; existing data only;
an alert analysed first, with a halt after the allocation.  Their provision steps, and the
hosts of the third, are left to the program.

## The launch of a benchmark

*`BenchmarkLaunch`.*  One validated crucible run.  `state`, `token`, `lease`, `outcome`
and `bound` are its operation, with the id of the approval among the external ids;
`approval` and `saved` are the ticket's approvals in memory and in the file.  A call goes
through `Begin`, `Acquire`, `Prepare`, the approval (`ReadExisting`, `CreateApproval`,
`ReadCreated`, `ResolveApproval`, `Confirm`), `Bind`, `Check`, `ConsumeApproval`,
`Recheck`, `Start`, `Launch`, `RunEnds`, `Identify`, `Terminalize`; unlike the calls of
`OperationLedger` it goes on after an answer it did not get, by reading back.  Its renewal
loop is beside it (`Renewed`, `RenewalFails`, `RenewalUnanswered`), and a request given up
may be handled later (`HandleLate`).  A consumption that is refused and the read-back after
it are two steps, between which others act, and the read-back may fail too.  Users decide,
claims are lost, dispatches follow.

- `LaunchIsAuthorised`: crucible is started only by a call whose own claim spent the
  approval it goes by, whatever was lost, retried or forgotten in between.
- `ConsumptionIsTraceable`, in `LaunchInv`: an approval is spent only on the operation that bears its id,
  also after a restart that forgot the consumption (`store.py:2173`).
- `CompletedIsRecorded`: success is reported only of a run that succeeded and is
  recorded so.
- `ImplementsAuthorisedLaunch`: one approval is ever spent, then at most one launch.  An
  approval spent again after a restart that forgot its consumption (the write to the file
  had failed, unnoticed) is the same approval: a stutter of `AuthorisedLaunch`.

One validation per ticket; claim and status writes are durable; manual mode starts from
an approval the agent brings.

## Changing the kernel of hosts

*`KernelChange`.*  `progress`, `approval` and `prepared` are the intents of a step,
`verified`, `cleanup` and `fresh` its transition record, `commands` what may be running
on the hosts.  A tool writes before it acts (`Authorize`, `Reserve`, `Checkpoint`,
`InvalidateMissing`), runs its command on each host (`HostStarts`, `HostAnswers`,
`CommandEnds`; an answer may be "unknown" while the command goes on), and records what it
heard (`RecordAction`, `RecordCleanup`, `RecordVerification`).  Writes to the transition
record carry the copy that was read before the awaits, and `Accepts` is the comparison
the store makes.  `Die` and `LoseClaim` cut a call off or leave it behind.

- `CommandsAreOnRecord`, in `IInv`: a command that may run is on record as started or
  indeterminate.
- `OneWriterPerHost`: no host has two such commands.
- `VerifiedRanKernel`: hosts on record as verified ran the kernel in this verification,
  whatever late copies are written.
- `CompletedIsQuiet`: a step that is completed has no command that may still run.

A call that is turned down without effect is no step; a lost answer is a handled request
and a dead caller.  What the inventory finds to be required is a free choice that
contains the reboot.  `Submit` waits for the calls of its own claim, because an agent
makes one call at a time.  What is left open on record blocks its step for good; nothing
in the code reconciles it.  The reboot itself, after its authorization, cannot be reached
(run `kernel_reboot_sent`).

## The iterations of an agent

*`AgentLoop`.*  One ticket, one stage, one run of `AgentBase.run` after another.  `pc` is
where the agent stands between two awaits: `top` of the loop, `clear` (it has read an
interjection and takes it away), `ask` (the model), `budget` (the guards), `act`, `save`,
`hold` and `wait` (its question to the user), `leave` (the last transition), `finish`.
`iteration` is its counter, `mem` the limits it last read, `wrapup` the reason of its last
call, `spent` and `others` the `llm_request` events in the log, from which the next run
counts (`Counted`).  `ticket`, `file` and `pending` are the ticket in memory, on disk and
in `_pending_iteration_writes`.  `Grant` is `extend_iterations`: it is answered by its
receipt when it is repeated, and its write can fail on either side of the replacement
(`StoreFails`); `Reconcile` is what the next request on the ticket does first, `Stuck` when
it cannot.  Other writes are swallowed when they fail.  The answers of the model, the
verdicts of the context and budget guards, whether a stage may be paused and whether an
agent has anything to submit are free choices.

- `WithinAllowance`: the agents of a stage use no more than the iterations granted to it
  and one last call, and all agents together no more than the ticket's, over crashes, runs
  and grants that land at any moment.  The stage of a fleet counts anew with each board
  (`FleetEpoch`, `fleet/agent.py:285`); the ticket does not.
- `GrantsStand`, in `IInv`: a grant counts once however it was written, failed or repeated,
  and no restart takes back one that was confirmed.
- `InterjectedOnce`: an interjection is told again only if a restart of the store brought
  it back.  The docstring (`base.py:2989`) has no such exception.  It takes a swallowed
  write and a restart, two faults, which the theorem covers and the run does not reach.
- `RunsEnd`: a run ends, whatever the model answers and the store refuses, under limits
  and with a timeout on its questions.

A run that starts over counts from the log; that the log can be read and written is
assumed.  A failed read makes it count from nothing (`base.py:520`), after which neither
limit bounds what the stage has used in all, only what the run uses.  Left out: the
content of the conversation, `make_unlimited`, the limit 0 that stands for none
(`base.py:863`), the cumulative field of older clients, the circuit breaker (it only adds
a message), `disable_hitl_timeout` (`base.py:3119`; with it a question waits as long as
the user does).

## Runs

| Run | Instance | Shows | States |
|---|---|---|---|
| `leader` | 2 sessions, `Ttl` 2, margin 0, 2 attempts, 1 failed write, 1 fault | safety, refinement and liveness of the lease | 97,601 |
| `claims` | 1 process, 2 claims, 2 writes in flight, 1 fault, `Ttl` 2, `ClaimTtl` 1 | order of writes, recovery, lost and dead claims | 408,786 |
| `pipeline_safety` | the hardware path; replies, aborts, graceful stops, force-closes; failing handoffs, absent suites | safety of the pipeline | 4,637,150 |
| `pipeline_liveness` | hardware and review; replies, hard stops, force-closes; an absent suite, a failing handoff, the retry limit, a submitted review, the budget | liveness of the pipeline | 690,575 |
| `operation_ledger` | 2 tool calls, 2 generations, 2 faults | safety, refinement and liveness of the registry | 85,941 |
| `trace_spool` | 1 producer, 2 sweepers, 2 events, batches of 2 | nothing acknowledged is missing, abandoned spools are delivered | 20,345 |
| `plan_runner` | 5 plans, limit 2, 2 events (faults, loops, replies) | no step repeated or dropped without a cause, and an end | 1,729,704 |
| `benchmark_launch` | 2 calls, 2 approvals, 2 dispatches, 1 fault | one approval, one launch, a true report | 1,125,205 |
| `kernel_change` | 2 hosts, 2 calls, 2 dispatches, 1 fault | one writer per host, verified and completed mean it | 2,276,088 |
| `agent_loop` | limits 2 and 3, 2 iterations of other agents, 1 grant, 1 interjection, 1 retry, 1 fault | no run beyond what was granted, and an end | 779,454 |
| `graceful_stop_closes`, `kernel_reboot_sent` | | [disagreements](#where-the-program-and-its-documents-disagree) | |

**Bounds.**  Two sessions are a holder and a contender, or a dead holder and its restart;
`Ttl` is small because only the order of expiries and calls matters.  Two claims are an
agent and its successor, two tool calls a call and its retry, two generations the fencing
token of each, two approvals the second made after the first was voided.  Crashes,
restarts and expiry are no faults in `claims`; the one fault is a call given up, which may
be handled later, or a write that does not reach the disk.  In `operation_ledger` two faults let a call be lost
*and* a process die.  The path of `pipeline_safety` has every stage that acquires, uses or
releases a machine, that of `pipeline_liveness` the stages where something keeps agents
away, and users may re-route to any status of it.  Claims across two leaders are left to the
proofs; the safety of two processes with `Ttl` 1, one write in flight and no fault was
checked as well (4,131,800 states).  In `trace_spool` two events are one acknowledged and
one not, and a third frame makes room for a torn one; three events were checked too
(290,737 states).  `RetryLimit` 2 is one failure and the last.  `kernel_change` has one
intent; with two intents and one host the same properties hold on 3,684,610 states, too
long for a regular run.  In `agent_loop` the stage has a first and a final iteration and the ticket one
more; the grant moves both limits while any of the last calls is under way, and one fault
is a lost request, an ambiguous grant or a restart.  Invariants that are proved hold for
all values.

**Fairness.**  Lease: time passes, the store answers what reaches it, and the event loop
gets to its timers (each `ClientStep`).  Claims: time passes, the store answers renewals,
and the event loop runs the renewal tasks (`SendRenewal`, `RenewalFails`); no other call
need arrive.  Pipeline: the poll loop goes on and cancellations are
delivered (`PollLoop`, `Unwinds`, `Ends`), as asyncio guarantees for ready tasks; the
watchdog is enabled (`stale_task_timeout > 0`).  Registry: the store answers awaited calls
and the tool-call process takes its next step.  Spools: requests time out, the leader
sweeps, the store is not away for ever, and pruning does not for ever remove an
acknowledgement and leave its spool.  Plans: the poll loop goes on and an agent task ends
(its stage has a bounded number of iterations, `RunsEnd`).  Agent loop: awaited calls are
answered or time out, and a request that finds an ambiguous grant settles it.  Nothing is assumed of users, and in the
pipeline nothing of agents: there the properties say what must happen once an agent ends
or is stopped.

## Proofs

All theorems hold for any sets of sessions, callers, hosts or calls and any values of the
constants that satisfy the named assumptions (durations and bounds are naturals, `Ttl`
positive).  Each rests on an inductive invariant, checked by TLC before it was proved.

- **`LeaderLeaseProofs`.**  `ConfirmedWindowIsCovered` is not inductive: a window opens
  when an answer is read, so the invariant has to speak of answers not yet read
  (`GrantsAreCovered`), of calls matching the phase of their caller and being one at a
  time (`CallsMatchPhases`, `OneCallAtATime`; a release in flight implies a stopped
  sender), and of the file a restart would bring back (`FileAgrees`).
  `LiveLeaseIsNotLost` and the refinement of `SingleLeader` follow: two covered windows
  would be two owners of one record.
- **`TicketClaimsProofs`.**  `WritesFollowClaims` follows from `OldWritersAreFenced`:
  whoever speaks for a claim older than the last one written under has lost the lease
  for good, or neither the ticket nor (for a process that may still send) its file
  carries that claim.  The other conjuncts order claim ids and calls in time.
  `RecoveryStands` needs `RecoveryInv`: what speaks for a session has that session's epoch,
  and a live claim no newer than the recovery beside it, in memory or in the file, belongs
  to a session that has lost the lease.  A recovery is admitted beside no live claim of
  the leader, and a renewal brings none to life.
- **`TicketProofs`, the pipeline.**  `LifecycleInv` is inductive for each store operation,
  whoever calls it, so that the proof reduces the actors' steps to `Transition`,
  `ForceClose`, `SetStop`, `RequestApproval` and `SettleApproval` (`StoreStep`).
  `ClosedIsFinal` and the claims in `PipelineInv` use the same reduction.  For
  `CleanupStands` the invariant (`CleanupInv`) has to say what an agent has seen: at work at
  its own stage it has seen every abort that is recorded (`AbortsSeen`), because the
  answer it waits for ends it otherwise; what it has seen stands (`AbortsStand`); the
  loop pauses no ticket that has a task (`LoopAlone`); and nobody can ask to resume a
  pause or the end, as neither is ever interrupted (`RepliesLead`).  With
  `RepliesLead` the teardown agent is the only one that takes a ticket from teardown to
  its end, hence `UnreleasedIsAborted`.  That theorem assumes
  `"gathering_context" \notin Path`, as TLC finds a counterexample otherwise: the agent
  of the context stage, dispatched from an outdated list, finds its ticket at teardown
  and moves it to the end with the reservation held.
- **`TicketProofs`, the plans.**  They hold for every set of plans, of known agents.
  `PlanInv` and `CompletedStepsStay` are not inductive: `_advance_plan` writes a plan it
  computed earlier, while an abort may change the stored one.  `DraftFits` says what makes
  that harmless: the computed plan is in order, has all the steps that had ended, and its
  cursor is not before the stored one.  Each operator of `NextPlan` is shown to keep the
  plan cut where the cursor will be (`SkippedCuts`, `InjectedCuts`, `ShortcutCuts`,
  `RoutedBounds`), so that the whole yields a draft that fits (`NextPlanFits`); each
  action is then one step of the store, of the plan and of the draft (`TicketStep`,
  `PlanStep`, `DraftStep`).  For `AmbiguousWorkStaysStopped`, `GuardStands` says that a
  guarded stage is that of the ticket, that no agent is at work on it, and that the
  entry in memory or in the store suppresses it.

  `RunsAreAccounted` proves `BenchmarksAreAccounted`.  A run is counted when the agent
  works, but a fetched list, a task at an earlier stage or a computed plan may already
  lead to it.  `MayRun` says when one does, and the invariant (`Accounted`) that this run
  is within the account as well: at most the rounds, faults, loops and replies, and fewer
  while another run may come.  Each step leaves that account, adds to it, or is the run
  it had room for (`Balanced`, one lemma per action).  Only moving the cursor may open a
  round (`PersistsOpens`): a plan that leads to a run is written with the round that run
  belongs to.  `TaskInv` says what ties the task to its ticket: no task outlives a pause
  unnoticed, a list shows what the ticket was, a draft leads where its cursor stands.  The
  bound once stated, the number of benchmark steps, was found false for data-only plans
  when its invariant was sought, and the plan was added to the run.
- **`OperationLedgerProofs`.**  `HandlerOwnsOperation` needs that a fencing token
  belongs to one call (`TokensAreUnique`), that awaited calls are those their callers
  wait for (`AwaitedIsCurrent`), and that nobody has asked to settle an operation whose
  tool runs (`NotSettledEarly`).  `LaunchesAreRecorded` and `ResultsAreTrue` add what
  the refinement of `AtMostOnce` needs.  `GivenUpCalls` says once what giving up does
  to the calls in flight; each action then has one lemma with one step per conjunct.
- **`KernelChangeProofs`.**  `OneWriterPerHost` is not inductive either.  The invariant
  adds that actions are taken in order (`ActionsInOrder`), that at most one piece of work
  is open on the step (`OneIsOpen`), that the call in the middle of it is the one that
  opened it (`OwnerIsOnRecord`, `CallsAgree`), that each command belongs to such work
  (`CommandsAgree`), and what a call's copy of the transition record still says about the
  record (`CopiesAgree`); the comparison in `Accepts` is what makes the last one hold.
  `CompletionIsQuiet` carries the gate of `Submit` to `Complete`.

- **`TraceSpoolProofs`.**  `SpoolInv` says nothing of clients at work, so the invariant
  adds that one client works on a spool that is there, and holds its lock; a sweeper
  whose spool was removed may go on without it, and finds nothing to change (`Locks`).
  Of that client it says that what it has passed is stored, that its batch is what
  follows in the file, that the granted part of it is stored, and that what a compaction
  leaves out is stored (`Clients`).  `Files` and `Account` are `SpoolInv` and
  `AcceptedIsAccounted` with what they need of `written`.  One lemma per action; those
  that leave the disk alone share `ClientStep`, those that let go of a spool `LeaveStep`.
  `DeliveryRefines` maps each step to a write, a delivery, a loss, or a stutter of
  `EventDelivery`; that lost events had been written needs the invariant.  As producers
  append while their last batch is under way, the invariant needs that no client reads
  beyond the end of a file (`InFiles`), and the two are inductive together;
  `IntactIsReadable` (`OnlyTornFilesAreQuarantined`, proved and in no regular run) is
  another of their consequences.
- **`BenchmarkLaunchProofs`.**  `LaunchInv`, `LaunchIsAuthorised` and `CompletedIsRecorded`
  are facts about the store and the answers; what makes them last is what the calls
  believe.  A fencing token belongs to one call (`TokensAreUnique`); until it binds the
  operation a call knows which approval is on it (`KnowsBound`), then goes by that one
  (`GoesByOne`) and at the launch has spent it (`HasSpent`) and owns the operation
  (`AtLaunch`, `NotLaunched`).  A request that is handled after its caller gave up must
  find the operation free or bound to its own approval, and its caller past what it
  asked (`Lates`); a restart brings back no approval that memory contradicts (`Files`).
  One lemma per action; the requests share what asking, answering and giving up do
  (`Asking`, `AskedAndLeft`, `AskedAndRecords`, `AskedAndGoes`).  Each step is then a step
  of `AuthorisedLaunch` or a stutter.
- **`AgentLoopProofs`.**  `WithinAllowance` is about the log and the ticket, but the agent
  goes by the limits it last read and by its own counter: `GoesByGrants` ties these to
  the log and to receipts that are on the ticket, `GrantsStand` ties the receipts in
  memory, on disk and in a pending write to what was confirmed.  `MoreIsAllowed` is the
  key lemma: more receipts mean limits that are no lower, so that every step of the
  store keeps what an agent has used within them (`GrowsKeeps`).  `ToldOnce` has an
  invariant of its own: what was told is not pending unless a restart brought it back.

Only model-checked: every liveness property (proofs about fairness and `ENABLED` are out
of the prover's reach), and `ReleaseDropsNoRun` for the plans of the run.  It is false for
arbitrary plans, as TLC shows: where the step at the cursor is not that of the stage its
ticket is at, the agents' own moves take the ticket to its end past a benchmark it has (an
alert whose plan is one benchmark).  The program does not refuse such plans, so that no
assumption on `Plans` is justified.

## Where the program and its documents disagree

Shown by runs:

- **`graceful_stop_closes`**: a graceful stop of a ticket between two agents closes it.
  The orchestrator's requests for it carry a session without a claim or the leader
  scope, and the store answers each with 409 (`main.py:2646`).  `tests/test_stop.py` and
  `docs/user-guide.md:248` say it is paused.
- **`kernel_reboot_sent`**: the write that spends the approval of a reboot marks it
  started (`store.py:2153`), and the reservation that follows refuses what is not pending
  (`kernel.py:434`): an authorized reboot is never sent and blocks its step.

Seen while modelling, and within what the properties say:

- A failed renewal of one claim deposes the dispatcher for good ("Stop all agent work",
  `dispatcher.py:323`), yet the poll loop keeps its lease and starts agents
  (`dispatcher.py:290`).
- `abort_ticket` checks and transitions in two critical sections (`stop.py:74`); after a
  reply in between, the abort is an ordinary transition and is not recorded.
- A reply to a paused teardown is recorded as an abort (`store.py:877`), and the next
  failure of the release ends the ticket with its reservation held; the docstring of
  `pause_teardown` says a ticket that is not aborted asks for help.
- An agent dispatched for the context stage from an outdated list can end a ticket that is
  at teardown, with its reservation held and no abort recorded (`main.py:4046`; the
  stages that re-read the status are at `main.py:1619`).
- After the reply to the absent-suite pause the ticket stays at `awaiting_hardware`,
  neither paused again nor dispatched (`main.py:3871`).
- A review that was submitted and whose transition was lost, or that is asked for again,
  is never dispatched, and nobody is told (`main.py:3814`).
- A handoff block stands when the user sends the ticket back to its stage before the loop
  has seen it paused: the ticket is neither checked nor paused again (`main.py:2489`).
- Over the system budget the loop answers neither stop requests nor stale tasks, however
  long their agents run (`main.py:3710`).
- Spools older than an hour that were never delivered are discarded (`spool.py:415`),
  against the module's docstring (`spool.py:3`).  Events before a torn frame stay in the
  `.bad` file with it.
- Consecutive benchmark steps ask for a transition from `executing_benchmark` to itself,
  which `VALID_TRANSITIONS` refuses: each run counts as an attempt without progress, and
  a plan with more of them than the limit is stopped (`main.py:2991`).
- An agent dispatched from an older list can clear the guard after ambiguous work, or end
  a pause (`main.py:4046`, against `architecture.md:550`).
- A plan that only analyzes existing data may run a benchmark: an analysis that asks a
  question and is dispatched again from an older list finds its ticket paused, so that the
  plan does not hold it back (`base.py:2949`), and if inconclusive moves the ticket to
  `awaiting_hardware` (`analyze/agent.py:196`).
- A conclusive analysis without a later review marks the rest of the plan skipped and
  runs its next step all the same (`main.py:1262`); the writes that retire pending steps
  after a synthesis carry no claim and are refused unnoticed (`main.py:1817`); an abort
  after a failed force-close of a halt overwrites a completed step (`store.py:885`); runs
  an evaluation appends behind the plan's teardown are dropped when the teardown comes
  first; investigation plans with a `review` after the benchmark leave it in progress.
- A replayed benchmark call acquires the operation only to look for a result, and leaves
  its lease to run out (`benchmark/server.py:3205`).  When the last record fails the reply
  is "indeterminate" but the ticket is not paused (`benchmark/server.py:5315`).  After a
  crash that left an approval id on the operation no later claim can use the validation.
- An interjection is lost when another is sent before it is read, or between the agent's
  read and the write that takes it away, when that write fails, and when the ticket moves
  (`interject.py:85`, `base.py:3004`).
- After a context or budget warning the model is told that this is its final call and to
  submit, and the submission it then makes is dropped: the guards stop the run before the
  answer is looked at (`base.py:1261`-1297).
- A submission that is refused is recorded without the results of the other calls in the
  same answer (`base.py:1510`), which language model APIs require.
- An ordinary write that failed unnoticed, followed by an ambiguous grant, leaves every
  access to the ticket failing until the store restarts (`store.py:1177`).
- `_extend_iterations` pins a "retryable grant" under a new `request_id` each time
  (`cli.py:60`), so a user's repetition is another grant.

## Not modelled

Left out of the modelled parts: user quotas, capacity limits, webhook enrichment, the
investigation redirect and the retries of a handoff's own recovery in `TicketPipeline`; back-off delays, fleet
tickets, the comparison receipt, kernel comparisons, malformed plans, questions inside a
run, and the return to allocation of a ticket whose hosts no longer fit (`main.py:1367`)
in `PlanRunner`; introspection tasks and secrets of the dispatcher; other harnesses than
crucible in `BenchmarkLaunch` (they start through `OperationLedger`); clock drift between
machines.  One ticket at a time: what ties tickets together is the deposal of a whole
process, which `TicketClaims` has.

Parts with no module, and why: audit and redaction (records that no decision reads);
authentication and rate limits (callers here are authorised); ticket comments, artifacts,
streams and status pages (append-only or read-only); language models, prompts and skills
(outcomes are free choices); resource providers, SSH, and the parts of the provisioning
server that configure machines (outside systems and text); CLI, TUI, web pages and scripts
(clients whose requests are the user actions); token and user budgets, circuit
breaker and convergence (thresholds inside one agent).  `PROJECT.json` lists them all.

## Plan

Done, in this order because each protects the next: the lease, the claims, the status
machine and pipeline, the registry of operations, trace delivery, execution plans with
their retry guard, the launch of a benchmark, the change of a kernel, the iterations of an
agent.  Next:

1. **`Validations`**: receipts and supersession, composed with `BenchmarkLaunch`.
2. Proofs: that `BenchmarkLaunch` keeps the rules of `OperationLedger`'s registry;
   `ReleaseDropsNoRun`, should the program refuse plans whose steps and stages part.
