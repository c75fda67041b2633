------------------------------ MODULE AgentLoop ------------------------------
(***************************************************************************)
(* The iterations of one agent (AgentBase.run): each is one call of the    *)
(* language model and what its answer asks for.  The agent stops at the    *)
(* iteration limit of its stage or at the global limit of the ticket, when *)
(* its context or its budget is used up, when it has asked its user in     *)
(* vain, or when the ticket has moved on.  Users raise both limits while   *)
(* it runs (extend_iterations); a raise is written durably, may fail after *)
(* it was written, and is repeated with its request_id.  What an agent has *)
(* used is counted from the event log, so that neither a crash nor a reply *)
(* starts it afresh.                                                       *)
(*                                                                         *)
(* One ticket, one stage, one agent at a time.  The answers of the         *)
(* language model, the verdicts of the guards, whether the stage may be    *)
(* paused and whether the agent has anything to submit are free choices.   *)
(* A request of the agent is one step with its answer; it may fail,        *)
(* whether it was handled or not.                                          *)
(***************************************************************************)
EXTENDS Naturals, FiniteSets

CONSTANTS
    Configured,       \* max_iterations of the stage, 0 for no limit
    ConfiguredGlobal, \* global_max_iterations, 0 for no limit
    Extra,            \* additional_iterations of a grant
    Request,          \* request_ids of grants
    Hint,             \* interjections of the user
    Nothing,          \* no interjection, no ambiguous write, no ticket seen
    TimeoutRetries,   \* LLM_TIMEOUT_RETRIES (2)
    RateRetries,      \* LLM_RATE_LIMIT_RETRIES (5)
    MaxOthers,        \* bound: iterations of other stages and earlier fleet epochs
    MaxFaults         \* bound: failed requests and writes, restarts of the store

ASSUME LoopAssumption ==
    /\ {Configured, ConfiguredGlobal, Extra} \subseteq Nat
    /\ {TimeoutRetries, RateRetries, MaxOthers, MaxFaults} \subseteq Nat
    /\ IsFiniteSet(Request)
    /\ Nothing \notin Hint

\* Its own stage, awaiting_customer_guidance, and every other status.
Status == {"working", "guidance", "moved"}

\* What the loop needs of a ticket: the two limits, the receipts of the grants
\* for this stage and for others, and the pending interjection.
Ticket == [status : Status, back : Status, limit : Nat, global : Nat,
           mine : SUBSET Request, theirs : SUBSET Request, hint : Hint \cup {Nothing}]

ASSUME NoTicket == Nothing \notin Ticket \cup Status

VARIABLES
    ticket,     \* the ticket in memory
    file,       \* the ticket on disk
    pending,    \* _pending_iteration_writes: a grant that may be on disk or not
    pc,         \* where the agent is between two awaits
    iteration,  \* its counter
    seen,       \* the status it read with the interjection, for its drift check
    mem,        \* max_iterations and _global_iteration_limit as it last read them
    wrapup,     \* _wrapup_reason
    tries,      \* timeouts and rate limits so far; an empty answer, a late reply
    resumed,    \* _hitl_just_resumed
    after,      \* where the reply to its question leads
    hint,       \* the interjection it has read
    stopping,   \* _stop_requested
    spent,      \* llm_request events of this stage since the last fleet epoch
    others,     \* the other ones in the log
    granted,    \* history: requests that were answered with success
    told,       \* history: interjections an agent was told
    retold,     \* history: those that were told again
    reverted,   \* history: those a restart of the store brought back
    sent,       \* history: interjections users have sent
    faults

storeVars == <<ticket, file, pending>>
readVars == <<iteration, seen, mem>>
askVars == <<resumed, after>>
loopVars == <<readVars, wrapup, tries, askVars, hint, stopping>>
logVars == <<spent, others>>
hintVars == <<told, retold, reverted, sent>>
vars == <<storeVars, pc, loopVars, logVars, granted, hintVars, faults>>

Step == {"off", "top", "clear", "ask", "budget", "act", "save", "hold", "wait",
         "leave", "finish"}
Tries == [timeouts : Nat, rates : Nat, emptied : BOOLEAN, late : BOOLEAN]
Fresh == [timeouts |-> 0, rates |-> 0, emptied |-> FALSE, late |-> FALSE]

\* Every variable keeps its type.
TypeOK ==
    /\ ticket \in Ticket
    /\ file \in Ticket
    /\ pending \in Ticket \cup {Nothing}
    /\ pc \in Step
    /\ iteration \in Nat
    /\ seen \in Status \cup {Nothing}
    /\ mem \in [limit : Nat, global : Nat]
    /\ wrapup \in {"none", "context", "budget", "iteration"}
    /\ tries \in Tries
    /\ resumed \in BOOLEAN
    /\ after \in {"top", "save"}
    /\ hint \in Hint \cup {Nothing}
    /\ stopping \in BOOLEAN
    /\ spent \in Nat
    /\ others \in 0 .. MaxOthers
    /\ granted \subseteq Request
    /\ told \subseteq Hint /\ retold \subseteq Hint /\ reverted \subseteq Hint
    /\ sent \subseteq Hint
    /\ faults \in 0 .. MaxFaults

NewTicket ==
    [status |-> "working", back |-> "working", limit |-> Configured,
     global |-> ConfiguredGlobal, mine |-> {}, theirs |-> {}, hint |-> Nothing]

Init ==
    /\ ticket = NewTicket
    /\ file = NewTicket
    /\ pending = Nothing
    /\ pc = "off"
    /\ iteration = 0
    /\ seen = Nothing
    /\ mem = [limit |-> Configured, global |-> ConfiguredGlobal]
    /\ wrapup = "none"
    /\ tries = Fresh
    /\ resumed = FALSE
    /\ after = "top"
    /\ hint = Nothing
    /\ stopping = FALSE
    /\ spent = 0
    /\ others = 0
    /\ granted = {}
    /\ told = {} /\ retold = {} /\ reverted = {} /\ sent = {}
    /\ faults = 0

Fault == faults < MaxFaults /\ faults' = faults + 1
NoFault == UNCHANGED faults

-----------------------------------------------------------------------------
\* The store.  While a grant is ambiguous, whoever comes next to the ticket
\* settles it first (_resolve); it cannot be settled when the file is neither
\* the ticket with the grant nor the one without, because an earlier write has
\* failed unnoticed: then every request fails until the store restarts.

Settled == pending = Nothing
Stuck == pending # Nothing /\ file \notin {pending, ticket}

\* A request that is not handled.
Unanswered == UNCHANGED storeVars /\ ((Stuck /\ NoFault) \/ Fault)

Read == Settled /\ UNCHANGED storeVars /\ NoFault

\* Any other write of the ticket: an OSError is logged and swallowed.  The
\* comment that goes with a transition is part of its step.
Write(t) ==
    /\ Settled
    /\ ticket' = t
    /\ \/ file' = t /\ NoFault
       \/ UNCHANGED file /\ Fault
    /\ UNCHANGED pending

\* A write that was handled, and whose answer is lost.
WriteLost(t) == Settled /\ Fault /\ ticket' = t /\ file' = t /\ UNCHANGED pending

At(t, status, back) ==
    [status |-> status, back |-> back, limit |-> t.limit, global |-> t.global,
     mine |-> t.mine, theirs |-> t.theirs, hint |-> t.hint]
WithHint(t, h) ==
    [status |-> t.status, back |-> t.back, limit |-> t.limit, global |-> t.global,
     mine |-> t.mine, theirs |-> t.theirs, hint |-> h]

\* transition_ticket to awaiting_customer_guidance; not every stage has it
\* among its transitions.
MayNotPause == ticket.status # "guidance"
Paused == IF ticket.status = "guidance" THEN ticket
          ELSE At(ticket, "guidance", ticket.status)
Pause == Write(Paused)
PauseFails ==
    \/ Unanswered
    \/ WriteLost(Paused)
    \/ MayNotPause /\ Read

\* _add_iteration_allowance and the receipt.
AllowedOnce(t, r, own) ==
    [status |-> t.status, back |-> t.back,
     limit |-> IF own /\ t.limit > 0 THEN t.limit + Extra ELSE t.limit,
     global |-> IF t.global > 0 THEN t.global + Extra ELSE 0,
     mine |-> IF own THEN t.mine \cup {r} ELSE t.mine,
     theirs |-> IF own THEN t.theirs ELSE t.theirs \cup {r},
     hint |-> t.hint]

\* extend_iterations for this stage or another, first or repeated: a receipt
\* answers the repetition, and one for another stage refuses it.
KnownNever(r) == FALSE
Known(r) == r \in ticket.mine \cup ticket.theirs

Repeat(r, own) ==
    /\ Settled
    /\ Known(r)
    /\ r \in IF own THEN ticket.mine ELSE ticket.theirs
    /\ granted' = granted \cup {r}
    /\ UNCHANGED <<storeVars, faults>>

Store(r, t) ==
    /\ ticket' = t
    /\ file' = t
    /\ UNCHANGED <<pending, faults>>
    /\ granted' = granted \cup {r}

\* The write fails before or after it replaces the file, and looking at the
\* file at once tells which, or does not.
StoreFails(t) ==
    /\ Fault
    /\ file' \in {file, t}
    /\ \/ file' = t /\ ticket' = t /\ UNCHANGED pending
       \/ file' = ticket /\ UNCHANGED <<ticket, pending>>
       \/ pending' = t /\ UNCHANGED ticket
    /\ UNCHANGED granted

Grant(r, own) ==
    /\ \/ Repeat(r, own)
       \/ /\ Settled
          /\ ~Known(r)
          /\ LET t == AllowedOnce(ticket, r, own) IN Store(r, t) \/ StoreFails(t)
    /\ UNCHANGED <<pc, loopVars, logVars, hintVars>>

\* _reconcile_iteration_write.
Reconcile ==
    /\ pending # Nothing
    /\ \/ file = pending /\ ticket' = pending
       \/ file = ticket /\ UNCHANGED ticket
    /\ pending' = Nothing
    /\ UNCHANGED <<file, pc, loopVars, logVars, granted, hintVars, faults>>

StoreRestarts ==
    /\ Fault
    /\ ticket' = file
    /\ pending' = Nothing
    /\ reverted' = reverted \cup (told \cap {file.hint})
    /\ UNCHANGED <<file, pc, loopVars, logVars, granted, told, retold, sent>>

-----------------------------------------------------------------------------
\* The loop.

Goto(next) == pc' = next
On(next) == pc' = next /\ UNCHANGED loopVars

\* The run is over, and its variables are not used again.
Ends ==
    /\ pc' = "off"
    /\ iteration' = 0
    /\ seen' = Nothing
    /\ mem' = [limit |-> Configured, global |-> ConfiguredGlobal]
    /\ wrapup' = "none"
    /\ tries' = Fresh
    /\ resumed' = FALSE
    /\ after' = "top"
    /\ hint' = Nothing
    /\ stopping' = FALSE
Local == UNCHANGED <<storeVars, logVars, granted, hintVars, faults>>
Elsewhere == UNCHANGED <<logVars, granted, hintVars>>

\* run_agent_task makes a new agent for a ticket at its stage.  The log is
\* readable: one that is not would start the count from what was read of it.
CountedAfresh == 0
Counted == spent

StartAgent ==
    /\ pc = "off"
    /\ Read
    /\ ticket.status = "working"
    /\ Goto("top")
    /\ iteration' = Counted
    /\ seen' = Nothing
    /\ mem' = [limit |-> ticket.limit, global |-> ticket.global]
    /\ wrapup' = "none"
    /\ tries' = Fresh
    /\ resumed' = FALSE
    /\ after' = "top"
    /\ hint' = Nothing
    /\ stopping' = FALSE
    /\ UNCHANGED <<logVars, granted, hintVars>>

Continues ==
    \/ mem.limit = 0
    \/ iteration < mem.limit
    \/ wrapup # "none" /\ iteration = mem.limit

\* _refresh_iteration_limits.
Refresh ==
    /\ mem' = [limit |-> ticket.limit, global |-> ticket.global]
    /\ wrapup' = IF /\ wrapup = "iteration"
                    /\ ticket.limit = 0 \/ ticket.limit > mem.limit
                 THEN "none" ELSE wrapup

\* What follows the look at the ticket without an await: the drift check, the
\* global limit and the next request.  The agents of other stages wait, so
\* that the global count is theirs and its own.
Proceed(global) ==
    IF global > 0 /\ others + iteration >= global
    THEN Goto("leave") /\ UNCHANGED <<iteration, spent>>
    ELSE Goto("ask") /\ iteration' = iteration + 1 /\ spent' = spent + 1

Look ==
    /\ pc = "top" /\ Continues /\ ~stopping
    /\ Read
    /\ \/ ticket.hint = Nothing /\ ticket.status = "moved" /\ Ends /\ UNCHANGED spent
       \/ /\ \/ /\ ticket.hint = Nothing /\ ticket.status # "moved"
                /\ Proceed(ticket.global)
                /\ UNCHANGED <<hint, seen>>
             \/ /\ ticket.hint # Nothing
                /\ Goto("clear")
                /\ hint' = ticket.hint
                /\ seen' = ticket.status
                /\ UNCHANGED <<iteration, spent>>
          /\ Refresh
          /\ UNCHANGED <<tries, askVars, stopping>>
    /\ UNCHANGED <<others, granted, hintVars>>

\* An agent that cannot read the ticket goes by what it read before, which was
\* not that it had moved.
LookFails ==
    /\ pc = "top" /\ Continues /\ ~stopping
    /\ Unanswered
    /\ Proceed(mem.global)
    /\ UNCHANGED <<seen, mem, wrapup, tries, askVars, hint, stopping, others, granted,
                   hintVars>>

Tell(h) ==
    /\ told' = told \cup {h}
    /\ retold' = IF h \in told THEN retold \cup {h} ELSE retold
    /\ UNCHANGED <<reverted, sent>>

ClearNothing == ticket
Cleared == WithHint(ticket, Nothing)

\* _check_interject takes away what is pending now, be it what it read or not,
\* and tells it unless the ticket has moved.
ClearHint ==
    /\ pc = "clear"
    /\ Write(Cleared)
    /\ \/ seen = "moved" /\ Ends /\ UNCHANGED <<spent, hintVars>>
       \/ /\ seen # "moved"
          /\ Proceed(mem.global)
          /\ Tell(hint)
          /\ hint' = Nothing
          /\ seen' = Nothing
          /\ UNCHANGED <<mem, wrapup, tries, askVars, stopping>>
    /\ UNCHANGED <<others, granted>>

\* A failed request ends the run, whether the field was cleared or not.
ClearFails ==
    /\ pc = "clear"
    /\ Unanswered \/ WriteLost(Cleared)
    /\ Ends
    /\ Elsewhere

StopsGracefully ==
    /\ pc = "top" /\ Continues /\ stopping
    /\ On("leave")
    /\ Local

\* _abort_unpausable: the ticket is closed, if its stage may be.
AbortUnpausable ==
    /\ MayNotPause
    /\ \/ Write(At(ticket, "moved", "working"))
       \/ Read
    /\ Ends

\* The loop is exhausted.
Exhausted ==
    /\ pc = "top" /\ ~Continues
    /\ \/ Write(ticket) /\ On("leave")
       \/ AbortUnpausable
       \/ Unanswered /\ Ends
    /\ Elsewhere

-----------------------------------------------------------------------------
\* The answer of the language model.

LLMTimesOut ==
    /\ pc = "ask"
    /\ tries' = [tries EXCEPT !.timeouts = @ + 1]
    /\ Goto(IF tries.timeouts < TimeoutRetries THEN "top" ELSE "leave")
    /\ UNCHANGED <<readVars, wrapup, askVars, hint, stopping>>
    /\ Local

LLMRateLimited ==
    /\ pc = "ask"
    /\ tries' = [tries EXCEPT !.rates = @ + 1]
    /\ Goto(IF tries.rates < RateRetries THEN "top" ELSE "leave")
    /\ UNCHANGED <<readVars, wrapup, askVars, hint, stopping>>
    /\ Local

LLMFails ==
    /\ pc = "ask"
    /\ Ends
    /\ Local

\* The context guard: where truncating a full context does not help, or has
\* been done before, the answer is dropped for a last one; the answer after
\* that ends the run.
LLMAnswers ==
    /\ pc = "ask"
    /\ tries' = [tries EXCEPT !.rates = 0]
    /\ \/ wrapup = "context" /\ Goto("leave") /\ UNCHANGED wrapup
       \/ wrapup # "context" /\ Goto("budget") /\ UNCHANGED wrapup
       \/ wrapup = "none" /\ Goto("top") /\ wrapup' = "context"
    /\ UNCHANGED <<readVars, askVars, hint, stopping>>
    /\ Local

FinalIteration == mem.limit > 0 /\ iteration > 1 /\ iteration = mem.limit

\* The budget guard, once it has let the answer pass, and the iteration guard.
WithinBudget ==
    /\ IF FinalIteration /\ wrapup = "none"
       THEN Goto("top") /\ wrapup' = "iteration"
       ELSE Goto("act") /\ UNCHANGED wrapup
    /\ UNCHANGED <<readVars, tries, askVars, hint, stopping>>

\* A budget of the ticket that is used up pauses it, and the agent goes on for
\* one last answer; the quota of its owner does not pause it.  A check that
\* fails, or may not pause the ticket, leaves the quota to decide.
OutOfBudget ==
    /\ iteration > 1
    /\ IF wrapup = "none" THEN Goto("top") /\ wrapup' = "budget"
       ELSE Goto("leave") /\ UNCHANGED wrapup
    /\ UNCHANGED <<readVars, tries, askVars, hint, stopping>>

CheckBudget ==
    /\ pc = "budget"
    /\ \/ (Pause \/ Read \/ PauseFails) /\ OutOfBudget
       \/ (Read \/ PauseFails) /\ WithinBudget
    /\ Elsewhere

-----------------------------------------------------------------------------
\* What the answer asks for.

EmptyAnswer ==
    /\ pc = "act" /\ ~tries.emptied
    /\ tries' = [tries EXCEPT !.emptied = TRUE]
    /\ Goto("top")
    /\ UNCHANGED <<readVars, wrapup, askVars, hint, stopping>>
    /\ Local

\* An agent that should have submitted asks its user, once it has been
\* reminded after a reply; an agent that has nothing to submit is done.
Prose ==
    /\ pc = "act"
    /\ \/ resumed /\ Goto("top") /\ UNCHANGED after
       \/ ~resumed /\ Goto("hold") /\ after' = "top"
       \/ Goto("finish") /\ UNCHANGED after
    /\ resumed' = FALSE
    /\ UNCHANGED <<readVars, wrapup, tries, hint, stopping>>
    /\ Local

\* A submission is refused or accepted.
Submit ==
    /\ pc = "act"
    /\ Goto("save") \/ Goto("finish")
    /\ resumed' = FALSE
    /\ UNCHANGED <<readVars, wrapup, tries, after, hint, stopping>>
    /\ Local

\* Before its tools run the ticket is looked at again.
RunTools ==
    /\ pc = "act"
    /\ \/ Read /\ ticket.status = "moved" /\ Ends
       \/ /\ (Read /\ ticket.status # "moved") \/ Unanswered
          /\ \/ Goto("save") /\ UNCHANGED after
             \/ Goto("hold") /\ after' = "save"
          /\ resumed' = FALSE
          /\ UNCHANGED <<readVars, wrapup, tries, hint, stopping>>
    /\ Elsewhere

\* _save_messages(required=True).
SaveMessages ==
    /\ pc = "save"
    /\ \/ Write(ticket) /\ On("top")
       \/ (Unanswered \/ WriteLost(ticket)) /\ Ends
    /\ Elsewhere

\* _handle_completion moves the ticket on, or fails; _abort_unpausable aside,
\* the run is over.
Finish ==
    /\ pc = "finish"
    /\ \/ \E t \in {At(ticket, "moved", "working"), Paused} : Write(t) \/ WriteLost(t)
       \/ Read
       \/ Unanswered
    /\ Ends
    /\ Elsewhere

\* _request_human_input.  A failure inside a tool is the result of the tool.
Hold ==
    /\ pc = "hold"
    /\ \/ Pause /\ On("wait")
       \/ AbortUnpausable
       \/ PauseFails /\ IF after = "save" THEN On("save") ELSE Ends
    /\ Elsewhere

\* The reply to a question asked again resets the count of timeouts, unless it is
\* a slash command; that one does not mark a tool's run as resumed either.
Replied ==
    /\ pc = "wait" /\ Read /\ ticket.status # "guidance"
    /\ Refresh
    /\ \/ /\ resumed' = TRUE
          /\ \E late \in {FALSE, tries.late} : tries' = [tries EXCEPT !.late = late]
       \/ resumed' = (after = "top") /\ UNCHANGED tries
    /\ Goto(after)
    /\ after' = "top"
    /\ UNCHANGED <<iteration, seen, hint, stopping>>
    /\ Elsewhere

\* The ticket was aborted or closed meanwhile, or cannot be polled.
WaitEnds ==
    /\ pc = "wait"
    /\ \/ Read /\ ticket.status = "moved" /\ Ends
       \/ Unanswered /\ IF after = "save" THEN On("save") ELSE Ends
    /\ Elsewhere

WaitsForGood == pc = "wait" /\ UNCHANGED vars
WaitTimesOut ==
    /\ pc = "wait"
    /\ \/ tries.late /\ Ends
       \/ /\ ~tries.late
          /\ Goto("wait")
          /\ tries' = [tries EXCEPT !.late = TRUE]
          /\ UNCHANGED <<readVars, wrapup, askVars, hint, stopping>>
    /\ Local

\* The last transition of a run that stops before its work is done.
Leave ==
    /\ pc = "leave"
    /\ Pause \/ PauseFails
    /\ Ends
    /\ Elsewhere

\* A hard stop, the deposal of its process, or a crash.
Killed ==
    /\ pc # "off"
    /\ Ends
    /\ Local

-----------------------------------------------------------------------------
\* The users and the other agents.

Outside == UNCHANGED <<pc, loopVars, granted>>

\* The endpoint overwrites an interjection that is still pending.  It turns down
\* one for a paused ticket, but by the status it read before it adds a comment:
\* when it writes the interjection the ticket may be anywhere.
Interject(h) ==
    /\ h \notin sent
    /\ Write(WithHint(ticket, h))
    /\ sent' = sent \cup {h}
    /\ UNCHANGED <<told, retold, reverted, logVars>>
    /\ Outside

\* Replies, aborts and every other transition that is not the agent's.
Transition ==
    /\ \E t \in {Paused, At(ticket, "moved", "working"), At(ticket, "working", "working"),
                 At(ticket, ticket.back, "working")} :
          t # ticket /\ Write(t)
    /\ UNCHANGED <<logVars, hintVars>>
    /\ Outside

RequestStop ==
    /\ pc # "off" /\ ~stopping
    /\ stopping' = TRUE
    /\ UNCHANGED <<pc, readVars, wrapup, tries, askVars, hint>>
    /\ Local

\* An iteration of an agent of another stage, which looks at the global limit
\* as this one does.  The dispatcher runs one agent of a ticket at a time.
OtherAgents ==
    /\ pc = "off" /\ others < MaxOthers
    /\ Read
    /\ ticket.status = "moved"
    /\ ticket.global = 0 \/ spent + others < ticket.global
    /\ others' = others + 1
    /\ UNCHANGED <<spent, hintVars>>
    /\ Outside

\* The fleet agent goes on to the next board: what the agents of this stage have
\* used so far no longer counts for the stage, only for the ticket.
FleetEpoch ==
    /\ pc = "off" /\ 0 < spent /\ others + spent <= MaxOthers
    /\ Read
    /\ ticket.status = "moved"
    /\ others' = others + spent
    /\ spent' = 0
    /\ UNCHANGED hintVars
    /\ Outside

OtherAgentsHear ==
    /\ pc = "off"
    /\ ticket.status = "moved" /\ ticket.hint # Nothing
    /\ Write(Cleared)
    /\ Tell(ticket.hint)
    /\ UNCHANGED logVars
    /\ Outside

-----------------------------------------------------------------------------

AgentStep ==
    \/ Look \/ LookFails \/ ClearHint \/ ClearFails \/ StopsGracefully \/ Exhausted
    \/ LLMTimesOut \/ LLMRateLimited \/ LLMFails \/ LLMAnswers \/ CheckBudget
    \/ EmptyAnswer \/ Prose \/ Submit \/ RunTools \/ SaveMessages \/ Finish
    \/ Hold \/ Replied \/ WaitEnds \/ WaitTimesOut \/ Leave

Next ==
    \/ StartAgent \/ AgentStep \/ Killed
    \/ \E r \in Request, own \in BOOLEAN : Grant(r, own)
    \/ Reconcile \/ StoreRestarts
    \/ \E h \in Hint : Interject(h)
    \/ Transition \/ RequestStop \/ OtherAgents \/ FleetEpoch \/ OtherAgentsHear

Spec == Init /\ [][Next]_vars

\* The agent goes on, and a request that finds an ambiguous grant settles it.
FairSpec == Spec /\ WF_vars(AgentStep) /\ WF_vars(Reconcile)

-----------------------------------------------------------------------------

\* A grant counts once, however often it was written, failed or repeated
\* (store.py:1153-1290).
Accounted(t) ==
    /\ t.mine \cap t.theirs = {}
    /\ t.limit = IF Configured = 0 THEN 0 ELSE Configured + Extra * Cardinality(t.mine)
    /\ t.global = IF ConfiguredGlobal = 0 THEN 0
                  ELSE ConfiguredGlobal + Extra * Cardinality(t.mine \cup t.theirs)

SameGrants(t, u) == t.mine = u.mine /\ t.theirs = u.theirs

\* A grant that was confirmed is on disk, and so is what it was added to: no
\* restart of the store takes back a limit that an agent may have gone by.
GrantsStand ==
    /\ Accounted(ticket) /\ Accounted(file)
    /\ pending = Nothing => SameGrants(file, ticket)
    /\ pending # Nothing =>
         /\ Accounted(pending)
         /\ ticket.mine \subseteq pending.mine /\ ticket.theirs \subseteq pending.theirs
         /\ SameGrants(file, ticket) \/ SameGrants(file, pending)
    /\ granted \subseteq ticket.mine \cup ticket.theirs

\* The limits a running agent goes by are among those granted, and its counter
\* is what the log says.
GoesByGrants ==
    pc # "off" =>
      /\ iteration = spent
      /\ ticket.limit = 0 <=> mem.limit = 0
      /\ ticket.global = 0 <=> mem.global = 0
      /\ mem.limit <= ticket.limit
      /\ mem.global <= ticket.global
      /\ pc = "clear" => hint \in Hint /\ (mem.limit = 0 \/ iteration <= mem.limit)

\* The agents of a stage use up the iterations granted to it and no more than
\* one beyond, for the last answer of a run; the agents of all stages stay
\* within what is granted to the ticket (base.py:757-925, store.py:1141-1290):
\* over crashes, retried grants and any number of runs.  The stage counts anew
\* with every board of a fleet.
WithinAllowance ==
    /\ ticket.limit > 0 => spent <= ticket.limit + 1
    /\ ticket.global > 0 => spent + others <= ticket.global

\* The inductive invariant.
IInv == TypeOK /\ GrantsStand /\ GoesByGrants /\ WithinAllowance

\* An interjection is told again only when the store came back from a restart
\* with it, because the write that took it away was lost (base.py:2985-3008,
\* "the same interjection is never delivered twice").
InterjectedOnce == retold \subseteq reverted

\* Every run of an agent ends, whatever the model answers, the users ask for
\* and the store refuses (base.py:790-1845).
RunsEnd == pc # "off" ~> pc = "off"
=============================================================================
