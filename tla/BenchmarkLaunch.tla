--------------------------- MODULE BenchmarkLaunch ---------------------------
(***************************************************************************)
(* One validated crucible benchmark: the approvals the state store keeps for *)
(* it, its operation in the registry, and the calls of execute_benchmark     *)
(* that want to run it (agents/benchmark/server.py).  A call takes the       *)
(* operation, makes or is given an approval, writes the approval's ID on the *)
(* operation, spends the approval, crosses the launch boundary, runs         *)
(* crucible on the controller and records how it ended.  Unlike the calls of *)
(* OperationLedger it goes on after an answer it did not get, by reading     *)
(* back what the store did.                                                  *)
(*                                                                           *)
(* The ticket keeps approvals in memory and in a file whose writes may fail  *)
(* unnoticed; a restart of the store goes back to the file.  A request may   *)
(* be handled after its caller gave it up.  Claims and the leader's session  *)
(* are those of TicketClaims: here a claim is the number of a dispatch.      *)
(***************************************************************************)
EXTENDS Naturals, FiniteSets

CONSTANTS
    Call,         \* calls of execute_benchmark
    MaxApprovals, \* bound: approval requests that are ever made
    Ttl,          \* _BENCHMARK_OPERATION_LEASE_TTL_SECONDS
    MaxAttempts,  \* bound: dispatches of the benchmark agent
    MaxFaults     \* bound: lost requests, failed writes, crashes

ASSUME LaunchAssumption ==
    /\ MaxApprovals \in Nat
    /\ Ttl \in Nat \ {0}
    /\ MaxAttempts \in Nat \ {0}
    /\ MaxFaults \in Nat

Approval == 1 .. MaxApprovals  \* their IDs, in the order they are made
None == 0                      \* no approval

VARIABLES
    state, token, lease, outcome,
    bound,      \* the operation, with the approval ID among its external ids
    approval,   \* the ticket's approval requests
    saved,      \* the same in the ticket's file
    issued,     \* the IDs given out so far, each only once
    status,     \* whether the ticket executes its benchmark or waits for a human
    claim,      \* the claim on the ticket, 0 when there is none in force
    attempts,   \* dispatches so far
    automatic,  \* user_pre_run_approval is false
    pc,         \* where each call is
    mine,       \* the claim of the agent it was made by
    held,       \* the fencing token it was granted
    known,      \* the approval ID that was on the operation when it took it
    using,      \* the approval it is going by
    renewal,    \* its lease renewal task
    verdict,    \* what it is about to record
    manner,     \* how it goes on after that
    answer,     \* how the run went by its answer, "none" if it does not say
    late,       \* requests given up by their callers and not handled yet
    spent,      \* history: approvals that were ever consumed
    launches,   \* history: how often crucible was started
    result,     \* history: how the run ended
    faults      \* faults that happened, at most MaxFaults

row == <<state, token, lease, outcome, bound>>
ticket == <<approval, saved, issued, status, claim, attempts, automatic>>
registry == <<row, late>>
call == <<pc, mine, held, known, using, renewal, verdict, manner, answer>>
history == <<spent, launches, result>>
vars == <<row, ticket, call, late, history, faults>>

State == {"registered", "lease_acquired", "prepared", "side_effect_started", "terminal"}
Verdict == {"success", "failure", "indeterminate"}
\* "void" stands for rejected, changes_requested, expired and cancelled.
Status == {"none", "pending", "approved", "void"}
Record == [status : Status, claim : 0 .. MaxAttempts, consumed : BOOLEAN]
Unused == [status |-> "none", claim |-> 0, consumed |-> FALSE]

Kind == {"acquire", "prepared", "side_effect_started", "external-id", "settle",
         "create", "resolve", "consume"}
Request == [kind : Kind, token : Nat, claim : 0 .. MaxAttempts,
            approval : Approval \cup {None}, verdict : Verdict \cup {"none"}]

Step == {"idle", "acquire", "replay", "prepare", "read", "create", "reread",
         "resolve", "confirm", "bind", "check", "consume", "refused", "recheck", "start",
         "copy", "running", "identify", "settle", "resettle", "pause",
         "ended"}

\* Every field keeps its type.
LaunchTypeOK ==
    /\ state \in State
    /\ token \in Nat
    /\ lease \in 0 .. Ttl
    /\ outcome \in {"none"} \cup Verdict
    /\ bound \in Approval \cup {None}
    /\ approval \in [Approval -> Record]
    /\ saved \in [Approval -> Record]
    /\ issued \in 0 .. MaxApprovals
    /\ status \in {"executing", "guidance"}
    /\ claim \in 0 .. attempts
    /\ attempts \in 1 .. MaxAttempts
    /\ automatic \in BOOLEAN
    /\ pc \in [Call -> Step]
    /\ mine \in [Call -> 0 .. MaxAttempts]
    /\ held \in [Call -> Nat]
    /\ known \in [Call -> Approval \cup {None}]
    /\ using \in [Call -> Approval \cup {None}]
    /\ renewal \in [Call -> {"off", "on", "pending", "failed"}]
    /\ verdict \in [Call -> {"none"} \cup Verdict]
    /\ manner \in [Call -> {"none", "report", "decline", "pause"}]
    /\ answer \in [Call -> {"none", "completed", "failed"}]
    /\ late \subseteq Request
    /\ spent \subseteq Approval
    /\ launches \in Nat
    /\ result \in {"none", "success", "failure", "unknown"}
    /\ faults \in 0 .. MaxFaults

\* The benchmark agent was dispatched and has validated a run file.
Init ==
    /\ state = "registered" /\ token = 0 /\ lease = 0 /\ outcome = "none" /\ bound = None
    /\ approval = [a \in Approval |-> Unused]
    /\ saved = approval
    /\ issued = 0
    /\ status = "executing"
    /\ claim = 1
    /\ attempts = 1
    /\ automatic \in BOOLEAN
    /\ pc = [c \in Call |-> "idle"]
    /\ mine = [c \in Call |-> 0]
    /\ held = [c \in Call |-> 0]
    /\ known = [c \in Call |-> None]
    /\ using = [c \in Call |-> None]
    /\ renewal = [c \in Call |-> "off"]
    /\ verdict = [c \in Call |-> "none"]
    /\ manner = [c \in Call |-> "none"]
    /\ answer = [c \in Call |-> "none"]
    /\ late = {}
    /\ spent = {} /\ launches = 0 /\ result = "none"
    /\ faults = 0

Fault == faults < MaxFaults /\ faults' = faults + 1

-----------------------------------------------------------------------------
(* The state store: the operation registry *)

Holds(m) == token = m.token /\ lease > 0

AcquirableAfterLaunch == state # "terminal" /\ lease = 0
Acquirable == state \notin {"side_effect_started", "terminal"} /\ lease = 0

Follows(kind) ==
    \/ kind = "prepared" /\ state = "lease_acquired"
    \/ kind = "side_effect_started" /\ state = "prepared"
    \/ kind = "settle" /\ state \in {"lease_acquired", "prepared", "side_effect_started"}
    \/ kind = "external-id" /\ state # "terminal"

\* A new owner keeps the external ids of the one before.
Grant(m) ==
    /\ m.kind = "acquire"
    /\ Acquirable
    /\ state' = "lease_acquired"
    /\ token' = token + 1
    /\ lease' = Ttl
    /\ UNCHANGED <<outcome, bound>>

Advance(m) ==
    /\ m.kind \in {"prepared", "side_effect_started"}
    /\ Holds(m) /\ Follows(m.kind)
    /\ state' = m.kind
    /\ UNCHANGED <<token, lease, outcome, bound>>

\* attach_external_id; a run's own ids come with the approval's.
Attach(m) ==
    /\ m.kind = "external-id"
    /\ Holds(m) /\ Follows(m.kind)
    /\ bound' = m.approval
    /\ UNCHANGED <<state, token, lease, outcome>>

Conclude(m) ==
    /\ m.kind = "settle"
    /\ Holds(m) /\ Follows(m.kind)
    /\ state' = "terminal"
    /\ outcome' = m.verdict
    /\ lease' = 0
    /\ UNCHANGED <<token, bound>>

Registry(m) ==
    /\ Grant(m) \/ Advance(m) \/ Attach(m) \/ Conclude(m)
    /\ UNCHANGED <<approval, saved, issued, spent, faults>>

-----------------------------------------------------------------------------
(* The state store: approvals *)

Made == {a \in Approval : approval[a].status # "none"}

\* A request the same invocation has made and that is pending is made once.
Same(k) == {a \in Made : approval[a].status = "pending" /\ approval[a].claim = k}

\* _persist_ticket logs a failed write and goes on.
Save ==
    \/ saved' = approval' /\ UNCHANGED faults
    \/ approval' # approval /\ Fault /\ UNCHANGED saved

Put(a, record) == approval' = [approval EXCEPT ![a] = record]

\* create_approval_request, for the claim k in force; IDs run out at the bound.
Creatable(k) == k = claim /\ k # 0 /\ (Same(k) # {} \/ issued < MaxApprovals)
CreateFor(k) ==
    /\ Creatable(k)
    /\ IF Same(k) # {} THEN UNCHANGED issued /\ approval' = approval
       ELSE /\ issued' = issued + 1
            /\ Put(issued + 1, [status |-> "pending", claim |-> k, consumed |-> FALSE])

Resolvable(a) == approval[a].status = "pending"
ResolveAs(a, decision) ==
    /\ Resolvable(a)
    /\ Put(a, [approval[a] EXCEPT !.status = decision])
    /\ UNCHANGED issued

\* consume_approval_request: approved, not spent, and of the claim in force.
Consumable(a, k) ==
    /\ approval[a].status = "approved"
    /\ ~approval[a].consumed
    /\ approval[a].claim = k
    /\ claim = k

Create(m) == m.kind = "create" /\ CreateFor(m.claim) /\ UNCHANGED spent
Resolve(m) == m.kind = "resolve" /\ ResolveAs(m.approval, "approved") /\ UNCHANGED spent
Consume(m) ==
    /\ m.kind = "consume"
    /\ Consumable(m.approval, m.claim)
    /\ Put(m.approval, [approval[m.approval] EXCEPT !.consumed = TRUE])
    /\ spent' = spent \cup {m.approval}
    /\ UNCHANGED issued

Approvals(m) ==
    /\ Create(m) \/ Resolve(m) \/ Consume(m)
    /\ Save
    /\ UNCHANGED row

Accepts(m) ==
    CASE m.kind = "acquire" -> Acquirable
      [] m.kind = "create" -> Creatable(m.claim)
      [] m.kind = "resolve" -> Resolvable(m.approval)
      [] m.kind = "consume" -> Consumable(m.approval, m.claim)
      [] OTHER -> Holds(m) /\ Follows(m.kind)

Serve(m) ==
    /\ Registry(m) \/ Approvals(m)
    /\ UNCHANGED <<status, claim, attempts, automatic, launches, result>>

\* A request whose caller has given up is handled after all.
HandleLate ==
    /\ \E m \in late : Serve(m) /\ late' = late \ {m}
    /\ UNCHANGED call

PassTime ==
    /\ lease > 0
    /\ lease' = lease - 1
    /\ UNCHANGED <<state, token, outcome, bound, ticket, call, late, history, faults>>

StoreRestarts ==
    /\ saved # approval
    /\ approval' = saved
    /\ UNCHANGED <<row, saved, issued, status, claim, attempts, automatic, call, late, history, faults>>

-----------------------------------------------------------------------------
(* The ticket and its user *)

ticketRest == <<status, claim, attempts, automatic>>

\* present_runfile_for_approval, by the agent that has the claim; it then waits
\* for the decision.
RequestApproval ==
    /\ ~automatic
    /\ status = "executing"
    /\ Same(claim) = {}
    /\ CreateFor(claim)
    /\ Save
    /\ UNCHANGED <<row, ticketRest, call, late, history>>

\* The user's decision, or expiry, abort, supersession or a change of leader.
Decide(a) ==
    /\ \/ ~automatic /\ ResolveAs(a, "approved")
       \/ ResolveAs(a, "void")
    /\ Save
    /\ UNCHANGED <<row, ticketRest, call, late, history>>

LoseClaim ==
    /\ claim # 0
    /\ attempts < MaxAttempts
    /\ claim' = 0
    /\ UNCHANGED <<row, approval, saved, issued, status, attempts, automatic, call, late, history,
                   faults>>

\* The ticket is dispatched again, once the user has answered if it waits.
Dispatch ==
    /\ claim = 0
    /\ attempts < MaxAttempts
    /\ status' = "executing"
    /\ attempts' = attempts + 1
    /\ claim' = attempts + 1
    /\ UNCHANGED <<row, approval, saved, issued, automatic, call, late, history, faults>>

-----------------------------------------------------------------------------
(* execute_benchmark *)

\* A verdict counts only while the renewal of the lease goes well.
Due(c) == IF renewal[c] = "failed" THEN "indeterminate" ELSE verdict[c]

Ask(c, kind) ==
    [kind |-> kind, token |-> held[c], claim |-> mine[c], approval |-> using[c],
     verdict |-> IF kind = "settle" THEN Due(c) ELSE "none"]

Go(c, next) == pc' = [pc EXCEPT ![c] = next]

Local == UNCHANGED <<row, ticket, late, history, faults>>

\* The answers a request of c may get: done, refused, or none at all.
Done(c, kind) == Serve(Ask(c, kind)) /\ UNCHANGED late
Refused(c, kind) ==
    /\ ~Accepts(Ask(c, kind))
    /\ Local
Lost(c, kind) ==
    /\ Fault
    /\ late' = late \cup {Ask(c, kind)}
    /\ UNCHANGED <<row, ticket, history>>

\* A read of the store that gets no answer.
Unread == Fault /\ UNCHANGED <<row, ticket, late, history>>

\* What c knew goes with it, its renewal task included.
Forget(c) ==
    /\ mine' = [mine EXCEPT ![c] = 0]
    /\ held' = [held EXCEPT ![c] = 0]
    /\ known' = [known EXCEPT ![c] = None]
    /\ using' = [using EXCEPT ![c] = None]
    /\ renewal' = [renewal EXCEPT ![c] = "off"]
    /\ verdict' = [verdict EXCEPT ![c] = "none"]
    /\ manner' = [manner EXCEPT ![c] = "none"]

\* c leaves the operation as it is (close), and answers.
Report(c, reply) ==
    /\ Go(c, "ended")
    /\ Forget(c)
    /\ answer' = [answer EXCEPT ![c] = reply]

\* "rejected" or "indeterminate"
Quit(c) == Report(c, "none")

\* c is to record v and to go on in the manner `how` (terminalize).
ToRecord(c, v, how) ==
    /\ Go(c, "settle")
    /\ verdict' = [verdict EXCEPT ![c] = v]
    /\ manner' = [manner EXCEPT ![c] = how]
    /\ UNCHANGED <<mine, held, known, using, renewal, answer>>

Declines(c) == ToRecord(c, "failure", "decline")
Ambiguous(c) == ToRecord(c, "indeterminate", "pause")

OnlyGo(c, next) ==
    /\ Go(c, next)
    /\ UNCHANGED <<mine, held, known, using, renewal, verdict, manner, answer>>

\* The agent that has the claim calls the tool, with the ID of an approval a or
\* leaving it to make one.
Begin(c, a) ==
    /\ pc[c] = "idle"
    /\ status = "executing" /\ claim # 0
    /\ a = None => automatic
    /\ Go(c, "acquire")
    /\ mine' = [mine EXCEPT ![c] = claim]
    /\ using' = [using EXCEPT ![c] = a]
    /\ UNCHANGED <<held, known, renewal, verdict, manner, answer>>
    /\ Local

\* A call by an agent whose ticket has moved on is only told what is recorded.
BeginReplay(c) ==
    /\ pc[c] = "idle"
    /\ status # "executing" \/ claim # attempts \/ attempts > 1
    /\ OnlyGo(c, "replay")
    /\ Local

\* What the operation says of its run, if it is terminal.
Recorded ==
    CASE outcome = "success" -> "completed"
      [] outcome = "failure" -> "failed"
      [] OTHER -> "none"

Acquire(c) ==
    /\ pc[c] = "acquire"
    /\ \/ /\ Done(c, "acquire")
          /\ Go(c, "prepare")
          /\ held' = [held EXCEPT ![c] = token + 1]
          /\ known' = [known EXCEPT ![c] = bound]
          /\ renewal' = [renewal EXCEPT ![c] = "on"]
          /\ UNCHANGED <<mine, using, verdict, manner, answer>>
       \/ Refused(c, "acquire") /\ Report(c, Recorded)
       \/ Lost(c, "acquire") /\ Quit(c)

\* The ticket is not active: the operation is acquired to learn of a recorded
\* result, and left alone.
Replay(c) ==
    /\ pc[c] = "replay"
    /\ \/ Done(c, "acquire") /\ Quit(c)
       \/ Refused(c, "acquire") /\ Report(c, Recorded)
       \/ Lost(c, "acquire") /\ Quit(c)

\* Also declined if the run file drifted from its workload group, or misses
\* planned parameters.
Prepare(c) ==
    /\ pc[c] = "prepare"
    /\ \/ /\ Done(c, "prepared")
          /\ OnlyGo(c, IF using[c] = None THEN "read" ELSE "bind") \/ Declines(c)
       \/ Refused(c, "prepared") /\ Ambiguous(c)
       \/ Lost(c, "prepared") /\ Ambiguous(c)

\* What _autoconsume_runfile_approval makes of the ticket's approval a.
Reusable(c, a) ==
    /\ known[c] \in {None, a}
    /\ approval[a].claim = mine[c]
    /\ approval[a].status \in {"pending", "approved"}
    /\ approval[a].consumed => known[c] = a /\ approval[a].status = "approved"

GoesBy(c, a) ==
    /\ Go(c, IF approval[a].status = "pending" THEN "resolve" ELSE "bind")
    /\ using' = [using EXCEPT ![c] = a]
    /\ UNCHANGED <<mine, held, known, renewal, verdict, manner, answer>>

\* Exactly one automatic approval, fit to be used, or none.
TheOne(a) == Made = {a}
ReadExisting(c) ==
    /\ pc[c] = "read"
    /\ \/ /\ \/ \E a \in Approval : TheOne(a) /\ Reusable(c, a) /\ GoesBy(c, a)
             \/ Made = {} /\ known[c] = None /\ OnlyGo(c, "create")
             \/ Made = {} /\ known[c] # None /\ Quit(c)
             \/ /\ Made # {}
                /\ \A a \in Approval : ~(TheOne(a) /\ Reusable(c, a))
                /\ Declines(c)
          /\ Local
       \/ Unread /\ Quit(c)

\* The ID of the request is in the answer; an answer that does not come is
\* looked for on the ticket.
CreateApproval(c) ==
    /\ pc[c] = "create"
    /\ \/ /\ Done(c, "create")
          /\ Go(c, "resolve")
          /\ \E a \in Approval :
                /\ IF Same(mine[c]) # {} THEN a \in Same(mine[c]) ELSE a = issued'
                /\ using' = [using EXCEPT ![c] = a]
          /\ UNCHANGED <<mine, held, known, renewal, verdict, manner, answer>>
       \/ Refused(c, "create") /\ Declines(c)
       \/ Lost(c, "create") /\ OnlyGo(c, "reread")

ReadCreated(c) ==
    /\ pc[c] = "reread"
    /\ \/ /\ \/ \E a \in Approval : TheOne(a) /\ Reusable(c, a) /\ GoesBy(c, a)
             \/ /\ \A a \in Approval : ~(TheOne(a) /\ Reusable(c, a))
                /\ Quit(c)
          /\ Local
       \/ Unread /\ Quit(c)

ResolveApproval(c) ==
    /\ pc[c] = "resolve"
    /\ \/ Done(c, "resolve") /\ OnlyGo(c, "bind")
       \/ Refused(c, "resolve") /\ OnlyGo(c, "confirm")
       \/ Lost(c, "resolve") /\ OnlyGo(c, "confirm")

Confirm(c) ==
    /\ pc[c] = "confirm"
    /\ \/ /\ LET r == approval[using[c]]
             IN  IF r.status = "approved" /\ ~r.consumed /\ r.claim = mine[c]
                 THEN OnlyGo(c, "bind")
                 ELSE Quit(c)
          /\ Local
       \/ Unread /\ Quit(c)

\* The operation bears the ID of its approval before it is spent, and never
\* goes by another one.
BindOrNot(c) ==
    /\ pc[c] = "bind"
    /\ \/ known[c] = using[c] /\ OnlyGo(c, "check") /\ Local
       \/ known[c] \notin {None, using[c]} /\ Quit(c) /\ Local
       \/ /\ known[c] = None
          /\ \/ Done(c, "external-id")
             \/ Refused(c, "external-id")
             \/ Lost(c, "external-id")
          /\ OnlyGo(c, "consume")
Bind(c) ==
    /\ pc[c] = "bind"
    /\ \/ known[c] = using[c] /\ OnlyGo(c, "check") /\ Local
       \/ known[c] \notin {None, using[c]} /\ Quit(c) /\ Local
       \/ /\ known[c] = None
          /\ \/ Done(c, "external-id") /\ OnlyGo(c, "consume")
             \/ Refused(c, "external-id") /\ Quit(c)
             \/ Lost(c, "external-id") /\ Quit(c)

\* read_consumed
FoundApproved(c) ==
    LET r == approval[using[c]]
    IN  r.status = "approved" /\ r.claim = mine[c]
FoundSpent(c) ==
    LET r == approval[using[c]]
    IN  r.status = "approved" /\ r.consumed /\ r.claim = mine[c]

Check(c) ==
    /\ pc[c] = "check"
    /\ \/ OnlyGo(c, IF FoundSpent(c) THEN "start" ELSE "consume") /\ Local
       \/ Unread /\ Quit(c)

ConsumeApproval(c) ==
    /\ pc[c] = "consume"
    /\ \/ Done(c, "consume") /\ OnlyGo(c, "start")
       \/ Refused(c, "consume") /\ OnlyGo(c, "refused")
       \/ Lost(c, "consume") /\ OnlyGo(c, "recheck")

\* The read-back tells a spending of one's own from a refusal; what cannot be
\* told leaves the operation to be taken over.
Recheck(c) ==
    /\ pc[c] \in {"refused", "recheck"}
    /\ \/ /\ IF FoundSpent(c) THEN OnlyGo(c, "start")
             ELSE IF pc[c] = "refused" THEN Declines(c) ELSE Quit(c)
          /\ Local
       \/ Unread /\ Quit(c)

\* The launch boundary: from here on nobody takes the operation over.
Start(c) ==
    /\ pc[c] = "start"
    /\ \/ Done(c, "side_effect_started") /\ OnlyGo(c, "copy")
       \/ Refused(c, "side_effect_started") /\ Ambiguous(c)
       \/ Lost(c, "side_effect_started") /\ Ambiguous(c)

\* The run file is copied to the controller and the controller made ready, or
\* that fails, or nobody knows; then crucible is started.
Launch(c) ==
    /\ pc[c] = "copy"
    /\ \/ /\ OnlyGo(c, "running")
          /\ launches' = launches + 1
          /\ UNCHANGED <<row, ticket, late, spent, result, faults>>
       \/ (Declines(c) \/ Ambiguous(c)) /\ Local

\* With an exit code, a run id and a summary or none; or the connection broke.
RunEnds(c) ==
    /\ pc[c] = "running"
    /\ result' \in {"success", "failure", "unknown"}
    /\ IF result' = "unknown" THEN Ambiguous(c) ELSE OnlyGo(c, "identify")
    /\ UNCHANGED <<row, ticket, late, spent, launches, faults>>

\* The run's id is attached before its summary is read.
Identify(c) ==
    /\ pc[c] = "identify"
    /\ \/ /\ Done(c, "external-id")
          /\ ToRecord(c, result, "report") \/ Ambiguous(c)
       \/ Refused(c, "external-id") /\ Ambiguous(c)
       \/ Lost(c, "external-id") /\ Ambiguous(c)

\* Once recorded, or not, a call reports its run, is declined, or goes on to
\* have the ticket wait for a human.
Reported(c, recorded) ==
    CASE manner[c] = "decline" -> Quit(c)
      [] manner[c] = "pause" ->
            /\ Go(c, "pause")
            /\ renewal' = [renewal EXCEPT ![c] = "off"]
            /\ UNCHANGED <<mine, held, known, using, verdict, manner, answer>>
      [] OTHER ->
            Report(c, IF ~recorded THEN "none"
                      ELSE IF verdict[c] = "success" THEN "completed" ELSE "failed")

\* terminalize waits until a failed renewal is made good or given up, stops the
\* renewal, and records "indeterminate" if it was given up.
TerminalizeUnheard(c) ==
    /\ pc[c] = "settle"
    /\ renewal[c] # "pending"
    /\ Done(c, "settle") \/ Refused(c, "settle") \/ Lost(c, "settle")
    /\ Reported(c, renewal[c] # "failed")
Terminalize(c) ==
    /\ pc[c] = "settle"
    /\ renewal[c] # "pending"
    /\ \/ Done(c, "settle") /\ Reported(c, renewal[c] # "failed")
       \/ /\ Refused(c, "settle") \/ Lost(c, "settle")
          /\ IF Due(c) = "indeterminate" THEN Reported(c, FALSE)
             ELSE /\ Go(c, "resettle")
                  /\ renewal' = [renewal EXCEPT ![c] = "off"]
                  /\ verdict' = [verdict EXCEPT ![c] = "indeterminate"]
                  /\ UNCHANGED <<mine, held, known, using, manner, answer>>

\* A verdict that could not be recorded is recorded as indeterminate.
RecordIndeterminate(c) ==
    /\ pc[c] = "resettle"
    /\ Done(c, "settle") \/ Refused(c, "settle") \/ Lost(c, "settle")
    /\ Reported(c, FALSE)

\* pause_for_reconciliation sends no claim: the store takes it for a user's.
Pause(c) ==
    /\ pc[c] = "pause"
    /\ \/ status' = "guidance" /\ UNCHANGED faults
       \/ Fault /\ UNCHANGED status
    /\ Quit(c)
    /\ UNCHANGED <<row, approval, saved, issued, claim, attempts, automatic, late, history>>

Working(c) == pc[c] \notin {"idle", "ended"}

\* The benchmark MCP server dies; a run it started goes on unobserved.
Die(c) ==
    /\ Working(c)
    /\ Fault
    /\ Go(c, "ended")
    /\ Forget(c)
    /\ UNCHANGED <<answer, row, ticket, late, history>>

-----------------------------------------------------------------------------
(* The lease renewal of a call *)

Renewing(c) == renewal[c] \in {"on", "pending"}
Valid(c) == token = held[c] /\ lease > 0

Renewal(c, next) ==
    /\ renewal' = [renewal EXCEPT ![c] = next]
    /\ UNCHANGED <<pc, mine, held, known, using, verdict, manner, answer>>
    /\ UNCHANGED <<state, token, outcome, bound, ticket, late, history>>

RenewedOnTop(c) ==
    /\ Renewing(c) /\ Valid(c)
    /\ lease' = lease + Ttl
    /\ Renewal(c, "on")
    /\ UNCHANGED faults
Renewed(c) ==
    /\ Renewing(c) /\ Valid(c)
    /\ lease' = Ttl
    /\ Renewal(c, "on")
    /\ UNCHANGED faults

\* It could not be confirmed in time.  A renewal the store turns down needs no
\* step: the lease is gone, and all the call still asks for is turned down too.
RenewalFails(c) ==
    /\ renewal[c] = "pending"
    /\ Renewal(c, "failed")
    /\ UNCHANGED <<lease, faults>>

\* A renewal handled later than this leaves the lease as if less time had passed
\* before it, which PassTime may choose as well: it needs no step of its own.
RenewalUnanswered(c) ==
    /\ Renewing(c)
    /\ Fault
    /\ \/ lease' = Ttl /\ Valid(c)
       \/ UNCHANGED lease
    /\ Renewal(c, "pending")

Keep(c) == Renewed(c) \/ RenewalFails(c)

-----------------------------------------------------------------------------
Progress(c) ==
    \/ Acquire(c) \/ Replay(c) \/ Prepare(c)
    \/ ReadExisting(c) \/ CreateApproval(c) \/ ReadCreated(c)
    \/ ResolveApproval(c) \/ Confirm(c)
    \/ Bind(c) \/ Check(c) \/ ConsumeApproval(c) \/ Recheck(c)
    \/ Start(c) \/ Launch(c) \/ RunEnds(c) \/ Identify(c)
    \/ Terminalize(c) \/ RecordIndeterminate(c) \/ Pause(c)

Next ==
    \/ \E c \in Call :
          \/ \E a \in Made \cup {None} : Begin(c, a)
          \/ BeginReplay(c)
          \/ Progress(c)
          \/ Die(c)
          \/ Keep(c) \/ RenewalUnanswered(c)
    \/ RequestApproval
    \/ \E a \in Approval : Decide(a)
    \/ LoseClaim
    \/ Dispatch
    \/ HandleLate
    \/ PassTime
    \/ StoreRestarts

Spec == Init /\ [][Next]_vars

-----------------------------------------------------------------------------
(* Properties *)

\* The ID of an approval is on the operation before the approval is spent: a
\* call that takes the operation after a crash always finds what was spent.
ConsumptionIsTraceable == spent \subseteq {bound}

\* Types, and the trace a consumption leaves on the operation (server.py's
\* attach before consume).
LaunchInv == LaunchTypeOK /\ ConsumptionIsTraceable

\* Crucible is started by a call whose own claim spent the approval it goes by,
\* whatever was lost, retried, read back or forgotten by a restart in between.
LaunchIsAuthorised ==
    \A c \in Call : pc[c] = "copy" =>
        /\ using[c] \in spent
        /\ approval[using[c]].claim \in {0, mine[c]}

\* A call that answers "completed" answers of a run that succeeded, and whose
\* success is on record.
CompletedIsRecorded ==
    \A c \in Call : answer[c] = "completed" => outcome = "success" /\ result = "success"

\* Approvals and operation keep the promise of AuthorisedLaunch.
Authorised == INSTANCE AuthorisedLaunch WITH verdict <- outcome
ImplementsAuthorisedLaunch == Authorised!Spec
=============================================================================
