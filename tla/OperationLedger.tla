-------------------------- MODULE OperationLedger ---------------------------
(***************************************************************************)
(* One protected operation (execute_benchmark, reboot_hosts_and_verify): its *)
(* row in the registry of TraceStore, and the MCP servers that try to launch *)
(* it (MCPAuditMiddleware.on_call_tool).  A caller is one tool call: it      *)
(* acquires a lease with a new fencing token, records "prepared" and         *)
(* "side_effect_started", runs the tool under a lease it renews, and records *)
(* how it ended.  Every record is a call to the state store that may be      *)
(* handled late, after its caller gave up, and whose answer may be lost.     *)
(*                                                                           *)
(* The registry is SQLite and each call one transaction, so that a restart   *)
(* of the store loses no more than the calls on their way.  Reconciliation   *)
(* (TraceStore.reconcile) has no caller in the program and is left out, and  *)
(* so are request hashes: a key is used with one input here.                 *)
(***************************************************************************)
EXTENDS Naturals

CONSTANTS
    Caller,         \* tool calls that may want the operation
    Owner,          \* the service principal each of them authenticates as
    Ttl,            \* _OPERATION_LEASE_TTL_SECONDS
    MaxGeneration,  \* last fencing generation (2^63 - 1)
    MaxFaults       \* bound: timed out and lost calls, crashes

ASSUME LedgerAssumption ==
    /\ Ttl \in Nat \ {0}
    /\ MaxGeneration \in Nat
    /\ MaxFaults \in Nat

VARIABLES
    state, owner, generation, lease, outcome,  \* the row of the operation
    pc,        \* where each tool call is
    token,     \* the fencing token it was granted, 0 for none
    reply,     \* the store's answer it has not looked at yet
    verdict,   \* what it makes of its tool
    renewal,   \* its lease renewal task
    calls,     \* calls on their way to the store
    launches,  \* history: how often the tool was started
    result,    \* history: how the tool ended
    faults     \* faults that happened, at most MaxFaults

row == <<state, owner, generation, lease, outcome>>
caller == <<pc, token, reply, verdict, renewal>>
history == <<launches, result>>
vars == <<row, caller, calls, history, faults>>

State == {"registered", "lease_acquired", "prepared", "side_effect_started", "terminal"}
Verdict == {"success", "failure", "indeterminate"}
Waiting == {"acquiring", "preparing", "starting", "completing", "voiding"}
Kind == {"acquire", "prepared", "side_effect_started", "renew"} \cup Verdict
Call == [kind : Kind, caller : Caller, token : Nat, awaited : BOOLEAN]

\* Every field keeps its type.
LedgerTypeOK ==
    /\ state \in State
    /\ generation \in 0 .. MaxGeneration
    /\ lease \in 0 .. Ttl
    /\ outcome \in {"none"} \cup Verdict
    /\ pc \in [Caller -> {"idle", "running", "joining"} \cup Waiting]
    /\ token \in [Caller -> 0 .. MaxGeneration]
    /\ reply \in [Caller -> {"none", "ok", "no"}]
    /\ verdict \in [Caller -> {"none"} \cup Verdict]
    /\ renewal \in [Caller -> {"off", "on", "waiting", "failed"}]
    /\ calls \subseteq Call
    /\ launches \in Nat
    /\ result \in {"none", "success", "failure", "unknown"}
    /\ faults \in 0 .. MaxFaults

\* The first acquisition registers the row in the same critical section.
Init ==
    /\ state = "registered"
    /\ owner = "nobody"
    /\ generation = 0
    /\ lease = 0
    /\ outcome = "none"
    /\ pc = [c \in Caller |-> "idle"]
    /\ token = [c \in Caller |-> 0]
    /\ reply = [c \in Caller |-> "none"]
    /\ verdict = [c \in Caller |-> "none"]
    /\ renewal = [c \in Caller |-> "off"]
    /\ calls = {}
    /\ launches = 0
    /\ result = "none"
    /\ faults = 0

Fault == faults < MaxFaults /\ faults' = faults + 1

-----------------------------------------------------------------------------
\* The registry handles a call m.

Unexpired == lease > 0

HoldsByName(m) == owner = Owner[m.caller] /\ Unexpired
Holds(m) == owner = Owner[m.caller] /\ generation = m.token /\ Unexpired

\* _acquire_operation: the lease of an operation that was not launched may be
\* taken once it has run out, and the taker gets a new fencing token.
AcquirableWhenExpired ==
    state # "terminal" /\ ~Unexpired /\ generation < MaxGeneration
AcquirableTooOften ==
    /\ state \notin {"side_effect_started", "terminal"}
    /\ ~Unexpired
    /\ generation <= MaxGeneration
Acquirable ==
    /\ state \notin {"side_effect_started", "terminal"}
    /\ ~Unexpired
    /\ generation < MaxGeneration

\* The legal transitions.
Follows(kind) ==
    \/ kind = "prepared" /\ state = "lease_acquired"
    \/ kind = "side_effect_started" /\ state = "prepared"
    \/ kind \in Verdict /\ state \in {"lease_acquired", "prepared", "side_effect_started"}

Answer(m, answer) ==
    /\ calls' = calls \ {m}
    /\ reply' = IF m.awaited THEN [reply EXCEPT ![m.caller] = answer] ELSE reply

Grant(m) ==
    /\ m.kind = "acquire"
    /\ Acquirable
    /\ state' = "lease_acquired"
    /\ owner' = Owner[m.caller]
    /\ generation' = generation + 1
    /\ lease' = Ttl
    /\ token' = IF m.awaited THEN [token EXCEPT ![m.caller] = generation + 1] ELSE token
    /\ Answer(m, "ok")
    /\ UNCHANGED <<outcome, pc, verdict, renewal, history, faults>>

\* mark_prepared, mark_side_effect_started
Advance(m) ==
    /\ m.kind \in {"prepared", "side_effect_started"}
    /\ Holds(m)
    /\ Follows(m.kind)
    /\ state' = m.kind
    /\ Answer(m, "ok")
    /\ UNCHANGED <<owner, generation, lease, outcome, pc, token, verdict, renewal,
                   history, faults>>

\* complete, fail, mark_indeterminate
Settle(m) ==
    /\ m.kind \in Verdict
    /\ Holds(m)
    /\ Follows(m.kind)
    /\ state' = "terminal"
    /\ outcome' = m.kind
    /\ lease' = 0
    /\ Answer(m, "ok")
    /\ UNCHANGED <<owner, generation, pc, token, verdict, renewal, history, faults>>

Renew(m) ==
    /\ m.kind = "renew"
    /\ Holds(m)
    /\ lease' = Ttl
    /\ calls' = calls \ {m}
    /\ renewal' = IF m.awaited THEN [renewal EXCEPT ![m.caller] = "on"] ELSE renewal
    /\ UNCHANGED <<state, owner, generation, outcome, pc, token, reply, verdict,
                   history, faults>>

\* 409, a connection error, or a failed transaction.
TurnedDown(m) ==
    /\ IF m.kind = "renew"
       THEN /\ calls' = calls \ {m}
            /\ renewal' = IF m.awaited THEN [renewal EXCEPT ![m.caller] = "failed"]
                          ELSE renewal
            /\ UNCHANGED reply
       ELSE Answer(m, "no") /\ UNCHANGED renewal
    /\ UNCHANGED <<row, pc, token, verdict, history>>

Refuse(m) ==
    /\ CASE m.kind = "acquire" -> ~Acquirable
         [] m.kind = "renew" -> ~Holds(m)
         [] OTHER -> ~(Holds(m) /\ Follows(m.kind))
    /\ TurnedDown(m)
    /\ UNCHANGED faults

Lose(m) == Fault /\ TurnedDown(m)

Handle(m) ==
    \/ Grant(m)
    \/ Advance(m)
    \/ Settle(m)
    \/ Renew(m)
    \/ Refuse(m)

PassTime ==
    /\ lease > 0
    /\ lease' = lease - 1
    /\ UNCHANGED <<state, owner, generation, outcome, caller, calls, history, faults>>

-----------------------------------------------------------------------------
\* A tool call.  The registry client is synchronous: while it waits, nothing
\* else happens in the call, except for the renewal, which has a thread.

Request(kind, c) ==
    [kind |-> kind, caller |-> c, token |-> token[c], awaited |-> TRUE]

Orphan(m) ==
    [kind |-> m.kind, caller |-> m.caller, token |-> m.token, awaited |-> FALSE]

\* The calls in flight once nobody waits for those in S any more.
GivenUp(S) == (calls \ S) \cup {Orphan(m) : m \in S}

Awaited(c) == {m \in calls : m.caller = c /\ m.awaited}

\* c goes on to `next` and sends a call; with "idle" it has ended.
Send(c, next, kind) ==
    /\ pc' = [pc EXCEPT ![c] = next]
    /\ reply' = [reply EXCEPT ![c] = "none"]
    /\ calls' = GivenUp(Awaited(c)) \cup {Request(kind, c)}
    /\ UNCHANGED token

End(c) ==
    /\ pc' = [pc EXCEPT ![c] = "idle"]
    /\ reply' = [reply EXCEPT ![c] = "none"]
    /\ calls' = GivenUp(Awaited(c))
    /\ token' = [token EXCEPT ![c] = 0]

\* _protect_operation
Begin(c) ==
    /\ pc[c] = "idle"
    /\ Send(c, "acquiring", "acquire")
    /\ UNCHANGED <<row, verdict, renewal, history, faults>>

\* Only an acquired lease goes on; a terminal operation is answered with what
\* is recorded of it, a call delivered twice with an error that leaves the lease.
Rejected(c) ==
    /\ pc[c] = "acquiring"
    /\ reply[c] # "none"
    /\ End(c)
    /\ UNCHANGED <<row, verdict, renewal, history, faults>>

Prepare(c) ==
    /\ pc[c] = "acquiring"
    /\ reply[c] = "ok"
    /\ Send(c, "preparing", "prepared")
    /\ UNCHANGED <<row, verdict, renewal, history, faults>>

Start(c) ==
    /\ pc[c] = "preparing"
    /\ reply[c] = "ok"
    /\ Send(c, "starting", "side_effect_started")
    /\ UNCHANGED <<row, verdict, renewal, history, faults>>

LaunchUnheard(c) ==
    /\ pc[c] = "starting"
    /\ reply[c] # "none"
    /\ pc' = [pc EXCEPT ![c] = "running"]
    /\ reply' = [reply EXCEPT ![c] = "none"]
    /\ renewal' = [renewal EXCEPT ![c] = "on"]
    /\ launches' = launches + 1
    /\ UNCHANGED <<row, token, verdict, calls, result, faults>>

Launch(c) ==
    /\ pc[c] = "starting"
    /\ reply[c] = "ok"
    /\ pc' = [pc EXCEPT ![c] = "running"]
    /\ reply' = [reply EXCEPT ![c] = "none"]
    /\ renewal' = [renewal EXCEPT ![c] = "on"]
    /\ launches' = launches + 1
    /\ UNCHANGED <<row, token, verdict, calls, result, faults>>

\* "exception_after_start", also when nothing has started yet.
Abandon(c) ==
    /\ pc[c] \in {"preparing", "starting"}
    /\ reply[c] = "no"
    /\ Send(c, "voiding", "indeterminate")
    /\ UNCHANGED <<row, verdict, renewal, history, faults>>

\* _renew_operation_lease
SendRenewal(c) ==
    /\ pc[c] = "running"
    /\ renewal[c] = "on"
    /\ renewal' = [renewal EXCEPT ![c] = "waiting"]
    /\ calls' = calls \cup {Request("renew", c)}
    /\ UNCHANGED <<row, pc, token, reply, verdict, history, faults>>

RenewalTimesOut(c) ==
    /\ renewal[c] = "waiting"
    /\ Fault
    /\ renewal' = [renewal EXCEPT ![c] = "failed"]
    /\ calls' = GivenUp(Awaited(c))
    /\ UNCHANGED <<row, pc, token, reply, verdict, history>>

\* The tool returns a result, or an error, or it raises or is cancelled.
Return(c, v) ==
    /\ pc[c] = "running"
    /\ pc' = [pc EXCEPT ![c] = "joining"]
    /\ verdict' = [verdict EXCEPT ![c] = v]
    /\ result' = IF v = "indeterminate" THEN "unknown" ELSE v
    /\ UNCHANGED <<row, token, reply, renewal, calls, launches, faults>>

\* A cancellation while the renewal is joined is swallowed, and what the
\* renewal would have found is forgotten.
JoinCancelled(c) ==
    /\ pc[c] = "joining"
    /\ renewal[c] = "waiting"
    /\ renewal' = [renewal EXCEPT ![c] = "off"]
    /\ calls' = GivenUp(Awaited(c))
    /\ UNCHANGED <<row, pc, token, reply, verdict, history, faults>>

\* The terminal audit event goes first; if it cannot be delivered, or the lease
\* was not confirmed, the operation is recorded as indeterminate.
ConcludeConfirmed(c) ==
    /\ pc[c] = "joining"
    /\ renewal[c] \in {"on", "off"}
    /\ \/ verdict[c] # "indeterminate" /\ Send(c, "completing", verdict[c])
       \/ Send(c, "voiding", "indeterminate")
    /\ renewal' = [renewal EXCEPT ![c] = "off"]
    /\ UNCHANGED <<row, verdict, history, faults>>

ConcludeWell(c) ==
    /\ pc[c] = "joining"
    /\ renewal[c] # "waiting"
    /\ Send(c, "completing", "success")
    /\ renewal' = [renewal EXCEPT ![c] = "off"]
    /\ UNCHANGED <<row, verdict, history, faults>>

Conclude(c) ==
    /\ pc[c] = "joining"
    /\ renewal[c] # "waiting"
    /\ \/ /\ verdict[c] # "indeterminate"
          /\ renewal[c] # "failed"
          /\ Send(c, "completing", verdict[c])
       \/ Send(c, "voiding", "indeterminate")
    /\ renewal' = [renewal EXCEPT ![c] = "off"]
    /\ UNCHANGED <<row, verdict, history, faults>>

\* The result, or an error, goes back to the agent.
Respond(c) ==
    /\ pc[c] \in {"completing", "voiding"}
    /\ reply[c] # "none"
    /\ End(c)
    /\ UNCHANGED <<row, verdict, renewal, history, faults>>

\* The client gives up after its timeout, whether or not the call was handled.
TimesOut(c) ==
    /\ pc[c] \in Waiting
    /\ Fault
    /\ IF pc[c] \in {"preparing", "starting"}
       THEN Send(c, "voiding", "indeterminate")
       ELSE End(c)
    /\ UNCHANGED <<row, verdict, renewal, history>>

Crash(c) ==
    /\ pc[c] # "idle"
    /\ Fault
    /\ End(c)
    /\ renewal' = [renewal EXCEPT ![c] = "off"]
    /\ result' = IF pc[c] = "running" THEN "unknown" ELSE result
    /\ UNCHANGED <<row, verdict, launches>>

-----------------------------------------------------------------------------

ToolCall(c) ==
    \/ Begin(c)
    \/ Rejected(c)
    \/ Prepare(c)
    \/ Start(c)
    \/ Launch(c)
    \/ Abandon(c)
    \/ SendRenewal(c)
    \/ RenewalTimesOut(c)
    \/ \E v \in Verdict : Return(c, v)
    \/ JoinCancelled(c)
    \/ Conclude(c)
    \/ Respond(c)
    \/ TimesOut(c)
    \/ Crash(c)

Next ==
    \/ \E c \in Caller : ToolCall(c)
    \/ \E m \in calls : Handle(m) \/ Lose(m)
    \/ PassTime

Spec == Init /\ [][Next]_vars
-----------------------------------------------------------------------------
\* Safety.

\* From the answer that lets it launch until its tool has ended.
Committed(c) == (pc[c] = "starting" /\ reply[c] = "ok") \/ pc[c] \in {"running", "joining"}

\* While a tool runs, its operation is the one recorded as started, under the
\* token of the call that runs it: nobody takes the operation over, settles it
\* or answers others with a result, though the lease may run out under it
\* (transition_operation, "stale owner or fencing token").
HandlerOwnsOperation ==
    \A c \in Caller :
        Committed(c) =>
            /\ state = "side_effect_started"
            /\ owner = Owner[c]
            /\ generation = token[c]

\* A result goes back to the agent only once the registry holds the same result
\* for whoever asks again (on_call_tool: "Do not return a success/failure result
\* in that ambiguity").
ResultsAreRecorded ==
    \A c \in Caller :
        (pc[c] = "completing" /\ reply[c] = "ok") =>
            state = "terminal" /\ outcome = verdict[c]

\* The operation is launched at most once, settled once, and settled as a
\* success or a failure only if the tool ended that way ("callers must launch
\* only acquired", acquire_operation_result).
Promise ==
    INSTANCE AtMostOnce WITH
        launches <- launches,
        result <- result,
        verdict <- IF state = "terminal" THEN outcome ELSE "open"

ImplementsAtMostOnce == Promise!Spec

\* The inductive invariant behind these.
TokensAreIssued ==
    /\ \A c \in Caller : token[c] <= generation
    /\ \A m \in calls : m.token <= generation

\* A fencing token belongs to one call: no other holds it or speaks for it.
TokensAreUnique ==
    \A c \in Caller : token[c] # 0 =>
        /\ \A d \in Caller \ {c} : token[d] # token[c]
        /\ \A m \in calls : m.token = token[c] => m.caller = c

\* An awaited call is the one its caller is waiting for, with its token.
AwaitedIsCurrent ==
    \A m \in calls : m.awaited =>
        /\ m.kind = "acquire" => pc[m.caller] = "acquiring" /\ m.token = 0
        /\ m.kind = "prepared" => pc[m.caller] = "preparing"
        /\ m.kind = "side_effect_started" => pc[m.caller] = "starting"
        /\ m.kind \in {"success", "failure"} => pc[m.caller] = "completing"
        /\ m.kind = "indeterminate" => pc[m.caller] = "voiding"
        /\ m.kind = "renew" => renewal[m.caller] = "waiting"
        /\ m.kind # "renew" => reply[m.caller] = "none"
        /\ m.kind # "acquire" => m.token = token[m.caller]

\* Until its tool has ended, a call has not asked to settle its operation.
NotSettledEarly ==
    \A c \in Caller, m \in calls :
        (pc[c] \notin {"idle", "completing", "voiding"} /\ token[c] # 0
           /\ m.token = token[c])
        => m.kind \notin Verdict

\* A call holds a token from its grant to its end; a renewal belongs to a
\* running tool.
PhasesAgree ==
    \A c \in Caller :
        /\ pc[c] = "idle" => token[c] = 0
        /\ pc[c] = "acquiring" /\ reply[c] = "ok" => token[c] # 0
        /\ pc[c] \notin {"idle", "acquiring"} => token[c] # 0
        /\ renewal[c] = "waiting" => pc[c] \in {"running", "joining"}

LaunchesAreRecorded ==
    /\ launches <= 1
    /\ launches = 1 => state \in {"side_effect_started", "terminal"}
    /\ \A c \in Caller :
        /\ pc[c] = "starting" /\ reply[c] = "ok" => launches = 0
        /\ pc[c] = "running" => launches = 1 /\ result = "none"

\* Whatever is, or will be, recorded as success or failure is how the tool ended.
ResultsAreTrue ==
    /\ result # "none" => launches = 1
    /\ (state = "terminal") = (outcome # "none")
    /\ \A c \in Caller :
        pc[c] = "joining" =>
            /\ verdict[c] \in Verdict
            /\ result = IF verdict[c] = "indeterminate" THEN "unknown"
                        ELSE verdict[c]
    /\ \A c \in Caller :
        pc[c] = "completing" => result = verdict[c] /\ result \in {"success", "failure"}
    /\ \A m \in calls : m.kind \in {"success", "failure"} => result = m.kind

IInv ==
    /\ LedgerTypeOK
    /\ TokensAreIssued
    /\ TokensAreUnique
    /\ AwaitedIsCurrent
    /\ NotSettledEarly
    /\ PhasesAgree
    /\ HandlerOwnsOperation
    /\ LaunchesAreRecorded
    /\ ResultsAreTrue
    /\ ResultsAreRecorded
-----------------------------------------------------------------------------
\* Liveness.  The store answers, and the process of a tool call goes on; nothing
\* is assumed of the tool.

Fairness ==
    \A c \in Caller :
        /\ WF_vars(\E m \in calls : m.caller = c /\ m.awaited /\ Handle(m))
        /\ WF_vars(Rejected(c) \/ Prepare(c))
        /\ WF_vars(Start(c))
        /\ WF_vars(Launch(c))
        /\ WF_vars(Abandon(c))
        /\ WF_vars(Conclude(c))
        /\ WF_vars(Respond(c))

FairSpec == Spec /\ Fairness

\* A tool call does not hang in the registry: whatever is refused, lost or
\* late, it gets to run its tool or it ends.
CallsEnd ==
    \A c \in Caller : pc[c] \notin {"idle", "running"} ~> pc[c] \in {"idle", "running"}
=============================================================================
