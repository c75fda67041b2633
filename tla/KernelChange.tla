----------------------------- MODULE KernelChange -----------------------------
(***************************************************************************)
(* One provisioning step that asks for another kernel on the hosts of a      *)
(* ticket: the intents, approvals and the transition record that the state   *)
(* store keeps for it, and the calls of the kernel tools                     *)
(* (agents/provisioning/server.py) that install a package, select the boot   *)
(* entry, clean up the package repository, ask for the reboot and verify.    *)
(*                                                                           *)
(* A tool writes to the ticket before it writes to a host: an action is      *)
(* reserved on its intent, a cleanup on the transition record, and what the  *)
(* hosts answered is recorded afterwards.  A command whose SSH session broke *)
(* may still run, so what is on record as started or indeterminate blocks    *)
(* everything else on the step, for good.  Claims are those of TicketClaims; *)
(* an agent that lost its claim may leave calls behind that go on.           *)
(*                                                                           *)
(* A call that is turned down without any effect is not a step here.  A lost *)
(* answer is a request that is handled and a caller that dies.               *)
(***************************************************************************)
EXTENDS Naturals, FiniteSets

CONSTANTS
    Host,        \* the assigned hosts
    Call,        \* calls of the kernel tools
    MaxIntents,  \* bound: intents that are ever prepared
    MaxAttempts, \* bound: dispatches of the provisioning agent
    MaxFaults,   \* bound: calls whose process dies
    Inventories  \* the sets of actions an inventory may find to be required

ASSUME KernelAssumption ==
    /\ MaxIntents \in Nat
    /\ MaxAttempts \in Nat \ {0}
    /\ MaxFaults \in Nat
    /\ \A required \in Inventories :
          required \subseteq {"install", "select_default", "reboot"} /\ "reboot" \in required

Intent == 1 .. MaxIntents  \* in the order they are prepared
None == 0

VARIABLES
    status,     \* of the ticket: provisioning, waiting for its user, or past the step
    claim,      \* the claim in force, 0 when there is none
    attempts,   \* dispatches so far
    prepared,   \* intents prepared so far
    progress,   \* kernel_change_intents: how far each action of an intent is
    approval,   \* approval_requests: the latest one of each intent
    verified,   \* kernel_transitions: the hosts it says are verified
    cleanup,    \* and of the repository cleanup
    submitting, \* the claim whose agent has passed the gate of its completion
    op,         \* what each call is to do
    pc,         \* where it is
    mine,       \* the claim it was made under
    intent,     \* the intent it goes by
    fresh,      \* calls whose copy of the transition has the stored version
    seen,       \* what that copy says of the cleanup
    got,        \* what a call knows of each host
    commands,   \* the commands that may be running on a host
    ran,        \* history: hosts that were seen to run the kernel asked for since
                \* the last invalidation
    faults      \* calls that died, at most MaxFaults

ticket == <<status, claim, attempts, submitting>>
intents == <<prepared, progress, approval>>
transition == <<verified, cleanup, fresh>>
record == <<intents, transition, ran>>
call == <<op, pc, mine, intent, seen, got>>
vars == <<ticket, record, call, commands, faults>>

Action == {"install", "select_default", "reboot"}
Operation == Action \cup {"cleanup", "verify"}
\* "none": not one of the actions the intent requires.
Progress == {"none", "pending", "started", "done", "failed", "indeterminate"}
Cleanup == {"none", "started", "clean", "failed", "indeterminate"}
Answer == {"none", "running", "ok", "failed", "unknown"}
Step == {"idle", "reserve", "checkpoint", "run", "invalidate", "probe"}
Command == [host : Host, call : Call, op : Operation, intent : Intent \cup {None}]

\* Every field keeps its type.
KernelTypeOK ==
    /\ status \in {"awaiting_provision", "guidance", "done"}
    /\ attempts \in 1 .. MaxAttempts
    /\ claim \in 0 .. attempts
    /\ submitting \in {0, claim}
    /\ prepared \in 0 .. MaxIntents
    /\ progress \in [Intent -> [Action -> Progress]]
    /\ approval \in [Intent -> [status : {"none", "pending", "approved"},
                                claim : 0 .. MaxAttempts]]
    /\ verified \subseteq Host
    /\ cleanup \in Cleanup
    /\ op \in [Call -> Operation \cup {"none"}]
    /\ pc \in [Call -> Step]
    /\ mine \in [Call -> 0 .. MaxAttempts]
    /\ intent \in [Call -> Intent \cup {None}]
    /\ fresh \subseteq Call
    /\ seen \in [Call -> Cleanup]
    /\ got \in [Call -> [Host -> Answer]]
    /\ commands \subseteq Command
    /\ ran \subseteq Host
    /\ faults \in 0 .. MaxFaults

\* The agent was dispatched for the step; nothing is on record for it.
Init ==
    /\ status = "awaiting_provision"
    /\ claim = 1 /\ attempts = 1 /\ submitting = 0
    /\ prepared = 0
    /\ progress = [i \in Intent |-> [a \in Action |-> "none"]]
    /\ approval = [i \in Intent |-> [status |-> "none", claim |-> 0]]
    /\ verified = {}
    /\ cleanup = "none"
    /\ op = [c \in Call |-> "none"]
    /\ pc = [c \in Call |-> "idle"]
    /\ mine = [c \in Call |-> 0]
    /\ intent = [c \in Call |-> None]
    /\ fresh = {}
    /\ seen = [c \in Call |-> "none"]
    /\ got = [c \in Call |-> [h \in Host |-> "none"]]
    /\ commands = {}
    /\ ran = {}
    /\ faults = 0

-----------------------------------------------------------------------------
(* What the ticket says *)

Open == {"started", "indeterminate"}

\* unresolved_kernel_step_operation: work whose remote writer may be active, on
\* the cleanup or on one of the intents I.
Unresolved(I) ==
    \/ cleanup \in Open
    \/ \E i \in I, a \in Action : progress[i][a] \in Open

Before(a) == CASE a = "install" -> {}
               [] a = "select_default" -> {"install"}
               [] a = "reboot" -> {"install", "select_default"}

\* The fence of kernel_control, for a request under claim k.
Fenced(k) == k = claim /\ claim # 0

\* _validate_kernel_binding, for a write to intent i
BindingHoldsAnyhow(i) == status = "awaiting_provision"
BindingHolds(i) == status = "awaiting_provision" /\ ~Unresolved(Intent \ {i})

\* A paused ticket takes a transition that reports on its cleanup.
TransitionWritable(reported) ==
    \/ status = "awaiting_provision"
    \/ status = "guidance" /\ reported # "none"

AllVerified == verified = Host

-----------------------------------------------------------------------------
(* The ticket, its agents and its user *)

LoseClaimInPart ==
    /\ claim # 0
    /\ attempts < MaxAttempts
    /\ claim' = 0
    /\ UNCHANGED <<status, attempts, submitting, record, call, commands, faults>>
LoseClaim ==
    /\ claim # 0
    /\ attempts < MaxAttempts
    /\ claim' = 0
    /\ submitting' = 0
    /\ UNCHANGED <<status, attempts, record, call, commands, faults>>

Dispatch ==
    /\ claim = 0
    /\ attempts < MaxAttempts
    /\ status = "awaiting_provision"
    /\ attempts' = attempts + 1
    /\ claim' = attempts + 1
    /\ UNCHANGED <<status, submitting, record, call, commands, faults>>

\* The agent asks its user, or stops the step; a watchdog or the user stops it.
Pause ==
    /\ status = "awaiting_provision"
    /\ status' = "guidance"
    /\ UNCHANGED <<claim, attempts, submitting, record, call, commands, faults>>

UserReplies ==
    /\ status = "guidance"
    /\ status' = "awaiting_provision"
    /\ UNCHANGED <<claim, attempts, submitting, record, call, commands, faults>>

Agent == claim # 0 /\ submitting = 0 /\ status = "awaiting_provision"

\* prepare_kernel_change; what it finds unresolved, the store finds again when
\* the intent is written.  The inventory says which actions are required.
Prepare(required) ==
    /\ Agent
    /\ prepared < MaxIntents
    /\ BindingHolds(prepared + 1)
    /\ prepared' = prepared + 1
    /\ progress' = [progress EXCEPT ![prepared + 1] =
           [a \in Action |-> IF a \in required THEN "pending" ELSE "none"]]
    /\ UNCHANGED <<ticket, approval, transition, ran, call, commands, faults>>

\* _request_kernel_approval, under the claim in force
RequestApproval(i) ==
    /\ Agent
    /\ i <= prepared
    /\ approval[i].claim # claim
    /\ approval' = [approval EXCEPT ![i] = [status |-> "pending", claim |-> claim]]
    /\ UNCHANGED <<ticket, prepared, progress, transition, ran, call, commands, faults>>

\* The user's decision, or expiry, abort or a change of leader.
Decide(i, decision) ==
    /\ approval[i].status = "pending"
    /\ approval' = [approval EXCEPT ![i] =
           IF decision = "approved" THEN [status |-> "approved", claim |-> approval[i].claim]
                                    ELSE [status |-> "none", claim |-> 0]]
    /\ UNCHANGED <<ticket, prepared, progress, transition, ran, call, commands, faults>>

-----------------------------------------------------------------------------
(* The calls *)

Go(c, next) == pc' = [pc EXCEPT ![c] = next]
Mark(i, a, value) == progress' = [progress EXCEPT ![i] = [@ EXCEPT ![a] = value]]
Nothing == [h \in Host |-> "none"]
Of(c) == {r \in commands : r.call = c}

Begin(c, what, i, next) ==
    /\ pc[c] = "idle" /\ Of(c) = {}
    /\ Go(c, next)
    /\ op' = [op EXCEPT ![c] = what]
    /\ mine' = [mine EXCEPT ![c] = claim]
    /\ intent' = [intent EXCEPT ![c] = i]

\* The call returns, or its process dies.
Leave(c) ==
    /\ Go(c, "idle")
    /\ op' = [op EXCEPT ![c] = "none"]
    /\ mine' = [mine EXCEPT ![c] = 0]
    /\ intent' = [intent EXCEPT ![c] = None]
    /\ seen' = [seen EXCEPT ![c] = "none"]
    /\ got' = [got EXCEPT ![c] = Nothing]

\* A kernel approval is spent once for each action, in the order of actions,
\* and again for an action that has failed; never twice for a reboot.
Spendable(i, a) ==
    /\ approval[i].status = "approved" /\ approval[i].claim = claim
    /\ BindingHolds(i)
    /\ progress[i][a] \in (IF a = "reboot" THEN {"pending"} ELSE {"pending", "failed"})
    /\ \A b \in Before(a) : progress[i][b] \in {"none", "done"}

\* authorize_action up to the consumption of the approval, which reserves the
\* action on its intent in the same write.
Authorize(c, i, a) ==
    /\ Agent
    /\ Spendable(i, a)
    /\ Begin(c, a, i, "reserve")
    /\ Mark(i, a, "started")
    /\ UNCHANGED <<seen, got, ticket, prepared, approval, transition, ran, commands, faults>>

\* update_intent(progress, reserve_reboot) as the call goes on: it finds the
\* reboot no longer "pending", since its own consumption has marked it.
Reserve(c) ==
    /\ pc[c] = "reserve"
    /\ LET i == intent[c]
           a == op[c]
       IN  IF /\ a = "reboot" => progress[i][a] = "pending"
              /\ Fenced(mine[c]) /\ BindingHolds(i)
           THEN Mark(i, a, "started") /\ Go(c, "run") /\ UNCHANGED <<op, mine, intent, seen, got>>
           ELSE Leave(c) /\ UNCHANGED progress
    /\ UNCHANGED <<ticket, prepared, approval, transition, ran, commands, faults>>

\* run_repo_cleanup and verify_kernel_state read the ticket, and need nothing
\* unresolved on it.
ReadTransition(c, what, next) ==
    /\ claim # 0 /\ submitting = 0
    /\ status = "awaiting_provision" \/ (what = "cleanup" /\ status = "guidance")
    /\ ~Unresolved(Intent)
    /\ Begin(c, what, None, next)
    /\ fresh' = fresh \cup {c}
    /\ seen' = [seen EXCEPT ![c] = cleanup]
    /\ UNCHANGED <<got, ticket, intents, verified, cleanup, ran, commands, faults>>

\* kernel_control for the transition, with what it says of the cleanup: the
\* version must be the one that was read, and a cleanup starts when nothing is
\* unresolved, and ends when it has started.
StartsCleanly(reported) ==
    reported # cleanup =>
        IF reported = "started" THEN ~Unresolved(Intent) ELSE cleanup = "started"
AcceptsStale(c, reported) ==
    Fenced(mine[c]) /\ TransitionWritable(reported) /\ StartsCleanly(reported)
Accepts(c, reported) ==
    /\ Fenced(mine[c])
    /\ c \in fresh
    /\ TransitionWritable(reported)
    /\ StartsCleanly(reported)

\* Every write gives the transition a new version; c goes on from it.
Write(c, reported, hosts) ==
    /\ Accepts(c, reported)
    /\ cleanup' = reported
    /\ verified' = hosts
WriteOn(c, reported, hosts, next) ==
    /\ Write(c, reported, hosts)
    /\ fresh' = {c}
    /\ seen' = [seen EXCEPT ![c] = reported]
    /\ Go(c, next)
    /\ UNCHANGED <<op, mine, intent>>
WriteLast(c, reported, hosts) ==
    /\ Write(c, reported, hosts)
    /\ fresh' = {}
    /\ Leave(c)

TurnedDown(c, reported) ==
    /\ ~Accepts(c, reported)
    /\ Leave(c)
    /\ fresh' = fresh \ {c}
    /\ UNCHANGED <<verified, cleanup>>

\* The cleanup is reserved before its commands are sent.
Checkpoint(c) ==
    /\ pc[c] = "checkpoint"
    /\ \/ WriteOn(c, "started", verified, "run") /\ UNCHANGED got
       \/ TurnedDown(c, "started")
    /\ UNCHANGED <<ticket, intents, ran, commands, faults>>

-----------------------------------------------------------------------------
(* Commands on the hosts *)

Learn(c, h, answer) == got' = [got EXCEPT ![c] = [@ EXCEPT ![h] = answer]]
CommandOf(c, h) == [host |-> h, call |-> c, op |-> op[c], intent |-> intent[c]]

\* The command is sent, or is not needed, or the host was not reached first.
HostStarts(c, h) ==
    /\ pc[c] = "run"
    /\ got[c][h] = "none"
    /\ \/ /\ Learn(c, h, "running")
          /\ commands' = commands \cup {CommandOf(c, h)}
       \/ /\ Learn(c, h, "ok") \/ Learn(c, h, "failed")
          /\ UNCHANGED commands
    /\ UNCHANGED <<op, pc, mine, intent, seen, ticket, record, faults>>

\* With its exit code, or the SSH session broke or ran out of time.
HostAnswers(c, h) ==
    /\ pc[c] = "run"
    /\ got[c][h] = "running"
    /\ \/ /\ Learn(c, h, "ok") \/ Learn(c, h, "failed")
          /\ commands' = commands \ {CommandOf(c, h)}
       \/ Learn(c, h, "unknown") /\ UNCHANGED commands
    /\ UNCHANGED <<op, pc, mine, intent, seen, ticket, record, faults>>

\* A command nobody waits for comes to its end.
CommandEnds(c, h) ==
    /\ pc[c] # "run" \/ got[c][h] # "running"
    /\ \E r \in Of(c) : r.host = h /\ commands' = commands \ {r}
    /\ UNCHANGED <<call, ticket, record, faults>>

-----------------------------------------------------------------------------
(* Outcomes *)

Verdict(c, good) ==
    IF \A h \in Host : got[c][h] = "ok" THEN good
    ELSE IF \E h \in Host : got[c][h] = "unknown" THEN "indeterminate" ELSE "failed"

Answered(c) == pc[c] = "run" /\ \A h \in Host : got[c][h] \notin {"none", "running"}

\* The progress of the action, or the state of the cleanup, once all hosts have
\* answered; if it cannot be written, "started" stays.
RecordAction(c) ==
    /\ Answered(c) /\ op[c] \in Action
    /\ Leave(c)
    /\ IF Fenced(mine[c]) /\ BindingHolds(intent[c])
       THEN Mark(intent[c], op[c], Verdict(c, "done"))
       ELSE UNCHANGED progress
    /\ UNCHANGED <<ticket, prepared, approval, transition, ran, commands, faults>>

RecordCleanup(c) ==
    /\ Answered(c) /\ op[c] = "cleanup"
    /\ WriteLast(c, Verdict(c, "clean"), verified) \/ TurnedDown(c, Verdict(c, "clean"))
    /\ UNCHANGED <<ticket, intents, ran, commands, faults>>

-----------------------------------------------------------------------------
(* verify_kernel_state *)

\* What the transition is to say of the hosts, from what c has probed so far.
Known(c) == {h \in Host : got[c][h] = "ok"}

\* The whole set is invalidated before the first host is probed.
InvalidateMissing(c) ==
    /\ pc[c] = "invalidate"
    /\ \/ /\ WriteOn(c, seen[c], verified, "probe")
          /\ ran' = {}
          /\ UNCHANGED got
       \/ TurnedDown(c, seen[c]) /\ UNCHANGED ran
    /\ UNCHANGED <<ticket, intents, commands, faults>>
Invalidate(c) ==
    /\ pc[c] = "invalidate"
    /\ \/ /\ WriteOn(c, seen[c], {}, "probe")
          /\ ran' = {}
          /\ UNCHANGED got
       \/ TurnedDown(c, seen[c]) /\ UNCHANGED ran
    /\ UNCHANGED <<ticket, intents, commands, faults>>

\* The host runs the kernel asked for, runs another one, or what it runs does
\* not prove what was asked for (with the policy "always" a reboot does).
Probe(c, h) ==
    /\ pc[c] = "probe"
    /\ got[c][h] = "none"
    /\ \/ Learn(c, h, "ok") /\ ran' = ran \cup {h}
       \/ Learn(c, h, "failed") /\ UNCHANGED ran
    /\ UNCHANGED <<op, pc, mine, intent, seen, ticket, intents, transition, commands, faults>>

\* A host that does not answer is written down at once.
ProbeFails(c, h) ==
    /\ pc[c] = "probe"
    /\ got[c][h] = "none"
    /\ \/ /\ WriteOn(c, seen[c], Known(c), "probe")
          /\ Learn(c, h, "failed")
       \/ TurnedDown(c, seen[c])
    /\ UNCHANGED <<ticket, intents, ran, commands, faults>>

RecordVerification(c) ==
    /\ pc[c] = "probe"
    /\ \A h \in Host : got[c][h] # "none"
    /\ WriteLast(c, seen[c], Known(c)) \/ TurnedDown(c, seen[c])
    /\ UNCHANGED <<ticket, intents, ran, commands, faults>>

-----------------------------------------------------------------------------
(* The end of the step *)

\* unresolved_kernel_step_operation returns the first it finds, and the gate of
\* the completion lets one that is a reboot pass.
GateIsClear ==
    /\ cleanup \notin Open
    /\ \A i \in Intent, a \in Action \ {"reboot"} :
          progress[i][a] \in Open => \E j \in 1 .. i - 1 : progress[j]["reboot"] \in Open

\* _handle_completion reads the ticket when the agent's own calls have
\* returned, and the transition it then asks for is fenced.
GateOfEvidence == AllVerified
Gate == AllVerified /\ GateIsClear

Submit ==
    /\ Agent
    /\ \A c \in Call : mine[c] = claim => pc[c] = "idle"
    /\ Gate
    /\ submitting' = claim
    /\ UNCHANGED <<status, claim, attempts, record, call, commands, faults>>

Complete ==
    /\ submitting # 0
    /\ status = "awaiting_provision"
    /\ status' = "done"
    /\ UNCHANGED <<claim, attempts, submitting, record, call, commands, faults>>

\* The provisioning MCP server of a call dies; its commands go on.
Die(c) ==
    /\ pc[c] # "idle"
    /\ faults < MaxFaults
    /\ faults' = faults + 1
    /\ Leave(c)
    /\ fresh' = fresh \ {c}
    /\ UNCHANGED <<ticket, intents, verified, cleanup, ran, commands>>

-----------------------------------------------------------------------------
ActionCall(c) ==
    \/ \E i \in Intent, a \in Action : Authorize(c, i, a)
    \/ Reserve(c)
    \/ RecordAction(c)

TransitionCall(c) ==
    \/ ReadTransition(c, "cleanup", "checkpoint")
    \/ ReadTransition(c, "verify", "invalidate")
    \/ Checkpoint(c)
    \/ RecordCleanup(c)
    \/ Invalidate(c)
    \/ RecordVerification(c)

OnHost(c, h) ==
    \/ HostStarts(c, h) \/ HostAnswers(c, h) \/ CommandEnds(c, h)
    \/ Probe(c, h) \/ ProbeFails(c, h)

Next ==
    \/ \E c \in Call : ActionCall(c) \/ TransitionCall(c) \/ Die(c)
    \/ \E c \in Call, h \in Host : OnHost(c, h)
    \/ \E required \in Inventories : Prepare(required)
    \/ \E i \in Intent : RequestApproval(i)
    \/ \E i \in Intent, decision \in {"approved", "none"} : Decide(i, decision)
    \/ LoseClaim \/ Dispatch
    \/ Pause \/ UserReplies
    \/ Submit \/ Complete

Spec == Init /\ [][Next]_vars

-----------------------------------------------------------------------------
(* Properties *)

\* What the ticket says of the work a command is part of.
OnRecord(r) == IF r.op = "cleanup" THEN cleanup ELSE progress[r.intent][r.op]

\* A command that may still run on a host is on record as started or
\* indeterminate, whatever was lost, whoever died and whose claim it was.
CommandsAreOnRecord == \A r \in commands : OnRecord(r) \in Open

\* Two commands never change the same host at the same time.
OneWriterPerHost == \A r, q \in commands : r.host = q.host => r = q

\* All hosts are on record as verified only if each of them was seen to run the
\* kernel since the whole set was last invalidated, so never by a probe that
\* went on while another verification began.
VerifiedRanKernel == AllVerified => ran = Host

\* When the plan goes on no command may be running on a host.
CompletedIsQuiet == status = "done" => commands = {}

-----------------------------------------------------------------------------
(* The inductive invariant behind these *)

\* An action is begun when its intent is prepared and those before it are done.
ActionsInOrder ==
    \A i \in Intent, a \in Action :
        /\ i > prepared => progress[i][a] = "none"
        /\ progress[i][a] \notin {"none", "pending"} =>
              \A b \in Before(a) : progress[i][b] \in {"none", "done"}

\* At most one piece of work is open.
OneIsOpen ==
    /\ \A i, j \in Intent, a, b \in Action :
          progress[i][a] \in Open /\ progress[j][b] \in Open => i = j /\ a = b
    /\ cleanup \in Open => \A i \in Intent, a \in Action : progress[i][a] \notin Open

\* The phases of a call belong to what it does.
CallsAgree ==
    \A c \in Call :
        /\ pc[c] = "reserve" => op[c] \in Action /\ intent[c] \in Intent
        /\ pc[c] = "run" =>
              \/ op[c] \in Action \ {"reboot"} /\ intent[c] \in Intent
              \/ op[c] = "cleanup"
        /\ pc[c] = "checkpoint" => op[c] = "cleanup" /\ seen[c] \notin Open
        /\ pc[c] \in {"invalidate", "probe"} => op[c] = "verify"
        /\ pc[c] \notin {"run", "probe"} => got[c] = Nothing

\* What a fresh copy says of the cleanup is what the ticket says.
CopiesAgree ==
    \A c \in fresh :
        /\ pc[c] \in {"checkpoint", "invalidate", "probe", "run"}
        /\ op[c] \in {"cleanup", "verify"}
        /\ seen[c] = cleanup
        /\ pc[c] = "probe" => Known(c) \subseteq ran

\* The call that has reserved the open work, until it leaves.
Owns(c) == pc[c] \in {"reserve", "run"}

OwnerIsOnRecord ==
    /\ \A c \in Call : Owns(c) => OnRecord([op |-> op[c], intent |-> intent[c]]) = "started"
    /\ \A c, d \in Call : Owns(c) /\ Owns(d) => c = d

\* All commands are of one piece of work, and of its owner while that is there;
\* the owner knows of each that it may be running.
CommandsAgree ==
    /\ \A r \in commands :
          \/ r.op = "cleanup"
          \/ r.op \in Action \ {"reboot"} /\ r.intent \in Intent
    /\ \A r, q \in commands : r.call = q.call /\ r.op = q.op /\ r.intent = q.intent
    /\ \A c \in Call, r \in commands : Owns(c) =>
          /\ pc[c] = "run" /\ r = CommandOf(c, r.host)
          /\ got[c][r.host] \in {"running", "unknown"}

\* Once its completion is submitted nothing runs or begins to run on a host.
CompletionIsQuiet ==
    /\ submitting # 0 \/ status = "done" =>
          commands = {} /\ \A c \in Call : pc[c] # "run"
    /\ submitting # 0 => \A c \in Call : pc[c] \in {"reserve", "checkpoint"} => mine[c] # claim

IInv ==
    /\ KernelTypeOK
    /\ ActionsInOrder
    /\ OneIsOpen
    /\ CallsAgree
    /\ CopiesAgree
    /\ verified \subseteq ran
    /\ OwnerIsOnRecord
    /\ CommandsAreOnRecord
    /\ CommandsAgree
    /\ CompletionIsQuiet
-----------------------------------------------------------------------------
(* What a comment says and the code does not do *)

\* authorize_action (kernel.py:504) says that a reserved reboot is left unsent
\* only by a crash: so a call that is in order sends it.
ReservedRebootIsSent ==
    [][\A c \in Call :
          (/\ pc[c] = "reserve" /\ op[c] = "reboot"
           /\ Fenced(mine[c]) /\ BindingHolds(intent[c]) /\ pc'[c] = "idle")
          => faults' # faults]_vars
=============================================================================
