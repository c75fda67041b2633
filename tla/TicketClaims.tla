---------------------------- MODULE TicketClaims ----------------------------
(***************************************************************************)
(* One ticket, the claim in its custom fields, and the orchestrators that    *)
(* dispatch agents for it: claim_ticket, renew_claim, release_claim and the  *)
(* write fences of TicketStore, against the Dispatcher's claim, renewal,     *)
(* cleanup and deposal paths.  The store's lock makes the claims of          *)
(* different tickets independent; what ties them together, mark_deposed      *)
(* stopping every agent of a process, is LeaseLost and RenewalFails here.    *)
(*                                                                           *)
(* The leader lease is OrchestratorLease, its calls taken as single steps    *)
(* (LeaderLease has their delays).  Calls about the ticket are in `calls`    *)
(* from the moment they are sent; a caller that gives up leaves its call     *)
(* behind, and the store may still handle it.  A restart of the store resets *)
(* the connections and so drops them.                                        *)
(***************************************************************************)
EXTENDS OrchestratorLease, FiniteSets

CONSTANTS
    ClaimTtl,   \* lease_seconds of the Dispatcher, duration of a claim
    NoClaim,    \* custom_fields without a "claim"
    MaxClaims,  \* bound: claims granted
    MaxCalls,   \* bound: agent and recovery writes in flight
    MaxFaults   \* bound: timed out calls, failed writes

ASSUME ClaimAssumption ==
    /\ ClaimTtl \in Nat \ {0}
    /\ MaxClaims \in Nat
    /\ MaxCalls \in Nat
    /\ MaxFaults \in Nat

\* claim_id is a random UUID: new each time, numbered here in order of issue.
ClaimId == 1 .. MaxClaims
Claim == [id : ClaimId, session : Session, epoch : Epoch, left : 0 .. ClaimTtl]

ASSUME NoClaimAssumption == NoClaim \notin Claim

VARIABLES
    claim,      \* the ticket's claim in memory
    claimFile,  \* the ticket's claim on disk
    issued,     \* claims granted so far
    recovered,  \* history: claims granted before the last recovery the ticket had
    recoveredFile, \* the same of the ticket on disk
    up,         \* where each orchestrator process is
    cred,       \* Dispatcher._fencing_epoch, 0 before the lease is acquired
    lost,       \* Dispatcher._claim_lost
    stage,      \* what the process is doing about the ticket
    held,       \* Dispatcher._claim_ids[ticket], 0 for none
    calls,      \* calls on their way to the store, and refusals on their way back
    written,    \* history: the claim of the last agent write the store accepted
    faults      \* faults that happened, at most MaxFaults

claimVars == <<claim, claimFile, issued, recovered, recoveredFile>>
processVars == <<up, cred, lost>>
jobVars == <<stage, held>>
vars == <<leaseVars, claimVars, processVars, jobVars, calls, written, faults>>

Up == {"starting", "leading", "losing", "draining", "gone"}
Stage == {"idle", "claiming", "running", "unwinding", "releasing"}
Kind == {"claim", "renew", "release", "write", "recover", "refusal"}

\* A call carries the session, the epoch and, unless it is a claim or a
\* leader-scoped recovery, the claim it speaks for.
CallRecord == [kind : Kind, session : Session, epoch : Nat,
               claim : 0 .. MaxClaims, awaited : BOOLEAN]

\* Every field keeps its type.
TypeOK ==
    /\ LeaseTypeOK
    /\ claim \in Claim \cup {NoClaim}
    /\ claimFile \in Claim \cup {NoClaim}
    /\ issued \in 0 .. MaxClaims
    /\ recovered \in 0 .. MaxClaims
    /\ recoveredFile \in 0 .. MaxClaims
    /\ up \in [Session -> Up]
    /\ cred \in [Session -> Nat]
    /\ lost \in [Session -> BOOLEAN]
    /\ stage \in [Session -> Stage]
    /\ held \in [Session -> 0 .. MaxClaims]
    /\ calls \subseteq CallRecord
    /\ written \in 0 .. MaxClaims
    /\ faults \in 0 .. MaxFaults

Init ==
    /\ LeaseInit
    /\ claim = NoClaim
    /\ claimFile = NoClaim
    /\ issued = 0
    /\ recovered = 0
    /\ recoveredFile = 0
    /\ up = [s \in Session |-> "starting"]
    /\ cred = [s \in Session |-> 0]
    /\ lost = [s \in Session |-> FALSE]
    /\ stage = [s \in Session |-> "idle"]
    /\ held = [s \in Session |-> 0]
    /\ calls = {}
    /\ written = 0
    /\ faults = 0

Fault == faults < MaxFaults /\ faults' = faults + 1

-----------------------------------------------------------------------------
\* The store's fences.

ClaimLive(c) == c # NoClaim /\ c.left > 0

\* _validate_claim_fence: the caller holds the live lease.
Fenced(m) == RenewAdmitted(m.session, m.epoch)

\* _validate_ticket_claim, and _validate_claim_owner on a claim still live.
MatchesSession(m) ==
    ClaimLive(claim) /\ claim.session = m.session /\ claim.epoch = m.epoch
Matches(m) ==
    /\ ClaimLive(claim)
    /\ claim.session = m.session
    /\ claim.epoch = m.epoch
    /\ claim.id = m.claim

ClaimAdmitted(m) ==
    Fenced(m) /\ (ClaimLive(claim) => claim.session = m.session)

WriteAdmitted(m) == Fenced(m) /\ Matches(m)

\* _validate_mutation_fence with leader_only: a live claim of the leader itself
\* must finish first; a claim of any other session is fenced by the lease.
RecoverAdmitted(m) ==
    /\ Fenced(m)
    /\ ~(ClaimLive(claim) /\ claim.session = m.session /\ claim.epoch = m.epoch)

\* _persist_ticket saves the whole ticket, or an OSError is logged and swallowed
\* and the memory runs ahead of the file.
Persist(c) ==
    \/ claimFile' = c /\ recoveredFile' = recovered' /\ UNCHANGED faults
    \/ Fault /\ UNCHANGED <<claimFile, recoveredFile>>

-----------------------------------------------------------------------------
\* Calls.

Call(kind, s, c) ==
    [kind |-> kind, session |-> s, epoch |-> cred[s], claim |-> c, awaited |-> TRUE]

Orphan(m) ==
    [kind |-> m.kind, session |-> m.session, epoch |-> m.epoch,
     claim |-> m.claim, awaited |-> FALSE]

Send(m) == m \notin calls /\ calls' = calls \cup {m}

Writes == {m \in calls : m.kind \in {"write", "recover"}}

\* Writes nobody waits for any more are bounded in number.
SendWrite(m) == Cardinality(Writes) < MaxCalls /\ Send(m)

Awaits(s, kind) ==
    \E m \in calls : m.session = s /\ m.kind = kind /\ m.awaited

\* The caller stops waiting for its call of this kind.
GiveUp(s, kind) ==
    calls' = {IF m.session = s /\ m.kind = kind THEN Orphan(m) ELSE m : m \in calls}

\* try_claim is a synchronous call: nothing else happens in the process until
\* it returns.
Awake(s) == up[s] \in {"leading", "losing", "draining"} /\ stage[s] # "claiming"

\* mark_deposed: the agent is cancelled, and so is its claim renewal.
Cancelled(s) ==
    IF stage[s] = "running" THEN [stage EXCEPT ![s] = "unwinding"] ELSE stage

Depose(s) ==
    /\ lost' = [lost EXCEPT ![s] = TRUE]
    /\ stage' = Cancelled(s)

-----------------------------------------------------------------------------
\* The process and its leader lease.

LeaderStarts(s) ==
    /\ up[s] = "starting"
    /\ AcquireLease(s)
    /\ up' = [up EXCEPT ![s] = "leading"]
    /\ cred' = [cred EXCEPT ![s] = lease'.epoch]
    /\ UNCHANGED <<claimVars, lost, jobVars, calls, written, faults>>

LeaderRenews(s) ==
    /\ up[s] \in {"leading", "draining"}
    /\ Awake(s)
    /\ RenewLease(s, cred[s])
    /\ UNCHANGED <<claimVars, processVars, jobVars, calls, written, faults>>

\* The lease renewal loop gives up: agents are cancelled and the lease is
\* released at once, if the store can be reached; the poll loop notices later.
LetLeaseGo(s) == ReleaseLease(s, cred[s]) \/ UNCHANGED leaseVars

LeaseLost(s) ==
    /\ up[s] = "leading"
    /\ Awake(s)
    /\ up' = [up EXCEPT ![s] = "losing"]
    /\ Depose(s)
    /\ LetLeaseGo(s)
    /\ UNCHANGED <<claimVars, cred, held, calls, written, faults>>

\* Orderly shut-down: agents are cancelled and drained before the lease goes.
Drain(s) ==
    /\ up[s] \in {"leading", "losing"}
    /\ Awake(s)
    /\ up' = [up EXCEPT ![s] = "draining"]
    /\ stage' = Cancelled(s)
    /\ UNCHANGED <<leaseVars, claimVars, cred, lost, held, calls, written, faults>>

Leave(s) ==
    /\ up[s] = "draining"
    /\ stage[s] = "idle"
    /\ up' = [up EXCEPT ![s] = "gone"]
    /\ LetLeaseGo(s)
    /\ UNCHANGED <<claimVars, cred, lost, jobVars, calls, written, faults>>

Crash(s) ==
    /\ up[s] # "gone"
    /\ up' = [up EXCEPT ![s] = "gone"]
    /\ stage' = [stage EXCEPT ![s] = "idle"]
    /\ held' = [held EXCEPT ![s] = 0]
    /\ calls' = {IF m.session = s THEN Orphan(m) ELSE m :
                     m \in {n \in calls : ~(n.session = s /\ n.kind = "refusal")}}
    /\ UNCHANGED <<leaseVars, claimVars, cred, lost, written, faults>>

-----------------------------------------------------------------------------
\* Dispatching an agent: the poll loop, the agent, its renewal loop.

Polling(s) == up[s] \in {"leading", "losing"} /\ stage[s] = "idle"

TryClaim(s) ==
    /\ Polling(s)
    /\ Send(Call("claim", s, 0))
    /\ stage' = [stage EXCEPT ![s] = "claiming"]
    /\ UNCHANGED <<leaseVars, claimVars, processVars, held, written, faults>>

ClaimTimesOut(s) ==
    /\ stage[s] = "claiming"
    /\ Fault
    /\ GiveUp(s, "claim")
    /\ stage' = [stage EXCEPT ![s] = "idle"]
    /\ UNCHANGED <<leaseVars, claimVars, processVars, held, written>>

\* The poll loop's own writes to a ticket without an active agent, and those of
\* an agent cancelled for a lost claim, are leader-scoped.
SendRecovery(s) ==
    /\ Polling(s) \/ (Awake(s) /\ stage[s] = "unwinding" /\ lost[s])
    /\ SendWrite(Orphan(Call("recover", s, 0)))
    /\ UNCHANGED <<leaseVars, claimVars, processVars, jobVars, written, faults>>

AgentWrites(s) ==
    /\ Awake(s)
    /\ stage[s] = "running" \/ (stage[s] = "unwinding" /\ ~lost[s])
    /\ SendWrite(Orphan(Call("write", s, held[s])))
    /\ UNCHANGED <<leaseVars, claimVars, processVars, jobVars, written, faults>>

SendRenewal(s) ==
    /\ Awake(s)
    /\ stage[s] = "running"
    /\ ~Awaits(s, "renew")
    /\ ~Awaits(s, "refusal")
    /\ Send(Call("renew", s, held[s]))
    /\ UNCHANGED <<leaseVars, claimVars, processVars, jobVars, written, faults>>

\* A failed renewal, whatever the reason, deposes the whole process; a refusal
\* that finds its agent finished is dropped with the renewal task.
RenewalFailureIgnored(s) ==
    /\ Awake(s)
    /\ \E m \in calls :
        /\ m.kind = "refusal" /\ m.session = s
        /\ calls' = calls \ {m}
    /\ UNCHANGED <<leaseVars, claimVars, processVars, jobVars, written, faults>>

RenewalFails(s) ==
    /\ Awake(s)
    /\ \E m \in calls :
        /\ m.kind = "refusal" /\ m.session = s
        /\ calls' = calls \ {m}
    /\ Depose(s)
    /\ UNCHANGED <<leaseVars, claimVars, up, cred, held, written, faults>>

RenewalTimesOut(s) ==
    /\ Awake(s)
    /\ stage[s] = "running"
    /\ Awaits(s, "renew")
    /\ Fault
    /\ GiveUp(s, "renew")
    /\ Depose(s)
    /\ UNCHANGED <<leaseVars, claimVars, up, cred, held, written>>

\* The agent ends: done, failed, timed out or stopped by its user.
AgentEnds(s) ==
    /\ Awake(s)
    /\ stage[s] = "running"
    /\ stage' = [stage EXCEPT ![s] = "unwinding"]
    /\ UNCHANGED <<leaseVars, claimVars, processVars, held, calls, written, faults>>

\* _mark_done: the renewal loop is stopped, then the claim is released.
CleanUp(s) ==
    /\ Awake(s)
    /\ stage[s] = "unwinding"
    /\ stage' = [stage EXCEPT ![s] = "releasing"]
    /\ calls' = {IF m.session = s /\ m.kind = "renew" THEN Orphan(m) ELSE m :
                     m \in {n \in calls : ~(n.session = s /\ n.kind = "refusal")}}
                \cup {Call("release", s, held[s])}
    /\ UNCHANGED <<leaseVars, claimVars, processVars, held, written, faults>>

ReleaseTimesOut(s) ==
    /\ stage[s] = "releasing"
    /\ Fault
    /\ GiveUp(s, "release")
    /\ stage' = [stage EXCEPT ![s] = "idle"]
    /\ held' = [held EXCEPT ![s] = 0]
    /\ UNCHANGED <<leaseVars, claimVars, processVars, written>>

-----------------------------------------------------------------------------
\* The store handles a call.

Done(m) == calls' = calls \ {m}

GrantClaim(m) ==
    /\ m.kind = "claim"
    /\ ClaimAdmitted(m)
    /\ issued < MaxClaims
    /\ issued' = issued + 1
    /\ claim' = [id |-> issued + 1, session |-> m.session, epoch |-> m.epoch,
                 left |-> ClaimTtl]
    /\ UNCHANGED recovered
    /\ Persist(claim')
    /\ Done(m)
    /\ IF m.awaited
       THEN /\ stage' = [stage EXCEPT ![m.session] = "running"]
            /\ held' = [held EXCEPT ![m.session] = issued + 1]
       ELSE UNCHANGED jobVars
    /\ UNCHANGED <<leaseVars, processVars, written>>

RefuseClaim(m) ==
    /\ m.kind = "claim"
    /\ ~ClaimAdmitted(m) \/ issued = MaxClaims
    /\ Done(m)
    /\ stage' = IF m.awaited THEN [stage EXCEPT ![m.session] = "idle"] ELSE stage
    /\ UNCHANGED <<leaseVars, claimVars, processVars, held, written, faults>>

Renews(m, c) ==
    /\ m.kind = "renew"
    /\ Fenced(m)
    /\ claim' = c
    /\ UNCHANGED recovered
    /\ Persist(c)
    /\ Done(m)
    /\ UNCHANGED <<leaseVars, issued, processVars, jobVars, written>>

RenewTakesOver(m) ==
    /\ MatchesSession(m)
    /\ Renews(m, [claim EXCEPT !.id = m.claim, !.left = ClaimTtl])

RenewRevives(m) ==
    /\ claim # NoClaim
    /\ claim.id = m.claim
    /\ Renews(m, [claim EXCEPT !.left = ClaimTtl])

RenewClaim(m) == Matches(m) /\ Renews(m, [claim EXCEPT !.left = ClaimTtl])

Refusal(m) ==
    [kind |-> "refusal", session |-> m.session, epoch |-> m.epoch,
     claim |-> m.claim, awaited |-> TRUE]

RefuseRenewal(m) ==
    /\ m.kind = "renew"
    /\ ~WriteAdmitted(m)
    /\ calls' = (calls \ {m}) \cup (IF m.awaited THEN {Refusal(m)} ELSE {})
    /\ UNCHANGED <<leaseVars, claimVars, processVars, jobVars, written, faults>>

ReleaseClaim(m) ==
    /\ m.kind = "release"
    /\ UNCHANGED recovered
    /\ \/ WriteAdmitted(m) /\ claim' = NoClaim /\ Persist(NoClaim)
       \/ ~WriteAdmitted(m) /\ UNCHANGED <<claim, claimFile, recoveredFile, faults>>
    /\ Done(m)
    /\ IF m.awaited
       THEN /\ stage' = [stage EXCEPT ![m.session] = "idle"]
            /\ held' = [held EXCEPT ![m.session] = 0]
       ELSE UNCHANGED jobVars
    /\ UNCHANGED <<leaseVars, issued, processVars, written>>

\* Any accepted write saves the whole ticket, its claim included.
HandleWrite(m) ==
    /\ m.kind = "write"
    /\ UNCHANGED recovered
    /\ \/ WriteAdmitted(m) /\ written' = m.claim /\ Persist(claim)
       \/ ~WriteAdmitted(m) /\ UNCHANGED <<claimFile, recoveredFile, written, faults>>
    /\ Done(m)
    /\ UNCHANGED <<leaseVars, claim, issued, processVars, jobVars>>

HandleRecovery(m) ==
    /\ m.kind = "recover"
    /\ \/ RecoverAdmitted(m) /\ recovered' = issued /\ Persist(claim)
       \/ ~RecoverAdmitted(m) /\ UNCHANGED <<claimFile, recovered, recoveredFile, faults>>
    /\ Done(m)
    /\ UNCHANGED <<leaseVars, claim, issued, processVars, jobVars, written>>

Handle(m) ==
    \/ GrantClaim(m)
    \/ RefuseClaim(m)
    \/ RenewClaim(m)
    \/ RefuseRenewal(m)
    \/ ReleaseClaim(m)
    \/ HandleWrite(m)
    \/ HandleRecovery(m)

\* A user force-closes the ticket, whatever agent works on it.
ForceClose ==
    /\ claim # NoClaim
    /\ claim' = NoClaim
    /\ UNCHANGED recovered
    /\ Persist(NoClaim)
    /\ UNCHANGED <<leaseVars, issued, processVars, jobVars, calls, written>>

Inspect ==
    /\ InspectLease
    /\ UNCHANGED <<claimVars, processVars, jobVars, calls, written, faults>>

\* The store restarts: it reads the files, and whoever waited for it gets a
\* connection error.
StoreRestart ==
    /\ ReloadLease
    /\ claim' = claimFile
    /\ recovered' = recoveredFile
    /\ calls' = {m \in calls : m.kind = "refusal"}
                \cup {Refusal(m) : m \in {n \in calls : n.kind = "renew" /\ n.awaited}}
    /\ stage' = [s \in Session |->
                    IF stage[s] \in {"claiming", "releasing"} THEN "idle" ELSE stage[s]]
    /\ held' = [s \in Session |-> IF stage[s] = "releasing" THEN 0 ELSE held[s]]
    /\ UNCHANGED <<claimFile, recoveredFile, issued, processVars, written, faults>>

AgedClaimNever(c) == c
AgedClaim(c) ==
    IF ClaimLive(c) THEN [c EXCEPT !.left = @ - 1] ELSE c

PassTime ==
    /\ AgeLease
    /\ claim' = AgedClaim(claim)
    /\ claimFile' = AgedClaim(claimFile)
    /\ UNCHANGED <<issued, recovered, recoveredFile, processVars, jobVars, calls,
                   written, faults>>

-----------------------------------------------------------------------------

Process(s) ==
    \/ LeaderStarts(s)
    \/ LeaderRenews(s)
    \/ LeaseLost(s)
    \/ Drain(s)
    \/ Leave(s)
    \/ Crash(s)

Dispatch(s) ==
    \/ TryClaim(s)
    \/ ClaimTimesOut(s)
    \/ SendRecovery(s)
    \/ AgentWrites(s)
    \/ SendRenewal(s)
    \/ RenewalFails(s)
    \/ RenewalTimesOut(s)
    \/ AgentEnds(s)
    \/ CleanUp(s)
    \/ ReleaseTimesOut(s)

Next ==
    \/ \E s \in Session : Process(s) \/ Dispatch(s)
    \/ \E m \in calls : Handle(m)
    \/ ForceClose
    \/ Inspect
    \/ StoreRestart
    \/ PassTime

Spec == Init /\ [][Next]_vars
-----------------------------------------------------------------------------
\* Safety.

\* Could the agent of s write to the ticket now?
CanWrite(s) ==
    /\ stage[s] \in {"running", "unwinding"}
    /\ held[s] # 0
    /\ WriteAdmitted(Call("write", s, held[s]))

\* The ticket's history is written by one agent after another, in the order in
\* which the claims were granted: once a write under a claim is accepted, no
\* late call of an earlier agent is, whatever was lost, delayed, rolled back by
\* a store restart or taken over in between (_validate_ticket_claim).
WritesFollowClaims == [][written' >= written]_vars

\* Every lease write reaches the file before the cache, and here none fails.
LeaseSynced == lease = leaseFile

\* Claims, and the calls that speak for them, come after their issue.
IdsIssued ==
    /\ written <= issued
    /\ \A s \in Session : held[s] <= issued
    /\ \A m \in calls : m.claim <= issued

\* A process that has no lease yet has done nothing.
StartingIsBlank ==
    \A s \in Session :
        up[s] = "starting" =>
            held[s] = 0 /\ stage[s] = "idle" /\ \A m \in calls : m.session # s

\* A late write of a process speaks for no later claim than its present one.
WritesAreOlder ==
    \A m \in calls :
        m.kind = "write" => held[m.session] = 0 \/ m.claim <= held[m.session]

\* The lease has left s for good: a process acquires it once, when it starts.
OutOfLease(s) == up[s] # "starting" /\ ~(lease # NoLease /\ lease.session = s)

Carries(c, id) == c # NoClaim /\ c.id = id

\* Whoever still speaks for a claim older than one already written under is
\* powerless: it has lost the lease, or the ticket no longer carries the claim,
\* and neither does the file a restart would bring back.
OldWritersAreFenced ==
    /\ \A m \in calls :
        (m.kind = "write" /\ m.claim < written) =>
            OutOfLease(m.session) \/ ~Carries(claim, m.claim)
    /\ \A s \in Session :
        (held[s] # 0 /\ held[s] < written) =>
            \/ OutOfLease(s)
            \/ ~Carries(claim, held[s]) /\ ~Carries(claimFile, held[s])

\* The inductive invariant behind WritesFollowClaims.
IInv ==
    /\ TypeOK
    /\ LeaseSynced
    /\ IdsIssued
    /\ StartingIsBlank
    /\ WritesAreOlder
    /\ OldWritersAreFenced

\* Recovery is final for the agents before it: once a leader-scoped write is in
\* the ticket, no agent whose claim was granted earlier can write to it any more,
\* whichever claims are renewed late, taken over, expire or come back with a
\* store restart (_validate_mutation_fence: "without taking over a running
\* agent").  A recovery that a restart takes out of the ticket binds nobody.
RecoveryStands ==
    /\ \A m \in calls : (m.kind = "write" /\ WriteAdmitted(m)) => m.claim > recovered
    /\ \A s \in Session : CanWrite(s) => held[s] > recovered

\* A process draws its epoch once, so what speaks for a session has that epoch.
EpochsAgree ==
    /\ \A m \in calls : m.epoch = cred[m.session]
    /\ \A c \in {claim, claimFile} :
        c # NoClaim => up[c.session] # "starting" /\ c.epoch = cred[c.session]

\* A live claim granted before the recovery beside it, in memory or in the file,
\* is one of a session that has lost the lease.
FencedBefore(c, r) == (ClaimLive(c) /\ c.id <= r) => OutOfLease(c.session)

\* What makes RecoveryStands inductive, together with IInv.
RecoveryInv ==
    /\ recovered <= issued
    /\ recoveredFile <= issued
    /\ EpochsAgree
    /\ FencedBefore(claim, recovered)
    /\ FencedBefore(claimFile, recoveredFile)

-----------------------------------------------------------------------------
\* Liveness.  The event loop of a live process runs its renewal tasks, the store
\* answers renewals, and time passes.  No other call needs to arrive.

Fairness ==
    /\ WF_vars(PassTime)
    /\ \A s \in Session :
        /\ WF_vars(SendRenewal(s))
        /\ WF_vars(\E m \in calls : m.session = s /\ (RenewClaim(m) \/ RefuseRenewal(m)))
        /\ WF_vars(RenewalFails(s))

FairSpec == Spec /\ Fairness

Holds(s) == claim # NoClaim /\ claim.session = s /\ claim.id = held[s]

\* An agent does not work on for ever under a claim its ticket no longer
\* carries: its renewal loop finds out and stops it.
LostClaimStopsAgent ==
    \A s \in Session : []<>~(stage[s] = "running" /\ ~Holds(s))

\* A process that is gone does not block the ticket for ever: its claim runs
\* out, and no late renewal or late claim of its keeps bringing it back.
DeadClaimsEnd ==
    \A s \in Session :
        up[s] = "gone" ~> [](ClaimLive(claim) => claim.session # s)
=============================================================================
