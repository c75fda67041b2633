----------------------------- MODULE LeaderLease -----------------------------
(***************************************************************************)
(* Orchestrator processes competing for the leader lease over HTTP:         *)
(* LeaderLeaseClient (orchestrator/leader_lease.py), the renewal loop        *)
(* _renew_leader_lease and the start-up and shut-down paths of poll_loop     *)
(* (orchestrator/main.py), against the store of OrchestratorLease.           *)
(*                                                                           *)
(* A call is a request in `requests` until the store handles it, then a      *)
(* reply in `replies` until the client takes it.  A client that times out    *)
(* abandons its call: the request stays in flight, no longer awaited, and    *)
(* the store may still handle it much later.  `age` is the time since the    *)
(* client noted request_started, which is what it counts the lease from.     *)
(***************************************************************************)
EXTENDS OrchestratorLease

CONSTANTS
    SafetyMargin,   \* time the renewal loop keeps in hand before the deadline
    MaxAttempts,    \* leader_lease_max_attempts
    RetryInterval,  \* wait between two acquisition attempts
    MaxFailures,    \* max_consecutive_failures of the renewal loop
    MaxFaults       \* bound: crashes, restarts, failed writes, timed out calls

ASSUME LeaderAssumption ==
    /\ SafetyMargin \in Nat
    /\ MaxAttempts \in Nat \ {0}
    /\ RetryInterval \in Nat
    /\ MaxFailures \in Nat \ {0}
    /\ MaxFaults \in Nat

VARIABLES
    phase,      \* where each orchestrator process is
    epoch,      \* LeaderLeaseClient.epoch, 0 for None
    window,     \* confirmed_deadline - now, at least 0
    attempts,   \* acquisition attempts made
    pause,      \* time until the next acquisition attempt
    failures,   \* consecutive_failures of the renewal loop
    requests,   \* calls on their way to the store
    replies,    \* awaited answers on their way back
    faults      \* faults that happened, at most MaxFaults

clientVars == <<phase, epoch, window, attempts, pause, failures>>
netVars == <<requests, replies>>
vars == <<leaseVars, clientVars, netVars, faults>>

Phase == {"acquiring", "leading", "stopped"}
Age == 0 .. Ttl

Request == [kind : {"acquire", "renew", "release"}, session : Session,
            epoch : Nat, age : Age, awaited : BOOLEAN]

Reply == [answer : {"granted", "refused", "failed"}, session : Session,
          epoch : Nat, age : Age]

\* Every field keeps its type.
TypeOK ==
    /\ LeaseTypeOK
    /\ phase \in [Session -> Phase]
    /\ epoch \in [Session -> Nat]
    /\ window \in [Session -> 0 .. Ttl]
    /\ attempts \in [Session -> 0 .. MaxAttempts]
    /\ pause \in [Session -> 0 .. RetryInterval]
    /\ failures \in [Session -> 0 .. MaxFailures]
    /\ requests \subseteq Request
    /\ replies \subseteq Reply
    /\ faults \in 0 .. MaxFaults

Init ==
    /\ LeaseInit
    /\ phase = [s \in Session |-> "acquiring"]
    /\ epoch = [s \in Session |-> 0]
    /\ window = [s \in Session |-> 0]
    /\ attempts = [s \in Session |-> 0]
    /\ pause = [s \in Session |-> 0]
    /\ failures = [s \in Session |-> 0]
    /\ requests = {}
    /\ replies = {}
    /\ faults = 0

-----------------------------------------------------------------------------
\* Calls.

Awaiting(s) ==
    \/ \E m \in requests : m.session = s /\ m.awaited
    \/ \E r \in replies : r.session = s

Call(kind, s) ==
    [kind |-> kind, session |-> s, epoch |-> epoch[s], age |-> 0,
     awaited |-> kind # "release"]

\* A call nobody waits for any more; its age no longer matters.
StillAwaited(m) == [m EXCEPT !.age = Ttl]
Orphan(m) ==
    [kind |-> m.kind, session |-> m.session, epoch |-> m.epoch, age |-> Ttl,
     awaited |-> FALSE]

Abandoned(s) ==
    {IF m.session = s THEN Orphan(m) ELSE m : m \in requests}

OtherReplies(s) == {r \in replies : r.session # s}

\* A fault: one of the bounded number of things that go wrong.
Fault == faults < MaxFaults /\ faults' = faults + 1

\* confirmed_deadline: the lease time that is certain to be left when an answer
\* to a call of this age arrives.
ConfirmedTimeFromAnswer(age) == Ttl
ConfirmedTime(age) == Ttl - age

-----------------------------------------------------------------------------
\* LeaderLeaseClient.acquire, called when initialisation is over.

SendAcquire(s) ==
    /\ phase[s] = "acquiring"
    /\ ~Awaiting(s)
    /\ pause[s] = 0
    /\ attempts[s] < MaxAttempts
    /\ attempts' = [attempts EXCEPT ![s] = @ + 1]
    /\ requests' = requests \cup {Call("acquire", s)}
    /\ UNCHANGED <<leaseVars, phase, epoch, window, pause, failures, replies,
                   faults>>

\* The lease is ours: the confirmed deadline counts from the request, not from
\* the answer, and the renewal loop starts.
AcquireGranted(s) ==
    /\ phase[s] = "acquiring"
    /\ \E r \in replies :
        /\ r.session = s
        /\ r.answer = "granted"
        /\ epoch' = [epoch EXCEPT ![s] = r.epoch]
        /\ window' = [window EXCEPT ![s] = ConfirmedTime(r.age)]
        /\ replies' = replies \ {r}
    /\ phase' = [phase EXCEPT ![s] = "leading"]
    /\ failures' = [failures EXCEPT ![s] = 0]
    /\ UNCHANGED <<leaseVars, attempts, pause, requests, faults>>

\* A refused or unanswered attempt: wait and try again, or give up for good.
\* Giving up calls release() too, which without an epoch sends nothing.
RetryForever(s) ==
    /\ pause' = [pause EXCEPT ![s] = RetryInterval]
    /\ UNCHANGED phase

GiveUpAtOnce(s) ==
    /\ phase' = [phase EXCEPT ![s] = "stopped"]
    /\ UNCHANGED pause

RetryOrGiveUp(s) ==
    IF attempts[s] < MaxAttempts
    THEN /\ pause' = [pause EXCEPT ![s] = RetryInterval]
         /\ UNCHANGED phase
    ELSE /\ phase' = [phase EXCEPT ![s] = "stopped"]
         /\ UNCHANGED pause

AcquireRefused(s) ==
    /\ phase[s] = "acquiring"
    /\ \E r \in replies :
        /\ r.session = s
        /\ r.answer = "refused"
        /\ replies' = replies \ {r}
    /\ RetryOrGiveUp(s)
    /\ UNCHANGED <<leaseVars, epoch, window, attempts, failures, requests, faults>>

AcquireTimesOut(s) ==
    /\ phase[s] = "acquiring"
    /\ Awaiting(s)
    /\ Fault
    /\ requests' = Abandoned(s)
    /\ replies' = OtherReplies(s)
    /\ RetryOrGiveUp(s)
    /\ UNCHANGED <<leaseVars, epoch, window, attempts, failures>>

\* A 5xx answer is not retried: raise_for_status ends the process.
AcquireErrors(s) ==
    /\ phase[s] = "acquiring"
    /\ \E r \in replies :
        /\ r.session = s
        /\ r.answer = "failed"
        /\ replies' = replies \ {r}
    /\ phase' = [phase EXCEPT ![s] = "stopped"]
    /\ UNCHANGED <<leaseVars, epoch, window, attempts, pause, failures, requests,
                   faults>>

-----------------------------------------------------------------------------
\* _renew_leader_lease.

SafeTime(s) == window[s] > SafetyMargin

SendRenew(s) ==
    /\ phase[s] = "leading"
    /\ ~Awaiting(s)
    /\ SafeTime(s)
    /\ requests' = requests \cup {Call("renew", s)}
    /\ UNCHANGED <<leaseVars, clientVars, replies, faults>>

RenewConfirmed(s) ==
    /\ phase[s] = "leading"
    /\ SafeTime(s)
    /\ \E r \in replies :
        /\ r.session = s
        /\ r.answer = "granted"
        /\ window' = [window EXCEPT ![s] = ConfirmedTime(r.age)]
        /\ replies' = replies \ {r}
    /\ failures' = [failures EXCEPT ![s] = 0]
    /\ UNCHANGED <<leaseVars, phase, epoch, attempts, pause, requests, faults>>

\* The leader steps down: mark_deposed, then release() in the finally block,
\* without waiting for the agents to unwind.  Whatever it was waiting for is
\* abandoned.
StepDown(s) ==
    /\ phase' = [phase EXCEPT ![s] = "stopped"]
    /\ requests' = Abandoned(s) \cup {Call("release", s)}
    /\ replies' = OtherReplies(s)
    /\ UNCHANGED <<epoch, window, attempts, pause>>

RenewRefused(s) ==
    /\ phase[s] = "leading"
    /\ \E r \in replies : r.session = s /\ r.answer = "refused"
    /\ StepDown(s)
    /\ UNCHANGED <<leaseVars, failures, faults>>

\* No confirmed time is left, before a renewal or while one is awaited.
DeadlineReached(s) ==
    /\ phase[s] = "leading"
    /\ ~SafeTime(s)
    /\ StepDown(s)
    /\ UNCHANGED <<leaseVars, failures, faults>>

\* A transport error, a client timeout or a 5xx: the third in a row is final.
CountFailure(s) ==
    IF failures[s] + 1 < MaxFailures
    THEN /\ failures' = [failures EXCEPT ![s] = @ + 1]
         /\ requests' = Abandoned(s)
         /\ replies' = OtherReplies(s)
         /\ UNCHANGED <<phase, epoch, window, attempts, pause>>
    ELSE /\ failures' = [failures EXCEPT ![s] = MaxFailures]
         /\ StepDown(s)

RenewErrors(s) ==
    /\ phase[s] = "leading"
    /\ \E r \in replies : r.session = s /\ r.answer = "failed"
    /\ CountFailure(s)
    /\ UNCHANGED <<leaseVars, faults>>

RenewTimesOut(s) ==
    /\ phase[s] = "leading"
    /\ Awaiting(s)
    /\ Fault
    /\ CountFailure(s)
    /\ UNCHANGED leaseVars

\* poll_loop is shut down: the dispatcher is drained, the renewal loop is
\* cancelled and its finally block releases the lease.
ShutDown(s) ==
    /\ phase[s] = "leading"
    /\ StepDown(s)
    /\ UNCHANGED <<leaseVars, failures, faults>>

Crash(s) ==
    /\ phase[s] # "stopped"
    /\ Fault
    /\ phase' = [phase EXCEPT ![s] = "stopped"]
    /\ requests' = Abandoned(s)
    /\ replies' = OtherReplies(s)
    /\ UNCHANGED <<leaseVars, epoch, window, attempts, pause, failures>>

-----------------------------------------------------------------------------
\* The store handles a request.  Nobody reads the answer to an orphan.

Answer(m, answer, e) ==
    /\ requests' = requests \ {m}
    /\ replies' =
        IF m.awaited
        THEN replies \cup {[answer |-> answer, session |-> m.session,
                            epoch |-> e, age |-> m.age]}
        ELSE replies

HandleAcquire(m) ==
    /\ m.kind = "acquire"
    /\ \/ /\ AcquireLease(m.session)
          /\ Answer(m, "granted", lease'.epoch)
          /\ UNCHANGED faults
       \/ /\ ~AcquireAdmitted(m.session)
          /\ Answer(m, "refused", 0)
          /\ UNCHANGED <<leaseVars, faults>>
       \/ /\ AcquireAdmitted(m.session)
          /\ WriteLeaseFails(Granted(m.session))
          /\ Answer(m, "failed", 0)
          /\ Fault
    /\ UNCHANGED clientVars

HandleRenew(m) ==
    /\ m.kind = "renew"
    /\ \/ /\ RenewLease(m.session, m.epoch)
          /\ Answer(m, "granted", lease'.epoch)
          /\ UNCHANGED faults
       \/ /\ ~RenewAdmitted(m.session, m.epoch)
          /\ Answer(m, "refused", 0)
          /\ UNCHANGED <<leaseVars, faults>>
       \/ /\ RenewAdmitted(m.session, m.epoch)
          /\ WriteLeaseFails(Renewed)
          /\ Answer(m, "failed", 0)
          /\ Fault
    /\ UNCHANGED clientVars

HandleRelease(m) ==
    /\ m.kind = "release"
    /\ \/ ReleaseLease(m.session, m.epoch)
       \/ ~OwnedBy(lease, m.session, m.epoch) /\ UNCHANGED leaseVars
    /\ Answer(m, "granted", 0)
    /\ UNCHANGED <<clientVars, faults>>

Handle(m) == HandleAcquire(m) \/ HandleRenew(m) \/ HandleRelease(m)

Inspect == InspectLease /\ UNCHANGED <<clientVars, netVars, faults>>

StoreRestart ==
    /\ ReloadLease
    /\ Fault
    /\ UNCHANGED <<clientVars, netVars>>

-----------------------------------------------------------------------------

Elapsed(n) == IF n > 0 THEN n - 1 ELSE 0

Older(m) == [m EXCEPT !.age = IF @ < Ttl THEN @ + 1 ELSE Ttl]

PassTime ==
    /\ AgeLease
    /\ window' = [s \in Session |-> Elapsed(window[s])]
    /\ pause' = [s \in Session |-> Elapsed(pause[s])]
    /\ requests' = {Older(m) : m \in requests}
    /\ replies' = {Older(r) : r \in replies}
    /\ UNCHANGED <<phase, epoch, attempts, failures, faults>>

ClientStep(s) ==
    \/ SendAcquire(s)
    \/ AcquireGranted(s)
    \/ AcquireRefused(s)
    \/ AcquireErrors(s)
    \/ SendRenew(s)
    \/ RenewConfirmed(s)
    \/ RenewRefused(s)
    \/ RenewErrors(s)
    \/ DeadlineReached(s)

Disturbance(s) ==
    \/ AcquireTimesOut(s)
    \/ RenewTimesOut(s)
    \/ ShutDown(s)
    \/ Crash(s)

StoreStep == \E m \in requests : Handle(m)

Next ==
    \/ \E s \in Session : ClientStep(s)
    \/ \E s \in Session : Disturbance(s)
    \/ StoreStep
    \/ Inspect
    \/ StoreRestart
    \/ PassTime

Spec == Init /\ [][Next]_vars
-----------------------------------------------------------------------------
\* Safety.

\* l belongs to s under epoch e for at least w more units of time.
Covers(l, s, e, w) == OwnedBy(l, s, e) /\ l.left >= w

Confirmed(s) == phase[s] = "leading" /\ window[s] > 0

\* While a session is inside the window its last confirmed call opened
\* (confirmed_deadline of leader_lease.py), the store holds the lease for it
\* under the epoch it knows and for at least as long, in memory and on disk:
\* no delayed answer, late duplicate, takeover, failed write or store restart
\* leaves a client trusting a lease the store has given up.
ConfirmedWindowIsCovered ==
    \A s \in Session :
        Confirmed(s) =>
            /\ Covers(lease, s, epoch[s], window[s])
            /\ Covers(leaseFile, s, epoch[s], window[s])

\* A call still under way, and an answer not yet read, belong to what their
\* session is doing: it has one at a time, it acquires while acquiring and
\* renews under its own epoch while leading, and only a stopped one releases.
CallsMatchPhases ==
    /\ \A m \in requests :
        /\ m.awaited =>
            \/ m.kind = "acquire" /\ phase[m.session] = "acquiring"
            \/ /\ m.kind = "renew"
               /\ phase[m.session] = "leading"
               /\ m.epoch = epoch[m.session]
        /\ m.kind = "release" => phase[m.session] = "stopped"
    /\ \A r \in replies :
        /\ phase[r.session] # "stopped"
        /\ (r.answer = "granted" /\ phase[r.session] = "leading")
                => r.epoch = epoch[r.session]

OneCallAtATime ==
    /\ \A m, n \in requests :
        m.awaited /\ n.awaited /\ m.session = n.session => m = n
    /\ \A m \in requests, r \in replies : m.awaited => m.session # r.session
    /\ \A q, r \in replies : q.session = r.session => q = r

\* The window an unread grant would open is covered too.
GrantsAreCovered ==
    \A r \in replies :
        (r.answer = "granted" /\ r.age < Ttl) =>
            /\ Covers(lease, r.session, r.epoch, Ttl - r.age)
            /\ Covers(leaseFile, r.session, r.epoch, Ttl - r.age)

\* A restart of the store cannot change the holder of a live lease.
FileAgrees ==
    Live(lease) =>
        /\ leaseFile # NoLease
        /\ leaseFile.session = lease.session
        /\ leaseFile.epoch = lease.epoch

\* The inductive invariant behind ConfirmedWindowIsCovered: every session has
\* at most one call under way, matching its phase, and whatever window an
\* answer has opened or may still open is covered by the store's record.
IInv ==
    /\ TypeOK
    /\ CallsMatchPhases
    /\ OneCallAtATime
    /\ GrantsAreCovered
    /\ ConfirmedWindowIsCovered
    /\ FileAgrees

\* A lease that is still live is never taken from a process that has not
\* stopped: whatever the order in which the store meets late acquires, renewals
\* and releases, it drops a live lease only for a holder that stepped down.
LiveLeaseIsNotLost ==
    [][\A s \in Session :
         (Live(lease) /\ lease.session = s /\ phase[s] # "stopped")
            => (lease' # NoLease /\ lease'.session = s
                    /\ lease'.epoch = lease.epoch)]_vars

\* The leaders of SingleLeader are the sessions inside their confirmed windows.
Abstract == INSTANCE SingleLeader WITH
                leaders <- {s \in Session : Confirmed(s)}

\* The protocol implements SingleLeader: two orchestrators are never inside
\* their confirmed windows at the same time, and a new one gets there only
\* after a moment in which nobody was.
ImplementsSingleLeader == Abstract!Spec

-----------------------------------------------------------------------------
\* Liveness.  Time passes, the store answers what reaches it, and the event
\* loop of a running orchestrator gets to its timers and answers.

Fairness ==
    /\ WF_vars(PassTime)
    /\ \A s \in Session :
        /\ WF_vars(ClientStep(s))
        /\ WF_vars(\E m \in requests : m.session = s /\ Handle(m))

FairSpec == Spec /\ Fairness

\* A process that wants to lead does not wait for ever: it leads, or it gives
\* up after MaxAttempts and leaves the restart to its supervisor.
AcquisitionSettles ==
    \A s \in Session : phase[s] = "acquiring" ~> phase[s] # "acquiring"

\* The restart case LeaderLeaseClient.acquire's comment describes: a new
\* process whose predecessors are gone, with nothing of theirs in flight and no
\* further fault, outlasts the old lease and becomes leader.  This needs
\* (MaxAttempts - 1) * RetryInterval >= Ttl, as the defaults (11 * 5s >= 30s)
\* give.
SuccessorTakesOver ==
    \A s \in Session :
        /\ phase[s] = "acquiring"
        /\ attempts[s] = 0
        /\ faults = MaxFaults
        /\ \A t \in Session \ {s} : phase[t] = "stopped"
        /\ requests = {}
        ~> phase[s] = "leading"
=============================================================================
