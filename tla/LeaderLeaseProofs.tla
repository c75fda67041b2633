-------------------------- MODULE LeaderLeaseProofs --------------------------
(***************************************************************************)
(* Proofs about LeaderLease, for every set of sessions and every choice of  *)
(* its times and bounds.                                                    *)
(***************************************************************************)
EXTENDS LeaderLease, TLAPS

-----------------------------------------------------------------------------
\* Type correctness.

LEMMA InitTypeOK == Init => TypeOK
BY TtlAssumption, LeaderAssumption
   DEF Init, LeaseInit, TypeOK, LeaseTypeOK, Phase

\* Abandoning a session's calls leaves well-formed requests and replies.
LEMMA AbandonedType ==
    ASSUME TypeOK, NEW s \in Session
    PROVE  /\ Abandoned(s) \subseteq Request
           /\ OtherReplies(s) \subseteq Reply
<1>1. \A m \in requests : Orphan(m) \in Request
  BY TtlAssumption DEF TypeOK, Request, Orphan, Age
<1>2. QED
  BY <1>1 DEF TypeOK, Abandoned, OtherReplies

\* A call is a well-formed request.
LEMMA CallType ==
    ASSUME TypeOK, NEW s \in Session, NEW kind \in {"acquire", "renew", "release"}
    PROVE  Call(kind, s) \in Request
BY TtlAssumption DEF TypeOK, Call, Request, Age

\* What the store writes is a well-formed lease.
LEMMA WrittenLeaseType ==
    ASSUME LeaseTypeOK, NEW s \in Session
    PROVE  /\ AcquireAdmitted(s) => Granted(s) \in Lease
           /\ lease # NoLease => Renewed \in Lease
           /\ Aged(lease) \in Lease \cup {NoLease}
           /\ Aged(leaseFile) \in Lease \cup {NoLease}
BY TtlAssumption, NoLeaseAssumption
   DEF LeaseTypeOK, Lease, Epoch, Granted, Renewed, Aged, Live, AcquireAdmitted

\* Time takes one unit off a live record and changes nothing else.
LEMMA AgedLease ==
    ASSUME NEW l \in Lease
    PROVE  /\ Aged(l) \in Lease
           /\ Aged(l) # NoLease
           /\ Aged(l).session = l.session
           /\ Aged(l).epoch = l.epoch
           /\ l.left > 0 => Aged(l).left = l.left - 1
           /\ l.left = 0 => Aged(l).left = 0
BY NoLeaseAssumption, TtlAssumption DEF Lease, Aged, Live

LEMMA StepDownType ==
    ASSUME TypeOK, NEW s \in Session, StepDown(s)
    PROVE  /\ phase' \in [Session -> Phase]
           /\ requests' \subseteq Request
           /\ replies' \subseteq Reply
           /\ UNCHANGED <<epoch, window, attempts, pause>>
BY AbandonedType, CallType DEF TypeOK, StepDown, Phase

LEMMA CountFailureType ==
    ASSUME TypeOK, NEW s \in Session, CountFailure(s)
    PROVE  /\ phase' \in [Session -> Phase]
           /\ failures' \in [Session -> 0 .. MaxFailures]
           /\ requests' \subseteq Request
           /\ replies' \subseteq Reply
           /\ UNCHANGED <<epoch, window, attempts, pause>>
BY AbandonedType, StepDownType, LeaderAssumption DEF TypeOK, CountFailure

LEMMA RetryOrGiveUpType ==
    ASSUME TypeOK, NEW s \in Session, RetryOrGiveUp(s)
    PROVE  /\ phase' \in [Session -> Phase]
           /\ pause' \in [Session -> 0 .. RetryInterval]
BY LeaderAssumption DEF TypeOK, RetryOrGiveUp, Phase

LEMMA ClientStepType ==
    ASSUME TypeOK, NEW s \in Session, ClientStep(s)
    PROVE  TypeOK'
<1> USE TtlAssumption, LeaderAssumption
<1>1. CASE SendAcquire(s)
  BY <1>1, CallType DEF SendAcquire, TypeOK, leaseVars, LeaseTypeOK
<1>2. CASE AcquireGranted(s)
  BY <1>2 DEF AcquireGranted, TypeOK, leaseVars, LeaseTypeOK, Phase, Reply, Age,
              ConfirmedTime
<1>3. CASE AcquireRefused(s)
  BY <1>3, RetryOrGiveUpType DEF AcquireRefused, TypeOK, leaseVars, LeaseTypeOK
<1>4. CASE AcquireErrors(s)
  BY <1>4 DEF AcquireErrors, TypeOK, leaseVars, LeaseTypeOK, Phase
<1>5. CASE SendRenew(s)
  BY <1>5, CallType DEF SendRenew, TypeOK, leaseVars, clientVars, LeaseTypeOK
<1>6. CASE RenewConfirmed(s)
  BY <1>6 DEF RenewConfirmed, TypeOK, leaseVars, LeaseTypeOK, Reply, Age,
              ConfirmedTime
<1>7. CASE RenewRefused(s)
  BY <1>7, StepDownType DEF RenewRefused, TypeOK, leaseVars, LeaseTypeOK
<1>8. CASE RenewErrors(s)
  BY <1>8, CountFailureType DEF RenewErrors, TypeOK, leaseVars, LeaseTypeOK
<1>9. CASE DeadlineReached(s)
  BY <1>9, StepDownType DEF DeadlineReached, TypeOK, leaseVars, LeaseTypeOK
<1>10. QED
  BY <1>1, <1>2, <1>3, <1>4, <1>5, <1>6, <1>7, <1>8, <1>9 DEF ClientStep

LEMMA DisturbanceType ==
    ASSUME TypeOK, NEW s \in Session, Disturbance(s)
    PROVE  TypeOK'
<1> USE LeaderAssumption
<1>1. CASE AcquireTimesOut(s)
  BY <1>1, AbandonedType, RetryOrGiveUpType
     DEF AcquireTimesOut, Fault, TypeOK, leaseVars, LeaseTypeOK
<1>2. CASE RenewTimesOut(s)
  BY <1>2, CountFailureType
     DEF RenewTimesOut, Fault, TypeOK, leaseVars, LeaseTypeOK
<1>3. CASE ShutDown(s)
  BY <1>3, StepDownType DEF ShutDown, TypeOK, leaseVars, LeaseTypeOK
<1>4. CASE Crash(s)
  BY <1>4, AbandonedType DEF Crash, Fault, TypeOK, leaseVars, LeaseTypeOK, Phase
<1>5. QED
  BY <1>1, <1>2, <1>3, <1>4 DEF Disturbance

LEMMA AnswerType ==
    ASSUME TypeOK, NEW m \in requests, NEW e \in Nat,
           NEW answer \in {"granted", "refused", "failed"}, Answer(m, answer, e)
    PROVE  requests' \subseteq Request /\ replies' \subseteq Reply
BY DEF TypeOK, Answer, Request, Reply

LEMMA HandleType ==
    ASSUME TypeOK, NEW m \in requests, Handle(m)
    PROVE  TypeOK'
<1> USE LeaderAssumption
<1>0. m.session \in Session /\ LeaseTypeOK
  BY DEF TypeOK, Request
<1>1. CASE HandleAcquire(m)
  <2>1. CASE /\ AcquireLease(m.session)
             /\ Answer(m, "granted", lease'.epoch)
             /\ UNCHANGED faults
    <3>1. lease' \in Lease /\ leaseFile' \in Lease
      BY <1>0, <2>1, WrittenLeaseType DEF AcquireLease, WriteLease
    <3>2. QED
      BY <1>1, <2>1, <3>1, AnswerType
         DEF HandleAcquire, TypeOK, LeaseTypeOK, clientVars, Lease, Epoch
  <2>2. CASE /\ Answer(m, "refused", 0)
             /\ UNCHANGED <<leaseVars, faults>>
    BY <1>1, <2>2, AnswerType
       DEF HandleAcquire, TypeOK, LeaseTypeOK, clientVars, leaseVars
  <2>3. CASE /\ AcquireAdmitted(m.session)
             /\ WriteLeaseFails(Granted(m.session))
             /\ Answer(m, "failed", 0)
             /\ Fault
    <3>1. lease' = lease /\ leaseFile' \in Lease \cup {NoLease}
      BY <1>0, <2>3, WrittenLeaseType DEF WriteLeaseFails, LeaseTypeOK
    <3>2. QED
      BY <1>1, <2>3, <3>1, AnswerType
         DEF HandleAcquire, TypeOK, LeaseTypeOK, clientVars, Fault
  <2>4. QED
    BY <1>1, <2>1, <2>2, <2>3 DEF HandleAcquire
<1>2. CASE HandleRenew(m)
  <2>1. CASE /\ RenewLease(m.session, m.epoch)
             /\ Answer(m, "granted", lease'.epoch)
             /\ UNCHANGED faults
    <3>1. lease' \in Lease /\ leaseFile' \in Lease
      BY <1>0, <2>1, WrittenLeaseType
         DEF RenewLease, RenewAdmitted, OwnedBy, WriteLease
    <3>2. QED
      BY <1>2, <2>1, <3>1, AnswerType
         DEF HandleRenew, TypeOK, LeaseTypeOK, clientVars, Lease, Epoch
  <2>2. CASE /\ Answer(m, "refused", 0)
             /\ UNCHANGED <<leaseVars, faults>>
    BY <1>2, <2>2, AnswerType
       DEF HandleRenew, TypeOK, LeaseTypeOK, clientVars, leaseVars
  <2>3. CASE /\ RenewAdmitted(m.session, m.epoch)
             /\ WriteLeaseFails(Renewed)
             /\ Answer(m, "failed", 0)
             /\ Fault
    <3>1. lease' = lease /\ leaseFile' \in Lease \cup {NoLease}
      BY <1>0, <2>3, WrittenLeaseType
         DEF WriteLeaseFails, RenewAdmitted, OwnedBy, LeaseTypeOK
    <3>2. QED
      BY <1>2, <2>3, <3>1, AnswerType
         DEF HandleRenew, TypeOK, LeaseTypeOK, clientVars, Fault
  <2>4. QED
    BY <1>2, <2>1, <2>2, <2>3 DEF HandleRenew
<1>3. CASE HandleRelease(m)
  BY <1>3, AnswerType
     DEF HandleRelease, TypeOK, LeaseTypeOK, clientVars, leaseVars, ReleaseLease,
         WriteLease
<1>4. QED
  BY <1>1, <1>2, <1>3 DEF Handle

LEMMA PassTimeType ==
    ASSUME TypeOK, PassTime
    PROVE  TypeOK'
<1> USE TtlAssumption, LeaderAssumption
<1>1. LeaseTypeOK'
  <2>1. CASE Session = {}
    BY <2>1, NoLeaseAssumption
       DEF PassTime, AgeLease, TypeOK, LeaseTypeOK, Lease, Aged, Live
  <2>2. CASE Session # {}
    BY <2>2, WrittenLeaseType DEF PassTime, AgeLease, TypeOK, LeaseTypeOK
  <2>3. QED
    BY <2>1, <2>2
<1>2. /\ window' \in [Session -> 0 .. Ttl]
      /\ pause' \in [Session -> 0 .. RetryInterval]
  BY DEF PassTime, TypeOK, Elapsed
<1>3. requests' \subseteq Request
  <2>1. \A m \in requests : Older(m) \in Request
    BY DEF TypeOK, Request, Older, Age
  <2>2. QED
    BY <2>1 DEF PassTime
<1>4. replies' \subseteq Reply
  <2>1. \A r \in replies : Older(r) \in Reply
    BY DEF TypeOK, Reply, Older, Age
  <2>2. QED
    BY <2>1 DEF PassTime
<1>5. QED
  BY <1>1, <1>2, <1>3, <1>4 DEF PassTime, TypeOK

LEMMA NextTypeOK ==
    ASSUME TypeOK, [Next]_vars
    PROVE  TypeOK'
<1>1. CASE Inspect
  BY <1>1 DEF Inspect, InspectLease, WriteLease, TypeOK, LeaseTypeOK, clientVars,
              netVars
<1>2. CASE StoreRestart
  BY <1>2, LeaderAssumption
     DEF StoreRestart, ReloadLease, Fault, TypeOK, LeaseTypeOK, clientVars, netVars
<1>3. CASE UNCHANGED vars
  BY <1>3 DEF vars, leaseVars, clientVars, netVars, TypeOK, LeaseTypeOK
<1>4. QED
  BY <1>1, <1>2, <1>3, ClientStepType, DisturbanceType, HandleType, PassTimeType
     DEF Next, StoreStep

\* Every variable of the protocol keeps its type.
THEOREM TypeCorrect == Spec => []TypeOK
<1>1. TypeOK /\ [Next]_vars => TypeOK'
  BY NextTypeOK
<1>2. QED
  BY InitTypeOK, <1>1, PTL DEF Spec

-----------------------------------------------------------------------------
\* The inductive invariant.

LEMMA InitIInv == Init => IInv
<1>1. Init => /\ CallsMatchPhases
              /\ OneCallAtATime
              /\ GrantsAreCovered
              /\ ConfirmedWindowIsCovered
              /\ FileAgrees
  BY DEF Init, LeaseInit, CallsMatchPhases, OneCallAtATime, GrantsAreCovered,
         ConfirmedWindowIsCovered, Confirmed, FileAgrees, Live
<1>2. QED
  BY <1>1, InitTypeOK DEF IInv

\* Abandoning a session's calls leaves only calls of the other sessions awaited.
LEMMA AbandonedCalls ==
    ASSUME TypeOK, NEW s \in Session, NEW n \in Abandoned(s)
    PROVE  \/ n \in requests /\ n.session # s
           \/ /\ ~n.awaited
              /\ \E m \in requests :
                    m.session = s /\ n.session = s /\ n.kind = m.kind
BY DEF Abandoned, Orphan, TypeOK, Request

\* A session that abandons its calls and ends up stopped, or keeps its phase and
\* epoch without releasing, leaves the bookkeeping of calls intact.
LEMMA AbandonKeepsCalls ==
    ASSUME TypeOK, CallsMatchPhases, OneCallAtATime,
           NEW s \in Session,
           \/ requests' = Abandoned(s)
           \/ /\ requests' = Abandoned(s) \cup {Call("release", s)}
              /\ phase'[s] = "stopped",
           replies' = OtherReplies(s),
           phase' = phase \/ phase' = [phase EXCEPT ![s] = "stopped"],
           UNCHANGED epoch
    PROVE  CallsMatchPhases' /\ OneCallAtATime'
<1> DEFINE Rel == Call("release", s)
<1>1. Rel.session = s /\ ~Rel.awaited /\ Rel.kind = "release"
  BY DEF Call
<1>2. \A n \in requests' :
        \/ n \in requests /\ n.session # s
        \/ /\ ~n.awaited
           /\ n.session = s
           /\ n.kind = "release" => phase'[s] = "stopped"
  <2>1. ASSUME NEW n \in Abandoned(s), ~(n \in requests /\ n.session # s)
        PROVE  /\ ~n.awaited
               /\ n.session = s
               /\ n.kind = "release" => phase'[s] = "stopped"
    BY <2>1, AbandonedCalls DEF CallsMatchPhases, TypeOK
  <2>2. QED
    BY <2>1, <1>1
<1>3. \A t \in Session : t # s => phase'[t] = phase[t]
  BY DEF TypeOK
<1>4. \A m \in requests : m.session \in Session
  BY DEF TypeOK, Request
<1>5. \A r \in replies : r.session \in Session
  BY DEF TypeOK, Reply
<1>6. CallsMatchPhases'
  BY <1>2, <1>3, <1>4, <1>5 DEF CallsMatchPhases, OtherReplies
<1>7. OneCallAtATime'
  BY <1>2 DEF OneCallAtATime, OtherReplies
<1>8. QED
  BY <1>6, <1>7

\* With the lease untouched, unread grants stay covered as long as no new one
\* appears, and windows as long as no session gains time or leadership.
LEMMA QuietStepKeepsCover ==
    ASSUME TypeOK, GrantsAreCovered, ConfirmedWindowIsCovered,
           UNCHANGED leaseVars,
           replies' \subseteq replies,
           UNCHANGED <<epoch, window>>,
           \A s \in Session : phase'[s] = "leading" => phase[s] = "leading"
    PROVE  GrantsAreCovered' /\ ConfirmedWindowIsCovered'
BY DEF GrantsAreCovered, ConfirmedWindowIsCovered, Confirmed, Covers, OwnedBy,
       leaseVars

\* The store's methods keep the file in agreement with a live lease.
LEMMA FileAgreesNext ==
    ASSUME TypeOK, FileAgrees, [Next]_vars
    PROVE  FileAgrees'
<1>1. CASE \/ \E s \in Session : ClientStep(s) \/ Disturbance(s)
           \/ UNCHANGED vars
  <2>1. UNCHANGED leaseVars
    BY <1>1 DEF ClientStep, Disturbance, SendAcquire, AcquireGranted,
                AcquireRefused, AcquireErrors, SendRenew, RenewConfirmed,
                RenewRefused, RenewErrors, DeadlineReached, AcquireTimesOut,
                RenewTimesOut, ShutDown, Crash, vars
  <2>2. QED
    BY <2>1 DEF leaseVars, FileAgrees, Live
<1>2. CASE StoreStep
  <2>1. PICK m \in requests : Handle(m)
    BY <1>2 DEF StoreStep
  <2>2. m.session \in Session
    BY DEF TypeOK, Request
  <2>3. CASE lease' = leaseFile'
    BY <2>3 DEF FileAgrees, Live
  <2>4. CASE /\ lease' = lease
             /\ \/ leaseFile' = leaseFile
                \/ /\ AcquireAdmitted(m.session)
                   /\ leaseFile' = Granted(m.session)
    BY <2>2, <2>4, NoLeaseAssumption, TtlAssumption
       DEF FileAgrees, Live, Granted, TypeOK, LeaseTypeOK, Lease
  <2>5. CASE lease' = lease /\ leaseFile' = Renewed
    BY <2>2, <2>5, NoLeaseAssumption, TtlAssumption
       DEF FileAgrees, Live, Renewed, TypeOK, LeaseTypeOK, Lease
  <2>6. QED
    BY <2>1, <2>3, <2>4, <2>5
       DEF Handle, HandleAcquire, HandleRenew, HandleRelease, AcquireLease,
           RenewLease, ReleaseLease, WriteLease, WriteLeaseFails, leaseVars
<1>3. CASE Inspect \/ StoreRestart
  BY <1>3 DEF Inspect, InspectLease, WriteLease, StoreRestart, ReloadLease,
              FileAgrees, Live
<1>4. CASE PassTime
  <2>1. lease' = Aged(lease) /\ leaseFile' = Aged(leaseFile)
    BY <1>4 DEF PassTime, AgeLease
  <2>2. Live(lease') => Live(lease) /\ lease \in Lease /\ leaseFile \in Lease
    BY <2>1 DEF Aged, Live, FileAgrees, TypeOK, LeaseTypeOK
  <2>3. QED
    BY <2>1, <2>2, AgedLease DEF FileAgrees
<1>5. QED
  BY <1>1, <1>2, <1>3, <1>4 DEF Next

LEMMA ClientStepInv ==
    ASSUME IInv, NEW s \in Session, ClientStep(s)
    PROVE  IInv'
<1> USE DEF IInv
<1>0. TypeOK' /\ FileAgrees'
  BY ClientStepType, FileAgreesNext DEF Next
<1>1. CASE SendAcquire(s)
  <2>1. CallsMatchPhases' /\ OneCallAtATime'
    BY <1>1 DEF SendAcquire, CallsMatchPhases, OneCallAtATime, Awaiting, Call
  <2>2. QED
    BY <1>0, <1>1, <2>1, QuietStepKeepsCover DEF SendAcquire
<1>2. CASE AcquireGranted(s)
  <2>1. PICK r \in replies :
            /\ r.session = s
            /\ r.answer = "granted"
            /\ epoch' = [epoch EXCEPT ![s] = r.epoch]
            /\ window' = [window EXCEPT ![s] = ConfirmedTime(r.age)]
            /\ replies' = replies \ {r}
    BY <1>2 DEF AcquireGranted
  <2>2. /\ \A m \in requests : m.awaited => m.session # s
        /\ \A q \in replies' : q.session # s
    BY <2>1 DEF OneCallAtATime
  <2>3. /\ phase' = [phase EXCEPT ![s] = "leading"]
        /\ phase[s] = "acquiring"
        /\ UNCHANGED <<leaseVars, requests>>
    BY <1>2 DEF AcquireGranted
  <2>4. CallsMatchPhases'
    <3>1. \A m \in requests : m.session \in Session
      BY DEF TypeOK, Request
    <3>2. \A q \in replies : q.session \in Session
      BY DEF TypeOK, Reply
    <3>3. QED
      BY <2>1, <2>2, <2>3, <3>1, <3>2 DEF CallsMatchPhases, TypeOK
  <2>5. OneCallAtATime'
    BY <2>1, <2>3 DEF OneCallAtATime
  <2>6. GrantsAreCovered'
    BY <2>1, <2>3 DEF GrantsAreCovered, Covers, OwnedBy, leaseVars
  <2>7. ConfirmedWindowIsCovered'
    <3>1. ASSUME NEW t \in Session, Confirmed(t)'
          PROVE  Covers(lease, t, epoch[t], window[t])'
                   /\ Covers(leaseFile, t, epoch[t], window[t])'
      <4>1. CASE t = s
        <5>1. window'[s] = Ttl - r.age /\ epoch'[s] = r.epoch
          BY <2>1 DEF TypeOK, ConfirmedTime
        <5>2. r.age < Ttl
          BY <3>1, <4>1, <5>1, TtlAssumption DEF Confirmed, TypeOK, Reply, Age
        <5>3. QED
          BY <2>1, <2>3, <4>1, <5>1, <5>2
             DEF GrantsAreCovered, Covers, OwnedBy, leaseVars
      <4>2. CASE t # s
        BY <2>1, <2>3, <3>1, <4>2
           DEF ConfirmedWindowIsCovered, Confirmed, Covers, OwnedBy, leaseVars,
               TypeOK
      <4>3. QED
        BY <4>1, <4>2
    <3>2. QED
      BY <3>1 DEF ConfirmedWindowIsCovered
  <2>8. QED
    BY <1>0, <2>4, <2>5, <2>6, <2>7
<1>3. CASE AcquireRefused(s) \/ AcquireErrors(s)
  <2>1. PICK r \in replies : r.session = s /\ replies' = replies \ {r}
    BY <1>3 DEF AcquireRefused, AcquireErrors
  <2>2. /\ phase' = phase \/ phase' = [phase EXCEPT ![s] = "stopped"]
        /\ UNCHANGED <<leaseVars, epoch, window, requests>>
    BY <1>3 DEF AcquireRefused, AcquireErrors, RetryOrGiveUp
  <2>3. /\ \A m \in requests : m.awaited => m.session # s
        /\ \A q \in replies' : q.session # s
    BY <2>1 DEF OneCallAtATime
  <2>4. CallsMatchPhases' /\ OneCallAtATime'
    <3>1. \A m \in requests : m.session \in Session
      BY DEF TypeOK, Request
    <3>2. \A q \in replies : q.session \in Session
      BY DEF TypeOK, Reply
    <3>3. CallsMatchPhases'
      BY <2>1, <2>2, <2>3, <3>1, <3>2 DEF CallsMatchPhases, TypeOK
    <3>4. OneCallAtATime'
      BY <2>1, <2>2 DEF OneCallAtATime
    <3>5. QED
      BY <3>3, <3>4
  <2>5. GrantsAreCovered' /\ ConfirmedWindowIsCovered'
    BY <2>1, <2>2, QuietStepKeepsCover DEF TypeOK
  <2>6. QED
    BY <1>0, <2>4, <2>5
<1>4. CASE SendRenew(s)
  <2>1. CallsMatchPhases' /\ OneCallAtATime'
    BY <1>4 DEF SendRenew, CallsMatchPhases, OneCallAtATime, Awaiting, Call,
                clientVars
  <2>2. QED
    BY <1>0, <1>4, <2>1, QuietStepKeepsCover DEF SendRenew, clientVars
<1>5. CASE RenewConfirmed(s)
  <2>1. PICK r \in replies :
            /\ r.session = s
            /\ r.answer = "granted"
            /\ window' = [window EXCEPT ![s] = ConfirmedTime(r.age)]
            /\ replies' = replies \ {r}
    BY <1>5 DEF RenewConfirmed
  <2>2. phase[s] = "leading" /\ UNCHANGED <<leaseVars, phase, epoch, requests>>
    BY <1>5 DEF RenewConfirmed
  <2>3. CallsMatchPhases' /\ OneCallAtATime'
    BY <2>1, <2>2 DEF CallsMatchPhases, OneCallAtATime
  <2>4. GrantsAreCovered'
    BY <2>1, <2>2 DEF GrantsAreCovered, Covers, OwnedBy, leaseVars
  <2>5. ConfirmedWindowIsCovered'
    <3>1. ASSUME NEW t \in Session, Confirmed(t)'
          PROVE  Covers(lease, t, epoch[t], window[t])'
                   /\ Covers(leaseFile, t, epoch[t], window[t])'
      <4>1. CASE t = s
        <5>1. window'[s] = Ttl - r.age /\ epoch'[s] = r.epoch
          BY <2>1, <2>2 DEF TypeOK, ConfirmedTime, CallsMatchPhases
        <5>2. r.age < Ttl
          BY <3>1, <4>1, <5>1, TtlAssumption DEF Confirmed, TypeOK, Reply, Age
        <5>3. QED
          BY <2>1, <2>2, <4>1, <5>1, <5>2
             DEF GrantsAreCovered, Covers, OwnedBy, leaseVars
      <4>2. CASE t # s
        BY <2>1, <2>2, <3>1, <4>2
           DEF ConfirmedWindowIsCovered, Confirmed, Covers, OwnedBy, leaseVars,
               TypeOK
      <4>3. QED
        BY <4>1, <4>2
    <3>2. QED
      BY <3>1 DEF ConfirmedWindowIsCovered
  <2>6. QED
    BY <1>0, <2>3, <2>4, <2>5
<1>6. CASE RenewRefused(s) \/ RenewErrors(s) \/ DeadlineReached(s)
  <2>1. /\ UNCHANGED <<leaseVars, epoch, window>>
        /\ replies' = OtherReplies(s)
        /\ phase' = phase \/ phase' = [phase EXCEPT ![s] = "stopped"]
        /\ \/ requests' = Abandoned(s)
           \/ /\ requests' = Abandoned(s) \cup {Call("release", s)}
              /\ phase' = [phase EXCEPT ![s] = "stopped"]
    BY <1>6 DEF RenewRefused, RenewErrors, DeadlineReached, CountFailure, StepDown
  <2>2. CallsMatchPhases' /\ OneCallAtATime'
    <3>1. \/ requests' = Abandoned(s)
          \/ /\ requests' = Abandoned(s) \cup {Call("release", s)}
             /\ phase'[s] = "stopped"
      BY <2>1 DEF TypeOK
    <3>2. QED
      BY <2>1, <3>1, AbandonKeepsCalls
  <2>3. GrantsAreCovered' /\ ConfirmedWindowIsCovered'
    BY <2>1, QuietStepKeepsCover DEF TypeOK, OtherReplies
  <2>4. QED
    BY <1>0, <2>2, <2>3
<1>7. QED
  BY <1>1, <1>2, <1>3, <1>4, <1>5, <1>6 DEF ClientStep

LEMMA DisturbanceInv ==
    ASSUME IInv, NEW s \in Session, Disturbance(s)
    PROVE  IInv'
<1> USE DEF IInv
<1>1. /\ UNCHANGED <<leaseVars, epoch, window>>
      /\ replies' = OtherReplies(s)
      /\ phase' = phase \/ phase' = [phase EXCEPT ![s] = "stopped"]
      /\ \/ requests' = Abandoned(s)
         \/ /\ requests' = Abandoned(s) \cup {Call("release", s)}
            /\ phase' = [phase EXCEPT ![s] = "stopped"]
  BY DEF Disturbance, AcquireTimesOut, RenewTimesOut, ShutDown, Crash,
         RetryOrGiveUp, CountFailure, StepDown
<1>2. CallsMatchPhases' /\ OneCallAtATime'
  <2>1. \/ requests' = Abandoned(s)
        \/ /\ requests' = Abandoned(s) \cup {Call("release", s)}
           /\ phase'[s] = "stopped"
    BY <1>1 DEF TypeOK
  <2>2. QED
    BY <1>1, <2>1, AbandonKeepsCalls
<1>3. GrantsAreCovered' /\ ConfirmedWindowIsCovered'
  BY <1>1, QuietStepKeepsCover DEF TypeOK, OtherReplies
<1>4. QED
  BY <1>2, <1>3, DisturbanceType, FileAgreesNext DEF Next

\* An answered call of a session becomes its unread answer.
LEMMA AnswerKeepsCalls ==
    ASSUME TypeOK, CallsMatchPhases, OneCallAtATime,
           NEW m \in requests, NEW answer, NEW e, Answer(m, answer, e),
           (answer = "granted" /\ m.kind = "renew") => e = m.epoch,
           UNCHANGED clientVars
    PROVE  CallsMatchPhases' /\ OneCallAtATime'
<1>1. CallsMatchPhases'
  BY DEF Answer, CallsMatchPhases, clientVars
<1>2. OneCallAtATime'
  BY DEF Answer, OneCallAtATime
<1>3. QED
  BY <1>1, <1>2

\* A step of the store that keeps every record of a session that has not stopped
\* keeps the windows and the unread grants of those sessions covered.
LEMMA StoreStepKeepsCover ==
    ASSUME TypeOK, CallsMatchPhases, GrantsAreCovered, ConfirmedWindowIsCovered,
           UNCHANGED clientVars,
           \A s \in Session, e \in Nat, w \in 1 .. Ttl :
              (/\ phase[s] # "stopped"
               /\ Covers(lease, s, e, w)
               /\ Covers(leaseFile, s, e, w))
              => (Covers(lease', s, e, w) /\ Covers(leaseFile', s, e, w))
    PROVE  /\ ConfirmedWindowIsCovered'
           /\ \A r \in replies :
                (r.answer = "granted" /\ r.age < Ttl) =>
                    /\ Covers(lease', r.session, r.epoch, Ttl - r.age)
                    /\ Covers(leaseFile', r.session, r.epoch, Ttl - r.age)
<1>1. ASSUME NEW s \in Session, Confirmed(s)
      PROVE  /\ Covers(lease', s, epoch[s], window[s])
             /\ Covers(leaseFile', s, epoch[s], window[s])
  <2>1. window[s] \in 1 .. Ttl /\ epoch[s] \in Nat /\ phase[s] # "stopped"
    BY <1>1, TtlAssumption DEF Confirmed, TypeOK
  <2>2. QED
    BY <1>1, <2>1 DEF ConfirmedWindowIsCovered
<1>2. ConfirmedWindowIsCovered'
  BY <1>1 DEF ConfirmedWindowIsCovered, Confirmed, Covers, OwnedBy, clientVars
<1>3. ASSUME NEW r \in replies, r.answer = "granted", r.age < Ttl
      PROVE  /\ Covers(lease', r.session, r.epoch, Ttl - r.age)
             /\ Covers(leaseFile', r.session, r.epoch, Ttl - r.age)
  <2>1. /\ Ttl - r.age \in 1 .. Ttl
        /\ r.epoch \in Nat
        /\ r.session \in Session
        /\ phase[r.session] # "stopped"
    BY <1>3, TtlAssumption DEF CallsMatchPhases, TypeOK, Reply, Age
  <2>2. QED
    BY <1>3, <2>1 DEF GrantsAreCovered
<1>4. QED
  BY <1>2, <1>3

\* The record an admitted acquire or renewal writes still covers whatever was
\* covered: a covered session is the one the live lease names.
LEMMA GrantKeepsCover ==
    ASSUME TypeOK, NEW s \in Session, NEW e \in Nat, NEW w \in 1 .. Ttl,
           Covers(lease, s, e, w)
    PROVE  /\ Live(lease)
           /\ \A t \in Session :
                AcquireAdmitted(t) => t = s /\ Covers(Granted(t), s, e, w)
           /\ Covers(Renewed, s, e, w)
<1>1. Live(lease)
  BY TtlAssumption DEF Covers, OwnedBy, Live, TypeOK, LeaseTypeOK, Lease
<1>2. Covers(Renewed, s, e, w)
  BY NoLeaseAssumption, TtlAssumption
     DEF Covers, OwnedBy, Renewed, TypeOK, LeaseTypeOK, Lease
<1>3. ASSUME NEW t \in Session, AcquireAdmitted(t)
      PROVE  t = s /\ Covers(Granted(t), s, e, w)
  BY <1>1, <1>2, <1>3 DEF AcquireAdmitted, Granted, Renewed, Covers, OwnedBy
<1>4. QED
  BY <1>1, <1>2, <1>3

LEMMA HandleAcquireInv ==
    ASSUME IInv, NEW m \in requests, HandleAcquire(m)
    PROVE  IInv'
<1> USE DEF IInv
<1>0. /\ TypeOK' /\ FileAgrees'
      /\ m.session \in Session
      /\ m.age \in Age
      /\ UNCHANGED clientVars
  BY HandleType, FileAgreesNext
     DEF Next, StoreStep, Handle, TypeOK, Request, HandleAcquire
<1>1. CASE /\ AcquireLease(m.session)
           /\ Answer(m, "granted", lease'.epoch)
  <2>1. lease' = Granted(m.session) /\ leaseFile' = Granted(m.session)
    BY <1>1 DEF AcquireLease, WriteLease
  <2>2. CallsMatchPhases' /\ OneCallAtATime'
    BY <1>0, <1>1, AnswerKeepsCalls DEF HandleAcquire
  <2>3. \A s \in Session, e \in Nat, w \in 1 .. Ttl :
            Covers(lease, s, e, w) =>
                Covers(lease', s, e, w) /\ Covers(leaseFile', s, e, w)
    BY <1>0, <1>1, <2>1, GrantKeepsCover DEF AcquireLease
  <2>4. Covers(lease', m.session, lease'.epoch, Ttl - m.age)
          /\ Covers(leaseFile', m.session, lease'.epoch, Ttl - m.age)
    <3>1. /\ lease' \in Lease
          /\ lease'.session = m.session
          /\ lease'.left = Ttl
      BY <1>0, <1>1, <2>1, WrittenLeaseType
         DEF AcquireLease, AcquireAdmitted, Granted, Live, TypeOK, LeaseTypeOK, Lease
    <3>2. QED
      BY <1>0, <2>1, <3>1, NoLeaseAssumption, TtlAssumption
         DEF Covers, OwnedBy, Age
  <2>5. ConfirmedWindowIsCovered' /\ GrantsAreCovered'
    BY <1>0, <1>1, <2>3, <2>4, StoreStepKeepsCover
       DEF GrantsAreCovered, Answer, Covers, OwnedBy
  <2>6. QED
    BY <1>0, <2>2, <2>5
<1>2. CASE /\ Answer(m, "refused", 0) \/ Answer(m, "failed", 0)
           /\ UNCHANGED lease
           /\ \/ leaseFile' = leaseFile
              \/ /\ AcquireAdmitted(m.session)
                 /\ leaseFile' = Granted(m.session)
  <2>1. CallsMatchPhases' /\ OneCallAtATime'
    BY <1>0, <1>2, AnswerKeepsCalls
  <2>2. \A s \in Session, e \in Nat, w \in 1 .. Ttl :
            Covers(lease, s, e, w) /\ Covers(leaseFile, s, e, w) =>
                Covers(lease', s, e, w) /\ Covers(leaseFile', s, e, w)
    BY <1>0, <1>2, GrantKeepsCover
  <2>3. ConfirmedWindowIsCovered' /\ GrantsAreCovered'
    BY <1>0, <1>2, <2>2, StoreStepKeepsCover
       DEF GrantsAreCovered, Answer, Covers, OwnedBy
  <2>4. QED
    BY <1>0, <2>1, <2>3
<1>3. QED
  <2>1. CASE AcquireLease(m.session) /\ Answer(m, "granted", lease'.epoch)
    BY <1>1, <2>1
  <2>2. CASE Answer(m, "refused", 0) /\ UNCHANGED leaseVars
    BY <1>2, <2>2 DEF leaseVars
  <2>3. CASE /\ AcquireAdmitted(m.session)
             /\ WriteLeaseFails(Granted(m.session))
             /\ Answer(m, "failed", 0)
    <3>1. \/ leaseFile' = leaseFile
          \/ /\ AcquireAdmitted(m.session)
             /\ leaseFile' = Granted(m.session)
      BY <2>3 DEF WriteLeaseFails
    <3>2. QED
      BY <1>2, <2>3, <3>1 DEF WriteLeaseFails
  <2>4. QED
    BY <2>1, <2>2, <2>3 DEF HandleAcquire

LEMMA HandleRenewInv ==
    ASSUME IInv, NEW m \in requests, HandleRenew(m)
    PROVE  IInv'
<1> USE DEF IInv
<1>0. /\ TypeOK' /\ FileAgrees'
      /\ m.session \in Session
      /\ m.epoch \in Nat
      /\ m.age \in Age
      /\ UNCHANGED clientVars
  BY HandleType, FileAgreesNext
     DEF Next, StoreStep, Handle, TypeOK, Request, HandleRenew
<1>1. CASE /\ RenewLease(m.session, m.epoch)
           /\ Answer(m, "granted", lease'.epoch)
  <2>1. lease' = Renewed /\ leaseFile' = Renewed
    BY <1>1 DEF RenewLease, WriteLease
  <2>2. /\ lease' \in Lease
        /\ lease'.session = m.session
        /\ lease'.epoch = m.epoch
        /\ lease'.left = Ttl
    BY <1>1, <2>1, TtlAssumption
       DEF RenewLease, RenewAdmitted, OwnedBy, Renewed, TypeOK, LeaseTypeOK, Lease
  <2>3. CallsMatchPhases' /\ OneCallAtATime'
    BY <1>0, <1>1, <2>2, AnswerKeepsCalls
  <2>4. \A s \in Session, e \in Nat, w \in 1 .. Ttl :
            Covers(lease, s, e, w) =>
                Covers(lease', s, e, w) /\ Covers(leaseFile', s, e, w)
    BY <2>1, GrantKeepsCover
  <2>5. Covers(lease', m.session, lease'.epoch, Ttl - m.age)
          /\ Covers(leaseFile', m.session, lease'.epoch, Ttl - m.age)
    BY <1>0, <2>1, <2>2, NoLeaseAssumption, TtlAssumption DEF Covers, OwnedBy, Age
  <2>6. ConfirmedWindowIsCovered' /\ GrantsAreCovered'
    BY <1>0, <1>1, <2>4, <2>5, StoreStepKeepsCover
       DEF GrantsAreCovered, Answer, Covers, OwnedBy
  <2>7. QED
    BY <1>0, <2>3, <2>6
<1>2. CASE /\ Answer(m, "refused", 0) \/ Answer(m, "failed", 0)
           /\ UNCHANGED lease
           /\ leaseFile' = leaseFile \/ leaseFile' = Renewed
  <2>1. CallsMatchPhases' /\ OneCallAtATime'
    BY <1>0, <1>2, AnswerKeepsCalls
  <2>2. \A s \in Session, e \in Nat, w \in 1 .. Ttl :
            Covers(lease, s, e, w) /\ Covers(leaseFile, s, e, w) =>
                Covers(lease', s, e, w) /\ Covers(leaseFile', s, e, w)
    BY <1>0, <1>2, GrantKeepsCover
  <2>3. ConfirmedWindowIsCovered' /\ GrantsAreCovered'
    BY <1>0, <1>2, <2>2, StoreStepKeepsCover
       DEF GrantsAreCovered, Answer, Covers, OwnedBy
  <2>4. QED
    BY <1>0, <2>1, <2>3
<1>3. QED
  BY <1>1, <1>2 DEF HandleRenew, WriteLeaseFails, leaseVars

LEMMA HandleReleaseInv ==
    ASSUME IInv, NEW m \in requests, HandleRelease(m)
    PROVE  IInv'
<1> USE DEF IInv
<1>0. /\ TypeOK' /\ FileAgrees'
      /\ m.session \in Session
      /\ UNCHANGED clientVars
      /\ Answer(m, "granted", 0)
      /\ m.kind = "release"
  BY HandleType, FileAgreesNext
     DEF Next, StoreStep, Handle, TypeOK, Request, HandleRelease
<1>1. phase[m.session] = "stopped" /\ ~m.awaited
  BY <1>0 DEF CallsMatchPhases
<1>2. CallsMatchPhases' /\ OneCallAtATime'
  BY <1>0, AnswerKeepsCalls
<1>3. \A s \in Session, e \in Nat, w \in 1 .. Ttl :
          phase[s] # "stopped" /\ Covers(lease, s, e, w)
                /\ Covers(leaseFile, s, e, w) =>
              Covers(lease', s, e, w) /\ Covers(leaseFile', s, e, w)
  BY <1>1 DEF HandleRelease, ReleaseLease, Covers, OwnedBy, leaseVars
<1>4. ConfirmedWindowIsCovered' /\ GrantsAreCovered'
  BY <1>0, <1>1, <1>3, StoreStepKeepsCover
     DEF GrantsAreCovered, Answer, Covers, OwnedBy
<1>5. QED
  BY <1>0, <1>2, <1>4

\* Deleting an expired record, and reading the file back, lose no coverage.
LEMMA StoreAloneInv ==
    ASSUME IInv, Inspect \/ StoreRestart
    PROVE  IInv'
<1> USE DEF IInv
<1>0. TypeOK' /\ FileAgrees' /\ UNCHANGED <<clientVars, netVars>>
  <2>1. [Next]_vars
    BY DEF Next
  <2>2. QED
    BY <2>1, NextTypeOK, FileAgreesNext DEF Inspect, StoreRestart
<1>1. CallsMatchPhases' /\ OneCallAtATime'
  BY <1>0 DEF CallsMatchPhases, OneCallAtATime, clientVars, netVars
<1>2. \A s \in Session, e \in Nat, w \in 1 .. Ttl :
          Covers(lease, s, e, w) /\ Covers(leaseFile, s, e, w) =>
              Covers(lease', s, e, w) /\ Covers(leaseFile', s, e, w)
  BY GrantKeepsCover
     DEF Inspect, InspectLease, WriteLease, StoreRestart, ReloadLease
<1>3. ConfirmedWindowIsCovered' /\ GrantsAreCovered'
  BY <1>0, <1>2, StoreStepKeepsCover
     DEF GrantsAreCovered, Covers, OwnedBy, netVars
<1>4. QED
  BY <1>0, <1>1, <1>3

LEMMA PassTimeInv ==
    ASSUME IInv, PassTime
    PROVE  IInv'
<1> USE DEF IInv
<1>0. TypeOK' /\ FileAgrees'
  BY PassTimeType, FileAgreesNext DEF Next
<1>1. /\ \A m \in requests :
            /\ Older(m).kind = m.kind
            /\ Older(m).session = m.session
            /\ Older(m).epoch = m.epoch
            /\ Older(m).awaited = m.awaited
      /\ \A r \in replies :
            /\ Older(r).answer = r.answer
            /\ Older(r).session = r.session
            /\ Older(r).epoch = r.epoch
            /\ Older(r).age < Ttl => Older(r).age = r.age + 1 /\ r.age < Ttl
  BY TtlAssumption DEF TypeOK, Request, Reply, Older, Age
<1>2. CallsMatchPhases' /\ OneCallAtATime'
  BY <1>1 DEF PassTime, CallsMatchPhases, OneCallAtATime
<1>3. ASSUME NEW s \in Session, NEW e, NEW w \in 2 .. Ttl,
             NEW l \in {lease, leaseFile}, Covers(l, s, e, w)
      PROVE  Covers(Aged(l), s, e, w - 1)
  <2>1. l \in Lease
    BY <1>3 DEF Covers, OwnedBy, TypeOK, LeaseTypeOK
  <2>2. QED
    BY <1>3, <2>1, AgedLease DEF Covers, OwnedBy, Lease
<1>4. GrantsAreCovered'
  <2>1. ASSUME NEW r \in replies, r.answer = "granted", Older(r).age < Ttl
        PROVE  /\ Covers(Aged(lease), r.session, r.epoch, Ttl - Older(r).age)
               /\ Covers(Aged(leaseFile), r.session, r.epoch, Ttl - Older(r).age)
    <3>1. /\ Ttl - r.age \in 2 .. Ttl
          /\ Ttl - Older(r).age = (Ttl - r.age) - 1
          /\ r.session \in Session
      BY <1>1, <2>1, TtlAssumption DEF TypeOK, Reply, Age
    <3>2. /\ Covers(lease, r.session, r.epoch, Ttl - r.age)
          /\ Covers(leaseFile, r.session, r.epoch, Ttl - r.age)
      BY <1>1, <2>1 DEF GrantsAreCovered
    <3>3. QED
      BY <1>3, <3>1, <3>2
  <2>2. QED
    BY <1>1, <2>1 DEF PassTime, AgeLease, GrantsAreCovered, Covers, OwnedBy
<1>5. ConfirmedWindowIsCovered'
  <2>1. ASSUME NEW s \in Session, Confirmed(s)'
        PROVE  /\ Covers(Aged(lease), s, epoch[s], window'[s])
               /\ Covers(Aged(leaseFile), s, epoch[s], window'[s])
    <3>1. window'[s] = window[s] - 1 /\ window[s] \in 2 .. Ttl /\ Confirmed(s)
      BY <2>1 DEF PassTime, Elapsed, Confirmed, TypeOK
    <3>2. QED
      BY <1>3, <3>1 DEF ConfirmedWindowIsCovered
  <2>2. QED
    BY <2>1 DEF PassTime, AgeLease, ConfirmedWindowIsCovered, Covers, OwnedBy
<1>6. QED
  BY <1>0, <1>2, <1>4, <1>5

LEMMA NextIInv ==
    ASSUME IInv, [Next]_vars
    PROVE  IInv'
<1>1. CASE UNCHANGED vars
  BY <1>1 DEF vars, leaseVars, clientVars, netVars, IInv, TypeOK, LeaseTypeOK,
              CallsMatchPhases, OneCallAtATime, GrantsAreCovered,
              ConfirmedWindowIsCovered, Confirmed, Covers, OwnedBy, FileAgrees, Live
<1>2. QED
  BY <1>1, ClientStepInv, DisturbanceInv, HandleAcquireInv, HandleRenewInv,
     HandleReleaseInv, StoreAloneInv, PassTimeInv
     DEF Next, StoreStep, Handle

\* The inductive invariant holds in every reachable state.
THEOREM InductiveInvariant == Spec => []IInv
<1>1. IInv /\ [Next]_vars => IInv'
  BY NextIInv
<1>2. QED
  BY InitIInv, <1>1, PTL DEF Spec

\* A session inside its confirmed window holds the store's lease, in memory and
\* on disk, for at least as long as it counts on.
THEOREM WindowCovered == Spec => []ConfirmedWindowIsCovered
<1>1. IInv => ConfirmedWindowIsCovered
  BY DEF IInv
<1>2. QED
  BY InductiveInvariant, <1>1, PTL

-----------------------------------------------------------------------------
\* A live lease leaves only a stopped holder.

LEMMA LiveLeaseStep ==
    ASSUME IInv, [Next]_vars, NEW s \in Session,
           Live(lease), lease.session = s, phase[s] # "stopped"
    PROVE  /\ lease' # NoLease
           /\ lease'.session = s
           /\ lease'.epoch = lease.epoch
<1> USE DEF IInv
<1>0. lease \in Lease
  BY DEF Live, TypeOK, LeaseTypeOK
<1>1. CASE UNCHANGED leaseVars
  BY <1>1 DEF leaseVars, Live
<1>2. CASE StoreStep
  <2>1. PICK m \in requests : Handle(m)
    BY <1>2 DEF StoreStep
  <2>2. CASE HandleAcquire(m)
    <3>1. \/ UNCHANGED lease
          \/ lease' = Granted(m.session)
      BY <2>2 DEF HandleAcquire, AcquireLease, WriteLease, WriteLeaseFails, leaseVars
    <3>2. /\ Granted(m.session) \in Lease
          /\ Granted(m.session).session = s
          /\ Granted(m.session).epoch = lease.epoch
      BY <1>0, TtlAssumption DEF Granted, Lease
    <3>3. QED
      BY <3>1, <3>2, <1>0, NoLeaseAssumption
  <2>3. CASE HandleRenew(m)
    BY <2>3, <1>0, NoLeaseAssumption, TtlAssumption
       DEF HandleRenew, RenewLease, RenewAdmitted, OwnedBy, Renewed, WriteLease,
           WriteLeaseFails, leaseVars, Lease
  <2>4. CASE HandleRelease(m)
    <3>1. m.session # s
      BY <2>4 DEF HandleRelease, CallsMatchPhases
    <3>2. UNCHANGED lease
      BY <2>4, <3>1 DEF HandleRelease, ReleaseLease, OwnedBy, leaseVars
    <3>3. QED
      BY <3>2, <1>0, NoLeaseAssumption
  <2>5. QED
    BY <2>1, <2>2, <2>3, <2>4 DEF Handle
<1>3. CASE Inspect \/ StoreRestart
  BY <1>3 DEF Inspect, InspectLease, StoreRestart, ReloadLease, FileAgrees
<1>4. CASE PassTime
  BY <1>0, <1>4, AgedLease DEF PassTime, AgeLease
<1>5. QED
  BY <1>1, <1>2, <1>3, <1>4
     DEF Next, ClientStep, Disturbance, SendAcquire, AcquireGranted,
         AcquireRefused, AcquireErrors, SendRenew, RenewConfirmed, RenewRefused,
         RenewErrors, DeadlineReached, AcquireTimesOut, RenewTimesOut, ShutDown,
         Crash, vars

\* The store never takes a live lease from a process that has not stopped.
THEOREM LiveLeaseKept == Spec => LiveLeaseIsNotLost
<1>1. IInv /\ [Next]_vars =>
        [\A s \in Session :
            (Live(lease) /\ lease.session = s /\ phase[s] # "stopped")
               => (lease' # NoLease /\ lease'.session = s
                       /\ lease'.epoch = lease.epoch)]_vars
  BY LiveLeaseStep
<1>2. QED
  BY InductiveInvariant, <1>1, PTL DEF Spec, LiveLeaseIsNotLost

-----------------------------------------------------------------------------
\* Refinement of SingleLeader.

\* Two confirmed sessions would both be the one the store's lease names.
LEMMA OneConfirmed ==
    ASSUME IInv, NEW s \in Session, NEW t \in Session, Confirmed(s), Confirmed(t)
    PROVE  s = t
BY DEF IInv, ConfirmedWindowIsCovered, Covers, OwnedBy

\* A session only gets confirmed by taking an answer, which leaves the standing
\* of every other session as it was.
LEMMA ConfirmationIsAlone ==
    ASSUME TypeOK, [Next]_vars, NEW s \in Session, NEW t \in Session, t # s,
           ~Confirmed(s), Confirmed(s)', Confirmed(t)
    PROVE  Confirmed(t)'
<1>1. CASE AcquireGranted(s) \/ RenewConfirmed(s)
  BY <1>1 DEF AcquireGranted, RenewConfirmed, Confirmed, TypeOK
<1>2. CASE \E u \in Session : ClientStep(u)
  <2>1. PICK u \in Session : ClientStep(u)
    BY <1>2
  <2>2. CASE u = s
    BY <1>1, <2>1, <2>2
       DEF ClientStep, SendAcquire, AcquireRefused, AcquireErrors, RetryOrGiveUp,
           SendRenew, RenewRefused, RenewErrors, DeadlineReached, CountFailure,
           StepDown, Confirmed, TypeOK, clientVars
  <2>3. CASE u # s
    <3>1. phase'[s] = phase[s] /\ window'[s] = window[s]
      BY <2>1, <2>3
         DEF ClientStep, SendAcquire, AcquireGranted, AcquireRefused,
             AcquireErrors, RetryOrGiveUp, SendRenew, RenewConfirmed,
             RenewRefused, RenewErrors, DeadlineReached, CountFailure, StepDown,
             TypeOK, clientVars
    <3>2. QED
      BY <3>1 DEF Confirmed
  <2>4. QED
    BY <2>2, <2>3
<1>3. CASE \E u \in Session : Disturbance(u)
  BY <1>3
     DEF Disturbance, AcquireTimesOut, RenewTimesOut, ShutDown, Crash,
         RetryOrGiveUp, CountFailure, StepDown, Confirmed, TypeOK
<1>4. CASE PassTime
  BY <1>4 DEF PassTime, Elapsed, Confirmed, TypeOK
<1>5. CASE UNCHANGED clientVars
  BY <1>5 DEF clientVars, Confirmed
<1>6. QED
  BY <1>2, <1>3, <1>4, <1>5
     DEF Next, StoreStep, Handle, HandleAcquire, HandleRenew, HandleRelease,
         Inspect, StoreRestart, vars

\* The protocol implements SingleLeader: initial states map to the state without
\* a leader, and every step to an election, a step down or a stutter.
THEOREM Refinement == Spec => ImplementsSingleLeader
<1> DEFINE Now == {s \in Session : Confirmed(s)}
<1>1. Init => Abstract!Init
  BY DEF Init, Abstract!Init, Confirmed
<1>2. IInv /\ IInv' /\ [Next]_vars => [Abstract!Next]_Now
  <2> SUFFICES ASSUME IInv, IInv', [Next]_vars, Now' # Now, Now' # {}
               PROVE  \E s \in Session : Abstract!Elect(s)
    BY DEF Abstract!Next, Abstract!StepDown
  <2>1. PICK s \in Session : Confirmed(s)'
    OBVIOUS
  <2>2. Now' = {s}
    <3>1. ASSUME NEW t \in Session, Confirmed(t)'
          PROVE  t = s
      BY <2>1, <3>1 DEF IInv, ConfirmedWindowIsCovered, Covers, OwnedBy
    <3>2. QED
      BY <2>1, <3>1
  <2>3. ~Confirmed(s)
    <3>1. CASE Confirmed(s)
      <4>1. Now = {s}
        BY <3>1, OneConfirmed
      <4>2. QED
        BY <2>2, <4>1
    <3>2. QED
      BY <3>1
  <2>4. Now = {}
    <3>1. ASSUME NEW t \in Session, Confirmed(t)
          PROVE  FALSE
      <4>1. t # s
        BY <2>3, <3>1
      <4>2. Confirmed(t)'
        BY <2>1, <2>3, <3>1, <4>1, ConfirmationIsAlone DEF IInv
      <4>3. t \in Now'
        BY <4>2
      <4>4. QED
        BY <2>2, <4>1, <4>3
    <3>2. QED
      BY <3>1
  <2>5. QED
    BY <2>2, <2>4 DEF Abstract!Elect
<1>3. QED
  BY InductiveInvariant, <1>1, <1>2, PTL DEF Spec, ImplementsSingleLeader, Abstract!Spec
=============================================================================
