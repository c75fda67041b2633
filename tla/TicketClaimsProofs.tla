------------------------- MODULE TicketClaimsProofs -------------------------
(***************************************************************************)
(* Proofs about TicketClaims, for every set of orchestrator sessions and     *)
(* every choice of its times and bounds.                                     *)
(***************************************************************************)
EXTENDS TicketClaims, TLAPS

-----------------------------------------------------------------------------
\* Type correctness.

LEMMA InitTypeOK == Init => TypeOK
BY TtlAssumption, ClaimAssumption
   DEF Init, LeaseInit, TypeOK, LeaseTypeOK, Up, Stage

\* Whatever the store does to the lease leaves it well formed.
LEMMA LeaseStepType ==
    ASSUME LeaseTypeOK, NEW s \in Session, NEW e \in Nat,
           \/ AcquireLease(s)
           \/ RenewLease(s, e)
           \/ LetLeaseGo(s)
           \/ InspectLease
           \/ ReloadLease
           \/ AgeLease
           \/ UNCHANGED leaseVars
    PROVE  LeaseTypeOK'
<1> USE TtlAssumption, NoLeaseAssumption DEF LeaseTypeOK
<1>1. CASE AcquireLease(s)
  BY <1>1 DEF AcquireLease, AcquireAdmitted, WriteLease, Granted, Live, Lease, Epoch
<1>2. CASE RenewLease(s, e)
  BY <1>2 DEF RenewLease, RenewAdmitted, WriteLease, Renewed, Live, OwnedBy, Lease
<1>3. CASE LetLeaseGo(s)
  BY <1>3 DEF LetLeaseGo, ReleaseLease, WriteLease, leaseVars
<1>4. CASE InspectLease
  BY <1>4 DEF InspectLease, WriteLease
<1>5. CASE ReloadLease
  BY <1>5 DEF ReloadLease
<1>6. CASE AgeLease
  BY <1>6 DEF AgeLease, Aged, Live, Lease
<1>7. CASE UNCHANGED leaseVars
  BY <1>7 DEF leaseVars
<1>8. QED
  BY <1>1, <1>2, <1>3, <1>4, <1>5, <1>6, <1>7

\* The calls a process makes, abandons or is refused are well formed.
LEMMA CallTypes ==
    ASSUME TypeOK
    PROVE  /\ \A s \in Session, k \in Kind, c \in 0 .. MaxClaims :
                Call(k, s, c) \in CallRecord
           /\ \A m \in CallRecord : Orphan(m) \in CallRecord /\ Refusal(m) \in CallRecord
BY DEF TypeOK, Call, Orphan, Refusal, CallRecord, Kind

LEMMA GiveUpType ==
    ASSUME TypeOK, NEW s \in Session, NEW k \in Kind, GiveUp(s, k)
    PROVE  calls' \subseteq CallRecord
<1>1. \A m \in calls : m \in CallRecord /\ Orphan(m) \in CallRecord
  BY CallTypes DEF TypeOK
<1>2. QED
  BY <1>1 DEF GiveUp

LEMMA PersistType ==
    ASSUME TypeOK, NEW c \in Claim \cup {NoClaim}, Persist(c),
           recovered' \in 0 .. MaxClaims
    PROVE  /\ claimFile' \in Claim \cup {NoClaim}
           /\ recoveredFile' \in 0 .. MaxClaims
           /\ faults' \in 0 .. MaxFaults
BY ClaimAssumption DEF TypeOK, Persist, Fault

LEMMA FaultType ==
    ASSUME TypeOK, Fault
    PROVE  faults' \in 0 .. MaxFaults
BY ClaimAssumption DEF TypeOK, Fault

LEMMA CancelledType ==
    ASSUME TypeOK, NEW s \in Session
    PROVE  Cancelled(s) \in [Session -> Stage]
BY DEF TypeOK, Cancelled, Stage

LEMMA ProcessType ==
    ASSUME TypeOK, NEW s \in Session, Process(s)
    PROVE  TypeOK'
<1>1. CASE LeaderStarts(s)
  <2>1. LeaseTypeOK' /\ lease'.epoch \in Nat
    BY <1>1, LeaseStepType, TtlAssumption, NoLeaseAssumption
       DEF LeaderStarts, TypeOK, AcquireLease, WriteLease, AcquireAdmitted,
           Granted, Live, LeaseTypeOK, Lease, Epoch
  <2>2. QED
    BY <1>1, <2>1 DEF LeaderStarts, TypeOK, claimVars, jobVars, Up
<1>2. CASE LeaderRenews(s)
  <2>1. LeaseTypeOK'
    BY <1>2, LeaseStepType DEF LeaderRenews, TypeOK
  <2>2. QED
    BY <1>2, <2>1 DEF LeaderRenews, TypeOK, claimVars, jobVars, processVars
<1>3. CASE LeaseLost(s)
  <2>1. LeaseTypeOK' /\ stage' \in [Session -> Stage]
    BY <1>3, LeaseStepType, CancelledType DEF LeaseLost, Depose, TypeOK
  <2>2. QED
    BY <1>3, <2>1 DEF LeaseLost, Depose, TypeOK, claimVars, Up
<1>4. CASE Drain(s)
  <2>1. stage' \in [Session -> Stage]
    BY <1>4, CancelledType DEF Drain
  <2>2. QED
    BY <1>4, <2>1 DEF Drain, TypeOK, claimVars, leaseVars, LeaseTypeOK, Up
<1>5. CASE Leave(s)
  <2>1. LeaseTypeOK'
    BY <1>5, LeaseStepType DEF Leave, TypeOK
  <2>2. QED
    BY <1>5, <2>1 DEF Leave, TypeOK, claimVars, jobVars, Up
<1>6. CASE Crash(s)
  <2>1. calls' \subseteq CallRecord
    <3>1. \A m \in calls : m \in CallRecord /\ Orphan(m) \in CallRecord
      BY CallTypes DEF TypeOK
    <3>2. QED
      BY <1>6, <3>1 DEF Crash
  <2>2. QED
    BY <1>6, <2>1, ClaimAssumption
       DEF Crash, TypeOK, claimVars, leaseVars, LeaseTypeOK, Up, Stage
<1>7. QED
  BY <1>1, <1>2, <1>3, <1>4, <1>5, <1>6 DEF Process

LEMMA DispatchType ==
    ASSUME TypeOK, NEW s \in Session, Dispatch(s)
    PROVE  TypeOK'
<1> USE ClaimAssumption
<1>1. CASE TryClaim(s)
  <2>1. Call("claim", s, 0) \in CallRecord
    BY CallTypes DEF Kind
  <2>2. QED
    BY <1>1, <2>1 DEF TryClaim, Send, TypeOK, leaseVars, LeaseTypeOK, claimVars,
                      processVars, Stage
<1>2. CASE ClaimTimesOut(s)
  BY <1>2, GiveUpType, FaultType
     DEF ClaimTimesOut, TypeOK, leaseVars, LeaseTypeOK, claimVars, processVars,
         Stage, Kind
<1>3. CASE SendRecovery(s)
  <2>1. Orphan(Call("recover", s, 0)) \in CallRecord
    BY CallTypes DEF Kind
  <2>2. QED
    BY <1>3, <2>1 DEF SendRecovery, SendWrite, Send, TypeOK, leaseVars, LeaseTypeOK,
                      claimVars, processVars, jobVars
<1>4. CASE AgentWrites(s)
  <2>1. Orphan(Call("write", s, held[s])) \in CallRecord
    BY CallTypes DEF Kind, TypeOK
  <2>2. QED
    BY <1>4, <2>1 DEF AgentWrites, SendWrite, Send, TypeOK, leaseVars, LeaseTypeOK,
                      claimVars, processVars, jobVars
<1>5. CASE SendRenewal(s)
  <2>1. Call("renew", s, held[s]) \in CallRecord
    BY CallTypes DEF Kind, TypeOK
  <2>2. QED
    BY <1>5, <2>1 DEF SendRenewal, Send, TypeOK, leaseVars, LeaseTypeOK, claimVars,
                      processVars, jobVars
<1>6. CASE RenewalFails(s)
  <2>1. stage' \in [Session -> Stage]
    BY <1>6, CancelledType DEF RenewalFails, Depose
  <2>2. QED
    BY <1>6, <2>1 DEF RenewalFails, Depose, TypeOK, leaseVars, LeaseTypeOK, claimVars
<1>7. CASE RenewalTimesOut(s)
  <2>1. /\ stage' \in [Session -> Stage]
        /\ calls' \subseteq CallRecord
        /\ faults' \in 0 .. MaxFaults
    BY <1>7, CancelledType, GiveUpType, FaultType DEF RenewalTimesOut, Depose, Kind
  <2>2. QED
    BY <1>7, <2>1 DEF RenewalTimesOut, Depose, TypeOK, leaseVars, LeaseTypeOK,
                      claimVars
<1>8. CASE AgentEnds(s)
  BY <1>8 DEF AgentEnds, TypeOK, leaseVars, LeaseTypeOK, claimVars, processVars, Stage
<1>9. CASE CleanUp(s)
  <2>1. calls' \subseteq CallRecord
    <3>1. \A m \in calls : m \in CallRecord /\ Orphan(m) \in CallRecord
      BY CallTypes DEF TypeOK
    <3>2. Call("release", s, held[s]) \in CallRecord
      BY CallTypes DEF Kind, TypeOK
    <3>3. QED
      BY <1>9, <3>1, <3>2 DEF CleanUp
  <2>2. QED
    BY <1>9, <2>1 DEF CleanUp, TypeOK, leaseVars, LeaseTypeOK, claimVars, processVars,
                      Stage
<1>10. CASE ReleaseTimesOut(s)
  BY <1>10, GiveUpType, FaultType
     DEF ReleaseTimesOut, TypeOK, leaseVars, LeaseTypeOK, claimVars, processVars,
         Stage, Kind
<1>11. QED
  BY <1>1, <1>2, <1>3, <1>4, <1>5, <1>6, <1>7, <1>8, <1>9, <1>10 DEF Dispatch

LEMMA HandleType ==
    ASSUME TypeOK, NEW m \in calls, Handle(m)
    PROVE  TypeOK'
<1> USE ClaimAssumption, NoClaimAssumption, NoLeaseAssumption
<1>m. m \in CallRecord /\ m.session \in Session
  BY DEF TypeOK, CallRecord
<1>1. CASE GrantClaim(m)
  <2>1. claim' \in Claim /\ issued' \in 0 .. MaxClaims
    BY <1>1, <1>m DEF GrantClaim, ClaimAdmitted, Fenced, RenewAdmitted, OwnedBy,
                      TypeOK, LeaseTypeOK, Lease, Claim, ClaimId
  <2>2. /\ claimFile' \in Claim \cup {NoClaim}
        /\ recovered' \in 0 .. MaxClaims /\ recoveredFile' \in 0 .. MaxClaims
        /\ faults' \in 0 .. MaxFaults
    BY <1>1, <2>1, PersistType DEF GrantClaim, TypeOK
  <2>3. stage' \in [Session -> Stage] /\ held' \in [Session -> 0 .. MaxClaims]
    BY <1>1, <1>m DEF GrantClaim, TypeOK, jobVars, Stage
  <2>4. QED
    BY <1>1, <2>1, <2>2, <2>3 DEF GrantClaim, Done, TypeOK, leaseVars, LeaseTypeOK,
                                   processVars
<1>2. CASE RefuseClaim(m)
  BY <1>2, <1>m DEF RefuseClaim, Done, TypeOK, leaseVars, LeaseTypeOK, claimVars,
                    processVars, Stage
<1>3. CASE RenewClaim(m)
  <2>1. claim' \in Claim
    BY <1>3 DEF RenewClaim, Renews, Matches, ClaimLive, TypeOK, Claim
  <2>2. /\ claimFile' \in Claim \cup {NoClaim}
        /\ recovered' \in 0 .. MaxClaims /\ recoveredFile' \in 0 .. MaxClaims
        /\ faults' \in 0 .. MaxFaults
    BY <1>3, <2>1, PersistType DEF RenewClaim, Renews, TypeOK
  <2>3. QED
    BY <1>3, <2>1, <2>2 DEF RenewClaim, Renews, Done, TypeOK, leaseVars, LeaseTypeOK,
                             processVars, jobVars
<1>4. CASE RefuseRenewal(m)
  <2>1. calls' \subseteq CallRecord
    BY <1>4, <1>m, CallTypes DEF RefuseRenewal, TypeOK
  <2>2. QED
    BY <1>4, <2>1 DEF RefuseRenewal, TypeOK, leaseVars, LeaseTypeOK, claimVars,
                      processVars, jobVars
<1>5. CASE ReleaseClaim(m)
  <2>1. /\ claim' \in Claim \cup {NoClaim}
        /\ claimFile' \in Claim \cup {NoClaim}
        /\ recovered' \in 0 .. MaxClaims /\ recoveredFile' \in 0 .. MaxClaims
        /\ faults' \in 0 .. MaxFaults
    BY <1>5, PersistType DEF ReleaseClaim, TypeOK
  <2>2. QED
    BY <1>5, <1>m, <2>1 DEF ReleaseClaim, Done, TypeOK, leaseVars, LeaseTypeOK,
                            processVars, jobVars, Stage
<1>6. CASE HandleWrite(m)
  <2>1. /\ claimFile' \in Claim \cup {NoClaim}
        /\ recovered' \in 0 .. MaxClaims /\ recoveredFile' \in 0 .. MaxClaims
        /\ faults' \in 0 .. MaxFaults
    BY <1>6, PersistType DEF HandleWrite, TypeOK
  <2>2. written' \in 0 .. MaxClaims
    BY <1>6, <1>m DEF HandleWrite, TypeOK, CallRecord
  <2>3. QED
    BY <1>6, <2>1, <2>2 DEF HandleWrite, Done, TypeOK, leaseVars, LeaseTypeOK,
                             processVars, jobVars
<1>7. CASE HandleRecovery(m)
  <2>1. /\ claimFile' \in Claim \cup {NoClaim}
        /\ recovered' \in 0 .. MaxClaims /\ recoveredFile' \in 0 .. MaxClaims
        /\ faults' \in 0 .. MaxFaults
    BY <1>7, PersistType DEF HandleRecovery, TypeOK
  <2>2. QED
    BY <1>7, <2>1 DEF HandleRecovery, Done, TypeOK, leaseVars, LeaseTypeOK,
                      processVars, jobVars
<1>8. QED
  BY <1>1, <1>2, <1>3, <1>4, <1>5, <1>6, <1>7 DEF Handle

LEMMA EnvironmentType ==
    ASSUME TypeOK, ForceClose \/ Inspect \/ StoreRestart \/ PassTime
    PROVE  TypeOK'
<1> USE ClaimAssumption, NoClaimAssumption
<1>1. CASE ForceClose
  <2>1. /\ claimFile' \in Claim \cup {NoClaim}
        /\ recovered' \in 0 .. MaxClaims /\ recoveredFile' \in 0 .. MaxClaims
        /\ faults' \in 0 .. MaxFaults
    BY <1>1, PersistType DEF ForceClose, TypeOK
  <2>2. QED
    BY <1>1, <2>1 DEF ForceClose, TypeOK, leaseVars, LeaseTypeOK, processVars, jobVars
<1>2. CASE Inspect
  BY <1>2 DEF Inspect, InspectLease, WriteLease, TypeOK, LeaseTypeOK, claimVars,
              processVars, jobVars
<1>3. CASE StoreRestart
  <2>1. calls' \subseteq CallRecord
    <3>1. \A m \in calls : m \in CallRecord /\ Refusal(m) \in CallRecord
      BY CallTypes DEF TypeOK
    <3>2. QED
      BY <1>3, <3>1 DEF StoreRestart
  <2>2. stage' \in [Session -> Stage] /\ held' \in [Session -> 0 .. MaxClaims]
    BY <1>3 DEF StoreRestart, TypeOK, Stage
  <2>3. QED
    BY <1>3, <2>1, <2>2 DEF StoreRestart, ReloadLease, TypeOK, LeaseTypeOK,
                                   processVars
<1>4. CASE PassTime
  <2>1. LeaseTypeOK'
    BY <1>4, TtlAssumption, NoLeaseAssumption
       DEF PassTime, AgeLease, Aged, Live, Lease, TypeOK, LeaseTypeOK
  <2>2. claim' \in Claim \cup {NoClaim} /\ claimFile' \in Claim \cup {NoClaim}
    BY <1>4 DEF PassTime, AgedClaim, ClaimLive, TypeOK, Claim
  <2>3. QED
    BY <1>4, <2>1, <2>2 DEF PassTime, TypeOK, processVars, jobVars
<1>5. QED
  BY <1>1, <1>2, <1>3, <1>4

\* A step that changes nothing keeps everything.
LEMMA StutterType ==
    ASSUME TypeOK, UNCHANGED vars
    PROVE  TypeOK'
BY DEF TypeOK, vars, leaseVars, LeaseTypeOK, claimVars, processVars, jobVars

LEMMA NextTypeOK == TypeOK /\ [Next]_vars => TypeOK'
BY ProcessType, DispatchType, HandleType, EnvironmentType, StutterType DEF Next

\* Every variable of TicketClaims keeps its type: claims and calls carry ids
\* that were issued to sessions that exist.
THEOREM ClaimTypeCorrect == Spec => []TypeOK
BY InitTypeOK, NextTypeOK, PTL DEF Spec

-----------------------------------------------------------------------------
\* Old writers stay fenced.

LEMMA InitIInv == Init => IInv
<1>1. Init => TypeOK
  BY InitTypeOK
<1>2. QED
  BY <1>1 DEF IInv, Init, LeaseInit, LeaseSynced, IdsIssued, StartingIsBlank,
              WritesAreOlder, OldWritersAreFenced

\* The lease steps of the store, when none of its writes fails: file and cache
\* agree, and a session that has lost the lease does not get it back.
LEMMA LeaseStepSynced ==
    ASSUME TypeOK, LeaseSynced, NEW s \in Session, NEW e,
           \/ RenewLease(s, e)
           \/ LetLeaseGo(s)
           \/ InspectLease
           \/ ReloadLease
           \/ AgeLease
           \/ UNCHANGED leaseVars
    PROVE  /\ LeaseSynced'
           /\ lease' # NoLease => lease # NoLease /\ lease'.session = lease.session
<1> USE NoLeaseAssumption DEF LeaseSynced, TypeOK, LeaseTypeOK
<1>1. CASE RenewLease(s, e)
  BY <1>1 DEF RenewLease, RenewAdmitted, WriteLease, Renewed, Live, OwnedBy, Lease
<1>2. CASE LetLeaseGo(s)
  BY <1>2 DEF LetLeaseGo, ReleaseLease, WriteLease, leaseVars
<1>3. CASE InspectLease
  BY <1>3 DEF InspectLease, WriteLease
<1>4. CASE ReloadLease
  BY <1>4 DEF ReloadLease
<1>5. CASE AgeLease
  BY <1>5 DEF AgeLease, Aged, Live, Lease
<1>6. CASE UNCHANGED leaseVars
  BY <1>6 DEF leaseVars
<1>7. QED
  BY <1>1, <1>2, <1>3, <1>4, <1>5, <1>6

\* A call that was already there, possibly no longer awaited.
Comes(m, n) == m.kind = n.kind /\ m.session = n.session /\ m.claim = n.claim

\* A step that neither grants a claim, nor accepts or sends a write, nor gives
\* the lease to anyone, keeps old writers fenced.
LEMMA QuietStep ==
    ASSUME IInv,
           UNCHANGED <<issued, written>>,
           claim' = claim \/ claim' = NoClaim \/ (claim # NoClaim /\ claim'.id = claim.id),
           claimFile' \in {claimFile, claim, claim', NoClaim}
               \/ (claimFile # NoClaim /\ claimFile'.id = claimFile.id),
           \A s \in Session : held'[s] \in {held[s], 0},
           \A s \in Session : up'[s] = "starting" => up[s] = "starting",
           lease' # NoLease => lease # NoLease /\ lease'.session = lease.session,
           \A m \in calls' : m.claim <= issued,
           \A m \in calls' : m.kind = "write" => \E n \in calls : Comes(m, n)
    PROVE  IdsIssued' /\ WritesAreOlder' /\ OldWritersAreFenced'
<1>1. IdsIssued'
  BY DEF IInv, IdsIssued, TypeOK
<1>2. WritesAreOlder'
  <2> SUFFICES ASSUME NEW m \in calls', m.kind = "write", held'[m.session] # 0
               PROVE  m.claim <= held'[m.session]
    BY DEF WritesAreOlder
  <2>1. PICK n \in calls : Comes(m, n)
    OBVIOUS
  <2>2. n.session \in Session /\ n.kind = "write"
    BY <2>1 DEF IInv, TypeOK, CallRecord, Comes
  <2>3. QED
    BY <2>1, <2>2 DEF IInv, WritesAreOlder, Comes
<1>3. \A s \in Session : OutOfLease(s) => OutOfLease(s)'
  BY DEF OutOfLease
<1>4. \A id : ~Carries(claim, id) => ~Carries(claim', id)
  BY DEF Carries
<1>5. \A id : ~Carries(claim, id) /\ ~Carries(claimFile, id) => ~Carries(claimFile', id)
  <2> SUFFICES ASSUME NEW id, ~Carries(claim, id), ~Carries(claimFile, id)
               PROVE  ~Carries(claimFile', id)
    OBVIOUS
  <2>1. ~Carries(claim', id)
    BY <1>4
  <2>2. QED
    BY <2>1 DEF Carries
<1>6. OldWritersAreFenced'
  <2>1. ASSUME NEW m \in calls', m.kind = "write", m.claim < written
        PROVE  OutOfLease(m.session)' \/ ~Carries(claim', m.claim)
    <3>1. PICK n \in calls : Comes(m, n)
      BY <2>1
    <3>2. n.session \in Session
      BY DEF IInv, TypeOK, CallRecord
    <3>3. OutOfLease(n.session) \/ ~Carries(claim, n.claim)
      BY <2>1, <3>1 DEF IInv, OldWritersAreFenced, Comes
    <3>4. QED
      BY <3>1, <3>2, <3>3, <1>3, <1>4 DEF Comes
  <2>2. ASSUME NEW s \in Session, held'[s] # 0, held'[s] < written
        PROVE  \/ OutOfLease(s)'
               \/ ~Carries(claim', held'[s]) /\ ~Carries(claimFile', held'[s])
    <3>1. held'[s] = held[s]
      BY <2>2
    <3>2. \/ OutOfLease(s)
          \/ ~Carries(claim, held[s]) /\ ~Carries(claimFile, held[s])
      BY <2>2, <3>1 DEF IInv, OldWritersAreFenced
    <3>3. QED
      BY <3>1, <3>2, <1>3, <1>4, <1>5 DEF Carries
  <2>3. QED
    BY <2>1, <2>2 DEF OldWritersAreFenced
<1>7. QED
  BY <1>1, <1>2, <1>6

\* A write that was already there, and no call for a claim not yet issued.
NoNewWrites ==
    /\ \A m \in calls' : m.claim <= issued
    /\ \A m \in calls' : m.kind = "write" => \E n \in calls : Comes(m, n)

LEMMA OldCalls ==
    ASSUME IInv
    PROVE  /\ \A m \in calls : m.claim <= issued /\ Comes(m, m) /\ Comes(Orphan(m), m)
           /\ \A m \in calls : Orphan(m).claim <= issued
           /\ \A m \in calls : Refusal(m).claim <= issued /\ Refusal(m).kind = "refusal"
BY DEF IInv, IdsIssued, Orphan, Refusal, Comes

LEMMA GiveUpOld ==
    ASSUME IInv, NEW s, NEW k, GiveUp(s, k)
    PROVE  /\ NoNewWrites
           /\ \A m \in calls' : \E n \in calls : n.session = m.session
BY OldCalls DEF GiveUp, NoNewWrites, Comes

LEMMA SendOld ==
    ASSUME IInv, NEW m, Send(m), m.kind # "write", m.claim <= issued
    PROVE  NoNewWrites
BY OldCalls DEF Send, NoNewWrites

\* What keeps a process blank until it starts.
LEMMA StaysBlank ==
    ASSUME IInv, NEW s \in Session, up[s] # "starting",
           \A r \in Session : up'[r] = "starting" => up[r] = "starting",
           \A r \in Session : r # s => stage'[r] = stage[r] /\ held'[r] = held[r],
           \A m \in calls' : m.session # s => \E n \in calls : n.session = m.session,
           up'[s] # "starting"
    PROVE  StartingIsBlank'
<1> SUFFICES ASSUME NEW r \in Session, up'[r] = "starting"
             PROVE  /\ held'[r] = 0
                    /\ stage'[r] = "idle"
                    /\ \A m \in calls' : m.session # r
  BY DEF StartingIsBlank
<1>1. r # s /\ up[r] = "starting"
  OBVIOUS
<1>2. QED
  BY <1>1 DEF IInv, StartingIsBlank

\* A granted lease is a lease.
LEMMA GrantedType ==
    ASSUME LeaseTypeOK, NEW s \in Session, AcquireAdmitted(s)
    PROVE  Granted(s) \in Lease
BY TtlAssumption, NoLeaseAssumption
   DEF LeaseTypeOK, Lease, Epoch, Granted, Live, AcquireAdmitted

LEMMA ProcessFenced ==
    ASSUME IInv, NEW s \in Session, Process(s)
    PROVE  IInv'
<1>t. TypeOK'
  BY ProcessType DEF IInv
<1>1. CASE LeaderStarts(s)
  <2>1. LeaseSynced'
    BY <1>1 DEF LeaderStarts, AcquireLease, WriteLease, LeaseSynced
  <2>2. lease' # NoLease /\ lease'.session = s
    <3>1. lease' = Granted(s) /\ AcquireAdmitted(s)
      BY <1>1 DEF LeaderStarts, AcquireLease, WriteLease
    <3>2. Granted(s).session = s
      BY <3>1, NoLeaseAssumption
         DEF AcquireAdmitted, Granted, Live, IInv, TypeOK, LeaseTypeOK, Lease
    <3>3. Granted(s) # NoLease
      BY <3>1, <3>2, NoLeaseAssumption, GrantedType DEF IInv, TypeOK
    <3>4. QED
      BY <3>1, <3>2, <3>3
  <2>3. UNCHANGED <<claim, claimFile, issued, stage, held, calls, written>>
    BY <1>1 DEF LeaderStarts, claimVars, jobVars
  <2>4. \A r \in Session : r # s => up'[r] = up[r]
    BY <1>1 DEF LeaderStarts, IInv, TypeOK
  <2>5. up[s] = "starting" /\ up'[s] = "leading"
    BY <1>1 DEF LeaderStarts, IInv, TypeOK
  <2>6. IdsIssued' /\ WritesAreOlder'
    BY <2>3 DEF IInv, IdsIssued, WritesAreOlder
  <2>7. StartingIsBlank'
    BY <2>3, <2>4, <2>5 DEF IInv, StartingIsBlank
  <2>8. OldWritersAreFenced'
    <3>1. \A r \in Session : r # s /\ OutOfLease(r) => OutOfLease(r)'
      BY <2>2, <2>4 DEF OutOfLease
    <3>2. held[s] = 0 /\ \A m \in calls : m.session # s
      BY <2>5 DEF IInv, StartingIsBlank
    <3>3. \A m \in calls : m.session \in Session
      BY DEF IInv, TypeOK, CallRecord
    <3>4. QED
      BY <2>3, <3>1, <3>2, <3>3 DEF IInv, OldWritersAreFenced, Carries
  <2>9. QED
    BY <1>t, <2>1, <2>6, <2>7, <2>8 DEF IInv
<1>2. ASSUME LeaderRenews(s) \/ LeaseLost(s) \/ Drain(s) \/ Leave(s) \/ Crash(s)
      PROVE  IInv'
  <2>1. LeaseSynced' /\ (lease' # NoLease => lease # NoLease /\ lease'.session = lease.session)
    <3>1. \/ RenewLease(s, cred[s])
          \/ LetLeaseGo(s)
          \/ UNCHANGED leaseVars
      BY <1>2 DEF LeaderRenews, LeaseLost, Drain, Leave, Crash
    <3>2. QED
      BY <3>1, LeaseStepSynced DEF IInv
  <2>2. UNCHANGED <<claim, claimFile, issued, written>>
    BY <1>2 DEF LeaderRenews, LeaseLost, Drain, Leave, Crash, claimVars
  <2>3. /\ up[s] # "starting" \/ Crash(s)
        /\ up'[s] # "starting"
        /\ \A r \in Session : up'[r] = "starting" => up[r] = "starting"
    BY <1>2 DEF LeaderRenews, LeaseLost, Drain, Leave, Crash, processVars, IInv, TypeOK
  <2>4. /\ \A r \in Session : held'[r] \in {held[r], 0}
        /\ \A r \in Session : r # s => stage'[r] = stage[r] /\ held'[r] = held[r]
    BY <1>2 DEF LeaderRenews, LeaseLost, Depose, Cancelled, Drain, Leave, Crash, jobVars,
                IInv, TypeOK
  <2>5. /\ NoNewWrites
        /\ \A m \in calls' : \E n \in calls : n.session = m.session
    <3>1. CASE calls' = calls
      BY <3>1, OldCalls DEF NoNewWrites
    <3>2. CASE Crash(s)
      BY <3>2, OldCalls DEF NoNewWrites, Crash, Comes
    <3>3. QED
      BY <1>2, <3>1, <3>2 DEF LeaderRenews, LeaseLost, Drain, Leave
  <2>6. StartingIsBlank'
    <3>1. CASE up[s] # "starting"
      BY <3>1, <2>3, <2>4, <2>5, StaysBlank
    <3>2. CASE Crash(s)
      BY <3>2, <2>3, <2>4, <2>5 DEF IInv, StartingIsBlank
    <3>3. QED
      BY <2>3, <3>1, <3>2
  <2>7. QED
    BY <1>t, <2>1, <2>2, <2>3, <2>4, <2>5, <2>6, QuietStep DEF IInv, NoNewWrites
<1>3. QED
  BY <1>1, <1>2 DEF Process

\* A step of a running process that leaves lease, claim and history alone, and
\* sends no write, keeps old writers fenced.
LEMMA ProcessStepFenced ==
    ASSUME IInv, TypeOK', NEW s \in Session, up[s] # "starting",
           UNCHANGED <<leaseVars, claimVars, up, written>>,
           \A r \in Session : held'[r] \in {held[r], 0},
           \A r \in Session : r # s => stage'[r] = stage[r] /\ held'[r] = held[r],
           NoNewWrites,
           \A m \in calls' : m.session # s => \E n \in calls : n.session = m.session
    PROVE  IInv'
<1>1. LeaseSynced' /\ (lease' # NoLease => lease # NoLease /\ lease'.session = lease.session)
  BY LeaseStepSynced DEF IInv
<1>2. StartingIsBlank'
  BY StaysBlank
<1>3. QED
  BY <1>1, <1>2, QuietStep DEF IInv, NoNewWrites, claimVars

LEMMA DispatchFenced ==
    ASSUME IInv, NEW s \in Session, Dispatch(s)
    PROVE  IInv'
<1>t. TypeOK'
  BY DispatchType DEF IInv
<1>u. up[s] # "starting"
  BY DEF Dispatch, TryClaim, Polling, ClaimTimesOut, SendRecovery, Awake, AgentWrites,
         SendRenewal, RenewalFails, RenewalTimesOut, AgentEnds, CleanUp,
         ReleaseTimesOut, IInv, StartingIsBlank
<1>1. CASE TryClaim(s)
  <2>1. NoNewWrites
    BY <1>1, SendOld, ClaimAssumption DEF TryClaim, Call, IInv, TypeOK
  <2>2. QED
    BY <1>1, <1>t, <1>u, <2>1, ProcessStepFenced
       DEF TryClaim, Send, Call, processVars, IInv, TypeOK
<1>2. CASE ClaimTimesOut(s) \/ ReleaseTimesOut(s) \/ RenewalTimesOut(s)
  <2>1. /\ NoNewWrites
        /\ \A m \in calls' : \E n \in calls : n.session = m.session
    BY <1>2, GiveUpOld DEF ClaimTimesOut, ReleaseTimesOut, RenewalTimesOut
  <2>2. /\ UNCHANGED <<leaseVars, claimVars, up, written>>
        /\ \A r \in Session : held'[r] \in {held[r], 0}
        /\ \A r \in Session : r # s => stage'[r] = stage[r] /\ held'[r] = held[r]
    BY <1>2 DEF ClaimTimesOut, ReleaseTimesOut, RenewalTimesOut, Depose, Cancelled,
                processVars, IInv, TypeOK
  <2>3. QED
    BY <1>t, <1>u, <2>1, <2>2, ProcessStepFenced
<1>3. CASE SendRecovery(s)
  <2>1. NoNewWrites
    BY <1>3, SendOld, ClaimAssumption
       DEF SendRecovery, SendWrite, Call, Orphan, IInv, TypeOK
  <2>2. QED
    BY <1>3, <1>t, <1>u, <2>1, ProcessStepFenced
       DEF SendRecovery, SendWrite, Send, Call, Orphan, processVars, jobVars
<1>4. CASE AgentWrites(s)
  <2> DEFINE w == Orphan(Call("write", s, held[s]))
  <2>1. /\ w.kind = "write" /\ w.session = s /\ w.claim = held[s]
        /\ calls' = calls \cup {w}
    BY <1>4 DEF AgentWrites, SendWrite, Send, Call, Orphan
  <2> HIDE DEF w
  <2>2. UNCHANGED <<lease, leaseFile, claim, claimFile, issued, up, stage, held, written>>
    BY <1>4 DEF AgentWrites, leaseVars, claimVars, processVars, jobVars
  <2>3. IdsIssued' /\ LeaseSynced' /\ StartingIsBlank'
    BY <1>u, <2>1, <2>2 DEF IInv, IdsIssued, LeaseSynced, StartingIsBlank
  <2>4. WritesAreOlder'
    BY <2>1, <2>2 DEF IInv, WritesAreOlder, TypeOK
  <2>5. OldWritersAreFenced'
    <3>1. w.claim < written => OutOfLease(s) \/ ~Carries(claim, w.claim)
      BY <2>1 DEF IInv, TypeOK, OldWritersAreFenced, Carries, Claim, ClaimId
    <3>2. QED
      BY <2>1, <2>2, <3>1 DEF IInv, OldWritersAreFenced, OutOfLease
  <2>6. QED
    BY <1>t, <2>3, <2>4, <2>5 DEF IInv
<1>5. CASE SendRenewal(s)
  <2>1. NoNewWrites
    BY <1>5, SendOld DEF SendRenewal, Call, IInv, IdsIssued
  <2>2. QED
    BY <1>5, <1>t, <1>u, <2>1, ProcessStepFenced
       DEF SendRenewal, Send, Call, processVars, jobVars
<1>6. CASE RenewalFails(s)
  <2>1. NoNewWrites
    BY <1>6, OldCalls DEF RenewalFails, NoNewWrites
  <2>2. QED
    BY <1>6, <1>t, <1>u, <2>1, ProcessStepFenced
       DEF RenewalFails, Depose, Cancelled, IInv, TypeOK
<1>7. CASE AgentEnds(s)
  <2>1. NoNewWrites
    BY <1>7, OldCalls DEF AgentEnds, NoNewWrites
  <2>2. QED
    BY <1>7, <1>t, <1>u, <2>1, ProcessStepFenced
       DEF AgentEnds, processVars, IInv, TypeOK
<1>8. CASE CleanUp(s)
  <2> DEFINE r == Call("release", s, held[s])
  <2>1. r.kind = "release" /\ r.session = s /\ r.claim = held[s]
    BY DEF Call
  <2> HIDE DEF r
  <2>2. \A m \in calls' :
          \/ m = r
          \/ \E n \in calls : m = n \/ m = Orphan(n)
    BY <1>8 DEF CleanUp, r
  <2>3. NoNewWrites
    BY <2>1, <2>2, OldCalls DEF NoNewWrites, IInv, IdsIssued
  <2>4. \A m \in calls' : m.session # s => \E n \in calls : n.session = m.session
    BY <2>1, <2>2 DEF Orphan
  <2>5. /\ UNCHANGED <<leaseVars, claimVars, up, written, held>>
        /\ \A q \in Session : q # s => stage'[q] = stage[q]
    BY <1>8 DEF CleanUp, processVars, IInv, TypeOK
  <2>6. QED
    BY <1>t, <1>u, <2>3, <2>4, <2>5, ProcessStepFenced
<1>9. QED
  BY <1>1, <1>2, <1>3, <1>4, <1>5, <1>6, <1>7, <1>8 DEF Dispatch

\* The store rejects the writes of earlier claims: an accepted one belongs to
\* the session that has the lease and to the claim the ticket carries.
LEMMA AcceptedWriteIsLatest ==
    ASSUME IInv, NEW m \in calls, m.kind = "write", WriteAdmitted(m)
    PROVE  /\ m.claim >= written
           /\ lease # NoLease /\ lease.session = m.session
           /\ Carries(claim, m.claim)
<1>1. lease # NoLease /\ lease.session = m.session
  BY DEF WriteAdmitted, Fenced, RenewAdmitted, OwnedBy
<1>2. Carries(claim, m.claim)
  BY DEF WriteAdmitted, Matches, ClaimLive, Carries
<1>3. m.claim \in Nat /\ written \in Nat
  BY DEF IInv, TypeOK, CallRecord
<1>4. ~(m.claim < written)
  BY <1>1, <1>2 DEF IInv, OldWritersAreFenced, OutOfLease
<1>5. QED
  BY <1>1, <1>2, <1>3, <1>4

LEMMA HandleFenced ==
    ASSUME IInv, NEW m \in calls, Handle(m)
    PROVE  IInv'
<1>t. TypeOK'
  BY HandleType DEF IInv
<1>m. m \in CallRecord /\ m.session \in Session
  BY DEF IInv, TypeOK, CallRecord
<1>u. up[m.session] # "starting"
  BY <1>m DEF IInv, StartingIsBlank
<1>c. CASE calls' \subseteq calls /\ UNCHANGED <<leaseVars, issued, processVars, jobVars, written>>
           /\ (claim' = claim \/ claim' = NoClaim \/ (claim # NoClaim /\ claim'.id = claim.id))
           /\ claimFile' \in {claimFile, claim, claim', NoClaim}
  <2>1. LeaseSynced' /\ (lease' # NoLease => lease # NoLease /\ lease'.session = lease.session)
    BY <1>c, <1>m, LeaseStepSynced DEF IInv
  <2>2. NoNewWrites
    BY <1>c, OldCalls DEF NoNewWrites
  <2>3. StartingIsBlank'
    BY <1>c DEF IInv, StartingIsBlank, processVars, jobVars
  <2>4. IdsIssued' /\ WritesAreOlder' /\ OldWritersAreFenced'
    <3>1. UNCHANGED <<issued, written, up, held>>
      BY <1>c DEF processVars, jobVars
    <3>2. QED
      BY <1>c, <2>1, <2>2, <3>1, QuietStep DEF NoNewWrites
  <2>5. QED
    BY <1>t, <2>1, <2>3, <2>4 DEF IInv
<1>1. CASE GrantClaim(m)
  <2>1. /\ UNCHANGED <<lease, leaseFile, up, written>>
        /\ issued' = issued + 1
        /\ claim'.id = issued + 1
        /\ claimFile' = claimFile \/ claimFile' = claim'
        /\ calls' \subseteq calls
    BY <1>1 DEF GrantClaim, Persist, Done, leaseVars, processVars
  <2>2. /\ \A s \in Session : s # m.session => held'[s] = held[s] /\ stage'[s] = stage[s]
        /\ held'[m.session] = held[m.session] \/ held'[m.session] = issued + 1
    BY <1>1, <1>m DEF GrantClaim, jobVars, IInv, TypeOK
  <2>3. issued \in Nat /\ written \in Nat /\ \A s \in Session : held[s] \in Nat
    BY ClaimAssumption DEF IInv, TypeOK
  <2>4. \A n \in calls : n.claim \in Nat /\ n.claim <= issued /\ n.session \in Session
    BY DEF IInv, IdsIssued, TypeOK, CallRecord
  <2>5. LeaseSynced' /\ StartingIsBlank'
    BY <1>u, <1>m, <2>1, <2>2 DEF IInv, LeaseSynced, StartingIsBlank
  <2>6. IdsIssued'
    BY <2>1, <2>2, <2>3, <2>4 DEF IInv, IdsIssued
  <2>7. WritesAreOlder'
    BY <2>1, <2>2, <2>3, <2>4 DEF IInv, WritesAreOlder
  <2>8. OldWritersAreFenced'
    <3>1. \A id \in Nat : id <= issued => ~Carries(claim', id)
      BY <2>1, <2>3 DEF Carries
    <3>2. \A s \in Session : OutOfLease(s) => OutOfLease(s)'
      BY <2>1 DEF OutOfLease
    <3>3. ASSUME NEW s \in Session, held'[s] # 0, held'[s] < written
          PROVE  \/ OutOfLease(s)'
                 \/ ~Carries(claim', held'[s]) /\ ~Carries(claimFile', held'[s])
      <4>1. written <= issued
        BY DEF IInv, IdsIssued
      <4>2. held'[s] = held[s]
        BY <2>2, <2>3, <3>3, <4>1
      <4>3. held[s] <= issued
        BY DEF IInv, IdsIssued
      <4>4. ~Carries(claim', held'[s])
        BY <2>3, <3>1, <4>2, <4>3
      <4>5. OutOfLease(s) \/ ~Carries(claimFile, held[s])
        BY <3>3, <4>2 DEF IInv, OldWritersAreFenced
      <4>6. QED
        BY <2>1, <3>2, <4>2, <4>4, <4>5
    <3>4. \A n \in calls' : ~Carries(claim', n.claim)
      BY <2>1, <2>4, <3>1
    <3>5. QED
      BY <2>1, <3>3, <3>4 DEF OldWritersAreFenced
  <2>9. QED
    BY <1>t, <2>5, <2>6, <2>7, <2>8 DEF IInv
<1>2. CASE RefuseClaim(m) \/ RefuseRenewal(m) \/ ReleaseClaim(m)
  <2>1. /\ UNCHANGED <<leaseVars, issued, up, written>>
        /\ claim' = claim \/ claim' = NoClaim
        /\ claimFile' \in {claimFile, NoClaim}
    BY <1>2 DEF RefuseClaim, RefuseRenewal, ReleaseClaim, Persist, claimVars, processVars
  <2>2. /\ \A r \in Session : held'[r] \in {held[r], 0}
        /\ \A r \in Session :
             r # m.session => stage'[r] = stage[r] /\ held'[r] = held[r]
    BY <1>2, <1>m DEF RefuseClaim, RefuseRenewal, ReleaseClaim, jobVars, IInv, TypeOK
  <2>3. NoNewWrites
    BY <1>2, OldCalls DEF RefuseClaim, RefuseRenewal, ReleaseClaim, Done, NoNewWrites
  <2>4. \A n \in calls' : \E o \in calls : n.session = o.session
    BY <1>2 DEF RefuseClaim, RefuseRenewal, ReleaseClaim, Done, Refusal
  <2>5. LeaseSynced' /\ (lease' # NoLease => lease # NoLease /\ lease'.session = lease.session)
    BY <2>1, <1>m, LeaseStepSynced DEF IInv
  <2>6. StartingIsBlank'
    BY <1>m, <1>u, <2>1, <2>2, <2>4, StaysBlank
  <2>7. QED
    BY <1>t, <2>1, <2>2, <2>3, <2>5, <2>6, QuietStep DEF IInv, NoNewWrites
<1>3. CASE RenewClaim(m)
  <2>1. claim # NoClaim /\ claim'.id = claim.id
    BY <1>3 DEF RenewClaim, Renews, Matches, ClaimLive, IInv, TypeOK, Claim
  <2>2. claimFile' \in {claimFile, claim'}
    BY <1>3 DEF RenewClaim, Renews, Persist
  <2>3. QED
    BY <1>3, <1>c, <2>1, <2>2 DEF RenewClaim, Renews, Done
<1>4. CASE HandleRecovery(m)
  BY <1>4, <1>c DEF HandleRecovery, Persist, Done
<1>5. CASE HandleWrite(m) /\ ~WriteAdmitted(m)
  BY <1>5, <1>c DEF HandleWrite, Done
<1>6. CASE HandleWrite(m) /\ WriteAdmitted(m)
  <2>1. /\ UNCHANGED <<lease, leaseFile, claim, issued, up, stage, held>>
        /\ written' = m.claim
        /\ claimFile' \in {claimFile, claim}
        /\ calls' \subseteq calls
        /\ m.kind = "write"
    BY <1>6 DEF HandleWrite, Persist, Done, leaseVars, processVars, jobVars
  <2>2. /\ lease # NoLease /\ lease.session = m.session
        /\ Carries(claim, m.claim)
    BY <1>6, <2>1, AcceptedWriteIsLatest
  <2>3. IdsIssued' /\ LeaseSynced' /\ StartingIsBlank' /\ WritesAreOlder'
    BY <2>1 DEF IInv, IdsIssued, LeaseSynced, StartingIsBlank, WritesAreOlder
  <2>4. m.claim \in Nat /\ \A s \in Session : held[s] \in Nat
    BY <1>m DEF CallRecord, IInv, TypeOK
  <2>5. \A id \in Nat : id < m.claim => ~Carries(claim', id)
    BY <2>1, <2>2, <2>4 DEF Carries
  <2>6. \A s \in Session : held[s] # 0 /\ held[s] < m.claim => OutOfLease(s)'
    <3>1. \A s \in Session : held[s] # 0 => up[s] # "starting"
      BY DEF IInv, StartingIsBlank
    <3>2. \A s \in Session : held[s] # 0 /\ held[s] < m.claim => s # m.session
      BY <2>1, <2>4, <1>m DEF IInv, WritesAreOlder
    <3>3. QED
      BY <2>1, <2>2, <3>1, <3>2 DEF OutOfLease
  <2>7. \A n \in calls : n.claim \in Nat
    BY DEF IInv, TypeOK, CallRecord
  <2>8. OldWritersAreFenced'
    BY <2>1, <2>5, <2>6, <2>7 DEF OldWritersAreFenced
  <2>9. QED
    BY <1>t, <2>3, <2>8 DEF IInv
<1>7. QED
  BY <1>1, <1>2, <1>3, <1>4, <1>5, <1>6 DEF Handle

LEMMA EnvironmentFenced ==
    ASSUME IInv, ForceClose \/ Inspect \/ StoreRestart \/ PassTime
    PROVE  IInv'
<1>t. TypeOK'
  BY EnvironmentType DEF IInv
<1>1. UNCHANGED <<issued, written, up>>
  BY DEF ForceClose, Inspect, StoreRestart, PassTime, claimVars, processVars
<1>2. LeaseSynced' /\ (lease' # NoLease => lease # NoLease /\ lease'.session = lease.session)
  <2> USE NoLeaseAssumption DEF LeaseSynced, IInv, TypeOK, LeaseTypeOK
  <2>1. CASE ForceClose
    BY <2>1 DEF ForceClose, leaseVars
  <2>2. CASE Inspect
    BY <2>2 DEF Inspect, InspectLease, WriteLease
  <2>3. CASE StoreRestart
    BY <2>3 DEF StoreRestart, ReloadLease
  <2>4. CASE PassTime
    BY <2>4 DEF PassTime, AgeLease, Aged, Live, Lease
  <2>5. QED
    BY <2>1, <2>2, <2>3, <2>4
<1>a. \A c : AgedClaim(c) = c \/ (ClaimLive(c) /\ AgedClaim(c) = [c EXCEPT !.left = @ - 1])
  BY DEF AgedClaim
<1>b. \A c \in Claim \cup {NoClaim} :
        \/ AgedClaim(c) = c
        \/ c # NoClaim /\ AgedClaim(c).id = c.id
  BY <1>a DEF ClaimLive, Claim
<1>3. \/ claim' = claim \/ claim' = NoClaim
      \/ (claim # NoClaim /\ claim'.id = claim.id)
      \/ StoreRestart
  <2>1. CASE PassTime
    BY <2>1, <1>b DEF PassTime, IInv, TypeOK
  <2>2. QED
    BY <2>1 DEF ForceClose, Inspect, claimVars
<1>4. \/ claimFile' \in {claimFile, claim, claim', NoClaim}
      \/ (claimFile # NoClaim /\ claimFile'.id = claimFile.id)
  <2>1. CASE PassTime
    BY <2>1, <1>b DEF PassTime, IInv, TypeOK
  <2>2. QED
    BY <2>1 DEF ForceClose, Inspect, StoreRestart, Persist, claimVars
<1>5. /\ \A s \in Session : held'[s] \in {held[s], 0}
      /\ \A s \in Session : stage[s] = "idle" => stage'[s] = "idle"
      /\ \A m \in calls' : \E n \in calls : n.session = m.session
  BY DEF ForceClose, Inspect, StoreRestart, PassTime, jobVars, Refusal, IInv, TypeOK
<1>6. NoNewWrites
  BY OldCalls DEF ForceClose, Inspect, StoreRestart, PassTime, NoNewWrites
<1>7. StartingIsBlank'
  <2> SUFFICES ASSUME NEW s \in Session, up[s] = "starting"
               PROVE  /\ held'[s] = 0 /\ stage'[s] = "idle"
                      /\ \A m \in calls' : m.session # s
    BY <1>1 DEF StartingIsBlank
  <2>1. held[s] = 0 /\ stage[s] = "idle" /\ \A m \in calls : m.session # s
    BY DEF IInv, StartingIsBlank
  <2>2. QED
    BY <1>5, <2>1
<1>8. CASE ~StoreRestart
  BY <1>t, <1>1, <1>2, <1>3, <1>4, <1>5, <1>6, <1>7, <1>8, QuietStep DEF IInv, NoNewWrites
<1>9. CASE StoreRestart
  <2>1. claim' = claimFile /\ claimFile' = claimFile
    BY <1>9 DEF StoreRestart
  <2>2. \A m \in calls' : m.kind # "write"
    BY <1>9 DEF StoreRestart, Refusal
  <2>3. IdsIssued' /\ WritesAreOlder'
    BY <1>1, <1>5, <1>6, <2>2
       DEF IInv, IdsIssued, WritesAreOlder, NoNewWrites, TypeOK
  <2>4. \A s \in Session : OutOfLease(s) => OutOfLease(s)'
    BY <1>1, <1>2 DEF OutOfLease
  <2>5. OldWritersAreFenced'
    BY <1>1, <1>5, <2>1, <2>2, <2>4 DEF IInv, OldWritersAreFenced
  <2>6. QED
    BY <1>t, <1>2, <1>7, <2>3, <2>5 DEF IInv
<1>10. QED
  BY <1>8, <1>9

LEMMA NextIInv == IInv /\ [Next]_vars => IInv'
<1>1. IInv /\ UNCHANGED vars => IInv'
  BY StutterType
     DEF vars, leaseVars, claimVars, processVars, jobVars, IInv, LeaseSynced, IdsIssued,
         StartingIsBlank, WritesAreOlder, OldWritersAreFenced, OutOfLease
<1>2. QED
  BY <1>1, ProcessFenced, DispatchFenced, HandleFenced, EnvironmentFenced DEF Next

\* Whoever still speaks for a claim older than one already written under has
\* lost the lease, or its claim is gone from the ticket and from the file.
THEOREM OldWritersFenced == Spec => []IInv
BY InitIInv, NextIInv, PTL DEF Spec

LEMMA WritesNeverGoBack == IInv /\ [Next]_vars => [written' >= written]_vars
<1> SUFFICES ASSUME IInv, [Next]_vars, written' # written
             PROVE  written' >= written
  BY DEF IInv, TypeOK
<1>1. PICK m \in calls : HandleWrite(m)
  BY DEF Next, vars, Process, Dispatch, LeaderStarts, LeaderRenews, LeaseLost, Drain, Leave,
         Crash, TryClaim, ClaimTimesOut, SendRecovery, AgentWrites, SendRenewal,
         RenewalFails, RenewalTimesOut, AgentEnds, CleanUp, ReleaseTimesOut, Handle,
         GrantClaim, RefuseClaim, RenewClaim, Renews, RefuseRenewal, ReleaseClaim,
         HandleRecovery, ForceClose, Inspect, StoreRestart, PassTime
<1>2. WriteAdmitted(m) /\ written' = m.claim /\ m.kind = "write"
  BY <1>1 DEF HandleWrite
<1>3. QED
  BY <1>2, AcceptedWriteIsLatest

\* However calls are lost, delayed, repeated after a restart or overtaken by a
\* new leader, the store accepts agent writes in the order of their claims.
THEOREM WritesInClaimOrder == Spec => WritesFollowClaims
<1>1. IInv /\ [Next]_vars => [written' >= written]_vars
  BY WritesNeverGoBack
<1>2. QED
  BY <1>1, OldWritersFenced, PTL DEF Spec, WritesFollowClaims

-----------------------------------------------------------------------------
\* Recovery stands.

LEMMA InitRecoveryInv == Init => RecoveryInv
BY ClaimAssumption, NoClaimAssumption
   DEF Init, RecoveryInv, EpochsAgree, FencedBefore, ClaimLive

\* A process that has started stays started, with the epoch it drew.
LEMMA CredStays ==
    ASSUME IInv, [Next]_vars, NEW s \in Session, up[s] # "starting"
    PROVE  up'[s] # "starting" /\ cred'[s] = cred[s]
<1>1. CASE UNCHANGED vars
  BY <1>1 DEF vars, processVars
<1>2. ASSUME NEW r \in Session, Process(r) PROVE up'[s] # "starting" /\ cred'[s] = cred[s]
  BY <1>2 DEF Process, LeaderStarts, LeaderRenews, LeaseLost, Drain, Leave, Crash, processVars,
              IInv, TypeOK
<1>3. ASSUME NEW r \in Session, Dispatch(r) PROVE UNCHANGED <<up, cred>>
  BY <1>3 DEF Dispatch, TryClaim, ClaimTimesOut, SendRecovery, AgentWrites, SendRenewal,
              RenewalFails, RenewalTimesOut, AgentEnds, CleanUp, ReleaseTimesOut, processVars
<1>4. ASSUME NEW m \in calls, Handle(m) PROVE UNCHANGED <<up, cred>>
  BY <1>4 DEF Handle, GrantClaim, RefuseClaim, RenewClaim, Renews, RefuseRenewal,
              ReleaseClaim, HandleWrite, HandleRecovery, processVars
<1>5. CASE ForceClose \/ Inspect \/ StoreRestart \/ PassTime
  BY <1>5 DEF ForceClose, Inspect, StoreRestart, PassTime, processVars
<1>6. QED
  BY <1>1, <1>2, <1>3, <1>4, <1>5 DEF Next

\* A session that has lost the lease never gets it back.
LEMMA OutOfLeaseStays ==
    ASSUME IInv, [Next]_vars, NEW s \in Session, OutOfLease(s)
    PROVE  OutOfLease(s)'
<1>1. up'[s] # "starting"
  BY CredStays DEF OutOfLease
<1>2. ASSUME NEW r \in Session, LeaderStarts(r)
      PROVE  r # s /\ lease'.session = r
  <2>1. lease' = Granted(r) /\ AcquireAdmitted(r) /\ up[r] = "starting"
    BY <1>2 DEF LeaderStarts, AcquireLease, WriteLease
  <2>2. Granted(r).session = r
    BY <2>1, NoLeaseAssumption
       DEF AcquireAdmitted, Granted, Live, IInv, TypeOK, LeaseTypeOK, Lease
  <2>3. QED
    BY <2>1, <2>2 DEF OutOfLease
<1>3. \/ \E r \in Session : LeaderStarts(r)
      \/ \E r \in Session : \/ \E e : RenewLease(r, e)
                            \/ LetLeaseGo(r)
                            \/ InspectLease
                            \/ ReloadLease
                            \/ AgeLease
                            \/ UNCHANGED leaseVars
  <2>1. ASSUME NEW r \in Session, Process(r) PROVE <1>3
    BY <2>1 DEF Process, LeaderRenews, LeaseLost, Drain, Leave, Crash
  <2>2. ASSUME NEW r \in Session, Dispatch(r) PROVE UNCHANGED leaseVars
    BY <2>2 DEF Dispatch, TryClaim, ClaimTimesOut, SendRecovery, AgentWrites, SendRenewal,
                RenewalFails, RenewalTimesOut, AgentEnds, CleanUp, ReleaseTimesOut
  <2>3. ASSUME NEW m \in calls, Handle(m) PROVE UNCHANGED leaseVars
    BY <2>3 DEF Handle, GrantClaim, RefuseClaim, RenewClaim, Renews, RefuseRenewal,
                ReleaseClaim, HandleWrite, HandleRecovery
  <2>4. CASE ForceClose \/ Inspect \/ StoreRestart \/ PassTime
    BY <2>4 DEF ForceClose, Inspect, StoreRestart, PassTime
  <2>5. QED
    BY <2>1, <2>2, <2>3, <2>4 DEF Next, vars
<1>4. CASE \E r \in Session : LeaderStarts(r)
  BY <1>1, <1>2, <1>4 DEF OutOfLease
<1>5. CASE ~\E r \in Session : LeaderStarts(r)
  <2>1. lease' # NoLease => lease # NoLease /\ lease'.session = lease.session
    BY <1>3, <1>5, LeaseStepSynced DEF IInv
  <2>2. QED
    BY <1>1, <2>1 DEF OutOfLease
<1>6. QED
  BY <1>4, <1>5

\* Every call is an old one, perhaps answered or given up, or one that a started
\* process sends with its epoch.
LEMMA CallsSpeak ==
    ASSUME IInv, [Next]_vars, NEW m \in calls'
    PROVE  \/ \E n \in calls : n.session = m.session /\ n.epoch = m.epoch
           \/ /\ m.session \in Session
              /\ up[m.session] # "starting"
              /\ m.epoch = cred[m.session]
<1> DEFINE Speaks == \/ \E n \in calls : n.session = m.session /\ n.epoch = m.epoch
                     \/ /\ m.session \in Session
                        /\ up[m.session] # "starting"
                        /\ m.epoch = cred[m.session]
<1>1. ASSUME NEW r \in Session, Process(r) PROVE Speaks
  BY <1>1 DEF Process, LeaderStarts, LeaderRenews, LeaseLost, Drain, Leave, Crash, Orphan
<1>2. ASSUME NEW r \in Session, Dispatch(r) PROVE Speaks
  <2>1. \A k \in Kind : GiveUp(r, k) => Speaks
    BY DEF GiveUp, Orphan
  <2>2. \A n : Send(n) => m \in calls \/ m = n
    BY DEF Send
  <2>3. Awake(r) \/ Polling(r) => up[r] # "starting"
    BY DEF Awake, Polling
  <2>4. CASE TryClaim(r) \/ SendRecovery(r) \/ AgentWrites(r) \/ SendRenewal(r)
    BY <2>2, <2>3, <2>4
       DEF TryClaim, SendRecovery, AgentWrites, SendRenewal, SendWrite, Call, Orphan
  <2>5. CASE CleanUp(r)
    BY <2>3, <2>5 DEF CleanUp, Call, Orphan
  <2>6. CASE ClaimTimesOut(r) \/ RenewalTimesOut(r) \/ ReleaseTimesOut(r)
    BY <2>1, <2>6 DEF ClaimTimesOut, RenewalTimesOut, ReleaseTimesOut, Kind
  <2>7. CASE RenewalFails(r) \/ AgentEnds(r)
    BY <2>7 DEF RenewalFails, AgentEnds
  <2>8. QED
    BY <1>2, <2>4, <2>5, <2>6, <2>7 DEF Dispatch
<1>3. ASSUME NEW n \in calls, Handle(n) PROVE Speaks
  BY <1>3 DEF Handle, GrantClaim, RefuseClaim, RenewClaim, Renews, RefuseRenewal,
              ReleaseClaim, HandleWrite, HandleRecovery, Done, Refusal
<1>4. CASE ForceClose \/ Inspect \/ StoreRestart \/ PassTime
  BY <1>4 DEF ForceClose, Inspect, StoreRestart, PassTime, Refusal
<1>5. QED
  BY <1>1, <1>2, <1>3, <1>4 DEF Next, vars

\* The claim c is what is left of d: the same grant, and live only if d was.
Stems(c, d) ==
    \/ c = NoClaim
    \/ /\ d # NoClaim
       /\ c.session = d.session /\ c.epoch = d.epoch /\ c.id = d.id
       /\ ClaimLive(c) => ClaimLive(d)

\* The claim in memory and the recovery beside it: both stay, both come from the
\* file, the claim is new, or the recovery is.
MemoryStep ==
    \/ Stems(claim', claim) /\ recovered' = recovered
    \/ claim' = claimFile /\ recovered' = recoveredFile
    \/ /\ recovered' = recovered
       /\ claim'.id = issued + 1
       /\ \E m \in calls : claim'.session = m.session /\ claim'.epoch = m.epoch
    \/ /\ claim' = claim
       /\ recovered' = issued
       /\ \E m \in calls : RecoverAdmitted(m)

\* Both are saved together, or the file keeps both.
FileStep ==
    \/ Stems(claimFile', claimFile) /\ recoveredFile' = recoveredFile
    \/ claimFile' = claim' /\ recoveredFile' = recovered'

LEMMA ClaimStep ==
    ASSUME IInv, [Next]_vars
    PROVE  MemoryStep /\ FileStep /\ issued' \in {issued, issued + 1}
<1>s. /\ Stems(claim, claim) /\ Stems(claimFile, claimFile)
      /\ Stems(NoClaim, claim) /\ Stems(NoClaim, claimFile)
  BY DEF Stems
<1>p. \A c : Persist(c) /\ claim' = c => FileStep
  BY <1>s DEF Persist, FileStep
<1>0. CASE UNCHANGED claimVars
  BY <1>0, <1>s DEF claimVars, MemoryStep, FileStep
<1>1. ASSUME NEW r \in Session, Process(r) \/ Dispatch(r) PROVE UNCHANGED claimVars
  BY <1>1 DEF Process, LeaderStarts, LeaderRenews, LeaseLost, Drain, Leave, Crash,
              Dispatch, TryClaim, ClaimTimesOut, SendRecovery, AgentWrites, SendRenewal,
              RenewalFails, RenewalTimesOut, AgentEnds, CleanUp, ReleaseTimesOut
<1>2. ASSUME NEW m \in calls, Handle(m)
      PROVE  MemoryStep /\ FileStep /\ issued' \in {issued, issued + 1}
  <2>1. CASE GrantClaim(m)
    BY <2>1, <1>p DEF GrantClaim, MemoryStep
  <2>2. CASE RefuseClaim(m) \/ RefuseRenewal(m)
    BY <2>2, <1>0 DEF RefuseClaim, RefuseRenewal, claimVars
  <2>3. CASE RenewClaim(m)
    <3>1. Stems(claim', claim)
      BY <2>3 DEF RenewClaim, Renews, Matches, Stems, ClaimLive, IInv, TypeOK, Claim
    <3>2. QED
      BY <2>3, <3>1, <1>p DEF RenewClaim, Renews, MemoryStep
  <2>4. CASE ReleaseClaim(m)
    BY <2>4, <1>s, <1>p DEF ReleaseClaim, MemoryStep, FileStep
  <2>5. CASE HandleWrite(m)
    BY <2>5, <1>s, <1>p DEF HandleWrite, MemoryStep, FileStep
  <2>6. CASE HandleRecovery(m)
    BY <2>6, <1>s, <1>p DEF HandleRecovery, MemoryStep, FileStep
  <2>7. QED
    BY <1>2, <2>1, <2>2, <2>3, <2>4, <2>5, <2>6 DEF Handle
<1>3. CASE ForceClose
  BY <1>3, <1>s, <1>p DEF ForceClose, MemoryStep
<1>4. CASE Inspect
  BY <1>4, <1>0 DEF Inspect, claimVars
<1>5. CASE StoreRestart
  BY <1>5, <1>s DEF StoreRestart, MemoryStep, FileStep
<1>6. CASE PassTime
  <2>1. \A c \in Claim \cup {NoClaim} : Stems(AgedClaim(c), c)
    BY ClaimAssumption, NoClaimAssumption DEF AgedClaim, Stems, ClaimLive, Claim
  <2>2. QED
    BY <1>6, <2>1 DEF PassTime, MemoryStep, FileStep, IInv, TypeOK
<1>7. QED
  BY <1>0, <1>1, <1>2, <1>3, <1>4, <1>5, <1>6 DEF Next, vars, claimVars

LEMMA NextRecoveryInv == IInv /\ RecoveryInv /\ [Next]_vars => RecoveryInv'
<1> SUFFICES ASSUME IInv, RecoveryInv, [Next]_vars
             PROVE  RecoveryInv'
  OBVIOUS
<1>s. MemoryStep /\ FileStep /\ issued' \in {issued, issued + 1}
  BY ClaimStep
<1>t. /\ issued \in Nat /\ recovered \in Nat /\ recoveredFile \in Nat
      /\ claim \in Claim \cup {NoClaim} /\ claimFile \in Claim \cup {NoClaim}
      /\ \A m \in calls : m.session \in Session
  BY ClaimAssumption DEF IInv, TypeOK, CallRecord
<1>b. \A m \in calls : up[m.session] # "starting" /\ m.epoch = cred[m.session]
  BY <1>t DEF IInv, StartingIsBlank, RecoveryInv, EpochsAgree
<1>1. recovered' <= issued' /\ recoveredFile' <= issued'
  BY <1>s, <1>t DEF MemoryStep, FileStep, RecoveryInv
<1>2. \A m \in calls' : m.epoch = cred'[m.session]
  <2> SUFFICES ASSUME NEW m \in calls' PROVE m.epoch = cred'[m.session]
    OBVIOUS
  <2>1. m.session \in Session /\ up[m.session] # "starting" /\ m.epoch = cred[m.session]
    BY <1>t, <1>b, CallsSpeak
  <2>2. QED
    BY <2>1, CredStays
<1>d. DEFINE Speaker(c) == c # NoClaim => /\ c.session \in Session
                                         /\ up[c.session] # "starting"
                                         /\ c.epoch = cred[c.session]
<1>3. Speaker(claim) /\ Speaker(claimFile)
  BY <1>t DEF RecoveryInv, EpochsAgree, Claim
<1>4. Speaker(claim') /\ Speaker(claimFile')
  <2>1. Speaker(claim')
    BY <1>s, <1>t, <1>b, <1>3 DEF MemoryStep, Stems
  <2>2. QED
    BY <1>s, <1>3, <2>1 DEF FileStep, Stems
<1>5. EpochsAgree'
  BY <1>2, <1>4, CredStays DEF EpochsAgree
<1>6. \A s \in Session : OutOfLease(s) => OutOfLease(s)'
  BY OutOfLeaseStays
<1>7. FencedBefore(claim, recovered)'
  <2>1. ASSUME ClaimLive(claim'), claim'.id <= recovered'
        PROVE  OutOfLease(claim'.session)
    <3>0. claim' # NoClaim /\ claim'.session \in Session
      BY <1>4, <2>1 DEF ClaimLive
    <3>1. CASE Stems(claim', claim) /\ recovered' = recovered
      BY <2>1, <3>0, <3>1 DEF Stems, RecoveryInv, FencedBefore
    <3>2. CASE claim' = claimFile /\ recovered' = recoveredFile
      BY <2>1, <3>2 DEF RecoveryInv, FencedBefore
    <3>3. CASE claim'.id = issued + 1 /\ recovered' = recovered
      BY <1>t, <2>1, <3>3 DEF RecoveryInv
    <3>4. CASE /\ claim' = claim
               /\ \E m \in calls : RecoverAdmitted(m)
      <4>1. PICK m \in calls : RecoverAdmitted(m)
        BY <3>4
      <4>2. lease # NoLease /\ lease.session = m.session
        BY <4>1 DEF RecoverAdmitted, Fenced, RenewAdmitted, OwnedBy
      <4>3. claim.session # m.session
        BY <1>b, <1>3, <2>1, <3>0, <3>4, <4>1 DEF RecoverAdmitted
      <4>4. QED
        BY <1>3, <3>0, <3>4, <4>2, <4>3 DEF OutOfLease
    <3>5. QED
      BY <1>s, <3>1, <3>2, <3>3, <3>4 DEF MemoryStep
  <2>2. ClaimLive(claim') => claim'.session \in Session
    BY <1>4 DEF ClaimLive
  <2>3. QED
    BY <1>6, <2>1, <2>2 DEF FencedBefore, ClaimLive, OutOfLease
<1>8. FencedBefore(claimFile, recoveredFile)'
  <2>1. CASE claimFile' = claim' /\ recoveredFile' = recovered'
    BY <1>7, <2>1 DEF FencedBefore, OutOfLease, ClaimLive
  <2>2. CASE Stems(claimFile', claimFile) /\ recoveredFile' = recoveredFile
    <3>1. ASSUME ClaimLive(claimFile'), claimFile'.id <= recoveredFile'
          PROVE  OutOfLease(claimFile'.session)
      BY <2>2, <3>1 DEF Stems, ClaimLive, RecoveryInv, FencedBefore
    <3>2. ClaimLive(claimFile') => claimFile'.session \in Session
      BY <1>4 DEF ClaimLive
    <3>3. QED
      BY <1>6, <3>1, <3>2 DEF FencedBefore, ClaimLive, OutOfLease
  <2>3. QED
    BY <1>s, <2>1, <2>2 DEF FileStep
<1>9. QED
  BY <1>1, <1>5, <1>7, <1>8 DEF RecoveryInv

\* A write the store admits speaks for the live claim of the lease holder, which
\* was therefore granted after the last recovery.
LEMMA RecoveryInvSuffices == IInv /\ RecoveryInv => RecoveryStands
<1> SUFFICES ASSUME IInv, RecoveryInv
             PROVE  RecoveryStands
  OBVIOUS
<1>1. \A m : WriteAdmitted(m) => m.claim > recovered
  <2> SUFFICES ASSUME NEW m, WriteAdmitted(m) PROVE m.claim > recovered
    OBVIOUS
  <2>1. /\ ClaimLive(claim) /\ claim.session = m.session /\ claim.id = m.claim
        /\ lease # NoLease /\ lease.session = m.session
    BY DEF WriteAdmitted, Matches, Fenced, RenewAdmitted, OwnedBy
  <2>2. ~(claim.id <= recovered)
    BY <2>1 DEF RecoveryInv, FencedBefore, OutOfLease
  <2>3. claim.id \in Nat /\ recovered \in Nat
    BY <2>1, ClaimAssumption DEF IInv, TypeOK, ClaimLive, Claim, ClaimId
  <2>4. QED
    BY <2>1, <2>2, <2>3
<1>2. \A s \in Session : CanWrite(s) => held[s] > recovered
  BY <1>1 DEF CanWrite, Call
<1>3. QED
  BY <1>1, <1>2 DEF RecoveryStands

\* Once a leader-scoped recovery is in the ticket, no agent whose claim was
\* granted before it can write, for any number of leaders, claims and restarts.
THEOREM RecoveryIsFinal == Spec => []RecoveryStands
BY InitRecoveryInv, NextRecoveryInv, RecoveryInvSuffices, OldWritersFenced, PTL DEF Spec
=============================================================================
