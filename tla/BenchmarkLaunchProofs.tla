------------------------ MODULE BenchmarkLaunchProofs ------------------------
(***************************************************************************)
(* Proofs about BenchmarkLaunch, for any calls, approvals, dispatches, lease *)
(* times and faults.                                                         *)
(***************************************************************************)
EXTENDS BenchmarkLaunch, TLAPS

-----------------------------------------------------------------------------
\* The inductive invariant.

PreBind == {"prepare", "read", "create", "reread", "resolve", "confirm", "bind"}
PostBind == {"check", "consume", "refused", "recheck", "start", "copy", "running", "identify"}
Early == PreBind \cup PostBind

\* A verdict that may be recorded: it agrees with the run, if there was one.
Truthful(v) ==
    /\ v = "success" => result = "success"
    /\ v = "failure" => launches = 0 \/ result = "failure"

\* A call has a token of its own, and until it binds the operation it knows the
\* approval on it, unless it has lost the operation.
OwnsToken(c) ==
    /\ held[c] <= token
    /\ pc[c] \in Early \cup {"settle", "resettle"} => held[c] > 0
KnowsBound(c) ==
    pc[c] \in PreBind =>
      IF known[c] = None THEN held[c] = token => bound = None ELSE bound = known[c]

\* It goes by one approval, the one on the operation, and has spent it.
GoesByOne(c) ==
    /\ pc[c] \in {"resolve", "confirm", "bind"} \cup PostBind => using[c] # None
    /\ pc[c] \in PostBind => bound = using[c]
HasSpent(c) ==
    pc[c] \in {"start", "copy"} =>
      /\ using[c] \in spent /\ using[c] <= issued
      /\ approval[using[c]].claim \in {0, mine[c]} /\ saved[using[c]].claim \in {0, mine[c]}

\* It alone is at the launch, which happens once, and what it is to record or
\* has answered is true of the run.
NotLaunched(c) == pc[c] \in Early \ {"running", "identify"} /\ held[c] = token => launches = 0
AtLaunch(c) ==
    pc[c] \in {"copy", "running", "identify"} => held[c] = token /\ state = "side_effect_started"
RunAgrees(c) ==
    /\ pc[c] = "running" => launches = 1 /\ result = "none"
    /\ pc[c] = "identify" => result \in {"success", "failure"}
VerdictAgrees(c) ==
    /\ pc[c] = "settle" => /\ verdict[c] # "none"
                           /\ verdict[c] = "success" => result = "success"
                           /\ held[c] = token => Truthful(verdict[c])
    /\ pc[c] = "resettle" => verdict[c] = "indeterminate"
AnswerAgrees(c) == answer[c] = "completed" => outcome = "success" /\ result = "success"

CallOK(c) ==
    /\ OwnsToken(c) /\ KnowsBound(c) /\ GoesByOne(c) /\ HasSpent(c) /\ NotLaunched(c)
    /\ AtLaunch(c) /\ RunAgrees(c) /\ VerdictAgrees(c) /\ AnswerAgrees(c)
Calls == \A c \in Call : CallOK(c)

TokensAreUnique == \A c, d \in Call : held[c] = held[d] /\ held[c] # 0 => c = d

\* A request that is handled late finds the operation bound to its approval or
\* not bound, and its caller past what it asked for.
LateOK(m) ==
    /\ m.token <= token
    /\ m.kind \in {"resolve", "consume"} => m.approval # None
    /\ m.kind = "consume" => bound = m.approval
    /\ m.kind = "external-id" /\ m.token = token =>
         /\ m.approval # None /\ bound \in {None, m.approval}
         /\ \A n \in late : n.kind = "external-id" /\ n.token = token => n.approval = m.approval
         /\ \A c \in Call : pc[c] \in PreBind => held[c] # token
    /\ m.kind = "settle" /\ m.token = token =>
         /\ m.verdict # "none" /\ Truthful(m.verdict)
         /\ \A c \in Call : pc[c] \in Early => held[c] # token
Lates == \A m \in late : LateOK(m)

\* The ticket's file knows of no approval what its memory contradicts, and both
\* of no consumption that did not happen.
FilesOf(a) ==
    /\ approval[a].consumed \/ saved[a].consumed => a \in spent
    /\ a > issued => approval[a] = Unused /\ saved[a] = Unused
    /\ approval[a].claim # 0 => saved[a].claim \in {0, approval[a].claim}
    /\ approval[a].claim = 0 => approval[a].status = "none"
    /\ saved[a].claim = 0 => saved[a].status = "none"
Files == \A a \in Approval : FilesOf(a)

\* The registry and the run.
Ledger ==
    /\ state = "terminal" <=> outcome # "none"
    /\ outcome = "success" => result = "success"
    /\ state \notin {"side_effect_started", "terminal"} => launches = 0
    /\ launches = 0 => result = "none"
    /\ launches \in {0, 1}

IInv ==
    /\ LaunchTypeOK /\ ConsumptionIsTraceable
    /\ Files /\ Ledger /\ TokensAreUnique /\ Calls /\ Lates

-----------------------------------------------------------------------------
\* What a step of the store or of one call means to the others.

StoreTypes ==
    /\ state \in State /\ token \in Nat /\ lease \in 0 .. Ttl
    /\ outcome \in {"none"} \cup Verdict /\ bound \in Approval \cup {None}
    /\ approval \in [Approval -> Record] /\ saved \in [Approval -> Record]
    /\ issued \in 0 .. MaxApprovals
    /\ status \in {"executing", "guidance"} /\ claim \in 0 .. attempts
    /\ attempts \in 1 .. MaxAttempts /\ automatic \in BOOLEAN
    /\ spent \subseteq Approval /\ launches \in Nat
    /\ result \in {"none", "success", "failure", "unknown"} /\ faults \in 0 .. MaxFaults
CallTypes ==
    /\ pc \in [Call -> Step] /\ mine \in [Call -> 0 .. MaxAttempts]
    /\ held \in [Call -> Nat] /\ known \in [Call -> Approval \cup {None}]
    /\ using \in [Call -> Approval \cup {None}]
    /\ renewal \in [Call -> {"off", "on", "pending", "failed"}]
    /\ verdict \in [Call -> {"none"} \cup Verdict]
    /\ manner \in [Call -> {"none", "report", "decline", "pause"}]
    /\ answer \in [Call -> {"none", "completed", "failed"}]

StoreOK == StoreTypes /\ ConsumptionIsTraceable /\ Files /\ Ledger

\* The claims of approvals already made are never replaced by others.
Steady ==
    /\ issued <= issued'
    /\ spent \subseteq spent'
    /\ \A a \in Approval : a <= issued =>
         /\ approval'[a].claim \in {approval[a].claim, saved[a].claim}
         /\ saved'[a].claim \in {approval[a].claim, saved[a].claim}

\* A request that asks for nothing its caller has not made sure of.
Sound(m) ==
    /\ m \in Request
    /\ m.kind \in {"resolve", "consume"} => m.approval # None
    /\ m.kind = "consume" => bound = m.approval
    /\ m.kind = "external-id" /\ m.token = token =>
         m.approval # None /\ bound \in {None, m.approval}
    /\ m.kind = "settle" /\ m.token = token => m.verdict # "none" /\ Truthful(m.verdict)

\* What handling a sound request does to the operation.
Moves(m) ==
    /\ \/ token' = token
       \/ token' = token + 1 /\ state \notin {"side_effect_started", "terminal"}
    /\ \/ bound' = bound
       \/ /\ m.kind = "external-id" /\ m.token = token /\ token' = token
          /\ bound = None /\ bound' = m.approval
    /\ \/ state' = state
       \/ state \notin {"side_effect_started", "terminal"}
       \/ m.kind = "settle" /\ m.token = token /\ state' = "terminal"
    /\ outcome' = outcome \/ outcome = "none"
    /\ launches' = launches /\ result' = result

-----------------------------------------------------------------------------
\* The approvals of the ticket.

LEMMA TypesParts == LaunchTypeOK <=> StoreTypes /\ CallTypes /\ late \subseteq Request
  BY DEF LaunchTypeOK, StoreTypes, CallTypes

LEMMA TypesPartsNext ==
  LaunchTypeOK' <=> StoreTypes' /\ CallTypes' /\ late' \subseteq Request
  BY DEF LaunchTypeOK, StoreTypes, CallTypes

\* A change of one approval, of which the file may or may not learn.
LEMMA OneApprovalChanges ==
  ASSUME LaunchAssumption, StoreTypes, Files,
         NEW a \in Approval, NEW r \in Record, Put(a, r), Save,
         issued' = issued \/ (issued' = issued + 1 /\ a = issued + 1),
         a <= issued', a <= issued => r.claim = approval[a].claim, r.claim # 0,
         r.consumed => a \in spent', spent \subseteq spent'
  PROVE  /\ approval' \in [Approval -> Record] /\ saved' \in [Approval -> Record]
         /\ issued' \in 0 .. MaxApprovals /\ faults' \in 0 .. MaxFaults
         /\ Files' /\ Steady
<1>1. approval' \in [Approval -> Record] /\ approval'[a] = r
      /\ \A b \in Approval \ {a} : approval'[b] = approval[b]
  BY DEF Put, StoreTypes
<1>2. saved' = approval' \/ saved' = saved
  BY DEF Save
<1>3. saved' \in [Approval -> Record]
  BY <1>1, <1>2 DEF StoreTypes
<1>4. faults' \in 0 .. MaxFaults
  BY DEF Save, Fault, StoreTypes, LaunchAssumption
<1>5. issued' \in 0 .. MaxApprovals /\ issued <= issued'
  BY DEF StoreTypes, Approval, LaunchAssumption
<1>6. ASSUME NEW b \in Approval
      PROVE  /\ approval'[b].consumed \/ saved'[b].consumed => b \in spent'
             /\ b > issued' => approval'[b] = Unused /\ saved'[b] = Unused
             /\ approval'[b].claim # 0 => saved'[b].claim \in {0, approval'[b].claim}
             /\ approval'[b].claim = 0 => approval'[b].status = "none"
             /\ saved'[b].claim = 0 => saved'[b].status = "none"
             /\ b <= issued =>
                  /\ approval'[b].claim \in {approval[b].claim, saved[b].claim}
                  /\ saved'[b].claim \in {approval[b].claim, saved[b].claim}
  <2>0. issued \in Nat /\ a \in Nat /\ b \in Nat
    BY DEF StoreTypes, Approval
  <2>1. /\ approval[b].consumed \/ saved[b].consumed => b \in spent
        /\ b > issued => approval[b] = Unused /\ saved[b] = Unused
        /\ approval[b].claim # 0 => saved[b].claim \in {0, approval[b].claim}
        /\ approval[b].claim = 0 => approval[b].status = "none"
        /\ saved[b].claim = 0 => saved[b].status = "none"
    BY DEF Files, FilesOf
  <2>2. CASE b # a
    <3>1. approval'[b] = approval[b] /\ (saved'[b] = approval[b] \/ saved'[b] = saved[b])
      BY <1>1, <1>2, <2>2
    <3>2. b > issued' => b > issued
      BY <1>5, <2>0
    <3> QED  BY <2>1, <3>1, <3>2
  <2>3. CASE b = a
    <3>1. approval'[a] = r /\ (saved'[a] = r \/ saved'[a] = saved[a])
      BY <1>1, <1>2
    <3>2. ~(a > issued')
      BY <1>5, <2>0
    <3>3. CASE a <= issued
      BY <2>1, <2>3, <3>1, <3>2, <3>3
    <3>4. CASE ~(a <= issued)
      <4>1. saved[a].claim = 0
        BY <2>0, <2>1, <2>3, <3>4 DEF Unused
      <4> QED  BY <2>1, <2>3, <3>1, <3>2, <3>4, <4>1
    <3> QED  BY <3>3, <3>4
  <2> QED  BY <2>2, <2>3
<1>7. Files'
  BY <1>6 DEF Files, FilesOf
<1>8. Steady
  BY <1>5, <1>6 DEF Steady
<1> QED  BY <1>1, <1>3, <1>4, <1>5, <1>7, <1>8

LEMMA NoApprovalChanges ==
  ASSUME StoreTypes, Files, approval' = approval, Save, UNCHANGED <<issued, spent>>
  PROVE  /\ approval' \in [Approval -> Record] /\ saved' \in [Approval -> Record]
         /\ issued' \in 0 .. MaxApprovals /\ faults' \in 0 .. MaxFaults
         /\ Files' /\ Steady
<1>1. saved' \in {approval, saved} /\ faults' = faults
  BY DEF Save
<1>2. issued <= issued'
  BY DEF StoreTypes
<1>3. Files'
  BY <1>1 DEF Files, FilesOf
<1>4. Steady
  BY <1>1, <1>2 DEF Steady
<1> QED  BY <1>1, <1>3, <1>4 DEF StoreTypes

LEMMA MakingAnApproval ==
  ASSUME LaunchAssumption, StoreTypes, Files, NEW k \in 0 .. MaxAttempts,
         CreateFor(k), Save, UNCHANGED spent
  PROVE  /\ approval' \in [Approval -> Record] /\ saved' \in [Approval -> Record]
         /\ issued' \in 0 .. MaxApprovals /\ faults' \in 0 .. MaxFaults
         /\ Files' /\ Steady
<1>1. CASE Same(k) # {}
  <2>1. approval' = approval /\ issued' = issued
    BY <1>1 DEF CreateFor
  <2> QED  BY <2>1, NoApprovalChanges
<1>2. CASE Same(k) = {}
  <2> DEFINE r == [status |-> "pending", claim |-> k, consumed |-> FALSE]
  <2>1. issued' = issued + 1 /\ Put(issued + 1, r) /\ issued < MaxApprovals
    BY <1>2 DEF CreateFor, Creatable
  <2>2. r \in Record /\ ~r.consumed /\ r.claim # 0
    BY DEF Record, Status, CreateFor, Creatable
  <2>3. issued + 1 \in Approval /\ ~(issued + 1 <= issued) /\ issued + 1 <= issued'
    BY <2>1 DEF StoreTypes, Approval, LaunchAssumption
  <2> HIDE DEF r
  <2> QED  BY <2>1, <2>2, <2>3, OneApprovalChanges
<1> QED  BY <1>1, <1>2

LEMMA MadeAreIssued ==
  ASSUME StoreTypes, Files, NEW a \in Approval, approval[a].status # "none"
  PROVE  a <= issued
  BY DEF StoreTypes, Files, FilesOf, Unused, Approval

LEMMA DecidingAnApproval ==
  ASSUME LaunchAssumption, StoreTypes, Files, NEW a \in Approval,
         NEW d \in {"approved", "void"}, ResolveAs(a, d), Save, UNCHANGED spent
  PROVE  /\ approval' \in [Approval -> Record] /\ saved' \in [Approval -> Record]
         /\ issued' \in 0 .. MaxApprovals /\ faults' \in 0 .. MaxFaults
         /\ Files' /\ Steady
<1> PICK r : r = [approval[a] EXCEPT !.status = d]
  OBVIOUS
<1>1. Put(a, r) /\ issued' = issued /\ approval[a].status = "pending"
  BY DEF ResolveAs, Resolvable
<1>2. approval[a] \in Record
  BY DEF StoreTypes
<1>3. r \in Record /\ r.claim = approval[a].claim /\ r.consumed = approval[a].consumed
  BY <1>2 DEF Record, Status
<1>0. r.claim # 0
  BY <1>1, <1>3 DEF Files, FilesOf
<1>4. a <= issued /\ a <= issued'
  BY <1>1, MadeAreIssued
<1>5. r.consumed => a \in spent'
  BY <1>3 DEF Files, FilesOf
<1>6. spent \subseteq spent'
  OBVIOUS
<1> QED  BY <1>0, <1>1, <1>3, <1>4, <1>5, <1>6, OneApprovalChanges

LEMMA SpendingAnApproval ==
  ASSUME LaunchAssumption, StoreTypes, Files, NEW a \in Approval,
         NEW k, Consumable(a, k),
         Put(a, [approval[a] EXCEPT !.consumed = TRUE]),
         issued' = issued, spent' = spent \cup {a}, Save
  PROVE  /\ approval' \in [Approval -> Record] /\ saved' \in [Approval -> Record]
         /\ issued' \in 0 .. MaxApprovals /\ faults' \in 0 .. MaxFaults
         /\ Files' /\ Steady /\ a <= issued
<1> PICK r : r = [approval[a] EXCEPT !.consumed = TRUE]
  OBVIOUS
<1>1. Put(a, r) /\ approval[a].status = "approved"
  BY DEF Consumable
<1>2. approval[a] \in Record
  BY DEF StoreTypes
<1>3. r \in Record /\ r.claim = approval[a].claim
  BY <1>2 DEF Record, Status
<1>0. r.claim # 0
  BY <1>1, <1>3 DEF Files, FilesOf
<1>4. a <= issued /\ a <= issued'
  BY <1>1, MadeAreIssued
<1>5. spent \subseteq spent' /\ a \in spent'
  OBVIOUS
<1> QED  BY <1>0, <1>1, <1>3, <1>4, <1>5, OneApprovalChanges


-----------------------------------------------------------------------------
\* The handling of a sound request, and the other steps of the store.

LEMMA RegistryServes ==
  ASSUME LaunchAssumption, StoreOK, NEW m, Sound(m), Registry(m),
         UNCHANGED <<status, claim, attempts, automatic, launches, result>>
  PROVE  StoreOK' /\ Steady /\ Moves(m)
<1> USE DEF StoreOK
<1>1. m \in Request /\ m.token \in Nat /\ m.approval \in Approval \cup {None}
      /\ m.verdict \in Verdict \cup {"none"}
  BY DEF Sound, Request
<1>2. UNCHANGED <<approval, saved, issued, spent, faults, launches, result>>
  BY DEF Registry
<1>3. Steady
  BY <1>2 DEF Steady, StoreTypes
<1>4. Files'
  BY <1>2 DEF Files, FilesOf
<1>5. /\ state' \in State /\ token' \in Nat /\ lease' \in 0 .. Ttl
      /\ outcome' \in {"none"} \cup Verdict /\ bound' \in Approval \cup {None}
      /\ bound' = bound \/ (bound \in {None, bound'} /\ bound' # None)
      /\ Moves(m) /\ Ledger'
  <2> USE <1>1, <1>2
  <2>1. CASE Grant(m)
    BY <2>1 DEF Grant, Acquirable, StoreTypes, State, Moves, Ledger, LaunchAssumption
  <2>2. CASE Advance(m)
    <3>1. state' \in {"prepared", "side_effect_started"} /\ state \in {"lease_acquired", "prepared"}
          /\ UNCHANGED <<token, lease, outcome, bound>>
          /\ (state' = "prepared" => state = "lease_acquired")
      BY <2>2 DEF Advance, Follows
    <3> QED  BY <3>1 DEF StoreTypes, State, Moves, Ledger
  <2>3. CASE Attach(m)
    BY <2>3 DEF Attach, Holds, Follows, Sound, StoreTypes, Moves, Ledger
  <2>4. CASE Conclude(m)
    <3>1. /\ m.kind = "settle" /\ m.token = token /\ state' = "terminal" /\ state # "terminal"
          /\ outcome' = m.verdict /\ lease' = 0 /\ UNCHANGED <<token, bound>>
      BY <2>4 DEF Conclude, Holds, Follows
    <3>2. m.verdict # "none" /\ Truthful(m.verdict)
      BY <3>1 DEF Sound
    <3>3. outcome = "none"
      BY <3>1 DEF Ledger
    <3>4. Ledger'
      BY <3>1, <3>2 DEF Ledger, Truthful
    <3> QED  BY <3>1, <3>2, <3>3, <3>4 DEF StoreTypes, State, Moves, Verdict, LaunchAssumption
  <2> QED  BY <2>1, <2>2, <2>3, <2>4 DEF Registry
<1>6. StoreTypes'
  BY <1>2, <1>5 DEF StoreTypes
<1>7. ConsumptionIsTraceable'
  BY <1>2, <1>5 DEF ConsumptionIsTraceable, StoreTypes, Approval, None
<1> QED  BY <1>3, <1>4, <1>5, <1>6, <1>7

LEMMA ApprovalsServe ==
  ASSUME LaunchAssumption, StoreOK, NEW m, Sound(m), Approvals(m),
         UNCHANGED <<status, claim, attempts, automatic, launches, result>>
  PROVE  StoreOK' /\ Steady /\ Moves(m)
<1> USE DEF StoreOK
<1>1. /\ m.claim \in 0 .. MaxAttempts
      /\ m.approval \in Approval \cup {None}
      /\ m.kind \in {"resolve", "consume"} => m.approval \in Approval
  BY DEF Sound, Request
<1>2. UNCHANGED <<state, token, lease, outcome, bound>> /\ Save
  BY DEF Approvals, row
<1>3. /\ approval' \in [Approval -> Record] /\ saved' \in [Approval -> Record]
      /\ issued' \in 0 .. MaxApprovals /\ faults' \in 0 .. MaxFaults
      /\ Files' /\ Steady /\ spent' \subseteq spent \cup {bound} /\ spent' \subseteq Approval
  <2>1. CASE Create(m)
    <3>1. CreateFor(m.claim) /\ spent' = spent
      BY <2>1 DEF Create
    <3>2. PICK k \in 0 .. MaxAttempts : k = m.claim
      BY <1>1
    <3> QED  BY <1>2, <3>1, <3>2, MakingAnApproval DEF StoreTypes
  <2>2. CASE Resolve(m)
    <3>1. ResolveAs(m.approval, "approved") /\ spent' = spent /\ m.approval \in Approval
      BY <1>1, <2>2 DEF Resolve
    <3>2. PICK a \in Approval : a = m.approval
      BY <3>1
    <3> QED  BY <1>2, <3>1, <3>2, DecidingAnApproval DEF StoreTypes
  <2>3. CASE Consume(m)
    <3>1. /\ Consumable(m.approval, m.claim) /\ spent' = spent \cup {m.approval}
          /\ Put(m.approval, [approval[m.approval] EXCEPT !.consumed = TRUE])
          /\ issued' = issued /\ m.approval \in Approval /\ m.approval = bound
      BY <1>1, <2>3 DEF Consume, Sound
    <3>2. PICK a \in Approval : a = m.approval
      BY <3>1
    <3>3. PICK k : k = m.claim
      OBVIOUS
    <3> QED  BY <1>2, <3>1, <3>2, <3>3, SpendingAnApproval DEF StoreTypes
  <2> QED  BY <2>1, <2>2, <2>3 DEF Approvals
<1>4. Moves(m)
  BY <1>2 DEF Moves
<1>5. Ledger'
  BY <1>2 DEF Ledger
<1>6. StoreTypes' /\ ConsumptionIsTraceable'
  BY <1>2, <1>3 DEF StoreTypes, ConsumptionIsTraceable
<1> QED  BY <1>3, <1>4, <1>5, <1>6

LEMMA ServesSoundly ==
  ASSUME LaunchAssumption, StoreOK, NEW m, Sound(m), Serve(m)
  PROVE  StoreOK' /\ Steady /\ Moves(m)
  BY RegistryServes, ApprovalsServe DEF Serve

-----------------------------------------------------------------------------
\* A call stays sound while others move.

Unmoved(d) ==
    /\ pc'[d] = pc[d] /\ mine'[d] = mine[d] /\ held'[d] = held[d] /\ known'[d] = known[d]
    /\ using'[d] = using[d] /\ verdict'[d] = verdict[d] /\ answer'[d] = answer[d]

\* What a step of another does to the operation and its run, as d sees it.
Gentle(d) ==
    /\ token <= token'
    /\ bound' = bound \/ (bound = None /\ ~(pc[d] \in PreBind /\ held[d] = token))
    /\ pc[d] \in {"copy", "running", "identify"} => state' = state /\ token' = token
    /\ held[d] = token => launches' = launches /\ result' = result
    /\ result' = result \/ result = "none"
    /\ outcome' = outcome \/ outcome = "none"

LEMMA GentleKeeps ==
  ASSUME LaunchAssumption, StoreTypes, CallTypes, Ledger, Steady, StoreTypes',
         NEW d \in Call, CallOK(d), Unmoved(d), Gentle(d)
  PROVE  CallOK(d)'
<1>1. /\ held[d] \in Nat /\ token \in Nat /\ token' \in Nat /\ token <= token'
      /\ held[d] <= token
      /\ held[d] = token' => held[d] = token /\ token' = token
  <2>1. held[d] \in Nat /\ token \in Nat /\ token' \in Nat /\ token <= token' /\ held[d] <= token
    BY DEF CallTypes, StoreTypes, Gentle, CallOK, OwnsToken
  <2> QED  BY <2>1
<1>2. OwnsToken(d)'
  BY <1>1 DEF CallOK, OwnsToken, Unmoved
<1>3. KnowsBound(d)'
  BY <1>1 DEF CallOK, KnowsBound, Unmoved, Gentle
<1>4. GoesByOne(d)'
  BY DEF CallOK, GoesByOne, Unmoved, Gentle
<1>5. HasSpent(d)'
  <2> SUFFICES ASSUME pc[d] \in {"start", "copy"}
               PROVE  /\ using[d] \in spent' /\ using[d] <= issued'
                      /\ approval'[using[d]].claim \in {0, mine[d]}
                      /\ saved'[using[d]].claim \in {0, mine[d]}
    BY DEF HasSpent, Unmoved
  <2>1. /\ using[d] \in spent /\ using[d] <= issued
        /\ approval[using[d]].claim \in {0, mine[d]} /\ saved[using[d]].claim \in {0, mine[d]}
    BY DEF CallOK, HasSpent
  <2>2. using[d] \in Approval /\ issued \in 0 .. MaxApprovals /\ issued' \in 0 .. MaxApprovals
    BY <2>1 DEF StoreTypes
  <2>3. using[d] \in Nat /\ issued \in Nat /\ issued' \in Nat
    BY <2>2 DEF LaunchAssumption, Approval
  <2>4. issued <= issued'
    BY DEF Steady
  <2>5. using[d] <= issued'
    BY <2>1, <2>3, <2>4
  <2> QED  BY <2>1, <2>2, <2>5 DEF Steady
<1>6. NotLaunched(d)'
  BY <1>1 DEF CallOK, NotLaunched, Unmoved, Gentle
<1>7. AtLaunch(d)' /\ RunAgrees(d)'
  BY <1>1 DEF CallOK, AtLaunch, RunAgrees, Unmoved, Gentle
<1>8. VerdictAgrees(d)'
  BY <1>1 DEF CallOK, VerdictAgrees, Truthful, Unmoved, Gentle
<1>9. AnswerAgrees(d)'
  BY DEF CallOK, AnswerAgrees, Unmoved, Gentle
<1> QED  BY <1>2, <1>3, <1>4, <1>5, <1>6, <1>7, <1>8, <1>9 DEF CallOK

\* Requests that wait to be handled late stay sound.
LateGentle ==
    /\ token <= token'
    /\ \/ bound' = bound
       \/ /\ bound = None
          /\ \/ \E c \in Call : pc[c] \in PreBind /\ held[c] = token
             \/ \E n \in late : n.kind = "external-id" /\ n.token = token /\ bound' = n.approval
    /\ \/ launches' = launches /\ result' = result
       \/ \E c \in Call : pc[c] \in Early /\ held[c] = token
    /\ \A c \in Call : held'[c] = token /\ token' = token =>
         /\ pc'[c] \in PreBind => pc[c] \in PreBind /\ held[c] = token
         /\ pc'[c] \in Early => pc[c] \in Early /\ held[c] = token
    /\ late' \subseteq Request
    /\ \A n \in late' \ late : n.kind = "external-id" /\ n.token = token =>
         \/ \E c \in Call : pc[c] \in PreBind /\ held[c] = token
         \/ bound # None /\ n.approval = bound

LEMMA LateKeeps ==
  ASSUME StoreTypes, StoreTypes', late \subseteq Request, LateGentle,
         NEW m \in late, LateOK(m)
  PROVE  LateOK(m)'
<1>1. m \in Request /\ m.token \in Nat /\ token \in Nat /\ token' \in Nat
      /\ m.token <= token /\ token <= token'
  BY DEF StoreTypes, Request, LateOK, LateGentle
<1>2. m.token <= token' /\ (m.token = token' => m.token = token /\ token' = token)
  BY <1>1
<1>3. m.kind = "consume" => bound' = m.approval
  BY DEF LateOK, LateGentle
<1>4. ASSUME m.kind = "external-id", m.token = token'
      PROVE  /\ m.approval # None /\ bound' \in {None, m.approval}
             /\ \A n \in late' : n.kind = "external-id" /\ n.token = token' =>
                  n.approval = m.approval
             /\ \A c \in Call : pc'[c] \in PreBind => held'[c] # token'
  <2>1. m.token = token /\ token' = token
    BY <1>2, <1>4
  <2>2. /\ m.approval # None /\ bound \in {None, m.approval}
        /\ \A n \in late : n.kind = "external-id" /\ n.token = token => n.approval = m.approval
        /\ \A c \in Call : pc[c] \in PreBind => held[c] # token
    BY <1>4, <2>1 DEF LateOK
  <2>3. bound' \in {None, m.approval}
    BY <2>2 DEF LateGentle
  <2>4. \A n \in late' : n.kind = "external-id" /\ n.token = token' => n.approval = m.approval
    BY <2>1, <2>2 DEF LateGentle
  <2>5. \A c \in Call : pc'[c] \in PreBind => held'[c] # token'
    BY <2>1, <2>2 DEF LateGentle
  <2> QED  BY <2>2, <2>3, <2>4, <2>5
<1>5. ASSUME m.kind = "settle", m.token = token'
      PROVE  /\ m.verdict # "none" /\ Truthful(m.verdict)'
             /\ \A c \in Call : pc'[c] \in Early => held'[c] # token'
  <2>1. m.token = token /\ token' = token
    BY <1>2, <1>5
  <2>2. /\ m.verdict # "none" /\ Truthful(m.verdict)
        /\ \A c \in Call : pc[c] \in Early => held[c] # token
    BY <1>5, <2>1 DEF LateOK
  <2>3. launches' = launches /\ result' = result
    BY <2>2 DEF LateGentle
  <2>4. Truthful(m.verdict)'
    BY <2>2, <2>3 DEF Truthful
  <2>5. \A c \in Call : pc'[c] \in Early => held'[c] # token'
    BY <2>1, <2>2 DEF LateGentle
  <2> QED  BY <2>2, <2>4, <2>5
<1>6. m.kind \in {"resolve", "consume"} => m.approval # None
  BY DEF LateOK
<1> QED  BY <1>2, <1>3, <1>4, <1>5, <1>6 DEF LateOK

\* One call moves, or none, and the invariant holds of it and of what it leaves
\* behind.
LEMMA OneMoves ==
  ASSUME LaunchAssumption, IInv, StoreOK', CallTypes', Steady, LateGentle,
         \A m \in late' \ late : LateOK(m)',
         \A d \in Call : CallOK(d)' \/ (Unmoved(d) /\ Gentle(d)),
         \/ \A d \in Call : held'[d] = held[d]
         \/ \E c \in Call :
              /\ \A d \in Call \ {c} : held'[d] = held[d]
              /\ held'[c] \in {0, held[c], token + 1}
  PROVE  IInv'
<1>1. StoreTypes /\ CallTypes /\ late \subseteq Request /\ Ledger /\ StoreTypes'
  BY TypesParts DEF IInv, StoreOK
<1>2. late' \subseteq Request
  BY DEF LateGentle
<1>3. LaunchTypeOK'
  BY <1>2, TypesPartsNext DEF StoreOK
<1>4. ASSUME NEW d \in Call PROVE CallOK(d)'
  <2>1. CallOK(d)
    BY DEF IInv, Calls
  <2> QED  BY <1>1, <2>1, GentleKeeps
<1>5. ASSUME NEW m \in late' PROVE LateOK(m)'
  <2>1. m \in late => LateOK(m)
    BY DEF IInv, Lates
  <2> QED  BY <1>1, <2>1, LateKeeps
<1>6. TokensAreUnique'
  <2>1. ASSUME NEW d \in Call PROVE held[d] \in Nat /\ held[d] <= token /\ held[d] # token + 1
    <3>1. held[d] \in Nat /\ held[d] <= token /\ token \in Nat
      BY <1>1 DEF IInv, Calls, CallOK, OwnsToken, CallTypes, StoreTypes
    <3> QED  BY <3>1
  <2>2. CASE \A d \in Call : held'[d] = held[d]
    BY <2>2 DEF IInv, TokensAreUnique
  <2>3. ASSUME NEW c \in Call, \A d \in Call \ {c} : held'[d] = held[d],
               held'[c] \in {0, held[c], token + 1},
               NEW d \in Call, NEW e \in Call, held'[d] = held'[e], held'[d] # 0
        PROVE  d = e
    <3>1. held[d] = held[e] /\ held[d] # 0 => d = e
      BY DEF IInv, TokensAreUnique
    <3> QED  BY <2>1, <2>3, <3>1
  <2> QED  BY <2>2, <2>3 DEF TokensAreUnique
<1>7. Calls' /\ Lates'
  BY <1>4, <1>5 DEF Calls, Lates
<1> QED  BY <1>3, <1>6, <1>7 DEF IInv, StoreOK

-----------------------------------------------------------------------------
\* The ways a call goes on.

GoOn(c, next, a) ==
    /\ Go(c, next)
    /\ using' = [using EXCEPT ![c] = a]
    /\ UNCHANGED <<mine, held, known, renewal, verdict, manner, answer>>

LEMMA OnlyGoGoesOn ==
  ASSUME CallTypes, NEW c \in Call, NEW next, OnlyGo(c, next)
  PROVE  GoOn(c, next, using[c])
  BY DEF OnlyGo, GoOn, CallTypes

LEMMA Quitting ==
  ASSUME LaunchAssumption, CallTypes, token' \in Nat, NEW c \in Call,
         NEW reply \in {"none", "completed", "failed"},
         Report(c, reply),
         reply = "completed" => outcome' = "success" /\ result' = "success"
  PROVE  /\ CallTypes' /\ \A d \in Call \ {c} : Unmoved(d)
         /\ pc'[c] = "ended" /\ held'[c] = 0 /\ CallOK(c)'
<1>1. /\ pc'[c] = "ended" /\ held'[c] = 0 /\ answer'[c] = reply
      /\ CallTypes' /\ \A d \in Call \ {c} : Unmoved(d)
  BY DEF Report, Forget, Go, CallTypes, Unmoved, Step, LaunchAssumption
<1>2. CallOK(c)'
  BY <1>1 DEF CallOK, OwnsToken, KnowsBound, GoesByOne, HasSpent, NotLaunched, AtLaunch, RunAgrees,
              VerdictAgrees, AnswerAgrees, Early, PreBind, PostBind
<1> QED  BY <1>1, <1>2

\* What is on record, and how a run ended, stays.
Lasting ==
    /\ token <= token'
    /\ outcome' = outcome \/ outcome = "none"
    /\ result' = result \/ result = "none"

LEMMA Recording ==
  ASSUME StoreTypes, StoreTypes', CallTypes, NEW c \in Call, CallOK(c), Lasting,
         NEW v \in Verdict, NEW how \in {"none", "report", "decline", "pause"},
         ToRecord(c, v, how), held[c] > 0,
         v = "success" => result' = "success",
         held[c] = token' => Truthful(v)'
  PROVE  /\ CallTypes' /\ \A d \in Call \ {c} : Unmoved(d)
         /\ pc'[c] = "settle" /\ held'[c] = held[c] /\ CallOK(c)'
<1>1. /\ pc'[c] = "settle" /\ held'[c] = held[c] /\ answer'[c] = answer[c] /\ verdict'[c] = v
      /\ CallTypes' /\ \A d \in Call \ {c} : Unmoved(d)
  BY DEF ToRecord, Go, CallTypes, Unmoved, Step
<1>2. held[c] \in Nat /\ token \in Nat /\ token' \in Nat /\ held[c] <= token /\ token <= token'
  BY DEF CallTypes, StoreTypes, CallOK, OwnsToken, Lasting
<1>3. held'[c] <= token'
  BY <1>1, <1>2
<1>4. v # "none"
  BY DEF Verdict
<1>5. AnswerAgrees(c)'
  BY <1>1 DEF CallOK, AnswerAgrees, Lasting
<1>6. VerdictAgrees(c)'
  BY <1>1, <1>4 DEF VerdictAgrees
<1>7. OwnsToken(c)'
  BY <1>1, <1>3 DEF OwnsToken
<1>8. /\ KnowsBound(c)' /\ GoesByOne(c)' /\ HasSpent(c)' /\ NotLaunched(c)' /\ AtLaunch(c)'
      /\ RunAgrees(c)'
  BY <1>1 DEF KnowsBound, GoesByOne, HasSpent, NotLaunched, AtLaunch, RunAgrees, Early, PreBind,
              PostBind
<1> QED  BY <1>1, <1>5, <1>6, <1>7, <1>8 DEF CallOK

LEMMA Going ==
  ASSUME StoreTypes, StoreTypes', CallTypes, NEW c \in Call, CallOK(c), Lasting,
         NEW next \in Early, NEW a \in Approval \cup {None}, GoOn(c, next, a),
         pc[c] \in Early,
         next \in PreBind => pc[c] \in PreBind /\ bound' = bound,
         next \in {"resolve", "confirm", "bind"} => a # None,
         next \in PostBind => a # None /\ bound' = a,
         next \in {"start", "copy"} =>
           /\ a \in spent' /\ a <= issued'
           /\ approval'[a].claim \in {0, mine[c]} /\ saved'[a].claim \in {0, mine[c]},
         next \notin {"running", "identify"} =>
           pc[c] \notin {"running", "identify"} /\ launches' = launches,
         next \in {"copy", "running", "identify"} =>
           held[c] = token' /\ state' = "side_effect_started",
         next = "running" => launches' = 1 /\ result' = "none",
         next = "identify" => result' \in {"success", "failure"}
  PROVE  /\ CallTypes' /\ \A d \in Call \ {c} : Unmoved(d)
         /\ pc'[c] = next /\ held'[c] = held[c] /\ CallOK(c)'
<1>0. next \in Step
  BY DEF Early, PreBind, PostBind, Step
<1>1. /\ pc'[c] = next /\ held'[c] = held[c] /\ answer'[c] = answer[c] /\ using'[c] = a
      /\ mine'[c] = mine[c] /\ known'[c] = known[c]
      /\ CallTypes' /\ \A d \in Call \ {c} : Unmoved(d)
  BY <1>0 DEF GoOn, Go, CallTypes, Unmoved
<1>2. held[c] \in Nat /\ token \in Nat /\ token' \in Nat /\ held[c] <= token /\ token <= token'
  BY DEF CallTypes, StoreTypes, CallOK, OwnsToken, Lasting
<1>3. held'[c] <= token' /\ (held[c] = token' => held[c] = token) /\ held[c] > 0
  BY <1>1, <1>2 DEF CallOK, OwnsToken
<1>4. OwnsToken(c)'
  BY <1>1, <1>3 DEF OwnsToken
<1>5. KnowsBound(c)'
  BY <1>1, <1>3 DEF KnowsBound, CallOK
<1>6. GoesByOne(c)'
  BY <1>1 DEF GoesByOne
<1>7. HasSpent(c)'
  BY <1>1 DEF HasSpent
<1>8. NotLaunched(c)'
  BY <1>1, <1>3 DEF NotLaunched, CallOK
<1>9. AtLaunch(c)' /\ RunAgrees(c)'
  BY <1>1 DEF AtLaunch, RunAgrees
<1>10. VerdictAgrees(c)'
  BY <1>1 DEF VerdictAgrees, Early, PreBind, PostBind
<1>11. AnswerAgrees(c)'
  BY <1>1 DEF CallOK, AnswerAgrees, Lasting
<1> QED  BY <1>1, <1>4, <1>5, <1>6, <1>7, <1>8, <1>9, <1>10, <1>11 DEF CallOK

-----------------------------------------------------------------------------
\* A call asks the store for something.

LEMMA NobodyElse ==
  ASSUME IInv, NEW c \in Call, held[c] # 0
  PROVE  \A d \in Call \ {c} : held[d] # held[c]
  BY DEF IInv, TokensAreUnique

LEMMA Asking ==
  ASSUME LaunchAssumption, IInv, NEW c \in Call, NEW kind \in Kind,
         NEW m, m = Ask(c, kind), Sound(m),
         kind \in {"external-id", "settle"} => held[c] # 0,
         Done(c, kind) \/ Refused(c, kind) \/ Lost(c, kind)
  PROVE  /\ StoreOK' /\ Steady /\ Moves(m) /\ late' \in {late, late \cup {m}}
         /\ \A d \in Call \ {c} : Gentle(d)
         /\ Lasting
<1>0. StoreOK /\ StoreTypes
  BY TypesParts DEF IInv, StoreOK
<1>1. StoreOK' /\ Steady /\ Moves(m) /\ late' \in {late, late \cup {m}}
  <2>1. CASE Done(c, kind)
    BY <1>0, <2>1, ServesSoundly DEF Done
  <2>2. CASE Refused(c, kind) \/ Lost(c, kind)
    <3>1. UNCHANGED <<row, ticket, history>> /\ late' \in {late, late \cup {m}}
          /\ faults' \in 0 .. MaxFaults
      BY <1>0, <2>2 DEF Refused, Lost, Local, Fault, StoreTypes, LaunchAssumption
    <3>2. /\ UNCHANGED <<state, token, lease, outcome, bound, approval, saved, issued, status>>
          /\ UNCHANGED <<claim, attempts, automatic, spent, launches, result>>
      BY <3>1 DEF row, ticket, history
    <3>3. StoreTypes' /\ ConsumptionIsTraceable'
      BY <1>0, <3>1, <3>2 DEF StoreOK, StoreTypes, ConsumptionIsTraceable
    <3>4. Files' /\ Ledger'
      BY <1>0, <3>2 DEF StoreOK, Files, FilesOf, Ledger
    <3>5. Steady
      BY <1>0, <3>2 DEF StoreTypes, Steady
    <3>6. Moves(m)
      BY <3>2 DEF Moves
    <3> QED  BY <3>1, <3>3, <3>4, <3>5, <3>6 DEF StoreOK
  <2> QED  BY <2>1, <2>2
<1>2. m.kind = kind /\ m.token = held[c]
  BY DEF Ask
<1>3. Lasting
  <2>1. token \in Nat
    BY <1>0 DEF StoreTypes
  <2> QED  BY <1>1, <2>1 DEF Moves, Lasting
<1>4. ASSUME NEW d \in Call \ {c} PROVE Gentle(d)
  <2>1. kind \in {"external-id", "settle"} => held[d] # held[c]
    BY NobodyElse
  <2>2. pc[d] \in {"copy", "running", "identify"} =>
          held[d] = token /\ state = "side_effect_started"
    BY DEF IInv, Calls, CallOK, AtLaunch
  <2> QED  BY <1>1, <1>2, <1>3, <2>1, <2>2 DEF Moves, Gentle, Lasting
<1> QED  BY <1>1, <1>3, <1>4

\* Where c may be after its step, and what it may leave behind.
GoesAhead(c) ==
    /\ \A d \in Call \ {c} : Unmoved(d)
    /\ \/ held'[c] = held[c]
       \/ held'[c] = 0
       \/ held'[c] = token + 1 /\ token' = token + 1
    /\ held'[c] = held[c] =>
         /\ pc'[c] \in PreBind => pc[c] \in PreBind
         /\ pc'[c] \in Early => pc[c] \in Early
Leaves(c) ==
    /\ late' \subseteq Request
    /\ \A n \in late' \ late :
         /\ LateOK(n)'
         /\ n.kind = "external-id" /\ n.token = token =>
              \/ pc[c] \in PreBind /\ held[c] = token
              \/ bound # None /\ n.approval = bound

LEMMA CallSteps ==
  ASSUME LaunchAssumption, IInv, NEW c \in Call, StoreOK', Steady, Lasting, CallTypes',
         \A d \in Call \ {c} : Gentle(d),
         GoesAhead(c), CallOK(c)', Leaves(c),
         bound' = bound \/ (bound = None /\ pc[c] \in PreBind /\ held[c] = token),
         (launches' = launches /\ result' = result) \/ (pc[c] \in Early /\ held[c] = token)
  PROVE  IInv'
<1>1. token \in Nat /\ StoreTypes /\ CallTypes
  BY TypesParts DEF IInv, StoreTypes
<1>2. ASSUME NEW d \in Call, held'[d] = token, token' = token
      PROVE  /\ pc'[d] \in PreBind => pc[d] \in PreBind /\ held[d] = token
             /\ pc'[d] \in Early => pc[d] \in Early /\ held[d] = token
  <2>1. CASE d # c
    BY <1>2, <2>1 DEF GoesAhead, Unmoved
  <2>2. CASE d = c /\ held'[c] = held[c]
    BY <1>2, <2>2 DEF GoesAhead
  <2>3. CASE d = c /\ held'[c] = 0
    <3>1. pc'[c] \notin Early
      BY <2>3 DEF CallOK, OwnsToken
    <3> QED  BY <2>3, <3>1 DEF Early
  <2>4. token + 1 # token
    BY <1>1
  <2> QED  BY <1>2, <2>1, <2>2, <2>3, <2>4 DEF GoesAhead
<1>3. LateGentle
  <2>1. token <= token'
    BY DEF Lasting
  <2> QED  BY <1>2, <2>1 DEF LateGentle, Leaves
<1>4. \A d \in Call : CallOK(d)' \/ (Unmoved(d) /\ Gentle(d))
  BY DEF GoesAhead
<1>5. /\ \A d \in Call \ {c} : held'[d] = held[d]
      /\ held'[c] \in {0, held[c], token + 1}
  BY DEF GoesAhead, Unmoved
<1>6. \A n \in late' \ late : LateOK(n)'
  BY DEF Leaves
<1> QED  BY <1>3, <1>4, <1>5, <1>6, OneMoves

\* A step that leaves the store alone.
LEMMA Standing ==
  ASSUME StoreOK, UNCHANGED <<row, ticket, history>>, faults' \in 0 .. MaxFaults
  PROVE  /\ StoreOK' /\ Steady /\ Lasting /\ \A d \in Call : Gentle(d)
         /\ UNCHANGED <<state, token, bound, approval, saved, issued, spent, launches, result, outcome>>
<1>1. /\ UNCHANGED <<state, token, lease, outcome, bound, approval, saved, issued, status>>
      /\ UNCHANGED <<claim, attempts, automatic, spent, launches, result>>
  BY DEF row, ticket, history
<1>2. StoreTypes' /\ ConsumptionIsTraceable' /\ token \in Nat
  BY <1>1 DEF StoreOK, StoreTypes, ConsumptionIsTraceable
<1>3. Files' /\ Ledger'
  BY <1>1 DEF StoreOK, Files, FilesOf, Ledger
<1>4. Steady
  BY <1>1 DEF StoreOK, StoreTypes, Steady
<1>5. Lasting /\ \A d \in Call : Gentle(d)
  BY <1>1, <1>2 DEF Lasting, Gentle
<1> QED  BY <1>1, <1>2, <1>3, <1>4, <1>5 DEF StoreOK

\* A call moves on without asking, or asks and gets its answer or none.
LEMMA LocalStep ==
  ASSUME LaunchAssumption, IInv, NEW c \in Call, UNCHANGED <<row, ticket, history>>,
         faults' \in 0 .. MaxFaults, late' = late, CallTypes', GoesAhead(c), CallOK(c)'
  PROVE  IInv'
<1>1. StoreOK /\ late \subseteq Request
  BY TypesParts DEF IInv, StoreOK
<1>2. /\ StoreOK' /\ Steady /\ Lasting /\ \A d \in Call : Gentle(d)
      /\ UNCHANGED <<bound, launches, result>>
  BY <1>1, Standing
<1>3. Leaves(c)
  BY <1>1 DEF Leaves
<1> QED  BY <1>2, <1>3, CallSteps

LEMMA AskingStep ==
  ASSUME LaunchAssumption, IInv, NEW c \in Call, NEW kind \in Kind, NEW m, m = Ask(c, kind),
         Sound(m), StoreOK', Steady, Lasting, Moves(m), late' \in {late, late \cup {m}},
         \A d \in Call \ {c} : Gentle(d),
         CallTypes', GoesAhead(c), CallOK(c)',
         late' # late => LateOK(m)',
         kind = "external-id" => pc[c] \in PreBind \/ (bound # None /\ using[c] = bound)
  PROVE  IInv'
<1>1. m.kind = kind /\ m.token = held[c] /\ m.approval = using[c] /\ m \in Request
  BY DEF Ask, Sound
<1>2. late \subseteq Request
  BY TypesParts DEF IInv
<1>3. Leaves(c)
  BY <1>1, <1>2 DEF Leaves
<1>4. /\ bound' = bound \/ (bound = None /\ pc[c] \in PreBind /\ held[c] = token)
      /\ launches' = launches /\ result' = result
  BY <1>1 DEF Moves
<1> QED  BY <1>3, <1>4, CallSteps

-----------------------------------------------------------------------------
\* The steps of a call, one by one.

LEMMA Facts ==
  ASSUME IInv, NEW c \in Call
  PROVE  /\ StoreOK /\ StoreTypes /\ CallTypes /\ late \subseteq Request /\ Ledger /\ Files
         /\ CallOK(c) /\ token \in Nat /\ held[c] \in Nat /\ held[c] <= token
<1>1. StoreOK /\ StoreTypes /\ CallTypes /\ late \subseteq Request /\ Ledger /\ Files
  BY TypesParts DEF IInv, StoreOK
<1>2. CallOK(c)
  BY DEF IInv, Calls
<1> QED  BY <1>1, <1>2 DEF StoreTypes, CallTypes, CallOK, OwnsToken

LEMMA AsksARequest ==
  ASSUME CallTypes, NEW c \in Call, NEW kind \in Kind, NEW m, m = Ask(c, kind)
  PROVE  /\ m \in Request /\ m.kind = kind /\ m.token = held[c] /\ m.approval = using[c]
         /\ m.claim = mine[c]
         /\ kind = "settle" => m.verdict = Due(c)
<1>1. Due(c) \in {"none"} \cup Verdict
  BY DEF Due, CallTypes, Verdict
<1> QED  BY <1>1 DEF Ask, Request, CallTypes

PlainKind == {"acquire", "prepared", "side_effect_started", "create"}

\* What such a request asks for can be asked for, and done, at any time.
LEMMA PlainAsk ==
  ASSUME IInv, NEW c \in Call, NEW kind \in PlainKind, NEW m, m = Ask(c, kind)
  PROVE  kind \in Kind /\ Sound(m) /\ (Lasting /\ token' \in Nat => LateOK(m)')
<1>1. kind \in Kind
  BY DEF PlainKind, Kind
<1>2. m \in Request /\ m.kind = kind /\ m.token = held[c]
  BY <1>1, Facts, AsksARequest
<1>3. Sound(m)
  BY <1>2 DEF Sound, PlainKind
<1>4. ASSUME Lasting, token' \in Nat PROVE LateOK(m)'
  <2>1. held[c] <= token'
    BY <1>4, Facts DEF Lasting
  <2> QED  BY <1>2, <2>1 DEF LateOK, PlainKind
<1> QED  BY <1>1, <1>3, <1>4

\* The three ways a request may end.
LEMMA Asked ==
  ASSUME LaunchAssumption, IInv, NEW c \in Call, NEW kind \in Kind,
         NEW m, m = Ask(c, kind), Sound(m),
         kind \in {"external-id", "settle"} => held[c] # 0,
         Done(c, kind) \/ Refused(c, kind) \/ Lost(c, kind)
  PROVE  /\ StoreOK' /\ StoreTypes' /\ token' \in Nat
         /\ Steady /\ Moves(m) /\ Lasting /\ launches' = launches /\ result' = result
         /\ late' \in {late, late \cup {m}}
         /\ \A d \in Call \ {c} : Gentle(d)
<1>1. StoreOK' /\ Steady /\ Moves(m) /\ late' \in {late, late \cup {m}}
      /\ (\A d \in Call \ {c} : Gentle(d)) /\ Lasting
  BY Asking
<1> QED  BY <1>1 DEF StoreOK, StoreTypes, Moves

LEMMA AskedAndLeft ==
  ASSUME LaunchAssumption, IInv, NEW c \in Call, NEW kind \in Kind, NEW m, m = Ask(c, kind),
         Sound(m), kind \in {"external-id", "settle"} => held[c] # 0,
         Done(c, kind) \/ Refused(c, kind) \/ Lost(c, kind),
         NEW reply \in {"none", "completed", "failed"}, Report(c, reply),
         reply = "completed" => outcome' = "success" /\ result' = "success",
         late' # late => LateOK(m)',
         kind = "external-id" => pc[c] \in PreBind \/ (bound # None /\ using[c] = bound)
  PROVE  IInv'
<1>1. /\ StoreOK' /\ token' \in Nat /\ Steady /\ Moves(m) /\ Lasting
      /\ late' \in {late, late \cup {m}} /\ (\A d \in Call \ {c} : Gentle(d))
  BY Asked
<1>2. /\ CallTypes' /\ \A d \in Call \ {c} : Unmoved(d)
      /\ pc'[c] = "ended" /\ held'[c] = 0 /\ CallOK(c)'
  BY <1>1, Facts, Quitting
<1>3. GoesAhead(c)
  BY <1>2 DEF GoesAhead, Early, PreBind, PostBind
<1> QED  BY <1>1, <1>2, <1>3, AskingStep

LEMMA AskedAndRecords ==
  ASSUME LaunchAssumption, IInv, NEW c \in Call, NEW kind \in Kind, NEW m, m = Ask(c, kind),
         Sound(m), Done(c, kind) \/ Refused(c, kind) \/ Lost(c, kind), pc[c] \in Early,
         NEW v \in Verdict, NEW how \in {"none", "report", "decline", "pause"},
         ToRecord(c, v, how),
         v = "success" => result = "success",
         held[c] = token => Truthful(v),
         late' # late => LateOK(m)',
         kind = "external-id" => pc[c] \in PreBind \/ (bound # None /\ using[c] = bound)
  PROVE  IInv'
<1>0. held[c] > 0 /\ held[c] # 0
  BY Facts DEF CallOK, OwnsToken
<1>1. /\ StoreOK' /\ StoreTypes' /\ token' \in Nat /\ Steady /\ Moves(m) /\ Lasting
      /\ launches' = launches /\ result' = result
      /\ late' \in {late, late \cup {m}} /\ (\A d \in Call \ {c} : Gentle(d))
  BY <1>0, Asked
<1>2. v = "success" => result' = "success"
  BY <1>1
<1>3. held[c] = token' => Truthful(v)'
  <2>1. held[c] = token' => held[c] = token
    BY <1>1, Facts DEF Lasting
  <2> QED  BY <1>1, <2>1 DEF Truthful
<1>4. /\ CallTypes' /\ \A d \in Call \ {c} : Unmoved(d)
      /\ pc'[c] = "settle" /\ held'[c] = held[c] /\ CallOK(c)'
  BY <1>0, <1>1, <1>2, <1>3, Facts, Recording
<1>5. GoesAhead(c)
  BY <1>4 DEF GoesAhead, Early, PreBind, PostBind
<1> QED  BY <1>1, <1>4, <1>5, AskingStep

\* A call that has its place before the launch, or has lost it, may decline.
LEMMA MayDecline ==
  ASSUME IInv, NEW c \in Call, pc[c] \in Early \ {"running", "identify"}, held[c] = token
  PROVE  Truthful("failure") /\ Truthful("indeterminate")
  BY Facts DEF CallOK, NotLaunched, Truthful

\* Where a call may go on to by the approval a, its launch excepted.
MayGo(c, next, a) ==
    /\ next \in Early \ {"copy", "running", "identify"}
    /\ pc[c] \in Early \ {"running", "identify"}
    /\ next \in PreBind => pc[c] \in PreBind /\ bound' = bound
    /\ next \in {"resolve", "confirm", "bind"} => a # None
    /\ next \in PostBind => a # None /\ bound' = a
    /\ next = "start" =>
         /\ a \in spent' /\ a <= issued'
         /\ approval'[a].claim \in {0, mine[c]} /\ saved'[a].claim \in {0, mine[c]}

LEMMA GoingAhead ==
  ASSUME IInv, NEW c \in Call, StoreTypes', Lasting, launches' = launches,
         NEW next, NEW a \in Approval \cup {None}, MayGo(c, next, a), GoOn(c, next, a)
  PROVE  CallTypes' /\ GoesAhead(c) /\ CallOK(c)'
<1>1. StoreTypes /\ CallTypes /\ CallOK(c)
  BY Facts
<1>2. next \in Early /\ pc[c] \in Early /\ next \notin {"copy", "running", "identify"}
  BY DEF MayGo
<1>3. /\ next \in PreBind => pc[c] \in PreBind /\ bound' = bound
      /\ next \in {"resolve", "confirm", "bind"} => a # None
      /\ next \in PostBind => a # None /\ bound' = a
      /\ pc[c] \notin {"running", "identify"}
      /\ next \in {"start", "copy"} =>
           /\ a \in spent' /\ a <= issued'
           /\ approval'[a].claim \in {0, mine[c]} /\ saved'[a].claim \in {0, mine[c]}
  BY DEF MayGo
<1>4. /\ CallTypes' /\ \A d \in Call \ {c} : Unmoved(d)
      /\ pc'[c] = next /\ held'[c] = held[c] /\ CallOK(c)'
  BY <1>1, <1>2, <1>3, Going
<1>5. GoesAhead(c)
  BY <1>2, <1>3, <1>4 DEF GoesAhead
<1> QED  BY <1>4, <1>5

LEMMA AskedAndGoes ==
  ASSUME LaunchAssumption, IInv, NEW c \in Call, NEW kind \in Kind, NEW m, m = Ask(c, kind),
         Sound(m), kind \in {"external-id", "settle"} => held[c] # 0,
         Done(c, kind) \/ Refused(c, kind) \/ Lost(c, kind),
         NEW next, NEW a \in Approval \cup {None}, MayGo(c, next, a), GoOn(c, next, a),
         late' # late => LateOK(m)',
         kind = "external-id" => pc[c] \in PreBind
  PROVE  IInv'
<1>1. /\ StoreOK' /\ StoreTypes' /\ token' \in Nat /\ Steady /\ Moves(m) /\ Lasting
      /\ launches' = launches /\ late' \in {late, late \cup {m}}
      /\ (\A d \in Call \ {c} : Gentle(d))
  BY Asked
<1>2. CallTypes' /\ GoesAhead(c) /\ CallOK(c)'
  BY <1>1, GoingAhead
<1> QED  BY <1>1, <1>2, AskingStep

LEMMA Alone ==
  ASSUME LaunchAssumption, IInv, Local \/ Unread
  PROVE  /\ UNCHANGED <<row, ticket, history>> /\ faults' \in 0 .. MaxFaults /\ late' = late
         /\ StoreOK' /\ StoreTypes' /\ Lasting /\ token' \in Nat
         /\ UNCHANGED <<state, token, bound, approval, saved, issued, spent, launches, result, outcome>>
<1>1. StoreOK /\ StoreTypes
  BY TypesParts DEF IInv, StoreOK
<1>2. UNCHANGED <<row, ticket, history>> /\ faults' \in 0 .. MaxFaults /\ late' = late
  BY <1>1 DEF Local, Unread, Fault, StoreTypes, LaunchAssumption
<1>3. StoreOK' /\ Lasting
      /\ UNCHANGED <<state, token, bound, approval, saved, issued, spent, launches, result, outcome>>
  BY <1>1, <1>2, Standing
<1> QED  BY <1>2, <1>3 DEF StoreOK, StoreTypes

LEMMA LeavesAlone ==
  ASSUME LaunchAssumption, IInv, NEW c \in Call, Local \/ Unread, Quit(c)
  PROVE  IInv'
<1>1. /\ UNCHANGED <<row, ticket, history>> /\ faults' \in 0 .. MaxFaults /\ late' = late
      /\ token' \in Nat
  BY Alone
<1>2. /\ CallTypes' /\ \A d \in Call \ {c} : Unmoved(d)
      /\ pc'[c] = "ended" /\ held'[c] = 0 /\ CallOK(c)'
  BY <1>1, Facts, Quitting DEF Quit
<1>3. GoesAhead(c)
  BY <1>2 DEF GoesAhead, Early, PreBind, PostBind
<1> QED  BY <1>1, <1>2, <1>3, LocalStep

LEMMA RecordsAlone ==
  ASSUME LaunchAssumption, IInv, NEW c \in Call, Local \/ Unread,
         pc[c] \in Early \ {"running", "identify"}, Declines(c) \/ Ambiguous(c)
  PROVE  IInv'
<1>0. held[c] > 0 /\ pc[c] \in Early
  BY Facts DEF CallOK, OwnsToken
<1>1. PICK v \in {"failure", "indeterminate"} :
        \E how \in {"decline", "pause"} : ToRecord(c, v, how)
  BY DEF Declines, Ambiguous
<1>2. PICK how \in {"decline", "pause"} : ToRecord(c, v, how)
  BY <1>1
<1>3. /\ UNCHANGED <<row, ticket, history>> /\ faults' \in 0 .. MaxFaults /\ late' = late
      /\ StoreTypes' /\ Lasting /\ UNCHANGED <<token, launches, result>>
  BY Alone
<1>4. held[c] = token' => Truthful(v)'
  <2>1. held[c] = token => Truthful(v)
    BY MayDecline
  <2> QED  BY <1>3, <2>1 DEF Truthful
<1>5. /\ CallTypes' /\ \A d \in Call \ {c} : Unmoved(d)
      /\ pc'[c] = "settle" /\ held'[c] = held[c] /\ CallOK(c)'
  BY <1>0, <1>2, <1>3, <1>4, Facts, Recording DEF Verdict
<1>6. GoesAhead(c)
  BY <1>5 DEF GoesAhead, Early, PreBind, PostBind
<1> QED  BY <1>3, <1>5, <1>6, LocalStep

LEMMA GoesAlone ==
  ASSUME LaunchAssumption, IInv, NEW c \in Call, Local \/ Unread,
         NEW next, NEW a \in Approval \cup {None}, MayGo(c, next, a), GoOn(c, next, a)
  PROVE  IInv'
<1>1. /\ UNCHANGED <<row, ticket, history>> /\ faults' \in 0 .. MaxFaults /\ late' = late
      /\ StoreTypes' /\ Lasting /\ launches' = launches
  BY Alone
<1>2. CallTypes' /\ GoesAhead(c) /\ CallOK(c)'
  BY <1>1, GoingAhead
<1> QED  BY <1>1, <1>2, LocalStep

LEMMA AskedAndDeclines ==
  ASSUME LaunchAssumption, IInv, NEW c \in Call, NEW kind \in Kind, NEW m, m = Ask(c, kind),
         Sound(m), Done(c, kind) \/ Refused(c, kind) \/ Lost(c, kind),
         pc[c] \in Early \ {"running", "identify"}, Declines(c) \/ Ambiguous(c),
         late' # late => LateOK(m)', kind # "external-id"
  PROVE  IInv'
<1>1. PICK v \in {"failure", "indeterminate"} :
        \E how \in {"decline", "pause"} : ToRecord(c, v, how)
  BY DEF Declines, Ambiguous
<1>2. PICK how \in {"decline", "pause"} : ToRecord(c, v, how)
  BY <1>1
<1>3. held[c] = token => Truthful(v)
  BY MayDecline
<1>4. v \in Verdict /\ v # "success"
  BY DEF Verdict
<1> QED  BY <1>2, <1>3, <1>4, AskedAndRecords

LEMMA AcquireKeeps ==
  ASSUME LaunchAssumption, IInv, NEW c \in Call, Acquire(c)
  PROVE  IInv'
<1>0. PICK m : m = Ask(c, "acquire")
  OBVIOUS
<1>1. "acquire" \in PlainKind
  BY DEF PlainKind
<1>2. "acquire" \in Kind /\ Sound(m) /\ (Lasting /\ token' \in Nat => LateOK(m)')
      /\ m.kind = "acquire"
  BY <1>0, <1>1, PlainAsk, AsksARequest, Facts
<1>3. CASE Done(c, "acquire") /\ Go(c, "prepare") /\ held' = [held EXCEPT ![c] = token + 1]
           /\ known' = [known EXCEPT ![c] = bound] /\ renewal' = [renewal EXCEPT ![c] = "on"]
           /\ UNCHANGED <<mine, using, verdict, manner, answer>>
  <2>1. /\ StoreOK' /\ StoreTypes' /\ Steady /\ Moves(m) /\ Lasting
        /\ late' \in {late, late \cup {m}} /\ (\A d \in Call \ {c} : Gentle(d))
    BY <1>0, <1>2, <1>3, Asked
  <2>2. late' = late /\ Grant(m)
    BY <1>0, <1>2, <1>3 DEF Done, Serve, Registry, Approvals, Create, Resolve, Consume, Advance,
                            Attach, Conclude
  <2>3. /\ state \notin {"side_effect_started", "terminal"} /\ token' = token + 1
        /\ bound' = bound /\ launches' = launches
    BY <1>3, <2>2 DEF Grant, Acquirable, Done, Serve
  <2>4. launches' = 0 /\ token' \in Nat
    BY <2>1, <2>3, Facts DEF Ledger, StoreTypes
  <2>5. /\ CallTypes' /\ \A d \in Call \ {c} : Unmoved(d)
        /\ pc'[c] = "prepare" /\ held'[c] = token' /\ held'[c] = token + 1 /\ known'[c] = bound
        /\ answer'[c] = answer[c]
    BY <1>3, <2>3, Facts DEF Go, CallTypes, StoreTypes, Unmoved, Step
  <2>6. held'[c] <= token' /\ held'[c] > 0 /\ held'[c] # held[c]
    BY <2>3, <2>4, <2>5, Facts
  <2>7. AnswerAgrees(c)'
    BY <2>1, <2>5, Facts DEF CallOK, AnswerAgrees, Lasting
  <2>8. CallOK(c)'
    BY <2>3, <2>4, <2>5, <2>6, <2>7
       DEF CallOK, OwnsToken, KnowsBound, GoesByOne, HasSpent, NotLaunched, AtLaunch, RunAgrees,
           VerdictAgrees, PostBind
  <2>9. GoesAhead(c)
    BY <2>3, <2>5, <2>6 DEF GoesAhead
  <2> QED  BY <1>0, <1>2, <2>1, <2>2, <2>5, <2>8, <2>9, AskingStep
<1>4. CASE Refused(c, "acquire") /\ Report(c, Recorded)
  <2>1. PICK reply : reply = Recorded
    OBVIOUS
  <2>2. reply \in {"none", "completed", "failed"}
        /\ (reply = "completed" => outcome' = "success" /\ result' = "success")
    BY <1>4, <2>1, Facts DEF Recorded, Ledger, Refused, Local, row, history
  <2>3. Lasting /\ token' \in Nat
    BY <1>0, <1>2, <1>4, Asked
  <2> QED  BY <1>0, <1>2, <1>4, <2>1, <2>2, <2>3, AskedAndLeft
<1>5. CASE Lost(c, "acquire") /\ Quit(c)
  <2>1. Lasting /\ token' \in Nat
    BY <1>0, <1>2, <1>5, Asked
  <2> QED  BY <1>0, <1>2, <1>5, <2>1, AskedAndLeft DEF Quit
<1> QED  BY <1>3, <1>4, <1>5 DEF Acquire

LEMMA ReplayKeeps ==
  ASSUME LaunchAssumption, IInv, NEW c \in Call, Replay(c)
  PROVE  IInv'
<1>0. PICK m : m = Ask(c, "acquire")
  OBVIOUS
<1>1. "acquire" \in PlainKind
  BY DEF PlainKind
<1>2. "acquire" \in Kind /\ Sound(m) /\ (Lasting /\ token' \in Nat => LateOK(m)')
  BY <1>0, <1>1, PlainAsk
<1>3. Lasting /\ token' \in Nat
  BY <1>0, <1>2, Asked DEF Replay
<1>4. CASE (Done(c, "acquire") \/ Lost(c, "acquire")) /\ Quit(c)
  BY <1>0, <1>2, <1>3, <1>4, AskedAndLeft DEF Quit
<1>5. CASE Refused(c, "acquire") /\ Report(c, Recorded)
  <2>1. PICK reply : reply = Recorded
    OBVIOUS
  <2>2. reply \in {"none", "completed", "failed"}
        /\ (reply = "completed" => outcome' = "success" /\ result' = "success")
    BY <1>5, <2>1, Facts DEF Recorded, Ledger, Refused, Local, row, history
  <2> QED  BY <1>0, <1>2, <1>3, <1>5, <2>1, <2>2, AskedAndLeft
<1> QED  BY <1>4, <1>5 DEF Replay

LEMMA PrepareKeeps ==
  ASSUME LaunchAssumption, IInv, NEW c \in Call, Prepare(c)
  PROVE  IInv'
<1>0. PICK m : m = Ask(c, "prepared")
  OBVIOUS
<1>1. "prepared" \in PlainKind
  BY DEF PlainKind
<1>2. "prepared" \in Kind /\ Sound(m) /\ (Lasting /\ token' \in Nat => LateOK(m)')
      /\ m.kind = "prepared"
  BY <1>0, <1>1, PlainAsk, AsksARequest, Facts
<1>3. Lasting /\ token' \in Nat /\ Moves(m)
  BY <1>0, <1>2, Asked DEF Prepare
<1>4. pc[c] = "prepare" /\ pc[c] \in PreBind /\ pc[c] \in Early \ {"running", "identify"}
  BY DEF Prepare, Early, PreBind
<1>5. CASE Done(c, "prepared") /\ OnlyGo(c, IF using[c] = None THEN "read" ELSE "bind")
  <2>1. PICK a \in Approval \cup {None} : a = using[c]
    BY Facts DEF CallTypes
  <2>2. PICK next : next = IF using[c] = None THEN "read" ELSE "bind"
    OBVIOUS
  <2>3. GoOn(c, next, a)
    BY <1>5, <2>1, <2>2, Facts, OnlyGoGoesOn
  <2>4. MayGo(c, next, a)
    BY <1>2, <1>3, <1>4, <2>1, <2>2 DEF MayGo, Moves, Early, PreBind, PostBind
  <2> QED  BY <1>0, <1>2, <1>3, <1>5, <2>3, <2>4, AskedAndGoes
<1>6. CASE Declines(c) \/ Ambiguous(c)
  BY <1>0, <1>2, <1>3, <1>4, <1>6, AskedAndDeclines DEF Prepare
<1> QED  BY <1>5, <1>6 DEF Prepare

LEMMA ApprovalsAreSome == ASSUME LaunchAssumption, NEW a \in Approval PROVE a # None
  BY DEF Approval, None, LaunchAssumption

\* Going by an approval found on the ticket.
LEMMA GoesByKeeps ==
  ASSUME LaunchAssumption, IInv, NEW c \in Call, Local, pc[c] \in {"read", "reread"},
         NEW a \in Approval, GoesBy(c, a)
  PROVE  IInv'
<1>1. PICK next : next = IF approval[a].status = "pending" THEN "resolve" ELSE "bind"
  OBVIOUS
<1>2. GoOn(c, next, a)
  BY <1>1 DEF GoesBy, GoOn
<1>3. bound' = bound
  BY DEF Local, row
<1>4. MayGo(c, next, a)
  BY <1>1, <1>3, ApprovalsAreSome DEF MayGo, Early, PreBind, PostBind
<1> QED  BY <1>2, <1>4, GoesAlone

LEMMA ReadExistingKeeps ==
  ASSUME LaunchAssumption, IInv, NEW c \in Call, ReadExisting(c)
  PROVE  IInv'
<1>1. pc[c] = "read" /\ (Local \/ Unread) /\ pc[c] \in Early \ {"running", "identify"}
  BY DEF ReadExisting, Early, PreBind
<1>2. CASE Quit(c)
  BY <1>1, <1>2, LeavesAlone
<1>3. CASE Local /\ \E a \in Approval : GoesBy(c, a)
  BY <1>1, <1>3, GoesByKeeps
<1>4. CASE Local /\ OnlyGo(c, "create")
  <2>1. PICK a \in Approval \cup {None} : a = using[c]
    BY Facts DEF CallTypes
  <2>2. GoOn(c, "create", a)
    BY <1>4, <2>1, Facts, OnlyGoGoesOn
  <2>3. MayGo(c, "create", a)
    BY <1>1, <1>4 DEF MayGo, Local, row, Early, PreBind, PostBind
  <2> QED  BY <1>4, <2>2, <2>3, GoesAlone
<1>5. CASE Local /\ Declines(c)
  BY <1>1, <1>5, RecordsAlone
<1> QED  BY <1>2, <1>3, <1>4, <1>5 DEF ReadExisting

LEMMA ReadCreatedKeeps ==
  ASSUME LaunchAssumption, IInv, NEW c \in Call, ReadCreated(c)
  PROVE  IInv'
<1>1. pc[c] = "reread" /\ (Local \/ Unread)
  BY DEF ReadCreated
<1>2. CASE Quit(c)
  BY <1>1, <1>2, LeavesAlone
<1>3. CASE Local /\ \E a \in Approval : GoesBy(c, a)
  BY <1>1, <1>3, GoesByKeeps
<1> QED  BY <1>2, <1>3 DEF ReadCreated

LEMMA CreateApprovalKeeps ==
  ASSUME LaunchAssumption, IInv, NEW c \in Call, CreateApproval(c)
  PROVE  IInv'
<1>0. PICK m : m = Ask(c, "create")
  OBVIOUS
<1>1. "create" \in PlainKind
  BY DEF PlainKind
<1>2. "create" \in Kind /\ Sound(m) /\ (Lasting /\ token' \in Nat => LateOK(m)')
      /\ m.kind = "create"
  BY <1>0, <1>1, PlainAsk, AsksARequest, Facts
<1>3. Lasting /\ token' \in Nat /\ Moves(m)
  BY <1>0, <1>2, Asked DEF CreateApproval
<1>4. pc[c] = "create" /\ pc[c] \in PreBind /\ pc[c] \in Early \ {"running", "identify"}
      /\ bound' = bound
  BY <1>2, <1>3 DEF CreateApproval, Early, PreBind, Moves
<1>5. CASE /\ Done(c, "create") /\ Go(c, "resolve")
           /\ \E a \in Approval : using' = [using EXCEPT ![c] = a]
           /\ UNCHANGED <<mine, held, known, renewal, verdict, manner, answer>>
  <2>1. PICK a \in Approval : GoOn(c, "resolve", a)
    BY <1>5 DEF GoOn
  <2>2. MayGo(c, "resolve", a)
    BY <1>4, ApprovalsAreSome DEF MayGo, Early, PreBind, PostBind
  <2> QED  BY <1>0, <1>2, <1>3, <1>5, <2>1, <2>2, AskedAndGoes
<1>6. CASE Refused(c, "create") /\ Declines(c)
  BY <1>0, <1>2, <1>3, <1>4, <1>6, AskedAndDeclines
<1>7. CASE Lost(c, "create") /\ OnlyGo(c, "reread")
  <2>1. PICK a \in Approval \cup {None} : a = using[c]
    BY Facts DEF CallTypes
  <2>2. GoOn(c, "reread", a)
    BY <1>7, <2>1, Facts, OnlyGoGoesOn
  <2>3. MayGo(c, "reread", a)
    BY <1>4 DEF MayGo, Early, PreBind, PostBind
  <2> QED  BY <1>0, <1>2, <1>3, <1>7, <2>2, <2>3, AskedAndGoes
<1> QED  BY <1>5, <1>6, <1>7 DEF CreateApproval

LEMMA ResolveApprovalKeeps ==
  ASSUME LaunchAssumption, IInv, NEW c \in Call, ResolveApproval(c)
  PROVE  IInv'
<1>0. PICK m : m = Ask(c, "resolve")
  OBVIOUS
<1>1. pc[c] = "resolve" /\ using[c] # None /\ "resolve" \in Kind
  BY Facts DEF ResolveApproval, CallOK, GoesByOne, Kind
<1>2. m \in Request /\ m.kind = "resolve" /\ m.token = held[c] /\ m.approval = using[c]
  BY <1>0, <1>1, Facts, AsksARequest
<1>3. Sound(m)
  BY <1>1, <1>2 DEF Sound
<1>4. Lasting /\ token' \in Nat /\ Moves(m)
  BY <1>0, <1>1, <1>3, Asked DEF ResolveApproval
<1>5. LateOK(m)'
  <2>1. m.token <= token'
    BY <1>2, <1>4, Facts DEF Lasting
  <2> QED  BY <1>1, <1>2, <2>1 DEF LateOK
<1>6. PICK next \in {"bind", "confirm"} : OnlyGo(c, next)
  BY DEF ResolveApproval
<1>7. PICK a \in Approval \cup {None} : a = using[c]
  BY Facts DEF CallTypes
<1>8. GoOn(c, next, a)
  BY <1>6, <1>7, Facts, OnlyGoGoesOn
<1>9. MayGo(c, next, a)
  BY <1>1, <1>2, <1>4, <1>6, <1>7 DEF MayGo, Early, PreBind, PostBind, Moves
<1> QED  BY <1>0, <1>1, <1>3, <1>5, <1>8, <1>9, AskedAndGoes DEF ResolveApproval

LEMMA ConfirmKeeps ==
  ASSUME LaunchAssumption, IInv, NEW c \in Call, Confirm(c)
  PROVE  IInv'
<1>1. pc[c] = "confirm" /\ using[c] # None /\ (Local \/ Unread)
  BY Facts DEF Confirm, CallOK, GoesByOne
<1>2. CASE Quit(c)
  BY <1>1, <1>2, LeavesAlone
<1>3. CASE Local /\ OnlyGo(c, "bind")
  <2>1. PICK a \in Approval \cup {None} : a = using[c]
    BY Facts DEF CallTypes
  <2>2. GoOn(c, "bind", a)
    BY <1>3, <2>1, Facts, OnlyGoGoesOn
  <2>3. MayGo(c, "bind", a)
    BY <1>1, <1>3, <2>1 DEF MayGo, Local, row, Early, PreBind, PostBind
  <2> QED  BY <1>3, <2>2, <2>3, GoesAlone
<1> QED  BY <1>2, <1>3 DEF Confirm

\* The operation is bound to an approval, or found bound to it.
LEMMA BindKeeps ==
  ASSUME LaunchAssumption, IInv, NEW c \in Call, Bind(c)
  PROVE  IInv'
<1>1. /\ pc[c] = "bind" /\ pc[c] \in PreBind /\ pc[c] \in Early /\ using[c] # None
      /\ held[c] # 0 /\ "external-id" \in Kind
      /\ IF known[c] = None THEN held[c] = token => bound = None ELSE bound = known[c]
  BY Facts DEF Bind, CallOK, GoesByOne, KnowsBound, OwnsToken, Early, PreBind, Kind
<1>2. PICK a \in Approval \cup {None} : a = using[c]
  BY Facts DEF CallTypes
<1>3. CASE Local /\ Quit(c)
  BY <1>3, LeavesAlone
<1>4. CASE known[c] = using[c] /\ OnlyGo(c, "check") /\ Local
  <2>1. GoOn(c, "check", a)
    BY <1>2, <1>4, Facts, OnlyGoGoesOn
  <2>2. bound' = a
    BY <1>1, <1>2, <1>4 DEF Local, row
  <2>3. MayGo(c, "check", a)
    BY <1>1, <1>2, <2>2 DEF MayGo, Early, PreBind, PostBind
  <2> QED  BY <1>4, <2>1, <2>3, GoesAlone
<1>5. CASE /\ known[c] = None
           /\ Done(c, "external-id") \/ Refused(c, "external-id") \/ Lost(c, "external-id")
           /\ \/ Done(c, "external-id") /\ OnlyGo(c, "consume")
              \/ Refused(c, "external-id") /\ Quit(c)
              \/ Lost(c, "external-id") /\ Quit(c)
  <2>0. PICK m : m = Ask(c, "external-id")
    OBVIOUS
  <2>1. m \in Request /\ m.kind = "external-id" /\ m.token = held[c] /\ m.approval = using[c]
    BY <1>1, <2>0, Facts, AsksARequest
  <2>2. Sound(m)
    BY <1>1, <1>5, <2>1 DEF Sound
  <2>3. Lasting /\ token' \in Nat /\ Moves(m)
    BY <1>1, <1>5, <2>0, <2>2, Asked
  <2>4. CASE Done(c, "external-id") /\ OnlyGo(c, "consume")
    <3>1. GoOn(c, "consume", a) /\ late' = late
      BY <1>2, <2>4, Facts, OnlyGoGoesOn DEF Done
    <3>2. Attach(m)
      BY <2>0, <2>1, <2>4 DEF Done, Serve, Registry, Approvals, Create, Resolve, Consume, Advance,
                              Grant, Conclude
    <3>3. bound' = a
      BY <1>2, <2>1, <3>2 DEF Attach
    <3>4. MayGo(c, "consume", a)
      BY <1>1, <1>2, <3>3 DEF MayGo, Early, PreBind, PostBind
    <3> QED  BY <1>1, <2>0, <2>2, <2>4, <3>1, <3>4, AskedAndGoes
  <2>5. CASE Refused(c, "external-id") /\ Quit(c)
    <3>1. late' = late
      BY <2>5 DEF Refused, Local
    <3> QED  BY <1>1, <2>0, <2>2, <2>5, <3>1, AskedAndLeft DEF Quit
  <2>6. CASE Lost(c, "external-id") /\ Quit(c)
    <3>1. /\ token' = token /\ bound' = bound /\ late' = late \cup {m}
          /\ pc'[c] = "ended" /\ \A d \in Call \ {c} : pc'[d] = pc[d] /\ held'[d] = held[d]
      BY <2>0, <2>6, Facts DEF Lost, row, Quit, Report, Forget, Go, CallTypes
    <3>2. ASSUME m.token = token
          PROVE  /\ bound = None
                 /\ \A n \in late : ~(n.kind = "external-id" /\ n.token = token)
                 /\ \A d \in Call \ {c} : held[d] # token
      <4>1. bound = None
        BY <1>1, <1>5, <2>1, <3>2
      <4>2. \A n \in late : ~(n.kind = "external-id" /\ n.token = token)
        BY <1>1, <2>1, <3>2 DEF IInv, Lates, LateOK
      <4>3. \A d \in Call \ {c} : held[d] # token
        BY <1>1, <2>1, <3>2, NobodyElse
      <4> QED  BY <4>1, <4>2, <4>3
    <3>3. m.token <= token'
      BY <2>1, <3>1, Facts
    <3>4. m.token = token' =>
            /\ m.approval # None /\ bound' \in {None, m.approval}
            /\ \A n \in late' : n.kind = "external-id" /\ n.token = token' =>
                 n.approval = m.approval
            /\ \A d \in Call : pc'[d] \in PreBind => held'[d] # token'
      BY <1>1, <2>1, <3>1, <3>2 DEF PreBind
    <3>5. LateOK(m)'
      BY <2>1, <3>3, <3>4 DEF LateOK
    <3> QED  BY <1>1, <2>0, <2>2, <2>6, <3>5, AskedAndLeft DEF Quit
  <2> QED  BY <1>5, <2>4, <2>5, <2>6
<1> QED  BY <1>3, <1>4, <1>5 DEF Bind

\* What a call that reads its approval as spent may rely on.
LEMMA FoundSpentGives ==
  ASSUME IInv, NEW c \in Call, FoundSpent(c), using[c] # None
  PROVE  /\ using[c] \in spent /\ using[c] <= issued
         /\ approval[using[c]].claim \in {0, mine[c]} /\ saved[using[c]].claim \in {0, mine[c]}
<1>1. using[c] \in Approval /\ StoreTypes /\ Files
  BY Facts DEF CallTypes
<1>2. /\ approval[using[c]].status = "approved" /\ approval[using[c]].consumed
      /\ approval[using[c]].claim = mine[c]
  BY DEF FoundSpent
<1>3. using[c] <= issued
  BY <1>1, <1>2, MadeAreIssued
<1> QED  BY <1>1, <1>2, <1>3 DEF Files, FilesOf

\* Having read it so, the call goes to the launch boundary.
LEMMA GoesToStart ==
  ASSUME LaunchAssumption, IInv, NEW c \in Call,
         pc[c] \in {"check", "consume", "refused", "recheck"},
         FoundSpent(c), UNCHANGED <<approval, saved, issued, spent, bound>>,
         NEW a, a = using[c]
  PROVE  MayGo(c, "start", a)
<1>1. using[c] # None /\ bound = using[c]
  BY Facts DEF CallOK, GoesByOne, PostBind
<1>2. /\ using[c] \in spent /\ using[c] <= issued
      /\ approval[using[c]].claim \in {0, mine[c]} /\ saved[using[c]].claim \in {0, mine[c]}
  BY <1>1, FoundSpentGives
<1> QED  BY <1>1, <1>2 DEF MayGo, Early, PreBind, PostBind

LEMMA GoesToConsume ==
  ASSUME IInv, NEW c \in Call, bound' = bound,
         pc[c] \in {"check", "consume", "refused", "recheck"},
         NEW next \in {"consume", "refused", "recheck"}, NEW a, a = using[c]
  PROVE  MayGo(c, next, a)
<1>1. using[c] # None /\ bound = using[c]
  BY Facts DEF CallOK, GoesByOne, PostBind
<1> QED  BY <1>1 DEF MayGo, Early, PreBind, PostBind

LEMMA CheckKeeps ==
  ASSUME LaunchAssumption, IInv, NEW c \in Call, Check(c)
  PROVE  IInv'
<1>1. pc[c] = "check" /\ (Local \/ Unread)
  BY DEF Check
<1>2. UNCHANGED <<approval, saved, issued, spent, bound>>
  BY <1>1, Alone
<1>3. PICK a \in Approval \cup {None} : a = using[c]
  BY Facts DEF CallTypes
<1>4. CASE Quit(c)
  BY <1>1, <1>4, LeavesAlone
<1>5. CASE OnlyGo(c, "start") /\ FoundSpent(c)
  <2>1. GoOn(c, "start", a)
    BY <1>3, <1>5, Facts, OnlyGoGoesOn
  <2>2. MayGo(c, "start", a)
    BY <1>1, <1>2, <1>3, <1>5, GoesToStart
  <2> QED  BY <1>1, <2>1, <2>2, GoesAlone
<1>6. CASE OnlyGo(c, "consume")
  <2>1. GoOn(c, "consume", a)
    BY <1>3, <1>6, Facts, OnlyGoGoesOn
  <2>2. MayGo(c, "consume", a)
    BY <1>1, <1>2, <1>3, GoesToConsume
  <2> QED  BY <1>1, <2>1, <2>2, GoesAlone
<1> QED  BY <1>4, <1>5, <1>6 DEF Check

LEMMA RecheckKeeps ==
  ASSUME LaunchAssumption, IInv, NEW c \in Call, Recheck(c)
  PROVE  IInv'
<1>1. /\ pc[c] \in {"refused", "recheck"} /\ (Local \/ Unread)
      /\ pc[c] \in Early \ {"running", "identify"}
  BY DEF Recheck, Early, PostBind
<1>2. UNCHANGED <<approval, saved, issued, spent, bound>>
  BY <1>1, Alone
<1>3. PICK a \in Approval \cup {None} : a = using[c]
  BY Facts DEF CallTypes
<1>4. CASE Quit(c)
  BY <1>1, <1>4, LeavesAlone
<1>5. CASE OnlyGo(c, "start") /\ FoundSpent(c)
  <2>1. GoOn(c, "start", a)
    BY <1>3, <1>5, Facts, OnlyGoGoesOn
  <2>2. MayGo(c, "start", a)
    BY <1>1, <1>2, <1>3, <1>5, GoesToStart
  <2> QED  BY <1>1, <2>1, <2>2, GoesAlone
<1>6. CASE Local /\ Declines(c)
  BY <1>1, <1>6, RecordsAlone
<1> QED  BY <1>4, <1>5, <1>6 DEF Recheck

\* The approval is spent by the call that goes by it, for the claim it was made
\* for.
LEMMA ConsumeApprovalKeeps ==
  ASSUME LaunchAssumption, IInv, NEW c \in Call, ConsumeApproval(c)
  PROVE  IInv'
<1>0. PICK m : m = Ask(c, "consume")
  OBVIOUS
<1>1. /\ pc[c] = "consume" /\ using[c] # None /\ bound = using[c] /\ "consume" \in Kind
      /\ using[c] \in Approval /\ pc[c] \in Early \ {"running", "identify"}
  BY Facts DEF ConsumeApproval, CallOK, GoesByOne, Kind, PostBind, Early, CallTypes
<1>2. m \in Request /\ m.kind = "consume" /\ m.token = held[c] /\ m.approval = using[c]
      /\ m.claim = mine[c]
  BY <1>0, <1>1, Facts, AsksARequest
<1>3. Sound(m)
  BY <1>1, <1>2 DEF Sound
<1>4. Steady /\ Lasting /\ token' \in Nat /\ Moves(m)
  BY <1>0, <1>1, <1>3, Asked DEF ConsumeApproval
<1>5. bound' = bound
  BY <1>2, <1>4 DEF Moves
<1>6. LateOK(m)'
  <2>1. m.token <= token'
    BY <1>2, <1>4, Facts DEF Lasting
  <2> QED  BY <1>1, <1>2, <1>5, <2>1 DEF LateOK
<1>7. PICK a \in Approval \cup {None} : a = using[c]
  BY Facts DEF CallTypes
<1>8. CASE Done(c, "consume") /\ OnlyGo(c, "start")
  <2>1. GoOn(c, "start", a)
    BY <1>7, <1>8, Facts, OnlyGoGoesOn
  <2>2. Consume(m)
    BY <1>0, <1>2, <1>8 DEF Done, Serve, Registry, Approvals, Create, Resolve, Advance, Grant,
                            Attach, Conclude
  <2>3. /\ a \in Approval /\ a \in spent' /\ issued' = issued
        /\ approval[a].status = "approved" /\ approval[a].claim = mine[c]
    BY <1>1, <1>2, <1>7, <2>2 DEF Consume, Consumable
  <2>4. a <= issued
    BY <2>3, Facts, MadeAreIssued
  <2>5. approval[a].claim \in {0, mine[c]} /\ saved[a].claim \in {0, mine[c]}
    BY <2>3, Facts DEF Files, FilesOf
  <2>6. approval'[a].claim \in {0, mine[c]} /\ saved'[a].claim \in {0, mine[c]}
    BY <1>4, <2>3, <2>4, <2>5 DEF Steady
  <2>7. MayGo(c, "start", a)
    BY <1>1, <1>5, <1>7, <2>3, <2>4, <2>6 DEF MayGo, PreBind, PostBind, Early
  <2> QED  BY <1>0, <1>1, <1>3, <1>6, <1>8, <2>1, <2>7, AskedAndGoes
<1>9. CASE Refused(c, "consume") /\ OnlyGo(c, "refused")
  <2>1. GoOn(c, "refused", a)
    BY <1>7, <1>9, Facts, OnlyGoGoesOn
  <2>2. MayGo(c, "refused", a)
    BY <1>1, <1>5, <1>7, GoesToConsume
  <2> QED  BY <1>0, <1>1, <1>3, <1>6, <1>9, <2>1, <2>2, AskedAndGoes
<1>10. CASE Lost(c, "consume") /\ OnlyGo(c, "recheck")
  <2>1. GoOn(c, "recheck", a)
    BY <1>7, <1>10, Facts, OnlyGoGoesOn
  <2>2. MayGo(c, "recheck", a)
    BY <1>1, <1>5, <1>7, GoesToConsume
  <2> QED  BY <1>0, <1>1, <1>3, <1>6, <1>10, <2>1, <2>2, AskedAndGoes
<1> QED  BY <1>8, <1>9, <1>10 DEF ConsumeApproval

\* The launch boundary is crossed under a lease in force, with the approval
\* spent.
LEMMA StartKeeps ==
  ASSUME LaunchAssumption, IInv, NEW c \in Call, Start(c)
  PROVE  IInv'
<1>0. PICK m : m = Ask(c, "side_effect_started")
  OBVIOUS
<1>1. "side_effect_started" \in PlainKind
  BY DEF PlainKind
<1>2. /\ "side_effect_started" \in Kind /\ Sound(m) /\ (Lasting /\ token' \in Nat => LateOK(m)')
      /\ m.kind = "side_effect_started" /\ m.token = held[c]
  BY <1>0, <1>1, PlainAsk, AsksARequest, Facts
<1>3. /\ StoreOK' /\ StoreTypes' /\ token' \in Nat /\ Steady /\ Moves(m) /\ Lasting
      /\ launches' = launches /\ result' = result /\ late' \in {late, late \cup {m}}
      /\ \A d \in Call \ {c} : Gentle(d)
  BY <1>0, <1>2, Asked DEF Start
<1>4. /\ pc[c] = "start" /\ pc[c] \in Early \ {"running", "identify"}
      /\ using[c] # None /\ bound = using[c]
      /\ using[c] \in spent /\ using[c] <= issued
      /\ approval[using[c]].claim \in {0, mine[c]} /\ saved[using[c]].claim \in {0, mine[c]}
  BY Facts DEF Start, CallOK, GoesByOne, HasSpent, Early, PostBind
<1>5. CASE Done(c, "side_effect_started") /\ OnlyGo(c, "copy")
  <2>1. PICK a \in Approval \cup {None} : a = using[c]
    BY Facts DEF CallTypes
  <2>2. GoOn(c, "copy", a)
    BY <1>5, <2>1, Facts, OnlyGoGoesOn
  <2>3. Advance(m)
    BY <1>0, <1>2, <1>5 DEF Done, Serve, Registry, Approvals, Create, Resolve, Consume, Grant,
                            Attach, Conclude
  <2>4. /\ held[c] = token' /\ state' = "side_effect_started" /\ bound' = a /\ spent' = spent
        /\ issued' = issued
    BY <1>0, <1>2, <1>4, <1>5, <2>1, <2>3
       DEF Advance, Holds, Done, Serve, Registry, Approvals, Create, Resolve, Consume
  <2>5. a \in Approval
    BY <1>4, <2>1, Facts DEF StoreTypes
  <2>6. /\ a \in spent' /\ a <= issued'
        /\ approval'[a].claim \in {0, mine[c]} /\ saved'[a].claim \in {0, mine[c]}
    BY <1>3, <1>4, <2>1, <2>4, <2>5 DEF Steady
  <2>7. "copy" \in Early /\ "copy" \notin PreBind /\ pc[c] \in Early
    BY <1>4 DEF Early, PreBind, PostBind
  <2>8. /\ CallTypes' /\ \A d \in Call \ {c} : Unmoved(d)
        /\ pc'[c] = "copy" /\ held'[c] = held[c] /\ CallOK(c)'
    BY <1>3, <1>4, <2>1, <2>2, <2>4, <2>6, <2>7, Facts, Going
  <2>9. GoesAhead(c)
    BY <2>7, <2>8 DEF GoesAhead
  <2> QED  BY <1>0, <1>2, <1>3, <2>8, <2>9, AskingStep
<1>6. CASE Ambiguous(c)
  BY <1>0, <1>2, <1>3, <1>4, <1>6, AskedAndDeclines DEF Start
<1> QED  BY <1>5, <1>6 DEF Start

\* Crucible is started by the call that has the operation, and by it alone.
LEMMA LaunchKeeps ==
  ASSUME LaunchAssumption, IInv, NEW c \in Call, Launch(c)
  PROVE  IInv'
<1>1. /\ pc[c] = "copy" /\ pc[c] \in Early \ {"running", "identify"} /\ pc[c] \in Early
      /\ using[c] # None /\ bound = using[c] /\ held[c] = token /\ held[c] # 0
      /\ state = "side_effect_started" /\ launches = 0
  BY Facts DEF Launch, CallOK, GoesByOne, OwnsToken, NotLaunched, AtLaunch, Early, PostBind
<1>2. CASE Local /\ (Declines(c) \/ Ambiguous(c))
  BY <1>1, <1>2, RecordsAlone
<1>3. CASE /\ OnlyGo(c, "running") /\ launches' = launches + 1
           /\ UNCHANGED <<row, ticket, late, spent, result, faults>>
  <2>1. /\ UNCHANGED <<state, token, lease, outcome, bound, approval, saved, issued, status>>
        /\ UNCHANGED <<claim, attempts, automatic, late, spent, result, faults>>
        /\ launches' = 1
    BY <1>1, <1>3 DEF row, ticket
  <2>2. StoreTypes' /\ ConsumptionIsTraceable'
    BY <2>1, Facts DEF StoreOK, StoreTypes, ConsumptionIsTraceable
  <2>3. result = "none" /\ Ledger'
    BY <1>1, <2>1, Facts DEF Ledger
  <2>4. StoreOK'
    BY <2>1, <2>2, <2>3, Facts DEF StoreOK, Files, FilesOf
  <2>5. Steady /\ Lasting
    BY <2>1, Facts DEF Steady, Lasting, StoreTypes
  <2>6. \A d \in Call \ {c} : Gentle(d)
    BY <1>1, <2>1, Facts, NobodyElse DEF Gentle
  <2>7. PICK a \in Approval \cup {None} : a = using[c]
    BY Facts DEF CallTypes
  <2>8. GoOn(c, "running", a)
    BY <1>3, <2>7, Facts, OnlyGoGoesOn
  <2>9. "running" \in Early /\ "running" \notin PreBind
    BY DEF Early, PreBind, PostBind
  <2>10. /\ CallTypes' /\ \A d \in Call \ {c} : Unmoved(d)
         /\ pc'[c] = "running" /\ held'[c] = held[c] /\ CallOK(c)'
    BY <1>1, <2>1, <2>2, <2>3, <2>5, <2>7, <2>8, <2>9, Facts, Going
  <2>11. GoesAhead(c)
    BY <1>1, <2>9, <2>10 DEF GoesAhead
  <2>12. Leaves(c)
    BY <2>1, Facts DEF Leaves
  <2> QED  BY <1>1, <2>1, <2>4, <2>5, <2>6, <2>10, <2>11, <2>12, CallSteps
<1> QED  BY <1>2, <1>3 DEF Launch

LEMMA RunEndsKeeps ==
  ASSUME LaunchAssumption, IInv, NEW c \in Call, RunEnds(c)
  PROVE  IInv'
<1>1. /\ pc[c] = "running" /\ pc[c] \in Early /\ using[c] # None /\ bound = using[c]
      /\ held[c] = token /\ held[c] # 0 /\ held[c] > 0
      /\ state = "side_effect_started" /\ launches = 1 /\ result = "none"
  BY Facts DEF RunEnds, CallOK, GoesByOne, OwnsToken, RunAgrees, AtLaunch, Early, PostBind
<1>2. /\ UNCHANGED <<state, token, lease, outcome, bound, approval, saved, issued, status>>
      /\ UNCHANGED <<claim, attempts, automatic, late, spent, launches, faults>>
      /\ result' \in {"success", "failure", "unknown"}
  BY DEF RunEnds, row, ticket
<1>3. StoreTypes' /\ ConsumptionIsTraceable'
  BY <1>2, Facts DEF StoreOK, StoreTypes, ConsumptionIsTraceable
<1>4. Ledger'
  BY <1>1, <1>2, Facts DEF Ledger
<1>5. StoreOK'
  BY <1>2, <1>3, <1>4, Facts DEF StoreOK, Files, FilesOf
<1>6. Steady /\ Lasting
  BY <1>1, <1>2, Facts DEF Steady, Lasting, StoreTypes
<1>7. \A d \in Call \ {c} : Gentle(d)
  BY <1>1, <1>2, Facts, NobodyElse DEF Gentle
<1>8. CallTypes' /\ CallOK(c)' /\ GoesAhead(c)
  <2>1. CASE Ambiguous(c)
    <3>1. Truthful("indeterminate")'
      BY DEF Truthful
    <3>2. /\ CallTypes' /\ \A d \in Call \ {c} : Unmoved(d)
          /\ pc'[c] = "settle" /\ held'[c] = held[c] /\ CallOK(c)'
      BY <1>1, <1>3, <1>6, <2>1, <3>1, Facts, Recording DEF Ambiguous, Verdict
    <3> QED  BY <3>2 DEF GoesAhead, Early, PreBind, PostBind
  <2>2. CASE OnlyGo(c, "identify") /\ result' \in {"success", "failure"}
    <3>1. PICK a \in Approval \cup {None} : a = using[c]
      BY Facts DEF CallTypes
    <3>2. GoOn(c, "identify", a)
      BY <2>2, <3>1, Facts, OnlyGoGoesOn
    <3>3. "identify" \in Early /\ "identify" \notin PreBind
      BY DEF Early, PreBind, PostBind
    <3>4. /\ CallTypes' /\ \A d \in Call \ {c} : Unmoved(d)
          /\ pc'[c] = "identify" /\ held'[c] = held[c] /\ CallOK(c)'
      BY <1>1, <1>2, <1>3, <1>6, <2>2, <3>1, <3>2, <3>3, Facts, Going
    <3> QED  BY <1>1, <3>3, <3>4 DEF GoesAhead
  <2> QED  BY <1>2, <2>1, <2>2 DEF RunEnds
<1>9. Leaves(c)
  BY <1>2, Facts DEF Leaves
<1> QED  BY <1>1, <1>2, <1>5, <1>6, <1>7, <1>8, <1>9, CallSteps

LEMMA IdentifyKeeps ==
  ASSUME LaunchAssumption, IInv, NEW c \in Call, Identify(c)
  PROVE  IInv'
<1>0. PICK m : m = Ask(c, "external-id")
  OBVIOUS
<1>1. /\ pc[c] = "identify" /\ pc[c] \in Early /\ using[c] # None /\ bound = using[c]
      /\ held[c] = token /\ held[c] # 0 /\ result \in {"success", "failure"}
      /\ "external-id" \in Kind
  BY Facts DEF Identify, CallOK, GoesByOne, OwnsToken, RunAgrees, AtLaunch, Early, PostBind, Kind
<1>2. m \in Request /\ m.kind = "external-id" /\ m.token = held[c] /\ m.approval = using[c]
  BY <1>0, <1>1, Facts, AsksARequest
<1>3. Sound(m)
  BY <1>1, <1>2 DEF Sound
<1>4. Moves(m) /\ Lasting /\ token' \in Nat
  BY <1>0, <1>1, <1>3, Asked DEF Identify
<1>5. PICK v \in {"success", "failure", "indeterminate"} :
        /\ v \in {result, "indeterminate"}
        /\ \E how \in {"report", "pause"} : ToRecord(c, v, how)
  BY <1>1 DEF Identify, Ambiguous
<1>6. PICK how \in {"report", "pause"} : ToRecord(c, v, how)
  BY <1>5
<1>7. v \in Verdict /\ Truthful(v) /\ (v = "success" => result = "success")
  BY <1>5 DEF Verdict, Truthful
<1>8. late' # late => LateOK(m)'
  <2>1. SUFFICES ASSUME late' # late PROVE LateOK(m)'
    OBVIOUS
  <2>2. Lost(c, "external-id")
    BY <2>1 DEF Identify, Done, Refused, Local
  <2>3. /\ token' = token /\ bound' = bound /\ late' = late \cup {m}
        /\ pc'[c] = "settle" /\ \A d \in Call \ {c} : pc'[d] = pc[d] /\ held'[d] = held[d]
    BY <1>0, <1>6, <2>2, Facts DEF Lost, row, ToRecord, Go, CallTypes
  <2>4. \A n \in late : n.kind = "external-id" /\ n.token = token => n.approval = using[c]
    BY <1>1 DEF IInv, Lates, LateOK
  <2>5. \A d \in Call \ {c} : held[d] # token
    BY <1>1, NobodyElse
  <2>6. m.token <= token'
    BY <1>2, <2>3, Facts
  <2>7. \A n \in late' : n.kind = "external-id" /\ n.token = token' => n.approval = m.approval
    BY <1>2, <2>3, <2>4
  <2>8. \A d \in Call : pc'[d] \in PreBind => held'[d] # token'
    BY <2>3, <2>5 DEF PreBind
  <2> QED  BY <1>1, <1>2, <2>3, <2>6, <2>7, <2>8 DEF LateOK
<1> QED  BY <1>0, <1>1, <1>3, <1>6, <1>7, <1>8, AskedAndRecords DEF Identify

\* A call that is past the launch or not yet at it.
LEMMA Resting ==
  ASSUME StoreTypes, StoreTypes', CallTypes, NEW c \in Call, CallOK(c), Lasting,
         pc'[c] \notin Early \cup {"settle"}, held'[c] = held[c], answer'[c] = answer[c],
         pc'[c] = "resettle" => held[c] > 0 /\ verdict'[c] = "indeterminate"
  PROVE  CallOK(c)'
<1>1. held[c] \in Nat /\ token \in Nat /\ token' \in Nat /\ held[c] <= token /\ token <= token'
  BY DEF CallTypes, StoreTypes, CallOK, OwnsToken, Lasting
<1>2. held'[c] <= token'
  BY <1>1
<1>3. OwnsToken(c)' /\ VerdictAgrees(c)'
  BY <1>2 DEF OwnsToken, VerdictAgrees, Early
<1>4. AnswerAgrees(c)'
  BY DEF CallOK, AnswerAgrees, Lasting
<1>5. /\ KnowsBound(c)' /\ GoesByOne(c)' /\ HasSpent(c)' /\ NotLaunched(c)' /\ AtLaunch(c)'
      /\ RunAgrees(c)'
  BY DEF KnowsBound, GoesByOne, HasSpent, NotLaunched, AtLaunch, RunAgrees, Early, PreBind, PostBind
<1> QED  BY <1>3, <1>4, <1>5 DEF CallOK

\* What a call that records something asks for is true of the run.
LEMMA SettlingIsSound ==
  ASSUME IInv, NEW c \in Call, pc[c] \in {"settle", "resettle"}, NEW m, m = Ask(c, "settle")
  PROVE  /\ "settle" \in Kind /\ m.kind = "settle" /\ m.token = held[c] /\ m.verdict = Due(c)
         /\ held[c] # 0 /\ held[c] > 0 /\ Sound(m)
         /\ m.verdict # "none" /\ (held[c] = token => Truthful(m.verdict))
         /\ pc[c] = "resettle" => m.verdict = "indeterminate"
<1>1. "settle" \in Kind
  BY DEF Kind
<1>2. /\ m \in Request /\ m.kind = "settle" /\ m.token = held[c] /\ m.approval = using[c]
      /\ m.verdict = Due(c)
  BY <1>1, Facts, AsksARequest
<1>3. held[c] # 0 /\ held[c] > 0
  BY Facts DEF CallOK, OwnsToken
<1>4. Due(c) \in {verdict[c], "indeterminate"}
  BY DEF Due
<1>5. verdict[c] # "none" /\ (held[c] = token => Truthful(verdict[c]))
      /\ (pc[c] = "resettle" => verdict[c] = "indeterminate")
  BY Facts DEF CallOK, VerdictAgrees, Truthful
<1>6. Due(c) # "none" /\ (held[c] = token => Truthful(Due(c)))
      /\ (pc[c] = "resettle" => Due(c) = "indeterminate")
  BY <1>4, <1>5 DEF Truthful
<1> QED  BY <1>1, <1>2, <1>3, <1>6 DEF Sound

LEMMA SettleLeft ==
  ASSUME IInv, NEW c \in Call, pc[c] \in {"settle", "resettle"}, NEW m, m = Ask(c, "settle"),
         Lasting, launches' = launches, result' = result, token' \in Nat,
         \A d \in Call \ {c} : Unmoved(d), pc'[c] \notin Early
  PROVE  LateOK(m)'
<1>1. /\ m.kind = "settle" /\ m.token = held[c] /\ held[c] # 0 /\ m.verdict # "none"
      /\ held[c] = token => Truthful(m.verdict)
  BY SettlingIsSound
<1>2. m.token <= token' /\ (m.token = token' => m.token = token)
  BY <1>1, Facts DEF Lasting
<1>3. m.token = token => Truthful(m.verdict)'
  BY <1>1 DEF Truthful
<1>4. m.token = token' => \A d \in Call : pc'[d] \in Early => held'[d] # token'
  BY <1>1, NobodyElse DEF Unmoved
<1> QED  BY <1>1, <1>2, <1>3, <1>4 DEF LateOK

\* Recorded or not, the call stops, answers or has the ticket wait.
LEMMA SettlesAndRests ==
  ASSUME LaunchAssumption, IInv, NEW c \in Call, pc[c] \in {"settle", "resettle"},
         Done(c, "settle") \/ Refused(c, "settle") \/ Lost(c, "settle"),
         CallTypes', \A d \in Call \ {c} : Unmoved(d), pc'[c] \notin Early \cup {"settle"},
         held'[c] \in {0, held[c]}, StoreTypes' /\ Lasting => CallOK(c)'
  PROVE  IInv'
<1>0. PICK m : m = Ask(c, "settle")
  OBVIOUS
<1>1. "settle" \in Kind /\ Sound(m) /\ held[c] # 0
  BY <1>0, SettlingIsSound
<1>2. /\ StoreOK' /\ StoreTypes' /\ token' \in Nat /\ Steady /\ Moves(m) /\ Lasting
      /\ launches' = launches /\ result' = result /\ late' \in {late, late \cup {m}}
      /\ \A d \in Call \ {c} : Gentle(d)
  BY <1>0, <1>1, Asked
<1>3. LateOK(m)'
  BY <1>0, <1>2, SettleLeft
<1>4. GoesAhead(c)
  BY DEF GoesAhead, Early
<1> QED  BY <1>0, <1>1, <1>2, <1>3, <1>4, AskingStep

LEMMA ReportedKeeps ==
  ASSUME LaunchAssumption, IInv, NEW c \in Call, pc[c] \in {"settle", "resettle"},
         Done(c, "settle") \/ Refused(c, "settle") \/ Lost(c, "settle"),
         NEW recorded \in BOOLEAN, Reported(c, recorded),
         recorded /\ verdict[c] = "success" => outcome' = "success" /\ result' = "success"
  PROVE  IInv'
<1>0. PICK m : m = Ask(c, "settle")
  OBVIOUS
<1>1. "settle" \in Kind /\ Sound(m) /\ held[c] # 0
  BY <1>0, SettlingIsSound
<1>2. StoreTypes' /\ token' \in Nat /\ Lasting
  BY <1>0, <1>1, Asked
<1>3. CASE manner[c] = "pause"
  <2>1. /\ Go(c, "pause") /\ renewal' = [renewal EXCEPT ![c] = "off"]
        /\ UNCHANGED <<mine, held, known, using, verdict, manner, answer>>
    BY <1>3 DEF Reported
  <2>2. /\ CallTypes' /\ \A d \in Call \ {c} : Unmoved(d)
        /\ pc'[c] = "pause" /\ held'[c] = held[c] /\ answer'[c] = answer[c]
    BY <2>1, Facts DEF Go, CallTypes, Unmoved, Step
  <2>3. pc'[c] \notin Early \cup {"settle"} /\ pc'[c] # "resettle"
    BY <2>2 DEF Early, PreBind, PostBind
  <2>4. CallOK(c)'
    BY <1>2, <2>2, <2>3, Facts, Resting
  <2> QED  BY <2>2, <2>3, <2>4, SettlesAndRests
<1>4. CASE manner[c] # "pause"
  <2>1. PICK reply \in {"none", "completed", "failed"} :
          /\ Report(c, reply)
          /\ reply = "completed" => recorded /\ verdict[c] = "success"
    BY <1>4 DEF Reported, Quit
  <2>2. /\ CallTypes' /\ \A d \in Call \ {c} : Unmoved(d)
        /\ pc'[c] = "ended" /\ held'[c] = 0 /\ CallOK(c)'
    BY <1>2, <2>1, Facts, Quitting
  <2>3. pc'[c] \notin Early \cup {"settle"}
    BY <2>2 DEF Early, PreBind, PostBind
  <2> QED  BY <2>2, <2>3, SettlesAndRests
<1> QED  BY <1>3, <1>4

LEMMA TerminalizeKeeps ==
  ASSUME LaunchAssumption, IInv, NEW c \in Call, Terminalize(c)
  PROVE  IInv'
<1>0. PICK m : m = Ask(c, "settle")
  OBVIOUS
<1>1. /\ "settle" \in Kind /\ m.kind = "settle" /\ m.token = held[c] /\ m.verdict = Due(c)
      /\ held[c] # 0 /\ held[c] > 0 /\ Sound(m) /\ pc[c] = "settle"
  BY <1>0, SettlingIsSound DEF Terminalize
<1>2. CASE Done(c, "settle") /\ Reported(c, renewal[c] # "failed")
  <2>1. PICK recorded \in BOOLEAN : recorded = (renewal[c] # "failed")
    OBVIOUS
  <2>2. Conclude(m) /\ result' = result
    BY <1>0, <1>1, <1>2 DEF Done, Serve, Registry, Approvals, Create, Resolve, Consume, Grant,
                            Attach, Advance
  <2>3. recorded /\ verdict[c] = "success" => outcome' = "success" /\ result' = "success"
    BY <1>1, <2>1, <2>2, Facts DEF Conclude, Due, CallOK, VerdictAgrees
  <2> QED  BY <1>1, <1>2, <2>1, <2>3, ReportedKeeps
<1>3. CASE (Refused(c, "settle") \/ Lost(c, "settle")) /\ Reported(c, FALSE)
  BY <1>1, <1>3, ReportedKeeps
<1>4. CASE /\ Refused(c, "settle") \/ Lost(c, "settle")
           /\ Go(c, "resettle")
           /\ renewal' = [renewal EXCEPT ![c] = "off"]
           /\ verdict' = [verdict EXCEPT ![c] = "indeterminate"]
           /\ UNCHANGED <<mine, held, known, using, manner, answer>>
  <2>1. /\ CallTypes' /\ \A d \in Call \ {c} : Unmoved(d)
        /\ pc'[c] = "resettle" /\ held'[c] = held[c] /\ answer'[c] = answer[c]
        /\ verdict'[c] = "indeterminate"
    BY <1>4, Facts DEF Go, CallTypes, Unmoved, Step, Verdict
  <2>2. pc'[c] \notin Early \cup {"settle"}
    BY <2>1 DEF Early, PreBind, PostBind
  <2>3. StoreTypes' /\ Lasting => CallOK(c)'
    BY <1>1, <2>1, <2>2, Facts, Resting
  <2> QED  BY <1>1, <1>4, <2>1, <2>2, <2>3, SettlesAndRests
<1> QED  BY <1>2, <1>3, <1>4 DEF Terminalize

LEMMA RecordIndeterminateKeeps ==
  ASSUME LaunchAssumption, IInv, NEW c \in Call, RecordIndeterminate(c)
  PROVE  IInv'
  BY ReportedKeeps DEF RecordIndeterminate

\* The ticket waits for a human.
LEMMA PauseKeeps ==
  ASSUME LaunchAssumption, IInv, NEW c \in Call, Pause(c)
  PROVE  IInv'
<1>1. /\ UNCHANGED <<state, token, lease, outcome, bound, approval, saved, issued>>
      /\ UNCHANGED <<claim, attempts, automatic, late, spent, launches, result>>
      /\ status' \in {"executing", "guidance"} /\ faults' \in 0 .. MaxFaults
  BY Facts DEF Pause, row, history, Fault, StoreTypes, LaunchAssumption
<1>2. StoreTypes' /\ ConsumptionIsTraceable'
  BY <1>1, Facts DEF StoreOK, StoreTypes, ConsumptionIsTraceable
<1>3. StoreOK'
  BY <1>1, <1>2, Facts DEF StoreOK, Files, FilesOf, Ledger
<1>4. Steady /\ Lasting /\ token' \in Nat
  BY <1>1, Facts DEF Steady, Lasting, StoreTypes
<1>5. \A d \in Call \ {c} : Gentle(d)
  BY <1>1, Facts DEF Gentle
<1>6. /\ CallTypes' /\ \A d \in Call \ {c} : Unmoved(d)
      /\ pc'[c] = "ended" /\ held'[c] = 0 /\ CallOK(c)'
  BY <1>4, Facts, Quitting DEF Pause, Quit
<1>7. GoesAhead(c) /\ Leaves(c)
  BY <1>1, <1>6, Facts DEF GoesAhead, Leaves, Early, PreBind, PostBind
<1> QED  BY <1>1, <1>3, <1>4, <1>5, <1>6, <1>7, CallSteps

LEMMA BeginKeeps ==
  ASSUME LaunchAssumption, IInv, NEW c \in Call, NEW a \in Approval \cup {None}, Begin(c, a)
  PROVE  IInv'
<1>1. /\ UNCHANGED <<row, ticket, history>> /\ faults' \in 0 .. MaxFaults /\ late' = late
      /\ StoreTypes' /\ Lasting
  BY Alone DEF Begin
<1>2. claim \in 0 .. MaxAttempts
  BY Facts DEF StoreTypes, LaunchAssumption
<1>3. /\ CallTypes' /\ \A d \in Call \ {c} : Unmoved(d)
      /\ pc'[c] = "acquire" /\ held'[c] = held[c] /\ answer'[c] = answer[c]
  BY <1>2, Facts DEF Begin, Go, CallTypes, Unmoved, Step
<1>4. pc'[c] \notin Early \cup {"settle"} /\ pc'[c] # "resettle"
  BY <1>3 DEF Early, PreBind, PostBind
<1>5. CallOK(c)'
  BY <1>1, <1>3, <1>4, Facts, Resting
<1>6. GoesAhead(c)
  BY <1>3, <1>4 DEF GoesAhead, Early
<1> QED  BY <1>1, <1>3, <1>5, <1>6, LocalStep

LEMMA BeginReplayKeeps ==
  ASSUME LaunchAssumption, IInv, NEW c \in Call, BeginReplay(c)
  PROVE  IInv'
<1>1. /\ UNCHANGED <<row, ticket, history>> /\ faults' \in 0 .. MaxFaults /\ late' = late
      /\ StoreTypes' /\ Lasting
  BY Alone DEF BeginReplay
<1>2. /\ CallTypes' /\ \A d \in Call \ {c} : Unmoved(d)
      /\ pc'[c] = "replay" /\ held'[c] = held[c] /\ answer'[c] = answer[c]
  BY Facts DEF BeginReplay, OnlyGo, Go, CallTypes, Unmoved, Step
<1>3. pc'[c] \notin Early \cup {"settle"} /\ pc'[c] # "resettle"
  BY <1>2 DEF Early, PreBind, PostBind
<1>4. CallOK(c)'
  BY <1>1, <1>2, <1>3, Facts, Resting
<1>5. GoesAhead(c)
  BY <1>2, <1>3 DEF GoesAhead, Early
<1> QED  BY <1>1, <1>2, <1>4, <1>5, LocalStep

\* The server of a call dies, and its renewals.
LEMMA DieKeeps ==
  ASSUME LaunchAssumption, IInv, NEW c \in Call, Die(c)
  PROVE  IInv'
<1>1. /\ UNCHANGED <<row, ticket, history>> /\ faults' \in 0 .. MaxFaults /\ late' = late
      /\ StoreTypes' /\ Lasting
  BY Alone DEF Die, Unread
<1>2. /\ CallTypes' /\ \A d \in Call \ {c} : Unmoved(d)
      /\ pc'[c] = "ended" /\ held'[c] = 0 /\ answer'[c] = answer[c]
  BY Facts DEF Die, Forget, Go, CallTypes, Unmoved, Step, LaunchAssumption
<1>3. AnswerAgrees(c)'
  BY <1>1, <1>2, Facts DEF CallOK, AnswerAgrees, Lasting
<1>4. CallOK(c)'
  BY <1>1, <1>2, <1>3
     DEF StoreTypes, CallOK, OwnsToken, KnowsBound, GoesByOne, HasSpent, NotLaunched, AtLaunch,
         RunAgrees, VerdictAgrees, Early, PreBind, PostBind
<1>5. GoesAhead(c)
  BY <1>2 DEF GoesAhead, Early, PreBind, PostBind
<1> QED  BY <1>1, <1>2, <1>4, <1>5, LocalStep

\* Only the lease changes, or what no other call and no record depends on.
LEMMA OthersMove ==
  ASSUME LaunchAssumption, IInv, StoreOK', CallTypes', Steady, Lasting,
         UNCHANGED <<pc, mine, held, known, using, verdict, answer>>,
         UNCHANGED <<bound, launches, result>>,
         late' \subseteq late, \A d \in Call : Gentle(d)
  PROVE  IInv'
<1>1. \A d \in Call : Unmoved(d) /\ held'[d] = held[d]
  BY DEF Unmoved
<1>2. LateGentle
  BY Facts, TypesParts DEF LateGentle, Lasting, IInv
<1> QED  BY <1>1, <1>2, OneMoves

LEMMA StoreMoves ==
  ASSUME LaunchAssumption, IInv, StoreTypes', Files', Steady, CallTypes',
         UNCHANGED <<pc, mine, held, known, using, verdict, answer>>,
         UNCHANGED <<state, token, outcome, bound, spent, launches, result, late>>
  PROVE  IInv'
<1>1. StoreOK /\ token \in Nat
  BY TypesParts DEF IInv, StoreOK, StoreTypes
<1>2. StoreOK'
  BY <1>1 DEF StoreOK, ConsumptionIsTraceable, Ledger
<1>3. Lasting /\ \A d \in Call : Gentle(d)
  BY <1>1 DEF Lasting, Gentle
<1> QED  BY <1>2, <1>3, OthersMove

LEMMA RenewalsKeep ==
  ASSUME LaunchAssumption, IInv, NEW c \in Call, Keep(c) \/ RenewalUnanswered(c)
  PROVE  IInv'
<1>0. StoreTypes /\ CallTypes /\ Files
  BY TypesParts DEF IInv
<1>1. PICK next \in {"on", "pending", "failed"} : Renewal(c, next)
  BY DEF Keep, RenewalUnanswered, Renewed, RenewalFails
<1>2. lease' \in {lease, Ttl} /\ faults' \in 0 .. MaxFaults
  BY <1>0 DEF Keep, RenewalUnanswered, Renewed, RenewalFails, Fault, StoreTypes, LaunchAssumption
<1>3. CallTypes' /\ UNCHANGED <<pc, mine, held, known, using, verdict, answer>>
  BY <1>0, <1>1 DEF Renewal, CallTypes
<1>4. /\ UNCHANGED <<state, token, outcome, bound, spent, launches, result, late>>
      /\ UNCHANGED <<approval, saved, issued, status, claim, attempts, automatic>>
  BY <1>1 DEF Renewal, ticket, history
<1>5. StoreTypes'
  BY <1>0, <1>2, <1>4 DEF StoreTypes, LaunchAssumption
<1>6. Files' /\ Steady
  BY <1>0, <1>4 DEF Files, FilesOf, Steady, StoreTypes
<1> QED  BY <1>3, <1>4, <1>5, <1>6, StoreMoves

LEMMA TicketKeeps ==
  ASSUME LaunchAssumption, IInv,
         RequestApproval \/ (\E a \in Approval : Decide(a)) \/ LoseClaim \/ Dispatch
  PROVE  IInv'
<1>0. StoreTypes /\ CallTypes /\ Files
  BY TypesParts DEF IInv
<1>1. CASE RequestApproval
  <2>1. /\ UNCHANGED <<state, token, lease, outcome, bound, status, claim, attempts, automatic>>
        /\ UNCHANGED <<pc, mine, held, known, using, renewal, verdict, manner, answer>>
        /\ UNCHANGED <<late, spent, launches, result>> /\ CreateFor(claim) /\ Save
    BY <1>1 DEF RequestApproval, row, ticketRest, call, history
  <2>2. PICK k \in 0 .. MaxAttempts : k = claim
    BY <1>0 DEF StoreTypes, LaunchAssumption
  <2>3. /\ approval' \in [Approval -> Record] /\ saved' \in [Approval -> Record]
        /\ issued' \in 0 .. MaxApprovals /\ faults' \in 0 .. MaxFaults /\ Files' /\ Steady
    BY <1>0, <2>1, <2>2, MakingAnApproval
  <2>4. StoreTypes' /\ CallTypes'
    BY <1>0, <2>1, <2>3 DEF StoreTypes, CallTypes
  <2> QED  BY <2>1, <2>3, <2>4, StoreMoves
<1>2. ASSUME NEW a \in Approval, Decide(a) PROVE IInv'
  <2>1. /\ UNCHANGED <<state, token, lease, outcome, bound, status, claim, attempts, automatic>>
        /\ UNCHANGED <<pc, mine, held, known, using, renewal, verdict, manner, answer>>
        /\ UNCHANGED <<late, spent, launches, result>> /\ Save
    BY <1>2 DEF Decide, row, ticketRest, call, history
  <2>2. PICK d \in {"approved", "void"} : ResolveAs(a, d)
    BY <1>2 DEF Decide
  <2>3. /\ approval' \in [Approval -> Record] /\ saved' \in [Approval -> Record]
        /\ issued' \in 0 .. MaxApprovals /\ faults' \in 0 .. MaxFaults /\ Files' /\ Steady
    BY <1>0, <2>1, <2>2, DecidingAnApproval
  <2>4. StoreTypes' /\ CallTypes'
    BY <1>0, <2>1, <2>3 DEF StoreTypes, CallTypes
  <2> QED  BY <2>1, <2>3, <2>4, StoreMoves
<1>3. CASE LoseClaim \/ Dispatch
  <2>1. /\ UNCHANGED <<state, token, lease, outcome, bound, approval, saved, issued, automatic>>
        /\ UNCHANGED <<pc, mine, held, known, using, renewal, verdict, manner, answer>>
        /\ UNCHANGED <<late, spent, launches, result, faults>>
    BY <1>3 DEF LoseClaim, Dispatch, row, call, history
  <2>2. /\ status' \in {"executing", "guidance"} /\ claim' \in 0 .. attempts'
        /\ attempts' \in 1 .. MaxAttempts
    BY <1>0, <1>3 DEF LoseClaim, Dispatch, StoreTypes, LaunchAssumption
  <2>3. StoreTypes' /\ CallTypes'
    BY <1>0, <2>1, <2>2 DEF StoreTypes, CallTypes
  <2>4. Files' /\ Steady
    BY <1>0, <2>1 DEF Files, FilesOf, Steady, StoreTypes
  <2> QED  BY <2>1, <2>3, <2>4, StoreMoves
<1> QED  BY <1>1, <1>2, <1>3

LEMMA TimeAndRestartsKeep ==
  ASSUME LaunchAssumption, IInv, PassTime \/ StoreRestarts
  PROVE  IInv'
<1>0. StoreTypes /\ CallTypes /\ Files
  BY TypesParts DEF IInv
<1>1. CASE PassTime
  <2>1. /\ UNCHANGED <<state, token, outcome, bound, approval, saved, issued, status, claim>>
        /\ UNCHANGED <<pc, mine, held, known, using, renewal, verdict, manner, answer>>
        /\ UNCHANGED <<attempts, automatic, late, spent, launches, result, faults>>
        /\ lease' = lease - 1 /\ lease > 0
    BY <1>1 DEF PassTime, ticket, call, history
  <2>2. lease' \in 0 .. Ttl
    BY <1>0, <2>1 DEF StoreTypes, LaunchAssumption
  <2>3. StoreTypes' /\ CallTypes'
    BY <1>0, <2>1, <2>2 DEF StoreTypes, CallTypes
  <2>4. Files' /\ Steady
    BY <1>0, <2>1 DEF Files, FilesOf, Steady, StoreTypes
  <2> QED  BY <2>1, <2>3, <2>4, StoreMoves
<1>2. CASE StoreRestarts
  <2>1. /\ UNCHANGED <<state, token, lease, outcome, bound, saved, issued, status, claim>>
        /\ UNCHANGED <<pc, mine, held, known, using, renewal, verdict, manner, answer>>
        /\ UNCHANGED <<attempts, automatic, late, spent, launches, result, faults>>
        /\ approval' = saved
    BY <1>2 DEF StoreRestarts, row, call, history
  <2>2. StoreTypes' /\ CallTypes'
    BY <1>0, <2>1 DEF StoreTypes, CallTypes
  <2>3. Files'
    BY <1>0, <2>1 DEF Files, FilesOf
  <2>4. Steady
    BY <1>0, <2>1 DEF Steady, StoreTypes
  <2> QED  BY <2>1, <2>2, <2>3, <2>4, StoreMoves
<1> QED  BY <1>1, <1>2

\* A request is handled whose caller has long given it up.
LEMMA HandleLateKeeps ==
  ASSUME LaunchAssumption, IInv, HandleLate
  PROVE  IInv'
<1>0. StoreOK /\ StoreTypes /\ CallTypes /\ late \subseteq Request /\ token \in Nat
  BY TypesParts DEF IInv, StoreOK, StoreTypes
<1>1. PICK m \in late : Serve(m) /\ late' = late \ {m} /\ UNCHANGED call
  BY DEF HandleLate
<1>2. LateOK(m)
  BY DEF IInv, Lates
<1>3. Sound(m)
  BY <1>0, <1>2 DEF LateOK, Sound
<1>4. StoreOK' /\ StoreTypes' /\ Steady /\ Moves(m)
  BY <1>0, <1>1, <1>3, ServesSoundly DEF StoreOK
<1>5. UNCHANGED <<pc, mine, held, known, using, renewal, verdict, manner, answer>> /\ CallTypes'
  BY <1>0, <1>1 DEF call, CallTypes
<1>6. Lasting /\ token' \in Nat
  BY <1>0, <1>4 DEF Moves, Lasting
<1>7. ASSUME NEW d \in Call PROVE Unmoved(d) /\ Gentle(d)
  <2>1. /\ m.kind = "external-id" /\ m.token = token => ~(pc[d] \in PreBind /\ held[d] = token)
        /\ m.kind = "settle" /\ m.token = token => ~(pc[d] \in Early /\ held[d] = token)
    BY <1>2 DEF LateOK
  <2>2. pc[d] \in {"copy", "running", "identify"} =>
          pc[d] \in Early /\ held[d] = token /\ state = "side_effect_started"
    BY Facts DEF CallOK, AtLaunch, Early, PostBind
  <2> QED  BY <1>4, <1>5, <1>6, <2>1, <2>2 DEF Moves, Gentle, Lasting, Unmoved
<1>8. LateGentle
  BY <1>0, <1>1, <1>4, <1>5, <1>6 DEF Moves, LateGentle, Lasting
<1> QED  BY <1>1, <1>4, <1>5, <1>7, <1>8, OneMoves

-----------------------------------------------------------------------------
\* The theorems.

LEMMA InitIsSound == ASSUME LaunchAssumption, Init PROVE IInv
<1>1. /\ 0 \in 0 .. MaxApprovals /\ 0 \in 0 .. MaxFaults /\ 0 \in 0 .. Ttl
      /\ 1 \in 1 .. MaxAttempts /\ 1 \in 0 .. 1 /\ 0 \in 0 .. MaxAttempts
  BY DEF LaunchAssumption
<1>2. Unused \in Record /\ Unused.claim = 0 /\ Unused.status = "none" /\ ~Unused.consumed
  BY <1>1 DEF Unused, Record, Status
<1>3. /\ \A a \in Approval : approval[a] = Unused /\ saved[a] = Unused
      /\ approval \in [Approval -> Record] /\ saved \in [Approval -> Record]
  BY <1>2 DEF Init
<1>4. StoreTypes
  BY <1>1, <1>3 DEF Init, StoreTypes, State
<1>5. CallTypes
  BY <1>1 DEF Init, CallTypes, Step
<1>6. LaunchTypeOK
  BY <1>4, <1>5, TypesParts DEF Init
<1>7. Files
  BY <1>2, <1>3 DEF Files, FilesOf
<1>8. Ledger /\ ConsumptionIsTraceable /\ TokensAreUnique /\ Lates
  BY DEF Init, Ledger, ConsumptionIsTraceable, TokensAreUnique, Lates
<1>9. ASSUME NEW c \in Call PROVE CallOK(c)
  <2>1. pc[c] = "idle" /\ held[c] = 0 /\ token = 0 /\ answer[c] = "none"
    BY DEF Init
  <2> QED  BY <2>1 DEF CallOK, OwnsToken, KnowsBound, GoesByOne, HasSpent, NotLaunched, AtLaunch,
                       RunAgrees, VerdictAgrees, AnswerAgrees, Early, PreBind, PostBind
<1> QED  BY <1>6, <1>7, <1>8, <1>9 DEF IInv, Calls

LEMMA NextKeeps == ASSUME LaunchAssumption, IInv, [Next]_vars PROVE IInv'
<1>1. CASE UNCHANGED vars
  <2>1. /\ UNCHANGED <<state, token, lease, outcome, bound, approval, saved, issued, status, claim>>
        /\ UNCHANGED <<pc, mine, held, known, using, renewal, verdict, manner, answer>>
        /\ UNCHANGED <<attempts, automatic, late, spent, launches, result, faults>>
    BY <1>1 DEF vars, row, ticket, call, history
  <2>2. StoreTypes /\ CallTypes /\ Files
    BY TypesParts DEF IInv
  <2>3. StoreTypes' /\ CallTypes'
    BY <2>1, <2>2 DEF StoreTypes, CallTypes
  <2>4. Files' /\ Steady
    BY <2>1, <2>2 DEF Files, FilesOf, Steady, StoreTypes
  <2> QED  BY <2>1, <2>3, <2>4, StoreMoves
<1>2. ASSUME NEW c \in Call, Progress(c) PROVE IInv'
  BY <1>2, AcquireKeeps, ReplayKeeps, PrepareKeeps, ReadExistingKeeps, CreateApprovalKeeps,
     ReadCreatedKeeps, ResolveApprovalKeeps, ConfirmKeeps, BindKeeps, CheckKeeps,
     ConsumeApprovalKeeps, RecheckKeeps, StartKeeps, LaunchKeeps, RunEndsKeeps, IdentifyKeeps,
     TerminalizeKeeps, RecordIndeterminateKeeps, PauseKeeps DEF Progress
<1>3. ASSUME NEW c \in Call, NEW a \in Made \cup {None}, Begin(c, a) PROVE IInv'
  BY <1>3, BeginKeeps DEF Made
<1>4. ASSUME NEW c \in Call,
             BeginReplay(c) \/ Die(c) \/ Keep(c) \/ RenewalUnanswered(c)
      PROVE  IInv'
  BY <1>4, BeginReplayKeeps, DieKeeps, RenewalsKeep
<1>5. CASE RequestApproval \/ (\E a \in Approval : Decide(a)) \/ LoseClaim \/ Dispatch
  BY <1>5, TicketKeeps
<1>6. CASE HandleLate \/ PassTime \/ StoreRestarts
  BY <1>6, HandleLateKeeps, TimeAndRestartsKeep
<1> QED  BY <1>1, <1>2, <1>3, <1>4, <1>5, <1>6 DEF Next

LEMMA InductiveInvariant == Spec => []IInv
<1>1. Init => IInv
  BY InitIsSound, LaunchAssumption
<1>2. IInv /\ [Next]_vars => IInv'
  BY NextKeeps, LaunchAssumption
<1> QED  BY <1>1, <1>2, PTL DEF Spec

\* Every field keeps its type, and an approval is never spent before its ID is
\* on the operation: the call that takes the operation over after a crash
\* always finds what was spent (agents/benchmark/server.py:3712 attaches the
\* external id, and only then consumes at 3774).
THEOREM ConsumptionStaysTraceable == Spec => []LaunchInv
<1>1. IInv => LaunchInv
  BY DEF IInv, LaunchInv
<1> QED  BY <1>1, InductiveInvariant, PTL

\* Whatever requests were lost, handled late or sent again, and whatever a
\* restart of the store forgot: a call that is about to start crucible goes by
\* an approval that was spent, made for the call's own claim on the ticket if
\* the store still knows it (agents/benchmark/server.py:3726, 3741;
\* state_store/store.py:2043).
THEOREM LaunchesAreAuthorised == Spec => []LaunchIsAuthorised
<1>1. ASSUME IInv PROVE LaunchIsAuthorised
  BY <1>1 DEF IInv, Calls, CallOK, HasSpent, LaunchIsAuthorised
<1> QED  BY <1>1, InductiveInvariant, PTL

\* A call that answers "completed" speaks of a run that succeeded and of a
\* success that is on record, whoever recorded it and when
\* (agents/benchmark/server.py:845, and the replay of a recorded result).
THEOREM CompletionsAreRecorded == Spec => []CompletedIsRecorded
<1>1. ASSUME IInv PROVE CompletedIsRecorded
  BY <1>1 DEF IInv, Calls, CallOK, AnswerAgrees, CompletedIsRecorded
<1> QED  BY <1>1, InductiveInvariant, PTL

-----------------------------------------------------------------------------
\* The refinement: every step is a step of AuthorisedLaunch or leaves what it
\* speaks of as it is.

Quiet == UNCHANGED <<spent, launches, result, outcome>>
Promised == Authorised!Next \/ Quiet

\* Handling a sound request spends the approval the operation is bound to,
\* records what is true of the run, or changes nothing of these.
LEMMA ServesAsPromised ==
  ASSUME IInv, NEW m, Sound(m), Serve(m)
  PROVE  Promised
<1>0. StoreTypes /\ Ledger /\ ConsumptionIsTraceable
  BY TypesParts DEF IInv
<1>1. UNCHANGED <<launches, result>>
  BY DEF Serve
<1>2. CASE Grant(m) \/ Advance(m) \/ Attach(m)
  BY <1>1, <1>2 DEF Serve, Registry, Approvals, Create, Resolve, Consume, Grant, Advance, Attach,
                    Promised, Quiet
<1>3. CASE Conclude(m)
  <2>1. /\ m.token = token /\ m.kind = "settle" /\ outcome' = m.verdict /\ state # "terminal"
    BY <1>3 DEF Conclude, Holds, Follows
  <2>2. outcome = "none" /\ m.verdict \in Verdict /\ Truthful(m.verdict)
    BY <1>0, <2>1 DEF Ledger, Sound, Request
  <2>3. spent' = spent
    BY <2>1 DEF Serve, Registry, Approvals, Create, Resolve, Consume
  <2>4. Authorised!Settle
    BY <1>1, <2>1, <2>2, <2>3 DEF Authorised!Settle, Truthful, Verdict
  <2> QED  BY <2>4 DEF Promised, Authorised!Next
<1>4. CASE Approvals(m)
  <2>1. outcome' = outcome
    BY <1>4 DEF Approvals, row
  <2>2. CASE Create(m) \/ Resolve(m)
    BY <1>1, <2>1, <2>2 DEF Create, Resolve, Promised, Quiet
  <2>3. CASE Consume(m)
    <3>1. /\ spent' = spent \cup {m.approval} /\ bound = m.approval /\ m.approval # None
          /\ m.approval \in Approval \cup {None}
      BY <2>3 DEF Consume, Sound, Request
    <3>2. spent \subseteq {bound} /\ m.approval \in Approval
      BY <1>0, <3>1 DEF ConsumptionIsTraceable
    <3>3. CASE spent = {}
      <4>1. spent' = {m.approval}
        BY <3>1, <3>3
      <4>2. Authorised!Spend
        BY <1>1, <2>1, <3>2, <3>3, <4>1 DEF Authorised!Spend
      <4> QED  BY <4>2 DEF Promised, Authorised!Next
    <3>4. CASE spent # {}
      BY <1>1, <2>1, <3>1, <3>2, <3>4 DEF Promised, Quiet
    <3> QED  BY <3>3, <3>4
  <2> QED  BY <1>4, <2>2, <2>3 DEF Approvals
<1> QED  BY <1>2, <1>3, <1>4 DEF Serve, Registry

LEMMA AsksAsPromised ==
  ASSUME IInv, NEW c \in Call, NEW kind, NEW m, m = Ask(c, kind), Sound(m),
         Done(c, kind) \/ Refused(c, kind) \/ Lost(c, kind)
  PROVE  Promised
<1>1. CASE Done(c, kind)
  BY <1>1, ServesAsPromised DEF Done
<1>2. CASE Refused(c, kind) \/ Lost(c, kind)
  BY <1>2 DEF Refused, Lost, Local, row, history, Promised, Quiet
<1> QED  BY <1>1, <1>2

\* A call asks for its approval, and to write it on the operation, only once it
\* goes by one.
LEMMA ApprovalAsks ==
  ASSUME IInv, NEW c \in Call, NEW kind \in Kind, NEW m, m = Ask(c, kind),
         \/ kind = "resolve" /\ pc[c] = "resolve"
         \/ kind = "consume" /\ pc[c] = "consume"
         \/ kind = "external-id" /\ pc[c] = "bind" /\ known[c] = None
         \/ kind = "external-id" /\ pc[c] = "identify"
  PROVE  Sound(m)
<1>1. m \in Request /\ m.kind = kind /\ m.token = held[c] /\ m.approval = using[c]
  BY Facts, AsksARequest
<1>2. using[c] # None /\ (pc[c] \in PostBind => bound = using[c])
      /\ (pc[c] = "bind" /\ known[c] = None => (held[c] = token => bound = None))
  BY Facts DEF CallOK, GoesByOne, KnowsBound, PostBind, PreBind
<1>3. pc[c] \in {"consume", "identify"} => pc[c] \in PostBind
  BY DEF PostBind
<1> QED  BY <1>1, <1>2, <1>3 DEF Sound

\* What a call may ask for where it is.
AsksAt(c, kind) ==
    \/ kind = "acquire" /\ pc[c] \in {"acquire", "replay"}
    \/ kind = "prepared" /\ pc[c] = "prepare"
    \/ kind = "create" /\ pc[c] = "create"
    \/ kind = "resolve" /\ pc[c] = "resolve"
    \/ kind = "external-id" /\ pc[c] = "bind" /\ known[c] = None
    \/ kind = "consume" /\ pc[c] = "consume"
    \/ kind = "side_effect_started" /\ pc[c] = "start"
    \/ kind = "external-id" /\ pc[c] = "identify"
    \/ kind = "settle" /\ pc[c] \in {"settle", "resettle"}

LEMMA AnyAskAsPromised ==
  ASSUME IInv, NEW c \in Call, NEW kind, AsksAt(c, kind),
         Done(c, kind) \/ Refused(c, kind) \/ Lost(c, kind)
  PROVE  Promised
<1>0. PICK m : m = Ask(c, kind)
  OBVIOUS
<1>1. CASE kind \in PlainKind
  BY <1>0, <1>1, PlainAsk, AsksAsPromised
<1>2. CASE kind = "settle"
  BY <1>0, <1>2, SettlingIsSound, AsksAsPromised DEF AsksAt
<1>3. CASE kind \in {"resolve", "consume", "external-id"}
  <2>1. kind \in Kind
    BY <1>3 DEF Kind
  <2> QED  BY <1>0, <1>3, <2>1, ApprovalAsks, AsksAsPromised DEF AsksAt
<1> QED  BY <1>1, <1>2, <1>3 DEF AsksAt, PlainKind

LEMMA LocalAsPromised == ASSUME Local \/ Unread PROVE Promised
  BY DEF Local, Unread, row, history, Promised, Quiet

LEMMA LaunchAsPromised ==
  ASSUME IInv, NEW c \in Call, Launch(c)
  PROVE  Promised
<1>1. CASE Local
  BY <1>1, LocalAsPromised
<1>2. CASE launches' = launches + 1 /\ UNCHANGED <<row, ticket, late, spent, result, faults>>
  <2>1. /\ held[c] = token /\ state = "side_effect_started" /\ launches = 0 /\ using[c] \in spent
    BY Facts DEF Launch, CallOK, HasSpent, NotLaunched, AtLaunch, Early, PostBind
  <2>2. outcome = "none"
    BY <2>1, Facts DEF Ledger
  <2>3. Authorised!Launch
    BY <1>2, <2>1, <2>2 DEF Authorised!Launch, row
  <2> QED  BY <2>3 DEF Promised, Authorised!Next
<1> QED  BY <1>1, <1>2 DEF Launch

LEMMA RunEndsAsPromised ==
  ASSUME IInv, NEW c \in Call, RunEnds(c)
  PROVE  Promised
<1>1. launches = 1 /\ result = "none"
  BY Facts DEF RunEnds, CallOK, RunAgrees
<1>2. Authorised!Conclude
  BY <1>1 DEF RunEnds, row, Authorised!Conclude
<1> QED  BY <1>2 DEF Promised, Authorised!Next

LEMMA ProgressAsPromised ==
  ASSUME IInv, NEW c \in Call, Progress(c)
  PROVE  Promised
<1>1. CASE Acquire(c) \/ Replay(c)
  BY <1>1, AnyAskAsPromised DEF Acquire, Replay, AsksAt
<1>2. CASE Prepare(c) \/ CreateApproval(c) \/ ResolveApproval(c)
  BY <1>2, AnyAskAsPromised DEF Prepare, CreateApproval, ResolveApproval, AsksAt
<1>3. CASE ReadExisting(c) \/ ReadCreated(c) \/ Confirm(c) \/ Check(c) \/ Recheck(c)
  BY <1>3, LocalAsPromised DEF ReadExisting, ReadCreated, Confirm, Check, Recheck
<1>4. CASE Bind(c)
  BY <1>4, AnyAskAsPromised, LocalAsPromised DEF Bind, AsksAt
<1>5. CASE ConsumeApproval(c) \/ Start(c) \/ Identify(c)
  BY <1>5, AnyAskAsPromised DEF ConsumeApproval, Start, Identify, AsksAt
<1>6. CASE Terminalize(c) \/ RecordIndeterminate(c)
  BY <1>6, AnyAskAsPromised DEF Terminalize, RecordIndeterminate, AsksAt
<1>7. CASE Pause(c)
  BY <1>7 DEF Pause, row, history, Promised, Quiet
<1> QED  BY <1>1, <1>2, <1>3, <1>4, <1>5, <1>6, <1>7, LaunchAsPromised, RunEndsAsPromised
         DEF Progress

LEMMA NextAsPromised == ASSUME IInv, [Next]_vars PROVE [Authorised!Next]_Authorised!vars
<1> SUFFICES Promised
  BY DEF Promised, Quiet, Authorised!vars
<1>1. CASE UNCHANGED vars
  BY <1>1 DEF vars, row, history, Promised, Quiet
<1>2. ASSUME NEW c \in Call, Progress(c) PROVE Promised
  BY <1>2, ProgressAsPromised
<1>3. ASSUME NEW c \in Call, (\E a \in Made \cup {None} : Begin(c, a)) \/ BeginReplay(c)
      PROVE  Promised
  BY <1>3, LocalAsPromised DEF Begin, BeginReplay
<1>4. ASSUME NEW c \in Call, Die(c) \/ Keep(c) \/ RenewalUnanswered(c) PROVE Promised
  BY <1>4 DEF Die, Keep, RenewalUnanswered, Renewed, RenewalFails, Renewal, row, history,
              Promised, Quiet
<1>5. CASE RequestApproval \/ (\E a \in Approval : Decide(a)) \/ LoseClaim \/ Dispatch
  BY <1>5 DEF RequestApproval, Decide, LoseClaim, Dispatch, row, history, Promised, Quiet
<1>6. CASE PassTime \/ StoreRestarts
  BY <1>6 DEF PassTime, StoreRestarts, row, history, Promised, Quiet
<1>7. CASE HandleLate
  <2>1. PICK m \in late : Serve(m)
    BY <1>7 DEF HandleLate
  <2>2. Sound(m)
    BY TypesParts DEF IInv, Lates, LateOK, Sound
  <2> QED  BY <2>1, <2>2, ServesAsPromised
<1> QED  BY <1>1, <1>2, <1>3, <1>4, <1>5, <1>6, <1>7 DEF Next

\* The approvals of the ticket, the operation and the calls together keep the
\* promise of AuthorisedLaunch: at most one approval is ever spent on a
\* benchmark, it is started at most once and only with that approval spent, and
\* the registry reports of it once and never a success it did not have
\* (agents/benchmark/server.py execute_benchmark; state_store/store.py:2043).
THEOREM LaunchKeepsItsPromise == Spec => ImplementsAuthorisedLaunch
<1>1. Init => Authorised!Init
  BY DEF Init, Authorised!Init
<1>2. IInv /\ [Next]_vars => [Authorised!Next]_Authorised!vars
  BY NextAsPromised
<1> QED  BY <1>1, <1>2, InductiveInvariant, PTL
            DEF Spec, ImplementsAuthorisedLaunch, Authorised!Spec
=============================================================================
