------------------------- MODULE KernelChangeProofs -------------------------
(***************************************************************************)
(* Proofs about KernelChange: its inductive invariant, and from it that      *)
(* whatever may run on a host is on record, that no two commands meet on a   *)
(* host, that verified hosts were seen to run the kernel, and that a         *)
(* completed step is quiet.  They hold for any number of hosts, calls,       *)
(* intents, dispatches and faults, and for all inventories.                  *)
(***************************************************************************)
EXTENDS KernelChange, TLAPS

USE DEF None

-----------------------------------------------------------------------------
(* What the pieces of the actions do, point by point *)

LEMMA LeaveFacts ==
    ASSUME KernelTypeOK, NEW c \in Call, Leave(c)
    PROVE  /\ pc' \in [Call -> Step] /\ op' \in [Call -> Operation \cup {"none"}]
           /\ mine' \in [Call -> 0 .. MaxAttempts]
           /\ intent' \in [Call -> Intent \cup {None}]
           /\ seen' \in [Call -> Cleanup] /\ got' \in [Call -> [Host -> Answer]]
           /\ pc'[c] = "idle" /\ got'[c] = Nothing
           /\ \A d \in Call : d # c =>
                 /\ pc'[d] = pc[d] /\ op'[d] = op[d] /\ mine'[d] = mine[d]
                 /\ intent'[d] = intent[d] /\ seen'[d] = seen[d] /\ got'[d] = got[d]
<1>1. Nothing \in [Host -> Answer] /\ "none" \in Cleanup /\ "idle" \in Step
  BY DEF Nothing, Answer, Cleanup, Step
<1>2. 0 \in 0 .. MaxAttempts
  BY KernelAssumption
<1> QED
  BY <1>1, <1>2 DEF Leave, Go, KernelTypeOK

LEMMA BeginFacts ==
    ASSUME KernelTypeOK, NEW c \in Call, NEW what \in Operation,
           NEW i \in Intent \cup {None}, NEW next \in Step, Begin(c, what, i, next)
    PROVE  /\ pc' \in [Call -> Step] /\ op' \in [Call -> Operation \cup {"none"}]
           /\ mine' \in [Call -> 0 .. MaxAttempts]
           /\ intent' \in [Call -> Intent \cup {None}]
           /\ pc[c] = "idle"
           /\ pc'[c] = next /\ op'[c] = what /\ intent'[c] = i /\ mine'[c] = claim
           /\ \A d \in Call : d # c =>
                 /\ pc'[d] = pc[d] /\ op'[d] = op[d] /\ mine'[d] = mine[d]
                 /\ intent'[d] = intent[d]
<1>1. claim \in 0 .. MaxAttempts
  BY KernelAssumption DEF KernelTypeOK
<1> QED
  BY <1>1 DEF Begin, Go, KernelTypeOK

LEMMA MarkFacts ==
    ASSUME KernelTypeOK, NEW i \in Intent, NEW a \in Action, NEW value \in Progress,
           Mark(i, a, value)
    PROVE  /\ progress' \in [Intent -> [Action -> Progress]]
           /\ progress'[i][a] = value
           /\ \A j \in Intent, b \in Action :
                 (j # i \/ b # a) => progress'[j][b] = progress[j][b]
BY DEF Mark, KernelTypeOK

LEMMA LearnFacts ==
    ASSUME KernelTypeOK, NEW c \in Call, NEW h \in Host, NEW answer \in Answer,
           Learn(c, h, answer)
    PROVE  /\ got' \in [Call -> [Host -> Answer]]
           /\ got'[c][h] = answer
           /\ \A g \in Host : g # h => got'[c][g] = got[c][g]
           /\ \A d \in Call : d # c => got'[d] = got[d]
BY DEF Learn, KernelTypeOK

LEMMA WriteOnFacts ==
    ASSUME KernelTypeOK, NEW c \in Call, NEW reported \in Cleanup, NEW hosts \in SUBSET Host,
           NEW next \in Step, WriteOn(c, reported, hosts, next)
    PROVE  /\ pc' \in [Call -> Step] /\ seen' \in [Call -> Cleanup]
           /\ pc'[c] = next /\ seen'[c] = reported
           /\ \A d \in Call : d # c => pc'[d] = pc[d] /\ seen'[d] = seen[d]
           /\ UNCHANGED <<op, mine, intent>>
           /\ cleanup' = reported /\ verified' = hosts /\ fresh' = {c}
           /\ Accepts(c, reported)
BY DEF WriteOn, Write, Go, KernelTypeOK

LEMMA VerdictFacts ==
    ASSUME NEW c \in Call, Answered(c), NEW good \in {"done", "clean"}
    PROVE  /\ Verdict(c, good) \in {good, "failed", "indeterminate"}
           /\ (\E h \in Host : got[c][h] \in {"running", "unknown"})
                 => Verdict(c, good) = "indeterminate"
BY DEF Answered, Verdict

-----------------------------------------------------------------------------
(* Nothing is open: no call owns work, and no command runs *)

LEMMA NothingOpen ==
    ASSUME IInv, cleanup \notin Open,
           \A i \in Intent, a \in Action : progress[i][a] \notin Open
    PROVE  commands = {} /\ \A c \in Call : ~Owns(c)
<1>1. ASSUME NEW r \in commands PROVE FALSE
  BY <1>1 DEF IInv, CommandsAreOnRecord, CommandsAgree, OnRecord
<1>2. ASSUME NEW c \in Call, Owns(c) PROVE FALSE
  BY <1>2 DEF IInv, OwnerIsOnRecord, CallsAgree, OnRecord, Owns, Open
<1> QED
  BY <1>1, <1>2

LEMMA ResolvedIsNothingOpen ==
    ASSUME IInv, ~Unresolved(Intent)
    PROVE  /\ cleanup \notin Open
           /\ \A i \in Intent, a \in Action : progress[i][a] \notin Open
           /\ commands = {} /\ \A c \in Call : ~Owns(c)
BY NothingOpen DEF Unresolved

LEMMA SpendableIsNothingOpen ==
    ASSUME IInv, NEW i \in Intent, NEW a \in Action, Spendable(i, a)
    PROVE  /\ cleanup \notin Open
           /\ \A j \in Intent, b \in Action : progress[j][b] \notin Open
           /\ commands = {} /\ \A c \in Call : ~Owns(c)
<1>1. cleanup \notin Open /\ \A j \in Intent \ {i}, b \in Action : progress[j][b] \notin Open
  BY DEF Spendable, BindingHolds, Unresolved
<1>2. progress[i][a] \in {"pending", "failed"} /\ progress[i][a] \notin Open
  BY DEF Spendable, Open
<1>3. ASSUME NEW b \in Action, progress[i][b] \in Open PROVE FALSE
  <2>1. b \in Before(a) \/ b = a \/ a \in Before(b)
    BY DEF Before, Action
  <2>2. CASE b \in Before(a)
    BY <1>3, <2>2 DEF Spendable, Open
  <2>3. CASE a \in Before(b)
    BY <1>2, <1>3, <2>3 DEF IInv, ActionsInOrder, Open
  <2> QED
    BY <1>2, <1>3, <2>1, <2>2, <2>3
<1> QED
  BY <1>1, <1>3, NothingOpen

\* A request that the fence accepts is under the claim in force, so nothing
\* has been submitted when it is to run something.
LEMMA AcceptedIsNotSubmitted ==
    ASSUME IInv, NEW c \in Call, pc[c] \in {"reserve", "checkpoint"}, Fenced(mine[c])
    PROVE  submitting = 0
BY DEF IInv, CompletionIsQuiet, Fenced

-----------------------------------------------------------------------------
(* Calls that leave *)

LEMMA LeavingKeeps ==
    ASSUME IInv, NEW c \in Call, Leave(c), UNCHANGED <<ticket, commands>>
    PROVE  CallsAgree' /\ CommandsAgree' /\ CompletionIsQuiet'
<1> USE LeaveFacts DEF IInv
<1>1. CallsAgree'
  BY DEF CallsAgree
<1>2. \A d \in Call : Owns(d)' => d # c /\ Owns(d)
  BY DEF Owns
<1>3. CommandsAgree'
  BY <1>2 DEF CommandsAgree, CommandOf
<1>4. CompletionIsQuiet'
  BY DEF CompletionIsQuiet, ticket
<1> QED
  BY <1>1, <1>3, <1>4

LEMMA LeavingKeepsCopies ==
    ASSUME IInv, NEW c \in Call, Leave(c), fresh' \subseteq fresh \ {c},
           cleanup' = cleanup, ran' = ran
    PROVE  CopiesAgree'
<1>1. fresh \subseteq Call
  BY DEF IInv, KernelTypeOK
<1> QED
  BY <1>1, LeaveFacts DEF IInv, CopiesAgree, Known

\* A call that only leaves, whether it was turned down, failed or died.
LEMMA QuietLeavingKeeps ==
    ASSUME IInv, NEW c \in Call, Leave(c), fresh' = fresh \ {c},
           UNCHANGED <<ticket, intents, verified, cleanup, ran, commands>>,
           faults' \in 0 .. MaxFaults
    PROVE  IInv'
<1> USE LeaveFacts DEF IInv
<1>1. KernelTypeOK'
  BY DEF KernelTypeOK, ticket, intents
<1>2. ActionsInOrder' /\ OneIsOpen' /\ (verified \subseteq ran)' /\ CommandsAreOnRecord'
  BY DEF ActionsInOrder, OneIsOpen, CommandsAreOnRecord, OnRecord, intents
<1>3. CallsAgree' /\ CommandsAgree' /\ CompletionIsQuiet'
  BY LeavingKeeps
<1>4. CopiesAgree'
  BY LeavingKeepsCopies
<1>5. \A d \in Call : Owns(d)' => d # c /\ Owns(d) /\ op'[d] = op[d] /\ intent'[d] = intent[d]
  BY DEF Owns
<1>6. OwnerIsOnRecord'
  BY <1>5 DEF OwnerIsOnRecord, OnRecord, intents
<1> QED
  BY <1>1, <1>2, <1>3, <1>4, <1>6

LEMMA TurnedDownKeeps ==
    ASSUME IInv, NEW c \in Call, NEW reported, TurnedDown(c, reported),
           UNCHANGED <<ticket, intents, ran, commands, faults>>
    PROVE  IInv'
BY QuietLeavingKeeps DEF TurnedDown, IInv, KernelTypeOK

-----------------------------------------------------------------------------
(* The ticket, its agents and its user *)

LEMMA TicketKeeps ==
    ASSUME IInv, LoseClaim \/ Dispatch \/ Pause \/ UserReplies \/ Complete
    PROVE  IInv'
<1>0. UNCHANGED <<record, call, commands, faults>>
  BY DEF LoseClaim, Dispatch, Pause, UserReplies, Complete
<1>1. KernelTypeOK'
  <2>1. /\ status' \in {"awaiting_provision", "guidance", "done"}
        /\ attempts' \in 1 .. MaxAttempts /\ claim' \in 0 .. attempts'
        /\ submitting' \in {0, claim'}
    BY KernelAssumption DEF LoseClaim, Dispatch, Pause, UserReplies, Complete, IInv,
                            KernelTypeOK
  <2> QED
    BY <1>0, <2>1 DEF IInv, KernelTypeOK, record, intents, transition, call
<1>2. /\ ActionsInOrder' /\ OneIsOpen' /\ CallsAgree' /\ (verified \subseteq ran)'
      /\ OwnerIsOnRecord' /\ CommandsAreOnRecord' /\ CommandsAgree'
  BY <1>0 DEF IInv, ActionsInOrder, OneIsOpen, CallsAgree, OwnerIsOnRecord,
              CommandsAreOnRecord, CommandsAgree, OnRecord, Owns, CommandOf, record, intents,
              transition, call
<1>3. CopiesAgree'
  BY <1>0 DEF IInv, CopiesAgree, Known, record, transition, call
<1>4. CompletionIsQuiet'
  BY <1>0 DEF LoseClaim, Dispatch, Pause, UserReplies, Complete, IInv, KernelTypeOK,
              CompletionIsQuiet, call
<1> QED
  BY <1>1, <1>2, <1>3, <1>4 DEF IInv

LEMMA SubmitKeeps ==
    ASSUME IInv, Submit
    PROVE  IInv'
<1>0. UNCHANGED <<status, claim, attempts, record, call, commands, faults>>
  BY DEF Submit
<1>1. cleanup \notin Open
  BY DEF Submit, Gate, GateIsClear
<1>2. ASSUME NEW i \in Intent, NEW a \in Action \ {"reboot"}, progress[i][a] \in Open
      PROVE  FALSE
  <2>1. PICK j \in 1 .. i - 1 : progress[j]["reboot"] \in Open
    BY <1>2 DEF Submit, Gate, GateIsClear
  <2>2. j \in Intent /\ j # i /\ "reboot" \in Action
    BY KernelAssumption, <2>1 DEF Intent, Action
  <2> QED
    BY <1>2, <2>1, <2>2 DEF IInv, OneIsOpen
<1>3. commands = {}
  <2> SUFFICES ASSUME NEW r \in commands PROVE FALSE
    OBVIOUS
  <2> QED
    BY <1>1, <1>2 DEF IInv, CommandsAreOnRecord, CommandsAgree, OnRecord
<1>4. \A c \in Call : pc[c] # "run"
  BY <1>1, <1>2 DEF IInv, OwnerIsOnRecord, CallsAgree, Owns, OnRecord, Open
<1>5. CompletionIsQuiet'
  BY <1>0, <1>3, <1>4 DEF Submit, CompletionIsQuiet, call
<1>6. KernelTypeOK'
  BY <1>0 DEF Submit, IInv, KernelTypeOK, record, intents, transition, call
<1>7. /\ ActionsInOrder' /\ OneIsOpen' /\ CallsAgree' /\ (verified \subseteq ran)'
      /\ OwnerIsOnRecord' /\ CommandsAreOnRecord' /\ CommandsAgree'
  BY <1>0 DEF IInv, ActionsInOrder, OneIsOpen, CallsAgree, OwnerIsOnRecord,
              CommandsAreOnRecord, CommandsAgree, OnRecord, Owns, CommandOf, record, intents,
              transition, call
<1>8. CopiesAgree'
  BY <1>0 DEF IInv, CopiesAgree, Known, record, transition, call
<1> QED
  BY <1>5, <1>6, <1>7, <1>8 DEF IInv

LEMMA PrepareKeeps ==
    ASSUME IInv, NEW required \in Inventories, Prepare(required)
    PROVE  IInv'
<1> DEFINE i == prepared + 1
<1>0. /\ UNCHANGED <<ticket, approval, transition, ran, call, commands, faults>>
      /\ prepared' = prepared + 1
  BY DEF Prepare
<1>1. i \in Intent /\ i > prepared /\ prepared \in Nat /\ prepared' \in 0 .. MaxIntents
  BY KernelAssumption DEF Prepare, Intent, IInv, KernelTypeOK
<1>2. /\ progress' \in [Intent -> [Action -> Progress]]
      /\ \A a \in Action : progress'[i][a] \in {"none", "pending"}
      /\ \A j \in Intent \ {i} : progress'[j] = progress[j]
  BY <1>1 DEF Prepare, IInv, KernelTypeOK, Progress
<1>3. \A a \in Action : progress[i][a] = "none"
  BY <1>1 DEF IInv, ActionsInOrder
<1>4. KernelTypeOK'
  BY <1>0, <1>1, <1>2 DEF IInv, KernelTypeOK, ticket, transition, call
<1>5. ActionsInOrder'
  <2> SUFFICES ASSUME NEW j \in Intent, NEW a \in Action
               PROVE  /\ j > prepared' => progress'[j][a] = "none"
                      /\ progress'[j][a] \notin {"none", "pending"} =>
                            \A b \in Before(a) : progress'[j][b] \in {"none", "done"}
    BY DEF ActionsInOrder
  <2>1. j > prepared' => j > prepared /\ j # i
    BY <1>0, <1>1 DEF Intent
  <2> QED
    BY <1>2, <2>1 DEF IInv, ActionsInOrder
<1>6. \A j \in Intent, a \in Action : progress'[j][a] \in Open => progress[j][a] \in Open
  BY <1>2 DEF Open
<1>7. OneIsOpen'
  BY <1>0, <1>6 DEF IInv, OneIsOpen, transition
<1>8. \A j \in Intent, a \in Action :
          progress[j][a] \in Open => progress'[j][a] = progress[j][a]
  BY <1>2, <1>3 DEF Open
<1>9. OwnerIsOnRecord'
  BY <1>0, <1>8 DEF IInv, OwnerIsOnRecord, CallsAgree, OnRecord, Owns, Open, transition, call
<1>10. CommandsAreOnRecord'
  BY <1>0, <1>8 DEF IInv, CommandsAreOnRecord, CommandsAgree, OnRecord, transition
<1>11. CallsAgree' /\ (verified \subseteq ran)' /\ CommandsAgree' /\ CompletionIsQuiet'
  BY <1>0 DEF IInv, CallsAgree, CommandsAgree, Owns, CommandOf, CompletionIsQuiet, ticket,
              transition, call
<1>12. CopiesAgree'
  BY <1>0 DEF IInv, CopiesAgree, Known, transition, call
<1> QED
  BY <1>4, <1>5, <1>7, <1>9, <1>10, <1>11, <1>12 DEF IInv

LEMMA ApprovalKeeps ==
    ASSUME IInv, NEW i \in Intent,
           RequestApproval(i) \/ \E decision \in {"approved", "none"} : Decide(i, decision)
    PROVE  IInv'
<1>0. UNCHANGED <<ticket, prepared, progress, transition, ran, call, commands, faults>>
  BY DEF RequestApproval, Decide
<1>1. approval' \in [Intent -> [status : {"none", "pending", "approved"},
                                claim : 0 .. MaxAttempts]]
  <2>1. claim \in 0 .. MaxAttempts /\ 0 \in 0 .. MaxAttempts
    BY KernelAssumption DEF IInv, KernelTypeOK
  <2>2. CASE RequestApproval(i)
    BY <2>1, <2>2 DEF RequestApproval, IInv, KernelTypeOK
  <2>3. CASE \E decision \in {"approved", "none"} : Decide(i, decision)
    BY <2>1, <2>3 DEF Decide, IInv, KernelTypeOK
  <2> QED
    BY <2>2, <2>3
<1>2. KernelTypeOK'
  BY <1>0, <1>1 DEF IInv, KernelTypeOK, ticket, transition, call
<1>3. /\ ActionsInOrder' /\ OneIsOpen' /\ CallsAgree' /\ (verified \subseteq ran)'
      /\ OwnerIsOnRecord' /\ CommandsAreOnRecord' /\ CommandsAgree' /\ CompletionIsQuiet'
  BY <1>0 DEF IInv, ActionsInOrder, OneIsOpen, CallsAgree, OwnerIsOnRecord,
              CommandsAreOnRecord, CommandsAgree, OnRecord, Owns, CommandOf,
              CompletionIsQuiet, ticket, transition, call
<1>4. CopiesAgree'
  BY <1>0 DEF IInv, CopiesAgree, Known, transition, call
<1> QED
  BY <1>2, <1>3, <1>4 DEF IInv

-----------------------------------------------------------------------------
(* Actions on the hosts *)

LEMMA AuthorizeKeeps ==
    ASSUME IInv, NEW c \in Call, NEW i \in Intent, NEW a \in Action, Authorize(c, i, a)
    PROVE  IInv'
<1>0. UNCHANGED <<seen, got, ticket, prepared, approval, transition, ran, commands, faults>>
  BY DEF Authorize
<1>1. /\ cleanup \notin Open
      /\ \A j \in Intent, b \in Action : progress[j][b] \notin Open
      /\ commands = {} /\ \A d \in Call : ~Owns(d)
  BY SpendableIsNothingOpen DEF Authorize
<1>2. "started" \in Progress /\ "reserve" \in Step /\ a \in Operation
  BY DEF Progress, Step, Operation
<1>3. /\ pc' \in [Call -> Step] /\ op' \in [Call -> Operation \cup {"none"}]
      /\ mine' \in [Call -> 0 .. MaxAttempts] /\ intent' \in [Call -> Intent \cup {None}]
      /\ pc[c] = "idle" /\ pc'[c] = "reserve" /\ op'[c] = a /\ intent'[c] = i
      /\ \A d \in Call : d # c =>
            /\ pc'[d] = pc[d] /\ op'[d] = op[d] /\ mine'[d] = mine[d]
            /\ intent'[d] = intent[d]
  BY <1>2, BeginFacts DEF Authorize, IInv
<1>4. /\ progress' \in [Intent -> [Action -> Progress]]
      /\ progress'[i][a] = "started"
      /\ \A j \in Intent, b \in Action : (j # i \/ b # a) => progress'[j][b] = progress[j][b]
  BY <1>2, MarkFacts DEF Authorize, IInv
<1>5. KernelTypeOK'
  BY <1>0, <1>3, <1>4 DEF IInv, KernelTypeOK, ticket, transition
<1>6. ActionsInOrder'
  <2>1. progress[i][a] \in {"pending", "failed"} /\ progress[i][a] # "none"
    BY DEF Authorize, Spendable
  <2>2. \A b \in Before(a) : b # a /\ progress[i][b] \in {"none", "done"}
    BY DEF Authorize, Spendable, Before, Action
  <2>3. \A b \in Action : a \in Before(b) => progress[i][b] \in {"none", "pending"}
    BY <2>1 DEF IInv, ActionsInOrder
  <2>4. \A b \in Action : Before(b) \subseteq Action /\ b \notin Before(b)
    BY DEF Before, Action
  <2> SUFFICES ASSUME NEW j \in Intent, NEW b \in Action
               PROVE  /\ j > prepared' => progress'[j][b] = "none"
                      /\ progress'[j][b] \notin {"none", "pending"} =>
                            \A d \in Before(b) : progress'[j][d] \in {"none", "done"}
    BY DEF ActionsInOrder
  <2>5. ~(i > prepared)
    BY <2>1 DEF IInv, ActionsInOrder
  <2>6. CASE j # i
    BY <1>0, <1>4, <2>4, <2>6 DEF IInv, ActionsInOrder
  <2>7. CASE j = i /\ b = a
    BY <1>0, <1>4, <2>2, <2>4, <2>5, <2>7
  <2>8. CASE j = i /\ b # a
    <3>1. CASE a \in Before(b)
      BY <1>0, <1>4, <2>3, <2>5, <2>8, <3>1
    <3>2. CASE a \notin Before(b)
      BY <1>0, <1>4, <2>4, <2>5, <2>8, <3>2 DEF IInv, ActionsInOrder
    <3> QED
      BY <3>1, <3>2
  <2> QED
    BY <2>6, <2>7, <2>8
<1>7. OneIsOpen'
  BY <1>0, <1>1, <1>4 DEF OneIsOpen, transition
<1>8. CallsAgree'
  BY <1>0, <1>3 DEF IInv, CallsAgree
<1>9. CopiesAgree'
  BY <1>0, <1>3 DEF IInv, CopiesAgree, KernelTypeOK, Known, transition
<1>10. \A d \in Call : Owns(d)' => d = c
  BY <1>1, <1>3 DEF Owns
<1>11. OwnerIsOnRecord'
  BY <1>3, <1>4, <1>10 DEF OwnerIsOnRecord, OnRecord, Action
<1>12. (verified \subseteq ran)' /\ CommandsAreOnRecord' /\ CommandsAgree'
  BY <1>0, <1>1 DEF IInv, CommandsAreOnRecord, CommandsAgree, transition
<1>13. CompletionIsQuiet'
  <2>1. submitting = 0 /\ status = "awaiting_provision"
    BY DEF Authorize, Agent
  <2> QED
    BY <1>0, <2>1 DEF CompletionIsQuiet, ticket
<1> QED
  BY <1>5, <1>6, <1>7, <1>8, <1>9, <1>11, <1>12, <1>13 DEF IInv

LEMMA ReserveKeeps ==
    ASSUME IInv, NEW c \in Call, Reserve(c)
    PROVE  IInv'
<1>0. /\ pc[c] = "reserve"
      /\ UNCHANGED <<ticket, prepared, approval, transition, ran, commands, faults>>
  BY DEF Reserve
<1>1. /\ Owns(c) /\ op[c] \in Action /\ intent[c] \in Intent
      /\ progress[intent[c]][op[c]] = "started"
      /\ c \notin fresh /\ commands = {}
  BY <1>0 DEF IInv, CallsAgree, OwnerIsOnRecord, OnRecord, Owns, Action, CopiesAgree,
              CommandsAgree
<1>2. CASE Leave(c) /\ UNCHANGED progress
  <2>1. fresh' = fresh \ {c}
    BY <1>0, <1>1 DEF transition
  <2> QED
    BY <1>0, <1>2, <2>1, QuietLeavingKeeps DEF intents, transition, IInv, KernelTypeOK
<1>3. CASE /\ op[c] = "reboot" => progress[intent[c]][op[c]] = "pending"
           /\ Fenced(mine[c]) /\ BindingHolds(intent[c])
           /\ Mark(intent[c], op[c], "started") /\ Go(c, "run")
           /\ UNCHANGED <<op, mine, intent, seen, got>>
  <2>1. progress' = progress
    BY <1>1, <1>3 DEF Mark, IInv, KernelTypeOK
  <2>2. /\ pc' \in [Call -> Step] /\ pc'[c] = "run"
        /\ \A d \in Call : d # c => pc'[d] = pc[d]
    BY <1>3 DEF Go, IInv, KernelTypeOK, Step
  <2>3. KernelTypeOK'
    BY <1>0, <1>3, <2>1, <2>2 DEF IInv, KernelTypeOK, ticket, transition
  <2>4. ActionsInOrder' /\ OneIsOpen' /\ (verified \subseteq ran)'
    BY <1>0, <2>1 DEF IInv, ActionsInOrder, OneIsOpen, transition
  <2>5. CallsAgree'
    BY <1>1, <1>3, <2>2 DEF IInv, CallsAgree
  <2>6. CopiesAgree'
    BY <1>0, <1>1, <1>3, <2>2 DEF IInv, CopiesAgree, KernelTypeOK, Known, transition
  <2>7. \A d \in Call : Owns(d)' => Owns(d)
    BY <1>1, <2>2 DEF Owns
  <2>8. OwnerIsOnRecord'
    BY <1>0, <1>3, <2>1, <2>7 DEF IInv, OwnerIsOnRecord, OnRecord, transition
  <2>9. CommandsAreOnRecord' /\ CommandsAgree'
    BY <1>0, <1>1 DEF CommandsAreOnRecord, CommandsAgree
  <2>10. CompletionIsQuiet'
    <3>1. submitting = 0 /\ status = "awaiting_provision"
      BY <1>0, <1>3, AcceptedIsNotSubmitted DEF BindingHolds
    <3> QED
      BY <1>0, <3>1 DEF CompletionIsQuiet, ticket
  <2> QED
    BY <2>3, <2>4, <2>5, <2>6, <2>8, <2>9, <2>10 DEF IInv
<1> QED
  BY <1>1, <1>2, <1>3 DEF Reserve

LEMMA HostKeeps ==
    ASSUME IInv, NEW c \in Call, NEW h \in Host, HostStarts(c, h) \/ HostAnswers(c, h)
    PROVE  IInv'
<1>0. /\ pc[c] = "run"
      /\ UNCHANGED <<op, pc, mine, intent, seen, ticket, record, faults>>
  BY DEF HostStarts, HostAnswers
<1>1. PICK answer \in {"running", "ok", "failed", "unknown"} : Learn(c, h, answer)
  BY DEF HostStarts, HostAnswers
<1>2. /\ got' \in [Call -> [Host -> Answer]] /\ got'[c][h] = answer
      /\ \A g \in Host : g # h => got'[c][g] = got[c][g]
      /\ \A d \in Call : d # c => got'[d] = got[d]
  BY <1>1, LearnFacts DEF IInv, Answer
<1>3. /\ Owns(c) /\ op[c] \in Operation \ {"verify", "reboot"} /\ intent[c] \in Intent \cup {None}
      /\ op[c] = "cleanup" \/ (op[c] \in Action \ {"reboot"} /\ intent[c] \in Intent)
      /\ OnRecord([op |-> op[c], intent |-> intent[c]]) = "started"
  BY <1>0 DEF IInv, CallsAgree, OwnerIsOnRecord, KernelTypeOK, Owns, Operation, Action
<1>4. \A r \in commands : r = CommandOf(c, r.host) /\ got[c][r.host] \in {"running", "unknown"}
  BY <1>3 DEF IInv, CommandsAgree
<1>5. /\ commands' \subseteq commands \cup {CommandOf(c, h)}
      /\ answer \in {"ok", "failed"} => CommandOf(c, h) \notin commands'
  <2>1. CASE HostStarts(c, h)
    <3>1. got[c][h] = "none"
      BY <2>1 DEF HostStarts
    <3>2. CommandOf(c, h) \notin commands
      BY <1>4, <3>1 DEF CommandOf
    <3>3. got' # [got EXCEPT ![c] = [@ EXCEPT ![h] = "running"]] \/ answer = "running"
      BY <1>2 DEF IInv, KernelTypeOK
    <3> QED
      BY <2>1, <3>2, <3>3 DEF HostStarts, Learn
  <2>2. CASE HostAnswers(c, h)
    <3>1. got' # [got EXCEPT ![c] = [@ EXCEPT ![h] = "unknown"]] \/ answer = "unknown"
      BY <1>2 DEF IInv, KernelTypeOK
    <3> QED
      BY <2>2, <3>1 DEF HostAnswers, Learn
  <2> QED
    BY <2>1, <2>2
<1>6. /\ CommandOf(c, h) \in Command /\ CommandOf(c, h).host = h /\ CommandOf(c, h).call = c
      /\ CommandOf(c, h).op = op[c] /\ CommandOf(c, h).intent = intent[c]
  BY <1>3 DEF CommandOf, Command
<1>7. \A r \in commands' : r = CommandOf(c, r.host) /\ r.host \in Host
  BY <1>4, <1>5, <1>6 DEF IInv, KernelTypeOK, Command
<1>8. \A r \in commands' : got'[c][r.host] \in {"running", "unknown"}
  <2> SUFFICES ASSUME NEW r \in commands' PROVE got'[c][r.host] \in {"running", "unknown"}
    OBVIOUS
  <2>1. CASE r.host = h
    BY <1>2, <1>5, <1>7, <2>1
  <2>2. CASE r.host # h
    BY <1>2, <1>4, <1>5, <1>6, <1>7, <2>2
  <2> QED
    BY <2>1, <2>2
<1>9. KernelTypeOK'
  BY <1>0, <1>2, <1>5, <1>6 DEF IInv, KernelTypeOK, ticket, record, intents, transition
<1>10. ActionsInOrder' /\ OneIsOpen' /\ (verified \subseteq ran)' /\ OwnerIsOnRecord'
  BY <1>0 DEF IInv, ActionsInOrder, OneIsOpen, OwnerIsOnRecord, OnRecord, Owns, record,
              intents, transition
<1>11. CallsAgree'
  BY <1>0, <1>2 DEF IInv, CallsAgree
<1>12. CopiesAgree'
  BY <1>0, <1>2 DEF IInv, CopiesAgree, KernelTypeOK, Known, record, transition
<1>13. \A r \in commands' : r.call = c /\ r.op = op[c] /\ r.intent = intent[c]
  BY <1>7 DEF CommandOf
<1>14. CommandsAreOnRecord'
  BY <1>0, <1>3, <1>13 DEF CommandsAreOnRecord, OnRecord, Open, record, intents, transition
<1>15. CommandsAgree'
  <2>1. \A d \in Call : Owns(d)' => d = c
    BY <1>0, <1>3 DEF IInv, OwnerIsOnRecord, Owns
  <2>2. \A r \in commands' : r = CommandOf(c, r.host)'
    BY <1>0, <1>7 DEF CommandOf
  <2> QED
    BY <1>0, <1>3, <1>8, <1>13, <2>1, <2>2 DEF CommandsAgree
<1>16. CompletionIsQuiet'
  BY <1>0 DEF IInv, CompletionIsQuiet, ticket
<1> QED
  BY <1>9, <1>10, <1>11, <1>12, <1>14, <1>15, <1>16 DEF IInv

LEMMA CommandEndsKeeps ==
    ASSUME IInv, NEW c \in Call, NEW h \in Host, CommandEnds(c, h)
    PROVE  IInv'
<1>0. UNCHANGED <<call, ticket, record, faults>> /\ commands' \subseteq commands
  BY DEF CommandEnds
<1>1. KernelTypeOK'
  BY <1>0 DEF IInv, KernelTypeOK, call, ticket, record, intents, transition
<1>2. /\ ActionsInOrder' /\ OneIsOpen' /\ CallsAgree' /\ (verified \subseteq ran)'
      /\ OwnerIsOnRecord' /\ CommandsAreOnRecord' /\ CommandsAgree' /\ CompletionIsQuiet'
  BY <1>0 DEF IInv, ActionsInOrder, OneIsOpen, CallsAgree, OwnerIsOnRecord,
              CommandsAreOnRecord, CommandsAgree, OnRecord, Owns, CommandOf,
              CompletionIsQuiet, ticket, record, intents, transition, call
<1>3. CopiesAgree'
  BY <1>0 DEF IInv, CopiesAgree, Known, record, transition, call
<1> QED
  BY <1>1, <1>2, <1>3 DEF IInv

LEMMA RecordActionKeeps ==
    ASSUME IInv, NEW c \in Call, RecordAction(c)
    PROVE  IInv'
<1> DEFINE i == intent[c]
           a == op[c]
           verdict == Verdict(c, "done")
<1>0. /\ pc[c] = "run" /\ a \in Action /\ Leave(c)
      /\ UNCHANGED <<ticket, prepared, approval, transition, ran, commands, faults>>
  BY DEF RecordAction, Answered
<1>1. /\ Owns(c) /\ a \in Action /\ i \in Intent /\ progress[i][a] = "started"
      /\ \A d \in Call : Owns(d) => d = c
      /\ cleanup \notin Open
      /\ \A j \in Intent, b \in Action : progress[j][b] \in Open => j = i /\ b = a
  BY <1>0 DEF IInv, CallsAgree, OwnerIsOnRecord, OnRecord, OneIsOpen, Owns, Action, Open
<1>2. c \notin fresh
  BY <1>0 DEF IInv, CopiesAgree, Action
<1>3. CASE UNCHANGED progress
  <2>1. fresh' = fresh \ {c}
    BY <1>0, <1>2 DEF transition
  <2> QED
    BY <1>0, <1>3, <2>1, QuietLeavingKeeps DEF intents, transition, IInv, KernelTypeOK
<1>4. CASE Mark(i, a, verdict)
  <2>1. /\ verdict \in {"done", "failed", "indeterminate"}
        /\ (\E h \in Host : got[c][h] \in {"running", "unknown"}) => verdict = "indeterminate"
    BY VerdictFacts DEF RecordAction
  <2>2. /\ progress' \in [Intent -> [Action -> Progress]]
        /\ progress'[i][a] = verdict
        /\ \A j \in Intent, b \in Action : (j # i \/ b # a) => progress'[j][b] = progress[j][b]
    BY <1>1, <1>4, <2>1, MarkFacts DEF IInv, Progress
  <2>3. KernelTypeOK'
    BY <1>0, <2>2, LeaveFacts DEF IInv, KernelTypeOK, ticket, transition
  <2>4. ActionsInOrder'
    <3>1. \A b \in Before(a) : progress[i][b] \in {"none", "done"}
      BY <1>1 DEF IInv, ActionsInOrder
    <3>2. \A b \in Action : a \in Before(b) => progress[i][b] \in {"none", "pending"}
      BY <1>1 DEF IInv, ActionsInOrder
    <3>3. \A b \in Action : Before(b) \subseteq Action /\ b \notin Before(b)
      BY DEF Before, Action
    <3>4. ~(i > prepared)
      BY <1>1 DEF IInv, ActionsInOrder
    <3> SUFFICES ASSUME NEW j \in Intent, NEW b \in Action
                 PROVE  /\ j > prepared' => progress'[j][b] = "none"
                        /\ progress'[j][b] \notin {"none", "pending"} =>
                              \A d \in Before(b) : progress'[j][d] \in {"none", "done"}
      BY DEF ActionsInOrder
    <3>5. CASE j # i
      BY <1>0, <2>2, <3>3, <3>5 DEF IInv, ActionsInOrder
    <3>6. CASE j = i /\ b = a
      BY <1>0, <2>2, <3>1, <3>3, <3>4, <3>6
    <3>7. CASE j = i /\ b # a
      <4>1. CASE a \in Before(b)
        BY <1>0, <2>2, <3>2, <3>4, <3>7, <4>1
      <4>2. CASE a \notin Before(b)
        BY <1>0, <2>2, <3>3, <3>4, <3>7, <4>2 DEF IInv, ActionsInOrder
      <4> QED
        BY <4>1, <4>2
    <3> QED
      BY <3>5, <3>6, <3>7
  <2>5. OneIsOpen'
    BY <1>0, <1>1, <2>2 DEF OneIsOpen, transition
  <2>6. CallsAgree' /\ CommandsAgree' /\ CompletionIsQuiet'
    BY <1>0, LeavingKeeps
  <2>7. CopiesAgree'
    BY <1>0, <1>2, LeavingKeepsCopies DEF transition
  <2>8. \A d \in Call : ~Owns(d)'
    BY <1>0, <1>1, LeaveFacts DEF IInv, Owns
  <2>9. OwnerIsOnRecord'
    BY <2>8 DEF OwnerIsOnRecord
  <2>10. CommandsAreOnRecord'
    <3> SUFFICES ASSUME NEW r \in commands PROVE OnRecord(r)' \in Open
      BY <1>0 DEF CommandsAreOnRecord
    <3>1. /\ r.op = a /\ r.intent = i
          /\ r.host \in Host /\ got[c][r.host] \in {"running", "unknown"}
      BY <1>1 DEF IInv, CommandsAgree, CommandOf, KernelTypeOK, Command
    <3>2. verdict = "indeterminate"
      BY <2>1, <3>1
    <3> QED
      BY <1>1, <2>2, <3>1, <3>2 DEF OnRecord, Open, Action
  <2> QED
    BY <1>0, <2>3, <2>4, <2>5, <2>6, <2>7, <2>9, <2>10 DEF IInv, transition
<1> QED
  BY <1>3, <1>4 DEF RecordAction

-----------------------------------------------------------------------------
(* The transition record *)

LEMMA ReadTransitionKeeps ==
    ASSUME IInv, NEW c \in Call, NEW what, NEW next, ReadTransition(c, what, next),
           \/ what = "cleanup" /\ next = "checkpoint"
           \/ what = "verify" /\ next = "invalidate"
    PROVE  IInv'
<1>0. /\ UNCHANGED <<got, ticket, intents, verified, cleanup, ran, commands, faults>>
      /\ fresh' = fresh \cup {c} /\ seen' = [seen EXCEPT ![c] = cleanup]
      /\ submitting = 0 /\ status # "done" /\ cleanup \notin Open
  BY DEF ReadTransition, Unresolved
<1>1. what \in Operation /\ next \in Step /\ None \in Intent \cup {None}
  BY DEF Operation, Step
<1>2. /\ pc' \in [Call -> Step] /\ op' \in [Call -> Operation \cup {"none"}]
      /\ mine' \in [Call -> 0 .. MaxAttempts] /\ intent' \in [Call -> Intent \cup {None}]
      /\ pc[c] = "idle" /\ pc'[c] = next /\ op'[c] = what
      /\ \A d \in Call : d # c =>
            /\ pc'[d] = pc[d] /\ op'[d] = op[d] /\ mine'[d] = mine[d]
            /\ intent'[d] = intent[d]
  BY <1>1, BeginFacts DEF ReadTransition, IInv
<1>3. /\ seen' \in [Call -> Cleanup] /\ seen'[c] = cleanup
      /\ \A d \in Call : d # c => seen'[d] = seen[d]
  BY <1>0 DEF IInv, KernelTypeOK
<1>4. KernelTypeOK'
  BY <1>0, <1>2, <1>3 DEF IInv, KernelTypeOK, ticket, intents
<1>5. ActionsInOrder' /\ OneIsOpen' /\ (verified \subseteq ran)' /\ CommandsAreOnRecord'
  BY <1>0 DEF IInv, ActionsInOrder, OneIsOpen, CommandsAreOnRecord, OnRecord, intents
<1>6. CallsAgree'
  BY <1>0, <1>2, <1>3 DEF IInv, CallsAgree
<1>7. CopiesAgree'
  BY <1>0, <1>2, <1>3 DEF IInv, CopiesAgree, KernelTypeOK, Known
<1>8. \A d \in Call : Owns(d)' => d # c /\ Owns(d)
  BY <1>2 DEF Owns
<1>9. OwnerIsOnRecord'
  BY <1>0, <1>2, <1>8 DEF IInv, OwnerIsOnRecord, OnRecord, intents
<1>10. CommandsAgree'
  BY <1>0, <1>2, <1>8 DEF IInv, CommandsAgree, CommandOf
<1>11. CompletionIsQuiet'
  BY <1>0 DEF CompletionIsQuiet, ticket
<1> QED
  BY <1>4, <1>5, <1>6, <1>7, <1>9, <1>10, <1>11 DEF IInv

LEMMA CheckpointKeeps ==
    ASSUME IInv, NEW c \in Call, Checkpoint(c)
    PROVE  IInv'
<1>0. pc[c] = "checkpoint" /\ UNCHANGED <<ticket, intents, ran, commands, faults>>
  BY DEF Checkpoint
<1>1. CASE TurnedDown(c, "started")
  BY <1>0, <1>1, TurnedDownKeeps
<1>2. CASE WriteOn(c, "started", verified, "run") /\ UNCHANGED got
  <2>1. "started" \in Cleanup /\ verified \in SUBSET Host /\ "run" \in Step
    BY DEF IInv, KernelTypeOK, Cleanup, Step
  <2>2. /\ pc' \in [Call -> Step] /\ seen' \in [Call -> Cleanup]
        /\ pc'[c] = "run" /\ seen'[c] = "started"
        /\ \A d \in Call : d # c => pc'[d] = pc[d] /\ seen'[d] = seen[d]
        /\ UNCHANGED <<op, mine, intent>>
        /\ cleanup' = "started" /\ verified' = verified /\ fresh' = {c}
        /\ Accepts(c, "started")
    BY <1>2, <2>1, WriteOnFacts DEF IInv
  <2>3. op[c] = "cleanup" /\ cleanup \notin Open
    BY <1>0, <2>2 DEF IInv, CallsAgree, CopiesAgree, Accepts
  <2>4. /\ \A i \in Intent, a \in Action : progress[i][a] \notin Open
        /\ commands = {} /\ \A d \in Call : ~Owns(d)
    BY <2>2, <2>3, ResolvedIsNothingOpen DEF Accepts, StartsCleanly, Open
  <2>5. KernelTypeOK'
    BY <1>0, <1>2, <2>1, <2>2 DEF IInv, KernelTypeOK, ticket, intents
  <2>6. ActionsInOrder' /\ OneIsOpen' /\ (verified \subseteq ran)'
    BY <1>0, <2>2, <2>4 DEF IInv, ActionsInOrder, OneIsOpen, intents
  <2>7. CallsAgree'
    BY <1>0, <1>2, <2>2, <2>3 DEF IInv, CallsAgree
  <2>8. CopiesAgree'
    BY <2>2, <2>3 DEF CopiesAgree
  <2>9. \A d \in Call : Owns(d)' => d = c
    BY <2>2, <2>4 DEF Owns
  <2>10. OwnerIsOnRecord'
    BY <2>2, <2>3, <2>9 DEF OwnerIsOnRecord, OnRecord
  <2>11. CommandsAreOnRecord' /\ CommandsAgree'
    BY <1>0, <2>4 DEF CommandsAreOnRecord, CommandsAgree
  <2>12. CompletionIsQuiet'
    <3>1. submitting = 0 /\ status # "done"
      BY <1>0, <2>2, AcceptedIsNotSubmitted DEF Accepts, TransitionWritable
    <3> QED
      BY <1>0, <3>1 DEF CompletionIsQuiet, ticket
  <2> QED
    BY <2>5, <2>6, <2>7, <2>8, <2>10, <2>11, <2>12 DEF IInv
<1> QED
  BY <1>1, <1>2 DEF Checkpoint

\* What a last write keeps, if the cleanup it reports is open only when it was.
LEMMA WriteLastKeeps ==
    ASSUME IInv, NEW c \in Call, NEW reported \in Cleanup, NEW hosts \in SUBSET ran,
           WriteLast(c, reported, hosts),
           UNCHANGED <<ticket, intents, ran, commands, faults>>,
           reported \in Open => cleanup \in Open,
           \A r \in commands : r.op = "cleanup" => reported \in Open,
           \A d \in Call : Owns(d) /\ d # c /\ op[d] = "cleanup" => reported = "started"
    PROVE  IInv'
<1>0. Leave(c) /\ cleanup' = reported /\ verified' = hosts /\ fresh' = {}
  BY DEF WriteLast, Write
<1>1. KernelTypeOK'
  BY <1>0, LeaveFacts DEF IInv, KernelTypeOK, ticket, intents
<1>2. ActionsInOrder' /\ OneIsOpen' /\ (verified \subseteq ran)'
  BY <1>0 DEF IInv, ActionsInOrder, OneIsOpen, intents
<1>3. CallsAgree' /\ CommandsAgree' /\ CompletionIsQuiet'
  BY <1>0, LeavingKeeps
<1>4. CopiesAgree'
  BY <1>0 DEF CopiesAgree
<1>5. \A d \in Call : Owns(d)' => d # c /\ Owns(d) /\ op'[d] = op[d] /\ intent'[d] = intent[d]
  BY <1>0, LeaveFacts DEF IInv, Owns
<1>6. OwnerIsOnRecord'
  BY <1>0, <1>5 DEF IInv, OwnerIsOnRecord, OnRecord, intents
<1>7. CommandsAreOnRecord'
  BY <1>0 DEF IInv, CommandsAreOnRecord, OnRecord, intents
<1> QED
  BY <1>1, <1>2, <1>3, <1>4, <1>6, <1>7 DEF IInv

LEMMA RecordCleanupKeeps ==
    ASSUME IInv, NEW c \in Call, RecordCleanup(c)
    PROVE  IInv'
<1> DEFINE verdict == Verdict(c, "clean")
<1>0. /\ pc[c] = "run" /\ op[c] = "cleanup"
      /\ UNCHANGED <<ticket, intents, ran, commands, faults>>
  BY DEF RecordCleanup, Answered
<1>1. CASE TurnedDown(c, verdict)
  BY <1>0, <1>1, TurnedDownKeeps
<1>2. CASE WriteLast(c, verdict, verified)
  <2>1. /\ verdict \in {"clean", "failed", "indeterminate"}
        /\ (\E h \in Host : got[c][h] \in {"running", "unknown"}) => verdict = "indeterminate"
    BY VerdictFacts DEF RecordCleanup
  <2>2. /\ cleanup = "started" /\ \A d \in Call : Owns(d) => d = c
    BY <1>0 DEF IInv, OwnerIsOnRecord, OnRecord, Owns
  <2>3. ASSUME NEW r \in commands PROVE verdict \in Open
    <3>1. r.host \in Host /\ got[c][r.host] \in {"running", "unknown"}
      BY <1>0 DEF IInv, CommandsAgree, KernelTypeOK, Command, Owns
    <3> QED
      BY <2>1, <3>1 DEF Open
  <2>4. verdict \in Cleanup /\ verified \in SUBSET ran
    BY <2>1 DEF Cleanup, IInv
  <2> HIDE DEF verdict
  <2> QED
    BY <1>0, <1>2, <2>2, <2>3, <2>4, WriteLastKeeps DEF Open
<1> QED
  BY <1>1, <1>2 DEF RecordCleanup

\* A verification that goes on writes what it has read of the cleanup.
LEMMA ProbingKeeps ==
    ASSUME IInv, NEW c \in Call, pc[c] \in {"invalidate", "probe"},
           NEW hosts \in SUBSET Host, WriteOn(c, seen[c], hosts, "probe"),
           UNCHANGED <<ticket, intents, commands, faults>>,
           ran' \subseteq Host, hosts \subseteq ran',
           got' \in [Call -> [Host -> Answer]],
           \A d \in Call : d # c => got'[d] = got[d],
           Known(c)' \subseteq ran'
    PROVE  IInv'
<1>0. seen[c] \in Cleanup /\ "probe" \in Step
  BY DEF IInv, KernelTypeOK, Step
<1>1. /\ pc' \in [Call -> Step] /\ seen' \in [Call -> Cleanup]
      /\ pc'[c] = "probe" /\ seen'[c] = seen[c]
      /\ \A d \in Call : d # c => pc'[d] = pc[d] /\ seen'[d] = seen[d]
      /\ UNCHANGED <<op, mine, intent>>
      /\ cleanup' = seen[c] /\ verified' = hosts /\ fresh' = {c}
      /\ Accepts(c, seen[c])
  BY <1>0, WriteOnFacts DEF IInv
<1>2. cleanup' = cleanup
  BY <1>1 DEF IInv, CopiesAgree, Accepts
<1>3. KernelTypeOK'
  BY <1>1 DEF IInv, KernelTypeOK, ticket, intents
<1>4. ActionsInOrder' /\ OneIsOpen' /\ (verified \subseteq ran)' /\ CommandsAreOnRecord'
  BY <1>1, <1>2 DEF IInv, ActionsInOrder, OneIsOpen, CommandsAreOnRecord, OnRecord, intents
<1>5. CallsAgree'
  BY <1>1 DEF IInv, CallsAgree
<1>6. CopiesAgree'
  BY <1>1 DEF IInv, CopiesAgree, CallsAgree
<1>7. \A d \in Call : Owns(d)' => d # c /\ Owns(d)
  BY <1>1 DEF Owns
<1>8. OwnerIsOnRecord'
  BY <1>1, <1>2, <1>7 DEF IInv, OwnerIsOnRecord, OnRecord, intents
<1>9. CommandsAgree'
  BY <1>1, <1>7 DEF IInv, CommandsAgree, CommandOf
<1>10. CompletionIsQuiet'
  BY <1>1 DEF IInv, CompletionIsQuiet, ticket
<1> QED
  BY <1>3, <1>4, <1>5, <1>6, <1>8, <1>9, <1>10 DEF IInv

LEMMA InvalidateKeeps ==
    ASSUME IInv, NEW c \in Call, Invalidate(c)
    PROVE  IInv'
<1>0. pc[c] = "invalidate" /\ UNCHANGED <<ticket, intents, commands, faults>>
  BY DEF Invalidate
<1>1. CASE TurnedDown(c, seen[c]) /\ UNCHANGED ran
  BY <1>0, <1>1, TurnedDownKeeps
<1>2. CASE WriteOn(c, seen[c], {}, "probe") /\ ran' = {} /\ UNCHANGED got
  <2>1. got[c] = Nothing /\ got \in [Call -> [Host -> Answer]]
    BY <1>0 DEF IInv, CallsAgree, KernelTypeOK
  <2>2. Known(c)' = {}
    BY <1>2, <2>1 DEF Known, Nothing
  <2> QED
    BY <1>0, <1>2, <2>1, <2>2, ProbingKeeps
<1> QED
  BY <1>1, <1>2 DEF Invalidate

LEMMA ProbeKeeps ==
    ASSUME IInv, NEW c \in Call, NEW h \in Host, Probe(c, h)
    PROVE  IInv'
<1>0. /\ pc[c] = "probe"
      /\ UNCHANGED <<op, pc, mine, intent, seen, ticket, intents, transition, commands, faults>>
  BY DEF Probe
<1>1. PICK answer \in {"ok", "failed"} :
          /\ Learn(c, h, answer) /\ ran' \in SUBSET Host /\ ran \subseteq ran'
          /\ answer = "ok" => h \in ran'
  BY DEF Probe, IInv, KernelTypeOK
<1>2. /\ got' \in [Call -> [Host -> Answer]] /\ got'[c][h] = answer
      /\ \A g \in Host : g # h => got'[c][g] = got[c][g]
      /\ \A d \in Call : d # c => got'[d] = got[d]
  BY <1>1, LearnFacts DEF IInv, Answer
<1>3. KernelTypeOK'
  BY <1>0, <1>1, <1>2 DEF IInv, KernelTypeOK, ticket, intents, transition
<1>4. /\ ActionsInOrder' /\ OneIsOpen' /\ OwnerIsOnRecord' /\ CommandsAreOnRecord'
      /\ CompletionIsQuiet'
  BY <1>0 DEF IInv, ActionsInOrder, OneIsOpen, OwnerIsOnRecord, OnRecord, Owns,
              CommandsAreOnRecord, CompletionIsQuiet, ticket, intents, transition
<1>5. (verified \subseteq ran)'
  BY <1>0, <1>1 DEF IInv, transition
<1>6. CallsAgree'
  BY <1>0, <1>2 DEF IInv, CallsAgree
<1>7. CommandsAgree'
  BY <1>0, <1>2 DEF IInv, CommandsAgree, Owns, CommandOf
<1>8. CopiesAgree'
  <2>1. ASSUME NEW d \in fresh, pc[d] = "probe" PROVE Known(d)' \subseteq ran'
    <3>1. Known(d) \subseteq ran /\ d \in Call
      BY <2>1 DEF IInv, CopiesAgree, KernelTypeOK
    <3> QED
      BY <1>1, <1>2, <3>1 DEF Known
  <2> QED
    BY <1>0, <2>1 DEF IInv, CopiesAgree, transition
<1> QED
  BY <1>3, <1>4, <1>5, <1>6, <1>7, <1>8 DEF IInv

LEMMA ProbeFailsKeeps ==
    ASSUME IInv, NEW c \in Call, NEW h \in Host, ProbeFails(c, h)
    PROVE  IInv'
<1>0. pc[c] = "probe" /\ UNCHANGED <<ticket, intents, ran, commands, faults>>
  BY DEF ProbeFails
<1>1. CASE TurnedDown(c, seen[c])
  BY <1>0, <1>1, TurnedDownKeeps
<1>2. CASE WriteOn(c, seen[c], Known(c), "probe") /\ Learn(c, h, "failed")
  <2>1. Known(c) \subseteq ran /\ Known(c) \in SUBSET Host /\ ran \subseteq Host
    BY <1>0, <1>2 DEF WriteOn, Write, Accepts, IInv, CopiesAgree, KernelTypeOK, Known
  <2>2. /\ got' \in [Call -> [Host -> Answer]] /\ got'[c][h] = "failed"
        /\ \A g \in Host : g # h => got'[c][g] = got[c][g]
        /\ \A d \in Call : d # c => got'[d] = got[d]
    BY <1>2, LearnFacts DEF IInv, Answer
  <2>3. Known(c)' \subseteq ran'
    BY <1>0, <2>1, <2>2 DEF Known
  <2> QED
    BY <1>0, <1>2, <2>1, <2>2, <2>3, ProbingKeeps
<1> QED
  BY <1>1, <1>2 DEF ProbeFails

LEMMA RecordVerificationKeeps ==
    ASSUME IInv, NEW c \in Call, RecordVerification(c)
    PROVE  IInv'
<1>0. pc[c] = "probe" /\ UNCHANGED <<ticket, intents, ran, commands, faults>>
  BY DEF RecordVerification
<1>1. CASE TurnedDown(c, seen[c])
  BY <1>0, <1>1, TurnedDownKeeps
<1>2. CASE WriteLast(c, seen[c], Known(c))
  <2>1. Known(c) \in SUBSET ran /\ seen[c] = cleanup /\ seen[c] \in Cleanup
    BY <1>0, <1>2 DEF WriteLast, Write, Accepts, IInv, CopiesAgree, KernelTypeOK
  <2>2. \A r \in commands : r.op = "cleanup" => cleanup \in Open
    BY DEF IInv, CommandsAreOnRecord, OnRecord
  <2>3. \A d \in Call : Owns(d) /\ op[d] = "cleanup" => cleanup = "started"
    BY DEF IInv, OwnerIsOnRecord, OnRecord
  <2> QED
    BY <1>0, <1>2, <2>1, <2>2, <2>3, WriteLastKeeps
<1> QED
  BY <1>1, <1>2 DEF RecordVerification

LEMMA DieKeeps ==
    ASSUME IInv, NEW c \in Call, Die(c)
    PROVE  IInv'
<1>1. faults' \in 0 .. MaxFaults
  BY KernelAssumption DEF Die, IInv, KernelTypeOK
<1> QED
  BY <1>1, QuietLeavingKeeps DEF Die

-----------------------------------------------------------------------------

LEMMA InitEstablishes == Init => IInv
<1> SUFFICES ASSUME Init PROVE IInv
  OBVIOUS
<1>1. KernelTypeOK
  BY KernelAssumption DEF Init, KernelTypeOK, Progress, Cleanup, Step, Answer
<1>2. ActionsInOrder
  BY DEF Init, ActionsInOrder
<1>3. OneIsOpen
  BY DEF Init, OneIsOpen, Open
<1>4. CallsAgree
  BY DEF Init, CallsAgree, Nothing
<1>5. CopiesAgree /\ OwnerIsOnRecord
  BY DEF Init, CopiesAgree, OwnerIsOnRecord, Owns
<1>6. verified \subseteq ran /\ CommandsAreOnRecord /\ CommandsAgree
  BY DEF Init, CommandsAreOnRecord, CommandsAgree
<1>7. CompletionIsQuiet
  BY DEF Init, CompletionIsQuiet
<1> QED
  BY <1>1, <1>2, <1>3, <1>4, <1>5, <1>6, <1>7 DEF IInv

LEMMA NextKeeps ==
    ASSUME IInv, [Next]_vars
    PROVE  IInv'
<1>1. CASE UNCHANGED vars
  <2>1. KernelTypeOK'
    BY <1>1 DEF vars, IInv, KernelTypeOK, call, ticket, record, intents, transition
  <2>2. /\ ActionsInOrder' /\ OneIsOpen' /\ CallsAgree' /\ (verified \subseteq ran)'
        /\ OwnerIsOnRecord' /\ CommandsAreOnRecord' /\ CommandsAgree' /\ CompletionIsQuiet'
    BY <1>1 DEF vars, IInv, ActionsInOrder, OneIsOpen, CallsAgree, OwnerIsOnRecord,
                CommandsAreOnRecord, CommandsAgree, OnRecord, Owns, CommandOf,
                CompletionIsQuiet, ticket, record, intents, transition, call
  <2>3. CopiesAgree'
    BY <1>1 DEF vars, IInv, CopiesAgree, Known, record, transition, call
  <2> QED
    BY <2>1, <2>2, <2>3 DEF IInv
<1>2. ASSUME NEW c \in Call, ActionCall(c) PROVE IInv'
  BY <1>2, AuthorizeKeeps, ReserveKeeps, RecordActionKeeps DEF ActionCall
<1>3. ASSUME NEW c \in Call, TransitionCall(c) PROVE IInv'
  <2>1. CASE ReadTransition(c, "cleanup", "checkpoint") \/ ReadTransition(c, "verify", "invalidate")
    BY <2>1, ReadTransitionKeeps
  <2>2. CASE Checkpoint(c) \/ RecordCleanup(c) \/ Invalidate(c) \/ RecordVerification(c)
    BY <2>2, CheckpointKeeps, RecordCleanupKeeps, InvalidateKeeps, RecordVerificationKeeps
  <2> QED
    BY <1>3, <2>1, <2>2 DEF TransitionCall
<1>4. ASSUME NEW c \in Call, NEW h \in Host, OnHost(c, h) PROVE IInv'
  BY <1>4, HostKeeps, CommandEndsKeeps, ProbeKeeps, ProbeFailsKeeps DEF OnHost
<1>5. CASE LoseClaim \/ Dispatch \/ Pause \/ UserReplies \/ Submit \/ Complete
  BY <1>5, TicketKeeps, SubmitKeeps
<1> QED
  BY <1>1, <1>2, <1>3, <1>4, <1>5, DieKeeps, PrepareKeeps, ApprovalKeeps DEF Next

\* The inductive invariant: at most one piece of work is open on a step, the
\* call that reserved it or a command it left behind is the only one at work,
\* and what a fresh copy of the transition says is what is stored.
THEOREM InductiveInvariant == Spec => []IInv
<1>1. IInv /\ [Next]_vars => IInv'
  BY NextKeeps
<1> QED
  BY <1>1, InitEstablishes, PTL DEF Spec

\* Every field keeps its type.
THEOREM TypeCorrect == Spec => []KernelTypeOK
<1>1. IInv => KernelTypeOK
  BY DEF IInv
<1> QED
  BY <1>1, InductiveInvariant, PTL

\* A command that may run on a host is on record as started or indeterminate.
THEOREM CommandsRecorded == Spec => []CommandsAreOnRecord
<1>1. IInv => CommandsAreOnRecord
  BY DEF IInv
<1> QED
  BY <1>1, InductiveInvariant, PTL

\* Two commands never meet on a host.
THEOREM OneWriter == Spec => []OneWriterPerHost
<1>1. IInv => OneWriterPerHost
  BY DEF IInv, CommandsAgree, OneWriterPerHost, KernelTypeOK, Command
<1> QED
  BY <1>1, InductiveInvariant, PTL

\* Verified hosts were seen to run the kernel since the last invalidation.
THEOREM VerifiedRan == Spec => []VerifiedRanKernel
<1>1. IInv => VerifiedRanKernel
  BY DEF IInv, VerifiedRanKernel, AllVerified, KernelTypeOK
<1> QED
  BY <1>1, InductiveInvariant, PTL

\* A completed step leaves no command behind.
THEOREM CompletedQuiet == Spec => []CompletedIsQuiet
<1>1. IInv => CompletedIsQuiet
  BY DEF IInv, CompletedIsQuiet, CompletionIsQuiet
<1> QED
  BY <1>1, InductiveInvariant, PTL
=============================================================================
