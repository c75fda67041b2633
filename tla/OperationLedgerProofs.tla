----------------------- MODULE OperationLedgerProofs ------------------------
(***************************************************************************)
(* Proofs about OperationLedger, for any number of tool calls, any owners,   *)
(* lease time, last generation and number of faults.                         *)
(*                                                                           *)
(* The steps of a tool call change the calls in flight in one of two ways:   *)
(* those it waits for become orphans, and it may send one more.  GivenUpCalls *)
(* says what that means, and the lemma of each action takes the conjuncts of *)
(* IInv one by one.                                                          *)
(***************************************************************************)
EXTENDS OperationLedger, TLAPS

\* n and m differ in nothing but being awaited.
Same(n, m) == n.kind = m.kind /\ n.caller = m.caller /\ n.token = m.token

\* Giving up turns the awaited calls of c into orphans and leaves the others.
LEMMA GivenUpCalls ==
    ASSUME NEW c \in Caller, calls \subseteq Call
    PROVE  /\ GivenUp(Awaited(c)) \subseteq Call
           /\ \A m \in GivenUp(Awaited(c)) :
                \E n \in calls : Same(n, m) /\ (m.awaited => n = m /\ m.caller # c)
<1>1. \A n \in calls : Orphan(n) \in Call /\ Same(n, Orphan(n)) /\ ~Orphan(n).awaited
  BY DEF Call, Orphan, Same
<1>2. ASSUME NEW m \in GivenUp(Awaited(c))
      PROVE  /\ m \in Call
             /\ \E n \in calls : Same(n, m) /\ (m.awaited => n = m /\ m.caller # c)
  <2>1. CASE m \in calls \ Awaited(c)
    BY <2>1 DEF Awaited, Same
  <2>2. CASE m \in {Orphan(n) : n \in Awaited(c)}
    BY <1>1, <2>2 DEF Awaited
  <2> QED BY <1>2, <2>1, <2>2 DEF GivenUp
<1> QED BY <1>2

\* A request carries the token of its caller.
LEMMA RequestFields ==
    ASSUME LedgerTypeOK, NEW c \in Caller, NEW kind \in Kind
    PROVE  /\ Request(kind, c) \in Call
           /\ Request(kind, c).kind = kind
           /\ Request(kind, c).caller = c
           /\ Request(kind, c).token = token[c]
           /\ Request(kind, c).awaited
BY DEF Request, Call, LedgerTypeOK

\* Calls that agree in every field are one call.
LEMMA SameCall ==
    ASSUME NEW m \in Call, NEW n \in Call, Same(m, n), m.awaited = n.awaited
    PROVE  m = n
BY DEF Call, Same

LEMMA InitIInv == Init => IInv
BY LedgerAssumption
   DEF Init, IInv, LedgerTypeOK, State, Verdict, Waiting, Kind, Call, TokensAreIssued,
       TokensAreUnique, AwaitedIsCurrent, NotSettledEarly, PhasesAgree,
       HandlerOwnsOperation, Committed, LaunchesAreRecorded, ResultsAreTrue,
       ResultsAreRecorded

\* A call begins: it sends its acquisition, and holds no token yet.
LEMMA BeginStep ==
    ASSUME IInv, NEW c \in Caller, Begin(c)
    PROVE  IInv'
<1> DEFINE q == Request("acquire", c)
<1>a. /\ calls' = GivenUp(Awaited(c)) \cup {q}
      /\ q \in Call /\ q.kind = "acquire" /\ q.caller = c /\ q.token = token[c]
  BY RequestFields DEF IInv, Kind, Verdict, Begin, Send
<1>b. /\ calls' \subseteq Call
      /\ \A m \in calls' : m = q
           \/ \E n \in calls : Same(n, m) /\ (m.awaited => n = m /\ m.caller # c)
  BY <1>a, GivenUpCalls DEF IInv, LedgerTypeOK
<1> HIDE DEF q
<1>1. LedgerTypeOK'
  BY <1>a, <1>b, LedgerAssumption DEF Same, Begin, Send, row, history, IInv,
      LedgerTypeOK, State, Verdict, Waiting, Kind, Call
<1>2. TokensAreIssued'
  BY <1>a, <1>b DEF Same, Begin, Send, row, history, IInv, LedgerTypeOK, Call,
      TokensAreIssued
<1>3. TokensAreUnique'
  BY <1>a, <1>b DEF Same, Begin, Send, row, history, IInv, LedgerTypeOK, Call,
      TokensAreIssued, TokensAreUnique
<1>4. AwaitedIsCurrent'
  BY <1>a, <1>b DEF Same, Begin, Send, row, history, IInv, LedgerTypeOK, Call,
      AwaitedIsCurrent, PhasesAgree, Verdict
<1>5. NotSettledEarly'
  BY <1>a, <1>b DEF Same, Begin, Send, row, history, IInv, LedgerTypeOK, Call,
      NotSettledEarly, PhasesAgree, TokensAreUnique, Verdict
<1>6. PhasesAgree'
  BY <1>a, <1>b DEF Same, Begin, Send, row, history, IInv, LedgerTypeOK, Call,
      PhasesAgree, AwaitedIsCurrent
<1>7. HandlerOwnsOperation'
  BY <1>a, <1>b DEF Same, Begin, Send, row, history, IInv, LedgerTypeOK, Call,
      HandlerOwnsOperation, Committed, AwaitedIsCurrent
<1>8. LaunchesAreRecorded'
  BY <1>a, <1>b DEF Same, Begin, Send, row, history, IInv, LedgerTypeOK, Call,
      LaunchesAreRecorded, AwaitedIsCurrent
<1>9. ResultsAreTrue'
  BY <1>a, <1>b DEF Same, Begin, Send, row, history, IInv, LedgerTypeOK, Call,
      ResultsAreTrue, Verdict
<1>10. ResultsAreRecorded'
  BY <1>a, <1>b DEF Same, Begin, Send, row, history, IInv, LedgerTypeOK, Call,
      ResultsAreRecorded
<1> QED BY <1>1, <1>2, <1>3, <1>4, <1>5, <1>6, <1>7, <1>8, <1>9, <1>10 DEF IInv

\* A granted call records that it is prepared.
LEMMA PrepareStep ==
    ASSUME IInv, NEW c \in Caller, Prepare(c)
    PROVE  IInv'
<1> DEFINE q == Request("prepared", c)
<1>a. /\ calls' = GivenUp(Awaited(c)) \cup {q}
      /\ q \in Call /\ q.kind = "prepared" /\ q.caller = c /\ q.token = token[c]
  BY RequestFields DEF IInv, Kind, Verdict, Prepare, Send
<1>b. /\ calls' \subseteq Call
      /\ \A m \in calls' : m = q
           \/ \E n \in calls : Same(n, m) /\ (m.awaited => n = m /\ m.caller # c)
  BY <1>a, GivenUpCalls DEF IInv, LedgerTypeOK
<1> HIDE DEF q
<1>1. LedgerTypeOK'
  BY <1>a, <1>b, LedgerAssumption DEF Same, Prepare, Send, row, history, IInv,
      LedgerTypeOK, State, Verdict, Waiting, Kind, Call
<1>2. TokensAreIssued'
  BY <1>a, <1>b DEF Same, Prepare, Send, row, history, IInv, LedgerTypeOK,
      Call, TokensAreIssued
<1>3. TokensAreUnique'
  BY <1>a, <1>b DEF Same, Prepare, Send, row, history, IInv, LedgerTypeOK,
      Call, TokensAreIssued, TokensAreUnique
<1>4. AwaitedIsCurrent'
  BY <1>a, <1>b DEF Same, Prepare, Send, row, history, IInv, LedgerTypeOK,
      Call, AwaitedIsCurrent, PhasesAgree, Verdict
<1>5. NotSettledEarly'
  BY <1>a, <1>b DEF Same, Prepare, Send, row, history, IInv, LedgerTypeOK,
      Call, NotSettledEarly, PhasesAgree, TokensAreUnique, Verdict
<1>6. PhasesAgree'
  BY <1>a, <1>b DEF Same, Prepare, Send, row, history, IInv, LedgerTypeOK,
      Call, PhasesAgree, AwaitedIsCurrent
<1>7. HandlerOwnsOperation'
  BY <1>a, <1>b DEF Same, Prepare, Send, row, history, IInv, LedgerTypeOK,
      Call, HandlerOwnsOperation, Committed, AwaitedIsCurrent
<1>8. LaunchesAreRecorded'
  BY <1>a, <1>b DEF Same, Prepare, Send, row, history, IInv, LedgerTypeOK,
      Call, LaunchesAreRecorded, AwaitedIsCurrent
<1>9. ResultsAreTrue'
  BY <1>a, <1>b DEF Same, Prepare, Send, row, history, IInv, LedgerTypeOK,
      Call, ResultsAreTrue, Verdict
<1>10. ResultsAreRecorded'
  BY <1>a, <1>b DEF Same, Prepare, Send, row, history, IInv, LedgerTypeOK,
      Call, ResultsAreRecorded
<1> QED BY <1>1, <1>2, <1>3, <1>4, <1>5, <1>6, <1>7, <1>8, <1>9, <1>10 DEF IInv

\* A prepared call records that it starts.
LEMMA StartStep ==
    ASSUME IInv, NEW c \in Caller, Start(c)
    PROVE  IInv'
<1> DEFINE q == Request("side_effect_started", c)
<1>a. /\ calls' = GivenUp(Awaited(c)) \cup {q}
      /\ q \in Call /\ q.kind = "side_effect_started" /\ q.caller = c /\ q.token = token[c]
  BY RequestFields DEF IInv, Kind, Verdict, Start, Send
<1>b. /\ calls' \subseteq Call
      /\ \A m \in calls' : m = q
           \/ \E n \in calls : Same(n, m) /\ (m.awaited => n = m /\ m.caller # c)
  BY <1>a, GivenUpCalls DEF IInv, LedgerTypeOK
<1> HIDE DEF q
<1>1. LedgerTypeOK'
  BY <1>a, <1>b, LedgerAssumption DEF Same, Start, Send, row, history, IInv,
      LedgerTypeOK, State, Verdict, Waiting, Kind, Call
<1>2. TokensAreIssued'
  BY <1>a, <1>b DEF Same, Start, Send, row, history, IInv, LedgerTypeOK, Call,
      TokensAreIssued
<1>3. TokensAreUnique'
  BY <1>a, <1>b DEF Same, Start, Send, row, history, IInv, LedgerTypeOK, Call,
      TokensAreIssued, TokensAreUnique
<1>4. AwaitedIsCurrent'
  BY <1>a, <1>b DEF Same, Start, Send, row, history, IInv, LedgerTypeOK, Call,
      AwaitedIsCurrent, PhasesAgree, Verdict
<1>5. NotSettledEarly'
  BY <1>a, <1>b DEF Same, Start, Send, row, history, IInv, LedgerTypeOK, Call,
      NotSettledEarly, PhasesAgree, TokensAreUnique, Verdict
<1>6. PhasesAgree'
  BY <1>a, <1>b DEF Same, Start, Send, row, history, IInv, LedgerTypeOK, Call,
      PhasesAgree, AwaitedIsCurrent
<1>7. HandlerOwnsOperation'
  BY <1>a, <1>b DEF Same, Start, Send, row, history, IInv, LedgerTypeOK, Call,
      HandlerOwnsOperation, Committed, AwaitedIsCurrent
<1>8. LaunchesAreRecorded'
  BY <1>a, <1>b DEF Same, Start, Send, row, history, IInv, LedgerTypeOK, Call,
      LaunchesAreRecorded, AwaitedIsCurrent
<1>9. ResultsAreTrue'
  BY <1>a, <1>b DEF Same, Start, Send, row, history, IInv, LedgerTypeOK, Call,
      ResultsAreTrue, Verdict
<1>10. ResultsAreRecorded'
  BY <1>a, <1>b DEF Same, Start, Send, row, history, IInv, LedgerTypeOK, Call,
      ResultsAreRecorded
<1> QED BY <1>1, <1>2, <1>3, <1>4, <1>5, <1>6, <1>7, <1>8, <1>9, <1>10 DEF IInv

\* A call that was turned down asks to settle its operation.
LEMMA AbandonStep ==
    ASSUME IInv, NEW c \in Caller, Abandon(c)
    PROVE  IInv'
<1> DEFINE q == Request("indeterminate", c)
<1>a. /\ calls' = GivenUp(Awaited(c)) \cup {q}
      /\ q \in Call /\ q.kind = "indeterminate" /\ q.caller = c /\ q.token = token[c]
  BY RequestFields DEF IInv, Kind, Verdict, Abandon, Send
<1>b. /\ calls' \subseteq Call
      /\ \A m \in calls' : m = q
           \/ \E n \in calls : Same(n, m) /\ (m.awaited => n = m /\ m.caller # c)
  BY <1>a, GivenUpCalls DEF IInv, LedgerTypeOK
<1> HIDE DEF q
<1>1. LedgerTypeOK'
  BY <1>a, <1>b, LedgerAssumption DEF Same, Abandon, Send, row, history, IInv,
      LedgerTypeOK, State, Verdict, Waiting, Kind, Call
<1>2. TokensAreIssued'
  BY <1>a, <1>b DEF Same, Abandon, Send, row, history, IInv, LedgerTypeOK,
      Call, TokensAreIssued
<1>3. TokensAreUnique'
  BY <1>a, <1>b DEF Same, Abandon, Send, row, history, IInv, LedgerTypeOK,
      Call, TokensAreIssued, TokensAreUnique
<1>4. AwaitedIsCurrent'
  BY <1>a, <1>b DEF Same, Abandon, Send, row, history, IInv, LedgerTypeOK,
      Call, AwaitedIsCurrent, PhasesAgree, Verdict
<1>5. NotSettledEarly'
  BY <1>a, <1>b DEF Same, Abandon, Send, row, history, IInv, LedgerTypeOK,
      Call, NotSettledEarly, PhasesAgree, TokensAreUnique, Verdict
<1>6. PhasesAgree'
  BY <1>a, <1>b DEF Same, Abandon, Send, row, history, IInv, LedgerTypeOK,
      Call, PhasesAgree, AwaitedIsCurrent
<1>7. HandlerOwnsOperation'
  BY <1>a, <1>b DEF Same, Abandon, Send, row, history, IInv, LedgerTypeOK,
      Call, HandlerOwnsOperation, Committed, AwaitedIsCurrent
<1>8. LaunchesAreRecorded'
  BY <1>a, <1>b DEF Same, Abandon, Send, row, history, IInv, LedgerTypeOK,
      Call, LaunchesAreRecorded, AwaitedIsCurrent
<1>9. ResultsAreTrue'
  BY <1>a, <1>b DEF Same, Abandon, Send, row, history, IInv, LedgerTypeOK,
      Call, ResultsAreTrue, Verdict
<1>10. ResultsAreRecorded'
  BY <1>a, <1>b DEF Same, Abandon, Send, row, history, IInv, LedgerTypeOK,
      Call, ResultsAreRecorded
<1> QED BY <1>1, <1>2, <1>3, <1>4, <1>5, <1>6, <1>7, <1>8, <1>9, <1>10 DEF IInv

\* A call that is turned down, or answered at once, ends.
LEMMA RejectedStep ==
    ASSUME IInv, NEW c \in Caller, Rejected(c)
    PROVE  IInv'
<1>a. calls' = GivenUp(Awaited(c))
  BY DEF Rejected, End
<1>b. /\ calls' \subseteq Call
      /\ \A m \in calls' :
           \E n \in calls : Same(n, m) /\ (m.awaited => n = m /\ m.caller # c)
  BY <1>a, GivenUpCalls DEF IInv, LedgerTypeOK
<1>1. LedgerTypeOK'
  BY <1>b, LedgerAssumption DEF Same, Fault, Rejected, End, row, history, IInv,
      LedgerTypeOK, State, Verdict, Waiting, Kind, Call
<1>2. TokensAreIssued'
  BY <1>b DEF Same, Fault, Rejected, End, row, history, IInv, LedgerTypeOK,
      Call, TokensAreIssued
<1>3. TokensAreUnique'
  BY <1>b DEF Same, Fault, Rejected, End, row, history, IInv, LedgerTypeOK,
      Call, TokensAreIssued, TokensAreUnique
<1>4. AwaitedIsCurrent'
  BY <1>b DEF Same, Fault, Rejected, End, row, history, IInv, LedgerTypeOK,
      Call, AwaitedIsCurrent, PhasesAgree, Verdict
<1>5. NotSettledEarly'
  BY <1>b DEF Same, Fault, Rejected, End, row, history, IInv, LedgerTypeOK,
      Call, NotSettledEarly, PhasesAgree, TokensAreUnique, Verdict
<1>6. PhasesAgree'
  BY <1>b DEF Same, Fault, Rejected, End, row, history, IInv, LedgerTypeOK,
      Call, PhasesAgree, AwaitedIsCurrent
<1>7. HandlerOwnsOperation'
  BY <1>b DEF Same, Fault, Rejected, End, row, history, IInv, LedgerTypeOK,
      Call, HandlerOwnsOperation, Committed, AwaitedIsCurrent
<1>8. LaunchesAreRecorded'
  BY <1>b DEF Same, Fault, Rejected, End, row, history, IInv, LedgerTypeOK,
      Call, LaunchesAreRecorded, AwaitedIsCurrent
<1>9. ResultsAreTrue'
  BY <1>b DEF Same, Fault, Rejected, End, row, history, IInv, LedgerTypeOK,
      Call, ResultsAreTrue, Verdict
<1>10. ResultsAreRecorded'
  BY <1>b DEF Same, Fault, Rejected, End, row, history, IInv, LedgerTypeOK,
      Call, ResultsAreRecorded
<1> QED BY <1>1, <1>2, <1>3, <1>4, <1>5, <1>6, <1>7, <1>8, <1>9, <1>10 DEF IInv

\* A call ends with its result or an error.
LEMMA RespondStep ==
    ASSUME IInv, NEW c \in Caller, Respond(c)
    PROVE  IInv'
<1>a. calls' = GivenUp(Awaited(c))
  BY DEF Respond, End
<1>b. /\ calls' \subseteq Call
      /\ \A m \in calls' :
           \E n \in calls : Same(n, m) /\ (m.awaited => n = m /\ m.caller # c)
  BY <1>a, GivenUpCalls DEF IInv, LedgerTypeOK
<1>1. LedgerTypeOK'
  BY <1>b, LedgerAssumption DEF Same, Fault, Respond, End, row, history, IInv,
      LedgerTypeOK, State, Verdict, Waiting, Kind, Call
<1>2. TokensAreIssued'
  BY <1>b DEF Same, Fault, Respond, End, row, history, IInv, LedgerTypeOK,
      Call, TokensAreIssued
<1>3. TokensAreUnique'
  BY <1>b DEF Same, Fault, Respond, End, row, history, IInv, LedgerTypeOK,
      Call, TokensAreIssued, TokensAreUnique
<1>4. AwaitedIsCurrent'
  BY <1>b DEF Same, Fault, Respond, End, row, history, IInv, LedgerTypeOK,
      Call, AwaitedIsCurrent, PhasesAgree, Verdict
<1>5. NotSettledEarly'
  BY <1>b DEF Same, Fault, Respond, End, row, history, IInv, LedgerTypeOK,
      Call, NotSettledEarly, PhasesAgree, TokensAreUnique, Verdict
<1>6. PhasesAgree'
  BY <1>b DEF Same, Fault, Respond, End, row, history, IInv, LedgerTypeOK,
      Call, PhasesAgree, AwaitedIsCurrent
<1>7. HandlerOwnsOperation'
  BY <1>b DEF Same, Fault, Respond, End, row, history, IInv, LedgerTypeOK,
      Call, HandlerOwnsOperation, Committed, AwaitedIsCurrent
<1>8. LaunchesAreRecorded'
  BY <1>b DEF Same, Fault, Respond, End, row, history, IInv, LedgerTypeOK,
      Call, LaunchesAreRecorded, AwaitedIsCurrent
<1>9. ResultsAreTrue'
  BY <1>b DEF Same, Fault, Respond, End, row, history, IInv, LedgerTypeOK,
      Call, ResultsAreTrue, Verdict
<1>10. ResultsAreRecorded'
  BY <1>b DEF Same, Fault, Respond, End, row, history, IInv, LedgerTypeOK,
      Call, ResultsAreRecorded
<1> QED BY <1>1, <1>2, <1>3, <1>4, <1>5, <1>6, <1>7, <1>8, <1>9, <1>10 DEF IInv

\* A process dies, and what its tool did is not known.
LEMMA CrashStep ==
    ASSUME IInv, NEW c \in Caller, Crash(c)
    PROVE  IInv'
<1>a. calls' = GivenUp(Awaited(c))
  BY DEF Crash, End
<1>b. /\ calls' \subseteq Call
      /\ \A m \in calls' :
           \E n \in calls : Same(n, m) /\ (m.awaited => n = m /\ m.caller # c)
  BY <1>a, GivenUpCalls DEF IInv, LedgerTypeOK
<1>1. LedgerTypeOK'
  BY <1>b, LedgerAssumption DEF Same, Fault, Crash, End, row, history, IInv,
      LedgerTypeOK, State, Verdict, Waiting, Kind, Call
<1>2. TokensAreIssued'
  BY <1>b DEF Same, Fault, Crash, End, row, history, IInv, LedgerTypeOK, Call,
      TokensAreIssued
<1>3. TokensAreUnique'
  BY <1>b DEF Same, Fault, Crash, End, row, history, IInv, LedgerTypeOK, Call,
      TokensAreIssued, TokensAreUnique
<1>4. AwaitedIsCurrent'
  BY <1>b DEF Same, Fault, Crash, End, row, history, IInv, LedgerTypeOK, Call,
      AwaitedIsCurrent, PhasesAgree, Verdict
<1>5. NotSettledEarly'
  BY <1>b DEF Same, Fault, Crash, End, row, history, IInv, LedgerTypeOK, Call,
      NotSettledEarly, PhasesAgree, TokensAreUnique, Verdict
<1>6. PhasesAgree'
  BY <1>b DEF Same, Fault, Crash, End, row, history, IInv, LedgerTypeOK, Call,
      PhasesAgree, AwaitedIsCurrent
<1>7. HandlerOwnsOperation'
  BY <1>b DEF Same, Fault, Crash, End, row, history, IInv, LedgerTypeOK, Call,
      HandlerOwnsOperation, Committed, AwaitedIsCurrent
<1>8. LaunchesAreRecorded'
  BY <1>b DEF Same, Fault, Crash, End, row, history, IInv, LedgerTypeOK, Call,
      LaunchesAreRecorded, AwaitedIsCurrent, HandlerOwnsOperation, Committed,
      TokensAreUnique, PhasesAgree, ResultsAreTrue, Verdict, State
<1>9. ResultsAreTrue'
  BY <1>b DEF Same, Fault, Crash, End, row, history, IInv, LedgerTypeOK, Call,
      ResultsAreTrue, Verdict, LaunchesAreRecorded, HandlerOwnsOperation,
      Committed, TokensAreUnique, PhasesAgree, State
<1>10. ResultsAreRecorded'
  BY <1>b DEF Same, Fault, Crash, End, row, history, IInv, LedgerTypeOK, Call,
      ResultsAreRecorded
<1> QED BY <1>1, <1>2, <1>3, <1>4, <1>5, <1>6, <1>7, <1>8, <1>9, <1>10 DEF IInv

\* A renewal is given up.
LEMMA RenewalTimesOutStep ==
    ASSUME IInv, NEW c \in Caller, RenewalTimesOut(c)
    PROVE  IInv'
<1>a. calls' = GivenUp(Awaited(c))
  BY DEF RenewalTimesOut, End
<1>b. /\ calls' \subseteq Call
      /\ \A m \in calls' :
           \E n \in calls : Same(n, m) /\ (m.awaited => n = m /\ m.caller # c)
  BY <1>a, GivenUpCalls DEF IInv, LedgerTypeOK
<1>1. LedgerTypeOK'
  BY <1>b, LedgerAssumption DEF Same, Fault, RenewalTimesOut, row, history,
      IInv, LedgerTypeOK, State, Verdict, Waiting, Kind, Call
<1>2. TokensAreIssued'
  BY <1>b DEF Same, Fault, RenewalTimesOut, row, history, IInv, LedgerTypeOK,
      Call, TokensAreIssued
<1>3. TokensAreUnique'
  BY <1>b DEF Same, Fault, RenewalTimesOut, row, history, IInv, LedgerTypeOK,
      Call, TokensAreIssued, TokensAreUnique
<1>4. AwaitedIsCurrent'
  BY <1>b DEF Same, Fault, RenewalTimesOut, row, history, IInv, LedgerTypeOK,
      Call, AwaitedIsCurrent, PhasesAgree, Verdict
<1>5. NotSettledEarly'
  BY <1>b DEF Same, Fault, RenewalTimesOut, row, history, IInv, LedgerTypeOK,
      Call, NotSettledEarly, PhasesAgree, TokensAreUnique, Verdict
<1>6. PhasesAgree'
  BY <1>b DEF Same, Fault, RenewalTimesOut, row, history, IInv, LedgerTypeOK,
      Call, PhasesAgree, AwaitedIsCurrent
<1>7. HandlerOwnsOperation'
  BY <1>b DEF Same, Fault, RenewalTimesOut, row, history, IInv, LedgerTypeOK,
      Call, HandlerOwnsOperation, Committed, AwaitedIsCurrent
<1>8. LaunchesAreRecorded'
  BY <1>b DEF Same, Fault, RenewalTimesOut, row, history, IInv, LedgerTypeOK,
      Call, LaunchesAreRecorded, AwaitedIsCurrent
<1>9. ResultsAreTrue'
  BY <1>b DEF Same, Fault, RenewalTimesOut, row, history, IInv, LedgerTypeOK,
      Call, ResultsAreTrue, Verdict
<1>10. ResultsAreRecorded'
  BY <1>b DEF Same, Fault, RenewalTimesOut, row, history, IInv, LedgerTypeOK,
      Call, ResultsAreRecorded
<1> QED BY <1>1, <1>2, <1>3, <1>4, <1>5, <1>6, <1>7, <1>8, <1>9, <1>10 DEF IInv

\* A cancelled join gives the renewal up.
LEMMA JoinCancelledStep ==
    ASSUME IInv, NEW c \in Caller, JoinCancelled(c)
    PROVE  IInv'
<1>a. calls' = GivenUp(Awaited(c))
  BY DEF JoinCancelled, End
<1>b. /\ calls' \subseteq Call
      /\ \A m \in calls' :
           \E n \in calls : Same(n, m) /\ (m.awaited => n = m /\ m.caller # c)
  BY <1>a, GivenUpCalls DEF IInv, LedgerTypeOK
<1>1. LedgerTypeOK'
  BY <1>b, LedgerAssumption DEF Same, Fault, JoinCancelled, row, history, IInv,
      LedgerTypeOK, State, Verdict, Waiting, Kind, Call
<1>2. TokensAreIssued'
  BY <1>b DEF Same, Fault, JoinCancelled, row, history, IInv, LedgerTypeOK,
      Call, TokensAreIssued
<1>3. TokensAreUnique'
  BY <1>b DEF Same, Fault, JoinCancelled, row, history, IInv, LedgerTypeOK,
      Call, TokensAreIssued, TokensAreUnique
<1>4. AwaitedIsCurrent'
  BY <1>b DEF Same, Fault, JoinCancelled, row, history, IInv, LedgerTypeOK,
      Call, AwaitedIsCurrent, PhasesAgree, Verdict
<1>5. NotSettledEarly'
  BY <1>b DEF Same, Fault, JoinCancelled, row, history, IInv, LedgerTypeOK,
      Call, NotSettledEarly, PhasesAgree, TokensAreUnique, Verdict
<1>6. PhasesAgree'
  BY <1>b DEF Same, Fault, JoinCancelled, row, history, IInv, LedgerTypeOK,
      Call, PhasesAgree, AwaitedIsCurrent
<1>7. HandlerOwnsOperation'
  BY <1>b DEF Same, Fault, JoinCancelled, row, history, IInv, LedgerTypeOK,
      Call, HandlerOwnsOperation, Committed, AwaitedIsCurrent
<1>8. LaunchesAreRecorded'
  BY <1>b DEF Same, Fault, JoinCancelled, row, history, IInv, LedgerTypeOK,
      Call, LaunchesAreRecorded, AwaitedIsCurrent
<1>9. ResultsAreTrue'
  BY <1>b DEF Same, Fault, JoinCancelled, row, history, IInv, LedgerTypeOK,
      Call, ResultsAreTrue, Verdict
<1>10. ResultsAreRecorded'
  BY <1>b DEF Same, Fault, JoinCancelled, row, history, IInv, LedgerTypeOK,
      Call, ResultsAreRecorded
<1> QED BY <1>1, <1>2, <1>3, <1>4, <1>5, <1>6, <1>7, <1>8, <1>9, <1>10 DEF IInv

\* The tool is launched.
LEMMA LaunchStep ==
    ASSUME IInv, NEW c \in Caller, Launch(c)
    PROVE  IInv'
<1>1. LedgerTypeOK'
  BY LedgerAssumption DEF Launch, row, IInv, LedgerTypeOK, State, Verdict,
      Waiting, Kind, Call
<1>2. TokensAreIssued'
  BY DEF Launch, row, IInv, LedgerTypeOK, Call, TokensAreIssued
<1>3. TokensAreUnique'
  BY DEF Launch, row, IInv, LedgerTypeOK, Call, TokensAreIssued,
      TokensAreUnique
<1>4. AwaitedIsCurrent'
  BY DEF Launch, row, IInv, LedgerTypeOK, Call, AwaitedIsCurrent, PhasesAgree,
      Verdict
<1>5. NotSettledEarly'
  BY DEF Launch, row, IInv, LedgerTypeOK, Call, NotSettledEarly, PhasesAgree,
      TokensAreUnique, Verdict
<1>6. PhasesAgree'
  BY DEF Launch, row, IInv, LedgerTypeOK, Call, PhasesAgree, AwaitedIsCurrent
<1>7. HandlerOwnsOperation'
  BY DEF Launch, row, IInv, LedgerTypeOK, Call, HandlerOwnsOperation,
      Committed, AwaitedIsCurrent
<1>8. LaunchesAreRecorded'
  BY DEF Launch, row, IInv, LedgerTypeOK, Call, LaunchesAreRecorded,
      AwaitedIsCurrent, HandlerOwnsOperation, Committed, TokensAreUnique,
      PhasesAgree, ResultsAreTrue, Verdict, State
<1>9. ResultsAreTrue'
  BY DEF Launch, row, IInv, LedgerTypeOK, Call, ResultsAreTrue, Verdict,
      LaunchesAreRecorded, HandlerOwnsOperation, Committed, TokensAreUnique,
      PhasesAgree, State
<1>10. ResultsAreRecorded'
  BY DEF Launch, row, IInv, LedgerTypeOK, Call, ResultsAreRecorded
<1> QED BY <1>1, <1>2, <1>3, <1>4, <1>5, <1>6, <1>7, <1>8, <1>9, <1>10 DEF IInv

\* A renewal is sent.
LEMMA SendRenewalStep ==
    ASSUME IInv, NEW c \in Caller, SendRenewal(c)
    PROVE  IInv'
<1> DEFINE q == Request("renew", c)
<1>a. /\ calls' = calls \cup {q}
      /\ q \in Call /\ q.kind = "renew" /\ q.caller = c /\ q.token = token[c]
  BY RequestFields DEF IInv, Kind, Verdict, SendRenewal
<1> HIDE DEF q
<1>1. LedgerTypeOK'
  BY <1>a, LedgerAssumption DEF SendRenewal, row, history, IInv, LedgerTypeOK,
      State, Verdict, Waiting, Kind, Call
<1>2. TokensAreIssued'
  BY <1>a DEF SendRenewal, row, history, IInv, LedgerTypeOK, Call,
      TokensAreIssued
<1>3. TokensAreUnique'
  BY <1>a DEF SendRenewal, row, history, IInv, LedgerTypeOK, Call,
      TokensAreIssued, TokensAreUnique
<1>4. AwaitedIsCurrent'
  BY <1>a DEF SendRenewal, row, history, IInv, LedgerTypeOK, Call,
      AwaitedIsCurrent, PhasesAgree, Verdict
<1>5. NotSettledEarly'
  BY <1>a DEF SendRenewal, row, history, IInv, LedgerTypeOK, Call,
      NotSettledEarly, PhasesAgree, TokensAreUnique, Verdict
<1>6. PhasesAgree'
  BY <1>a DEF SendRenewal, row, history, IInv, LedgerTypeOK, Call, PhasesAgree,
      AwaitedIsCurrent
<1>7. HandlerOwnsOperation'
  BY <1>a DEF SendRenewal, row, history, IInv, LedgerTypeOK, Call,
      HandlerOwnsOperation, Committed, AwaitedIsCurrent
<1>8. LaunchesAreRecorded'
  BY <1>a DEF SendRenewal, row, history, IInv, LedgerTypeOK, Call,
      LaunchesAreRecorded, AwaitedIsCurrent
<1>9. ResultsAreTrue'
  BY <1>a DEF SendRenewal, row, history, IInv, LedgerTypeOK, Call,
      ResultsAreTrue, Verdict
<1>10. ResultsAreRecorded'
  BY <1>a DEF SendRenewal, row, history, IInv, LedgerTypeOK, Call,
      ResultsAreRecorded
<1> QED BY <1>1, <1>2, <1>3, <1>4, <1>5, <1>6, <1>7, <1>8, <1>9, <1>10 DEF IInv

\* The tool ends.
LEMMA ReturnStep ==
    ASSUME IInv, NEW c \in Caller, NEW v \in Verdict, Return(c, v)
    PROVE  IInv'
<1>1. LedgerTypeOK'
  BY LedgerAssumption DEF Return, row, IInv, LedgerTypeOK, State, Verdict,
      Waiting, Kind, Call
<1>2. TokensAreIssued'
  BY DEF Return, row, IInv, LedgerTypeOK, Call, TokensAreIssued
<1>3. TokensAreUnique'
  BY DEF Return, row, IInv, LedgerTypeOK, Call, TokensAreIssued,
      TokensAreUnique
<1>4. AwaitedIsCurrent'
  BY DEF Return, row, IInv, LedgerTypeOK, Call, AwaitedIsCurrent, PhasesAgree,
      Verdict
<1>5. NotSettledEarly'
  BY DEF Return, row, IInv, LedgerTypeOK, Call, NotSettledEarly, PhasesAgree,
      TokensAreUnique, Verdict
<1>6. PhasesAgree'
  BY DEF Return, row, IInv, LedgerTypeOK, Call, PhasesAgree, AwaitedIsCurrent
<1>7. HandlerOwnsOperation'
  BY DEF Return, row, IInv, LedgerTypeOK, Call, HandlerOwnsOperation,
      Committed, AwaitedIsCurrent
<1>8. LaunchesAreRecorded'
  BY DEF Return, row, IInv, LedgerTypeOK, Call, LaunchesAreRecorded,
      AwaitedIsCurrent, HandlerOwnsOperation, Committed, TokensAreUnique,
      PhasesAgree, ResultsAreTrue, Verdict, State
<1>9. ResultsAreTrue'
  BY DEF Return, row, IInv, LedgerTypeOK, Call, ResultsAreTrue, Verdict,
      LaunchesAreRecorded, HandlerOwnsOperation, Committed, TokensAreUnique,
      PhasesAgree, State
<1>10. ResultsAreRecorded'
  BY DEF Return, row, IInv, LedgerTypeOK, Call, ResultsAreRecorded
<1> QED BY <1>1, <1>2, <1>3, <1>4, <1>5, <1>6, <1>7, <1>8, <1>9, <1>10 DEF IInv

\* What the tool returned is to be recorded.
LEMMA ConcludeWithVerdict ==
    ASSUME IInv, NEW c \in Caller, Conclude(c),
           verdict[c] # "indeterminate", renewal[c] # "failed",
           Send(c, "completing", verdict[c])
    PROVE  IInv'
<1> DEFINE q == Request(verdict[c], c)
<1>a. /\ calls' = GivenUp(Awaited(c)) \cup {q}
      /\ q \in Call /\ q.kind = verdict[c] /\ q.caller = c /\ q.token = token[c]
  <2>1. verdict[c] \in Kind
    BY DEF IInv, ResultsAreTrue, Kind, Conclude
  <2> QED
    BY <2>1, RequestFields DEF IInv, Send
<1>b. /\ calls' \subseteq Call
      /\ \A m \in calls' : m = q
           \/ \E n \in calls : Same(n, m) /\ (m.awaited => n = m /\ m.caller # c)
  BY <1>a, GivenUpCalls DEF IInv, LedgerTypeOK
<1> HIDE DEF q
<1>1. LedgerTypeOK'
  BY <1>a, <1>b, LedgerAssumption DEF Same, Conclude, Send, row, history, IInv,
      LedgerTypeOK, State, Verdict, Waiting, Kind, Call
<1>2. TokensAreIssued'
  BY <1>a, <1>b DEF Same, Conclude, Send, row, history, IInv, LedgerTypeOK,
      Call, TokensAreIssued
<1>3. TokensAreUnique'
  BY <1>a, <1>b DEF Same, Conclude, Send, row, history, IInv, LedgerTypeOK,
      Call, TokensAreIssued, TokensAreUnique
<1>4. AwaitedIsCurrent'
  BY <1>a, <1>b DEF Same, Conclude, Send, row, history, IInv, LedgerTypeOK,
      Call, AwaitedIsCurrent, PhasesAgree, Verdict
<1>5. NotSettledEarly'
  BY <1>a, <1>b DEF Same, Conclude, Send, row, history, IInv, LedgerTypeOK,
      Call, NotSettledEarly, PhasesAgree, TokensAreUnique, Verdict
<1>6. PhasesAgree'
  BY <1>a, <1>b DEF Same, Conclude, Send, row, history, IInv, LedgerTypeOK,
      Call, PhasesAgree, AwaitedIsCurrent
<1>7. HandlerOwnsOperation'
  BY <1>a, <1>b DEF Same, Conclude, Send, row, history, IInv, LedgerTypeOK,
      Call, HandlerOwnsOperation, Committed, AwaitedIsCurrent
<1>8. LaunchesAreRecorded'
  BY <1>a, <1>b DEF Same, Conclude, Send, row, history, IInv, LedgerTypeOK,
      Call, LaunchesAreRecorded, AwaitedIsCurrent
<1>9. ResultsAreTrue'
  BY <1>a, <1>b DEF Same, Conclude, Send, row, history, IInv, LedgerTypeOK,
      Call, ResultsAreTrue, Verdict
<1>10. ResultsAreRecorded'
  BY <1>a, <1>b DEF Same, Conclude, Send, row, history, IInv, LedgerTypeOK,
      Call, ResultsAreRecorded
<1> QED BY <1>1, <1>2, <1>3, <1>4, <1>5, <1>6, <1>7, <1>8, <1>9, <1>10 DEF IInv

\* The end of the tool is not confirmed.
LEMMA ConcludeInDoubt ==
    ASSUME IInv, NEW c \in Caller, Conclude(c), Send(c, "voiding", "indeterminate")
    PROVE  IInv'
<1> DEFINE q == Request("indeterminate", c)
<1>a. /\ calls' = GivenUp(Awaited(c)) \cup {q}
      /\ q \in Call /\ q.kind = "indeterminate" /\ q.caller = c /\ q.token = token[c]
  BY RequestFields DEF IInv, LedgerTypeOK, Kind, Verdict, Conclude, Send
<1>b. /\ calls' \subseteq Call
      /\ \A m \in calls' : m = q
           \/ \E n \in calls : Same(n, m) /\ (m.awaited => n = m /\ m.caller # c)
  BY <1>a, GivenUpCalls DEF IInv, LedgerTypeOK
<1> HIDE DEF q
<1>1. LedgerTypeOK'
  BY <1>a, <1>b, LedgerAssumption DEF Same, Conclude, Send, row, history, IInv,
      LedgerTypeOK, State, Verdict, Waiting, Kind, Call
<1>2. TokensAreIssued'
  BY <1>a, <1>b DEF Same, Conclude, Send, row, history, IInv, LedgerTypeOK,
      Call, TokensAreIssued
<1>3. TokensAreUnique'
  BY <1>a, <1>b DEF Same, Conclude, Send, row, history, IInv, LedgerTypeOK,
      Call, TokensAreIssued, TokensAreUnique
<1>4. AwaitedIsCurrent'
  BY <1>a, <1>b DEF Same, Conclude, Send, row, history, IInv, LedgerTypeOK,
      Call, AwaitedIsCurrent, PhasesAgree, Verdict
<1>5. NotSettledEarly'
  BY <1>a, <1>b DEF Same, Conclude, Send, row, history, IInv, LedgerTypeOK,
      Call, NotSettledEarly, PhasesAgree, TokensAreUnique, Verdict
<1>6. PhasesAgree'
  BY <1>a, <1>b DEF Same, Conclude, Send, row, history, IInv, LedgerTypeOK,
      Call, PhasesAgree, AwaitedIsCurrent
<1>7. HandlerOwnsOperation'
  BY <1>a, <1>b DEF Same, Conclude, Send, row, history, IInv, LedgerTypeOK,
      Call, HandlerOwnsOperation, Committed, AwaitedIsCurrent
<1>8. LaunchesAreRecorded'
  BY <1>a, <1>b DEF Same, Conclude, Send, row, history, IInv, LedgerTypeOK,
      Call, LaunchesAreRecorded, AwaitedIsCurrent
<1>9. ResultsAreTrue'
  BY <1>a, <1>b DEF Same, Conclude, Send, row, history, IInv, LedgerTypeOK,
      Call, ResultsAreTrue, Verdict
<1>10. ResultsAreRecorded'
  BY <1>a, <1>b DEF Same, Conclude, Send, row, history, IInv, LedgerTypeOK,
      Call, ResultsAreRecorded
<1> QED BY <1>1, <1>2, <1>3, <1>4, <1>5, <1>6, <1>7, <1>8, <1>9, <1>10 DEF IInv

\* A call that gives up before its launch asks to settle its operation.
LEMMA TimesOutEarly ==
    ASSUME IInv, NEW c \in Caller, TimesOut(c), pc[c] \in {"preparing", "starting"},
           Send(c, "voiding", "indeterminate")
    PROVE  IInv'
<1> DEFINE q == Request("indeterminate", c)
<1>a. /\ calls' = GivenUp(Awaited(c)) \cup {q}
      /\ q \in Call /\ q.kind = "indeterminate" /\ q.caller = c /\ q.token = token[c]
  BY RequestFields DEF IInv, LedgerTypeOK, Kind, Verdict, TimesOut, Send
<1>b. /\ calls' \subseteq Call
      /\ \A m \in calls' : m = q
           \/ \E n \in calls : Same(n, m) /\ (m.awaited => n = m /\ m.caller # c)
  BY <1>a, GivenUpCalls DEF IInv, LedgerTypeOK
<1> HIDE DEF q
<1>1. LedgerTypeOK'
  BY <1>a, <1>b, LedgerAssumption DEF Same, Fault, TimesOut, Send, row,
      history, IInv, LedgerTypeOK, State, Verdict, Waiting, Kind, Call
<1>2. TokensAreIssued'
  BY <1>a, <1>b DEF Same, Fault, TimesOut, Send, row, history, IInv,
      LedgerTypeOK, Call, TokensAreIssued
<1>3. TokensAreUnique'
  BY <1>a, <1>b DEF Same, Fault, TimesOut, Send, row, history, IInv,
      LedgerTypeOK, Call, TokensAreIssued, TokensAreUnique
<1>4. AwaitedIsCurrent'
  BY <1>a, <1>b DEF Same, Fault, TimesOut, Send, row, history, IInv,
      LedgerTypeOK, Call, AwaitedIsCurrent, PhasesAgree, Verdict
<1>5. NotSettledEarly'
  BY <1>a, <1>b DEF Same, Fault, TimesOut, Send, row, history, IInv,
      LedgerTypeOK, Call, NotSettledEarly, PhasesAgree, TokensAreUnique,
      Verdict
<1>6. PhasesAgree'
  BY <1>a, <1>b DEF Same, Fault, TimesOut, Send, row, history, IInv,
      LedgerTypeOK, Call, PhasesAgree, AwaitedIsCurrent
<1>7. HandlerOwnsOperation'
  BY <1>a, <1>b DEF Same, Fault, TimesOut, Send, row, history, IInv,
      LedgerTypeOK, Call, HandlerOwnsOperation, Committed, AwaitedIsCurrent
<1>8. LaunchesAreRecorded'
  BY <1>a, <1>b DEF Same, Fault, TimesOut, Send, row, history, IInv,
      LedgerTypeOK, Call, LaunchesAreRecorded, AwaitedIsCurrent
<1>9. ResultsAreTrue'
  BY <1>a, <1>b DEF Same, Fault, TimesOut, Send, row, history, IInv,
      LedgerTypeOK, Call, ResultsAreTrue, Verdict
<1>10. ResultsAreRecorded'
  BY <1>a, <1>b DEF Same, Fault, TimesOut, Send, row, history, IInv,
      LedgerTypeOK, Call, ResultsAreRecorded
<1> QED BY <1>1, <1>2, <1>3, <1>4, <1>5, <1>6, <1>7, <1>8, <1>9, <1>10 DEF IInv

\* A call that gives up otherwise ends.
LEMMA TimesOutAtEnd ==
    ASSUME IInv, NEW c \in Caller, TimesOut(c), End(c)
    PROVE  IInv'
<1>a. calls' = GivenUp(Awaited(c))
  BY DEF TimesOut, End
<1>b. /\ calls' \subseteq Call
      /\ \A m \in calls' :
           \E n \in calls : Same(n, m) /\ (m.awaited => n = m /\ m.caller # c)
  BY <1>a, GivenUpCalls DEF IInv, LedgerTypeOK
<1>1. LedgerTypeOK'
  BY <1>b, LedgerAssumption DEF Same, Fault, TimesOut, End, row, history, IInv,
      LedgerTypeOK, State, Verdict, Waiting, Kind, Call
<1>2. TokensAreIssued'
  BY <1>b DEF Same, Fault, TimesOut, End, row, history, IInv, LedgerTypeOK,
      Call, TokensAreIssued
<1>3. TokensAreUnique'
  BY <1>b DEF Same, Fault, TimesOut, End, row, history, IInv, LedgerTypeOK,
      Call, TokensAreIssued, TokensAreUnique
<1>4. AwaitedIsCurrent'
  BY <1>b DEF Same, Fault, TimesOut, End, row, history, IInv, LedgerTypeOK,
      Call, AwaitedIsCurrent, PhasesAgree, Verdict
<1>5. NotSettledEarly'
  BY <1>b DEF Same, Fault, TimesOut, End, row, history, IInv, LedgerTypeOK,
      Call, NotSettledEarly, PhasesAgree, TokensAreUnique, Verdict
<1>6. PhasesAgree'
  BY <1>b DEF Same, Fault, TimesOut, End, row, history, IInv, LedgerTypeOK,
      Call, PhasesAgree, AwaitedIsCurrent, Waiting, Verdict, TokensAreIssued
<1>7. HandlerOwnsOperation'
  BY <1>b DEF Same, Fault, TimesOut, End, row, history, IInv, LedgerTypeOK,
      Call, HandlerOwnsOperation, Committed, AwaitedIsCurrent
<1>8. LaunchesAreRecorded'
  BY <1>b DEF Same, Fault, TimesOut, End, row, history, IInv, LedgerTypeOK,
      Call, LaunchesAreRecorded, AwaitedIsCurrent
<1>9. ResultsAreTrue'
  BY <1>b DEF Same, Fault, TimesOut, End, row, history, IInv, LedgerTypeOK,
      Call, ResultsAreTrue, Verdict
<1>10. ResultsAreRecorded'
  BY <1>b DEF Same, Fault, TimesOut, End, row, history, IInv, LedgerTypeOK,
      Call, ResultsAreRecorded
<1> QED BY <1>1, <1>2, <1>3, <1>4, <1>5, <1>6, <1>7, <1>8, <1>9, <1>10 DEF IInv

\* An acquisition is granted a new token.
LEMMA GrantStep ==
    ASSUME IInv, NEW m \in calls, Grant(m)
    PROVE  IInv'
<1>1. LedgerTypeOK'
  BY LedgerAssumption DEF Grant, history, Acquirable, Unexpired, Answer, IInv,
      LedgerTypeOK, State, Verdict, Waiting, Kind, Call
<1>2. TokensAreIssued'
  BY DEF Grant, history, Acquirable, Unexpired, Answer, IInv, LedgerTypeOK,
      Call, TokensAreIssued
<1>3. TokensAreUnique'
  BY DEF Grant, history, Acquirable, Unexpired, Answer, IInv, LedgerTypeOK,
      Call, TokensAreIssued, TokensAreUnique
<1>4. AwaitedIsCurrent'
  BY SameCall DEF Same, Grant, history, Acquirable, Unexpired, Answer, IInv,
      LedgerTypeOK, Call, AwaitedIsCurrent, PhasesAgree, Verdict, Kind,
      Waiting, TokensAreUnique, TokensAreIssued, ResultsAreTrue
<1>5. NotSettledEarly'
  BY DEF Grant, history, Acquirable, Unexpired, Answer, IInv, LedgerTypeOK,
      Call, NotSettledEarly, PhasesAgree, TokensAreUnique, Verdict, Kind,
      TokensAreIssued, AwaitedIsCurrent, HandlerOwnsOperation, Committed
<1>6. PhasesAgree'
  BY DEF Grant, history, Acquirable, Unexpired, Answer, IInv, LedgerTypeOK,
      Call, PhasesAgree, AwaitedIsCurrent
<1>7. HandlerOwnsOperation'
  BY DEF Grant, history, Acquirable, Unexpired, Answer, IInv, LedgerTypeOK,
      Call, HandlerOwnsOperation, Committed, AwaitedIsCurrent
<1>8. LaunchesAreRecorded'
  BY DEF Grant, history, Acquirable, Unexpired, Answer, IInv, LedgerTypeOK,
      Call, LaunchesAreRecorded, AwaitedIsCurrent
<1>9. ResultsAreTrue'
  BY DEF Grant, history, Acquirable, Unexpired, Answer, IInv, LedgerTypeOK,
      Call, ResultsAreTrue, Verdict
<1>10. ResultsAreRecorded'
  BY DEF Grant, history, Acquirable, Unexpired, Answer, IInv, LedgerTypeOK,
      Call, ResultsAreRecorded, AwaitedIsCurrent, ResultsAreTrue, Verdict
<1> QED BY <1>1, <1>2, <1>3, <1>4, <1>5, <1>6, <1>7, <1>8, <1>9, <1>10 DEF IInv

\* An operation is prepared or started.
LEMMA AdvanceStep ==
    ASSUME IInv, NEW m \in calls, Advance(m)
    PROVE  IInv'
<1>1. LedgerTypeOK'
  BY LedgerAssumption DEF Advance, history, Holds, Follows, Answer, IInv,
      LedgerTypeOK, State, Verdict, Waiting, Kind, Call
<1>2. TokensAreIssued'
  BY DEF Advance, history, Holds, Follows, Answer, IInv, LedgerTypeOK, Call,
      TokensAreIssued
<1>3. TokensAreUnique'
  BY DEF Advance, history, Holds, Follows, Answer, IInv, LedgerTypeOK, Call,
      TokensAreIssued, TokensAreUnique
<1>4. AwaitedIsCurrent'
  BY SameCall DEF Same, Advance, history, Holds, Follows, Answer, IInv,
      LedgerTypeOK, Call, AwaitedIsCurrent, PhasesAgree, Verdict, Kind,
      Waiting, TokensAreUnique, TokensAreIssued, ResultsAreTrue
<1>5. NotSettledEarly'
  BY DEF Advance, history, Holds, Follows, Answer, IInv, LedgerTypeOK, Call,
      NotSettledEarly, PhasesAgree, TokensAreUnique, Verdict
<1>6. PhasesAgree'
  BY DEF Advance, history, Holds, Follows, Answer, IInv, LedgerTypeOK, Call,
      PhasesAgree, AwaitedIsCurrent
<1>7. HandlerOwnsOperation'
  BY DEF Advance, history, Holds, Follows, Answer, IInv, LedgerTypeOK, Call,
      HandlerOwnsOperation, Committed, AwaitedIsCurrent, TokensAreUnique,
      NotSettledEarly, PhasesAgree, Verdict
<1>8. LaunchesAreRecorded'
  BY DEF Advance, history, Holds, Follows, Answer, IInv, LedgerTypeOK, Call,
      LaunchesAreRecorded, AwaitedIsCurrent, HandlerOwnsOperation, Committed,
      TokensAreUnique, PhasesAgree, ResultsAreTrue, Verdict, State
<1>9. ResultsAreTrue'
  BY DEF Advance, history, Holds, Follows, Answer, IInv, LedgerTypeOK, Call,
      ResultsAreTrue, Verdict
<1>10. ResultsAreRecorded'
  BY DEF Advance, history, Holds, Follows, Answer, IInv, LedgerTypeOK, Call,
      ResultsAreRecorded, AwaitedIsCurrent, ResultsAreTrue, Verdict
<1> QED BY <1>1, <1>2, <1>3, <1>4, <1>5, <1>6, <1>7, <1>8, <1>9, <1>10 DEF IInv

\* An operation is settled.
LEMMA SettleStep ==
    ASSUME IInv, NEW m \in calls, Settle(m)
    PROVE  IInv'
<1>1. LedgerTypeOK'
  BY LedgerAssumption DEF Settle, history, Holds, Follows, Answer, IInv,
      LedgerTypeOK, State, Verdict, Waiting, Kind, Call
<1>2. TokensAreIssued'
  BY DEF Settle, history, Holds, Follows, Answer, IInv, LedgerTypeOK, Call,
      TokensAreIssued
<1>3. TokensAreUnique'
  BY DEF Settle, history, Holds, Follows, Answer, IInv, LedgerTypeOK, Call,
      TokensAreIssued, TokensAreUnique
<1>4. AwaitedIsCurrent'
  BY SameCall DEF Same, Settle, history, Holds, Follows, Answer, IInv,
      LedgerTypeOK, Call, AwaitedIsCurrent, PhasesAgree, Verdict, Kind,
      Waiting, TokensAreUnique, TokensAreIssued, ResultsAreTrue
<1>5. NotSettledEarly'
  BY DEF Settle, history, Holds, Follows, Answer, IInv, LedgerTypeOK, Call,
      NotSettledEarly, PhasesAgree, TokensAreUnique, Verdict
<1>6. PhasesAgree'
  BY DEF Settle, history, Holds, Follows, Answer, IInv, LedgerTypeOK, Call,
      PhasesAgree, AwaitedIsCurrent, Waiting, Verdict, TokensAreIssued
<1>7. HandlerOwnsOperation'
  BY DEF Settle, history, Holds, Follows, Answer, IInv, LedgerTypeOK, Call,
      HandlerOwnsOperation, Committed, AwaitedIsCurrent, TokensAreUnique,
      NotSettledEarly, PhasesAgree, Verdict
<1>8. LaunchesAreRecorded'
  BY DEF Settle, history, Holds, Follows, Answer, IInv, LedgerTypeOK, Call,
      LaunchesAreRecorded, AwaitedIsCurrent, HandlerOwnsOperation, Committed,
      TokensAreUnique, PhasesAgree, ResultsAreTrue, Verdict, State
<1>9. ResultsAreTrue'
  BY DEF Settle, history, Holds, Follows, Answer, IInv, LedgerTypeOK, Call,
      ResultsAreTrue, Verdict
<1>10. ResultsAreRecorded'
  BY DEF Settle, history, Holds, Follows, Answer, IInv, LedgerTypeOK, Call,
      ResultsAreRecorded, AwaitedIsCurrent, ResultsAreTrue, Verdict
<1> QED BY <1>1, <1>2, <1>3, <1>4, <1>5, <1>6, <1>7, <1>8, <1>9, <1>10 DEF IInv

\* A lease is renewed.
LEMMA RenewStep ==
    ASSUME IInv, NEW m \in calls, Renew(m)
    PROVE  IInv'
<1>1. LedgerTypeOK'
  BY LedgerAssumption DEF Renew, history, Holds, IInv, LedgerTypeOK, State,
      Verdict, Waiting, Kind, Call
<1>2. TokensAreIssued'
  BY DEF Renew, history, Holds, IInv, LedgerTypeOK, Call, TokensAreIssued
<1>3. TokensAreUnique'
  BY DEF Renew, history, Holds, IInv, LedgerTypeOK, Call, TokensAreIssued,
      TokensAreUnique
<1>4. AwaitedIsCurrent'
  BY SameCall DEF Same, Renew, history, Holds, IInv, LedgerTypeOK, Call,
      AwaitedIsCurrent, PhasesAgree, Verdict
<1>5. NotSettledEarly'
  BY DEF Renew, history, Holds, IInv, LedgerTypeOK, Call, NotSettledEarly,
      PhasesAgree, TokensAreUnique, Verdict
<1>6. PhasesAgree'
  BY DEF Renew, history, Holds, IInv, LedgerTypeOK, Call, PhasesAgree,
      AwaitedIsCurrent
<1>7. HandlerOwnsOperation'
  BY DEF Renew, history, Holds, IInv, LedgerTypeOK, Call, HandlerOwnsOperation,
      Committed, AwaitedIsCurrent
<1>8. LaunchesAreRecorded'
  BY DEF Renew, history, Holds, IInv, LedgerTypeOK, Call, LaunchesAreRecorded,
      AwaitedIsCurrent
<1>9. ResultsAreTrue'
  BY DEF Renew, history, Holds, IInv, LedgerTypeOK, Call, ResultsAreTrue,
      Verdict
<1>10. ResultsAreRecorded'
  BY DEF Renew, history, Holds, IInv, LedgerTypeOK, Call, ResultsAreRecorded
<1> QED BY <1>1, <1>2, <1>3, <1>4, <1>5, <1>6, <1>7, <1>8, <1>9, <1>10 DEF IInv

\* A call is turned down, or lost.
LEMMA TurnedDownStep ==
    ASSUME IInv, NEW m \in calls, TurnedDown(m), faults' \in 0 .. MaxFaults
    PROVE  IInv'
<1>1. LedgerTypeOK'
  BY LedgerAssumption DEF TurnedDown, Answer, row, history, IInv, LedgerTypeOK,
      State, Verdict, Waiting, Kind, Call
<1>2. TokensAreIssued'
  BY DEF TurnedDown, Answer, row, history, IInv, LedgerTypeOK, Call,
      TokensAreIssued
<1>3. TokensAreUnique'
  BY DEF TurnedDown, Answer, row, history, IInv, LedgerTypeOK, Call,
      TokensAreIssued, TokensAreUnique
<1>4. AwaitedIsCurrent'
  BY SameCall DEF Same, TurnedDown, Answer, row, history, IInv, LedgerTypeOK,
      Call, AwaitedIsCurrent, PhasesAgree, Verdict, Kind, Waiting,
      TokensAreUnique, TokensAreIssued, ResultsAreTrue
<1>5. NotSettledEarly'
  BY DEF TurnedDown, Answer, row, history, IInv, LedgerTypeOK, Call,
      NotSettledEarly, PhasesAgree, TokensAreUnique, Verdict
<1>6. PhasesAgree'
  BY DEF TurnedDown, Answer, row, history, IInv, LedgerTypeOK, Call,
      PhasesAgree, AwaitedIsCurrent
<1>7. HandlerOwnsOperation'
  BY DEF TurnedDown, Answer, row, history, IInv, LedgerTypeOK, Call,
      HandlerOwnsOperation, Committed, AwaitedIsCurrent
<1>8. LaunchesAreRecorded'
  BY DEF TurnedDown, Answer, row, history, IInv, LedgerTypeOK, Call,
      LaunchesAreRecorded, AwaitedIsCurrent
<1>9. ResultsAreTrue'
  BY DEF TurnedDown, Answer, row, history, IInv, LedgerTypeOK, Call,
      ResultsAreTrue, Verdict
<1>10. ResultsAreRecorded'
  BY DEF TurnedDown, Answer, row, history, IInv, LedgerTypeOK, Call,
      ResultsAreRecorded
<1> QED BY <1>1, <1>2, <1>3, <1>4, <1>5, <1>6, <1>7, <1>8, <1>9, <1>10 DEF IInv

\* Time passes.
LEMMA PassTimeStep ==
    ASSUME IInv, PassTime
    PROVE  IInv'
<1>1. LedgerTypeOK'
  BY LedgerAssumption DEF PassTime, caller, history, IInv, LedgerTypeOK, State,
      Verdict, Waiting, Kind, Call
<1>2. TokensAreIssued'
  BY DEF PassTime, caller, history, IInv, LedgerTypeOK, Call, TokensAreIssued
<1>3. TokensAreUnique'
  BY DEF PassTime, caller, history, IInv, LedgerTypeOK, Call, TokensAreIssued,
      TokensAreUnique
<1>4. AwaitedIsCurrent'
  BY DEF PassTime, caller, history, IInv, LedgerTypeOK, Call, AwaitedIsCurrent,
      PhasesAgree, Verdict
<1>5. NotSettledEarly'
  BY DEF PassTime, caller, history, IInv, LedgerTypeOK, Call, NotSettledEarly,
      PhasesAgree, TokensAreUnique, Verdict
<1>6. PhasesAgree'
  BY DEF PassTime, caller, history, IInv, LedgerTypeOK, Call, PhasesAgree,
      AwaitedIsCurrent
<1>7. HandlerOwnsOperation'
  BY DEF PassTime, caller, history, IInv, LedgerTypeOK, Call,
      HandlerOwnsOperation, Committed, AwaitedIsCurrent
<1>8. LaunchesAreRecorded'
  BY DEF PassTime, caller, history, IInv, LedgerTypeOK, Call,
      LaunchesAreRecorded, AwaitedIsCurrent
<1>9. ResultsAreTrue'
  BY DEF PassTime, caller, history, IInv, LedgerTypeOK, Call, ResultsAreTrue,
      Verdict
<1>10. ResultsAreRecorded'
  BY DEF PassTime, caller, history, IInv, LedgerTypeOK, Call,
      ResultsAreRecorded
<1> QED BY <1>1, <1>2, <1>3, <1>4, <1>5, <1>6, <1>7, <1>8, <1>9, <1>10 DEF IInv

\* Every step keeps the inductive invariant.
LEMMA NextIInv == IInv /\ [Next]_vars => IInv'
<1> SUFFICES ASSUME IInv, [Next]_vars PROVE IInv'
  OBVIOUS
<1>1. ASSUME NEW c \in Caller, ToolCall(c) PROVE IInv'
  BY <1>1, BeginStep, RejectedStep, PrepareStep, StartStep, LaunchStep, AbandonStep,
     SendRenewalStep, RenewalTimesOutStep, ReturnStep, JoinCancelledStep,
     ConcludeWithVerdict, ConcludeInDoubt, RespondStep, TimesOutEarly,
     TimesOutAtEnd, CrashStep
     DEF ToolCall, Conclude, TimesOut
<1>2. ASSUME NEW m \in calls, Handle(m) \/ Lose(m) PROVE IInv'
  <2>1. CASE Refuse(m)
    BY <2>1, TurnedDownStep DEF Refuse, IInv, LedgerTypeOK
  <2>2. CASE Lose(m)
    BY <2>2, TurnedDownStep, LedgerAssumption DEF Lose, Fault, IInv, LedgerTypeOK
  <2> QED
    BY <1>2, <2>1, <2>2, GrantStep, AdvanceStep, SettleStep, RenewStep DEF Handle
<1>3. CASE PassTime
  BY <1>3, PassTimeStep
<1>4. CASE UNCHANGED vars
  BY <1>4
     DEF vars, row, caller, history, IInv, LedgerTypeOK, TokensAreIssued,
         TokensAreUnique, AwaitedIsCurrent, NotSettledEarly, PhasesAgree,
         HandlerOwnsOperation, Committed, LaunchesAreRecorded, ResultsAreTrue,
         ResultsAreRecorded
<1> QED BY <1>1, <1>2, <1>3, <1>4 DEF Next

\* The inductive invariant: fencing tokens belong to one call each, awaited calls
\* match what their callers do, nobody asks to settle an operation whose tool
\* runs, and what is recorded of launches and results is what happened.
THEOREM InductiveInvariant == Spec => []IInv
BY InitIInv, NextIInv, PTL DEF Spec

\* Every variable of the registry and of its callers keeps its type.
THEOREM TypeCorrect == Spec => []LedgerTypeOK
<1>1. IInv => LedgerTypeOK
  BY DEF IInv
<1> QED BY <1>1, InductiveInvariant, PTL

\* While a tool runs, its operation is recorded as started under its own fencing
\* token: no other call, however late or retried, takes it over or settles it
\* (TraceStore.transition_operation).
THEOREM HandlerOwns == Spec => []HandlerOwnsOperation
<1>1. IInv => HandlerOwnsOperation
  BY DEF IInv
<1> QED BY <1>1, InductiveInvariant, PTL

\* A result goes back to the agent only if the registry holds the same result
\* (MCPAuditMiddleware.on_call_tool).
THEOREM ResultsRecorded == Spec => []ResultsAreRecorded
<1>1. IInv => ResultsAreRecorded
  BY DEF IInv
<1> QED BY <1>1, InductiveInvariant, PTL

-----------------------------------------------------------------------------
\* The refinement.

mapped == <<launches, result, IF state = "terminal" THEN outcome ELSE "open">>

\* Only four actions are visible in AtMostOnce.
LEMMA StepRefines ==
    IInv /\ [Next]_vars => [Promise!Next]_mapped
<1> SUFFICES ASSUME IInv, [Next]_vars PROVE [Promise!Next]_mapped
  OBVIOUS
<1>1. ASSUME NEW c \in Caller, Launch(c) PROVE Promise!Launch
  BY <1>1 DEF Launch, row, Promise!Launch, IInv, LedgerTypeOK, LaunchesAreRecorded,
              HandlerOwnsOperation, Committed
<1>2. ASSUME NEW c \in Caller, NEW v \in Verdict, Return(c, v) PROVE Promise!Conclude
  BY <1>2 DEF Return, row, Promise!Conclude, IInv, LaunchesAreRecorded, Verdict
<1>3. ASSUME NEW c \in Caller, Crash(c) PROVE Promise!Conclude \/ UNCHANGED mapped
  <2>1. CASE pc[c] = "running"
    BY <1>3, <2>1 DEF Crash, row, Promise!Conclude, IInv, LaunchesAreRecorded
  <2>2. CASE pc[c] # "running"
    BY <1>3, <2>2 DEF Crash, row, mapped
  <2> QED BY <2>1, <2>2
<1>4. ASSUME NEW m \in calls, Settle(m) PROVE Promise!Settle
  BY <1>4 DEF Settle, history, Follows, Promise!Settle, IInv, ResultsAreTrue, Verdict
<1>5. ASSUME NEW c \in Caller, ToolCall(c) PROVE Promise!Next \/ UNCHANGED mapped
  BY <1>1, <1>2, <1>3, <1>5
     DEF ToolCall, Begin, Rejected, Prepare, Start, Abandon, SendRenewal,
         RenewalTimesOut, JoinCancelled, Conclude, Respond, TimesOut, Promise!Next,
         mapped, row, history
<1>6. ASSUME NEW m \in calls, Handle(m) \/ Lose(m)
      PROVE  Promise!Next \/ UNCHANGED mapped
  <2>1. CASE Grant(m)
    BY <2>1 DEF Grant, Acquirable, history, mapped
  <2>2. CASE Advance(m)
    BY <2>2 DEF Advance, Follows, history, mapped, Verdict
  <2>3. CASE Renew(m)
    BY <2>3 DEF Renew, history, mapped
  <2>4. CASE TurnedDown(m)
    BY <2>4 DEF TurnedDown, row, history, mapped
  <2> QED
    BY <1>4, <1>6, <2>1, <2>2, <2>3, <2>4 DEF Handle, Refuse, Lose, Promise!Next
<1>7. CASE PassTime
  BY <1>7 DEF PassTime, history, mapped
<1>8. CASE UNCHANGED vars
  BY <1>8 DEF vars, row, history, mapped
<1> QED BY <1>5, <1>6, <1>7, <1>8 DEF Next

\* The registry and its callers keep the promise of AtMostOnce: one launch, one
\* verdict, and no success or failure that the tool did not come to.
THEOREM Refinement == Spec => ImplementsAtMostOnce
<1>1. Init => Promise!Init
  BY DEF Init, Promise!Init
<1>2. IInv /\ [Next]_vars => [Promise!Next]_<<launches, result, IF state = "terminal" THEN outcome ELSE "open">>
  BY StepRefines DEF mapped
<1> QED BY <1>1, <1>2, InductiveInvariant, PTL DEF Spec, ImplementsAtMostOnce, Promise!Spec
=============================================================================
