-------------------------- MODULE AgentLoopProofs --------------------------
(***************************************************************************)
(* Proofs about AgentLoop, for any limits, grants, interjections, retries   *)
(* and faults.                                                              *)
(***************************************************************************)
EXTENDS AgentLoop, FiniteSetTheorems, TLAPS

-----------------------------------------------------------------------------
\* The parts of the type invariant.

StoreTypes == ticket \in Ticket /\ file \in Ticket /\ pending \in Ticket \cup {Nothing}
LoopTypes ==
    /\ pc \in Step
    /\ iteration \in Nat
    /\ seen \in Status \cup {Nothing}
    /\ mem \in [limit : Nat, global : Nat]
    /\ wrapup \in {"none", "context", "budget", "iteration"}
    /\ tries \in Tries
    /\ resumed \in BOOLEAN
    /\ after \in {"top", "save"}
    /\ hint \in Hint \cup {Nothing}
    /\ stopping \in BOOLEAN
LogTypes == spent \in Nat /\ others \in 0 .. MaxOthers /\ granted \subseteq Request
HintTypes == told \subseteq Hint /\ retold \subseteq Hint /\ reverted \subseteq Hint
             /\ sent \subseteq Hint

LEMMA TypeParts ==
    TypeOK <=> StoreTypes /\ LoopTypes /\ LogTypes /\ HintTypes /\ faults \in 0 .. MaxFaults
BY DEF TypeOK, StoreTypes, LoopTypes, LogTypes, HintTypes

LEMMA TypePartsNext ==
    TypeOK' <=> /\ StoreTypes' /\ LoopTypes' /\ LogTypes' /\ HintTypes'
                /\ (faults \in 0 .. MaxFaults)'
BY DEF TypeOK, StoreTypes, LoopTypes, LogTypes, HintTypes

-----------------------------------------------------------------------------
\* Allowances.

LEMMA TimesExtra ==
    ASSUME NEW a \in Nat, NEW b \in Nat, a <= b
    PROVE  Extra * a \in Nat /\ Extra * b \in Nat /\ Extra * a <= Extra * b
<1> DEFINE d == b - a
<1>1. d \in Nat /\ b = a + d
  OBVIOUS
<1>2. Extra \in Nat
  BY LoopAssumption
<1>3. Extra * (a + d) = Extra * a + Extra * d
  BY <1>1, <1>2
<1>4. Extra * a \in Nat /\ Extra * d \in Nat
  BY <1>1, <1>2
<1> HIDE DEF d
<1>5. QED
  BY <1>1, <1>3, <1>4

LEMMA Counts ==
    ASSUME NEW S \in SUBSET Request, NEW T \in SUBSET Request, S \subseteq T
    PROVE  /\ Cardinality(S) \in Nat /\ Cardinality(T) \in Nat
           /\ Cardinality(S) <= Cardinality(T)
<1>1. IsFiniteSet(T)
  BY LoopAssumption, FS_Subset
<1>2. QED
  BY <1>1, FS_Subset, FS_CardinalityType

\* More receipts mean limits that are no lower, and a limit stays a limit.
LEMMA MoreIsAllowed ==
    ASSUME NEW t \in Ticket, NEW u \in Ticket, Accounted(t), Accounted(u),
           t.mine \subseteq u.mine, t.theirs \subseteq u.theirs
    PROVE  /\ t.limit <= u.limit /\ (t.limit = 0 <=> u.limit = 0)
           /\ t.global <= u.global /\ (t.global = 0 <=> u.global = 0)
<1> DEFINE a == Cardinality(t.mine)
           b == Cardinality(u.mine)
           c == Cardinality(t.mine \cup t.theirs)
           d == Cardinality(u.mine \cup u.theirs)
<1>1. a \in Nat /\ b \in Nat /\ a <= b
  BY Counts DEF Ticket
<1>2. c \in Nat /\ d \in Nat /\ c <= d
  <2>1. t.mine \cup t.theirs \in SUBSET Request /\ u.mine \cup u.theirs \in SUBSET Request
    BY DEF Ticket
  <2>2. t.mine \cup t.theirs \subseteq u.mine \cup u.theirs
    OBVIOUS
  <2>3. QED
    BY <2>1, <2>2, Counts
<1>3. Extra * a \in Nat /\ Extra * b \in Nat /\ Extra * a <= Extra * b
  BY <1>1, TimesExtra
<1>4. Extra * c \in Nat /\ Extra * d \in Nat /\ Extra * c <= Extra * d
  BY <1>2, TimesExtra
<1>5. /\ t.limit = IF Configured = 0 THEN 0 ELSE Configured + Extra * a
      /\ u.limit = IF Configured = 0 THEN 0 ELSE Configured + Extra * b
      /\ t.global = IF ConfiguredGlobal = 0 THEN 0 ELSE ConfiguredGlobal + Extra * c
      /\ u.global = IF ConfiguredGlobal = 0 THEN 0 ELSE ConfiguredGlobal + Extra * d
  BY DEF Accounted
<1>6. Configured \in Nat /\ ConfiguredGlobal \in Nat
  BY LoopAssumption
<1> DEFINE xa == Extra * a
           xb == Extra * b
           xc == Extra * c
           xd == Extra * d
<1>7. /\ xa \in Nat /\ xb \in Nat /\ xa <= xb
      /\ xc \in Nat /\ xd \in Nat /\ xc <= xd
      /\ t.limit = IF Configured = 0 THEN 0 ELSE Configured + xa
      /\ u.limit = IF Configured = 0 THEN 0 ELSE Configured + xb
      /\ t.global = IF ConfiguredGlobal = 0 THEN 0 ELSE ConfiguredGlobal + xc
      /\ u.global = IF ConfiguredGlobal = 0 THEN 0 ELSE ConfiguredGlobal + xd
  BY <1>3, <1>4, <1>5
<1> HIDE DEF xa, xb, xc, xd
<1>8. QED
  BY <1>6, <1>7

\* A first grant of a request adds to the limits what its receipt accounts for.
LEMMA OnceMore ==
    ASSUME NEW S \in SUBSET Request, NEW r \in Request, r \notin S
    PROVE  /\ Cardinality(S) \in Nat
           /\ Extra * Cardinality(S) \in Nat
           /\ Extra * Cardinality(S \cup {r}) = Extra * Cardinality(S) + Extra
<1>1. IsFiniteSet(S)
  BY LoopAssumption, FS_Subset
<1> DEFINE n == Cardinality(S)
<1>2. n \in Nat /\ Cardinality(S \cup {r}) = n + 1
  BY <1>1, FS_CardinalityType, FS_AddElement
<1>3. Extra \in Nat
  BY LoopAssumption
<1> HIDE DEF n
<1>4. Extra * (n + 1) = Extra * n + Extra /\ Extra * n \in Nat
  BY <1>2, <1>3
<1>5. QED
  BY <1>2, <1>4 DEF n

LEMMA AllowedIsAccounted ==
    ASSUME NEW t \in Ticket, Accounted(t), NEW r \in Request, NEW own \in BOOLEAN,
           r \notin t.mine \cup t.theirs
    PROVE  /\ AllowedOnce(t, r, own) \in Ticket
           /\ Accounted(AllowedOnce(t, r, own))
           /\ t.mine \subseteq AllowedOnce(t, r, own).mine
           /\ t.theirs \subseteq AllowedOnce(t, r, own).theirs
           /\ r \in AllowedOnce(t, r, own).mine \cup AllowedOnce(t, r, own).theirs
<1> DEFINE u == AllowedOnce(t, r, own)
           x == Extra * Cardinality(t.mine)
           y == Extra * Cardinality(t.mine \cup t.theirs)
<1>1. t.mine \in SUBSET Request /\ t.mine \cup t.theirs \in SUBSET Request
      /\ t.theirs \in SUBSET Request
  BY DEF Ticket
<1>2. Extra \in Nat /\ Configured \in Nat /\ ConfiguredGlobal \in Nat
  BY LoopAssumption
<1>3. t.limit \in Nat /\ t.global \in Nat
  BY DEF Ticket
<1>4. u \in Ticket
  <2>1. (IF own /\ t.limit > 0 THEN t.limit + Extra ELSE t.limit) \in Nat
        /\ (IF t.global > 0 THEN t.global + Extra ELSE 0) \in Nat
    BY <1>2, <1>3
  <2>2. (IF own THEN t.mine \cup {r} ELSE t.mine) \in SUBSET Request
        /\ (IF own THEN t.theirs ELSE t.theirs \cup {r}) \in SUBSET Request
    BY <1>1
  <2>3. QED
    BY <2>1, <2>2 DEF AllowedOnce, Ticket
<1>5. /\ u.mine = IF own THEN t.mine \cup {r} ELSE t.mine
      /\ u.theirs = IF own THEN t.theirs ELSE t.theirs \cup {r}
      /\ u.limit = IF own /\ t.limit > 0 THEN t.limit + Extra ELSE t.limit
      /\ u.global = IF t.global > 0 THEN t.global + Extra ELSE 0
  BY DEF AllowedOnce
<1>6. t.mine \cap t.theirs = {}
      /\ t.limit = (IF Configured = 0 THEN 0 ELSE Configured + x)
      /\ t.global = (IF ConfiguredGlobal = 0 THEN 0 ELSE ConfiguredGlobal + y)
  BY DEF Accounted
<1>7. x \in Nat /\ y \in Nat
      /\ Extra * Cardinality(t.mine \cup {r}) = x + Extra
      /\ Extra * Cardinality((t.mine \cup t.theirs) \cup {r}) = y + Extra
  BY <1>1, OnceMore
<1>8. u.mine \cup u.theirs = (t.mine \cup t.theirs) \cup {r}
  BY <1>5
<1>9. u.mine \cap u.theirs = {}
  BY <1>5, <1>6
<1> HIDE DEF u, x, y
<1>10. u.global = IF ConfiguredGlobal = 0 THEN 0 ELSE ConfiguredGlobal + (y + Extra)
  BY <1>2, <1>5, <1>6, <1>7
<1>11. u.limit = IF Configured = 0 THEN 0 ELSE Configured + Extra * Cardinality(u.mine)
  <2>1. CASE own
    <3>1. u.limit = IF Configured = 0 THEN 0 ELSE Configured + (x + Extra)
      BY <2>1, <1>2, <1>5, <1>6, <1>7
    <3>2. u.mine = t.mine \cup {r}
      BY <2>1, <1>5
    <3>3. QED
      BY <3>1, <3>2, <1>7
  <2>2. CASE ~own
    <3>1. u.mine = t.mine /\ u.limit = t.limit
      BY <2>2, <1>5
    <3>2. QED
      BY <3>1, <1>6 DEF x
  <2>3. QED
    BY <2>1, <2>2
<1>12. Accounted(u)
  BY <1>7, <1>8, <1>9, <1>10, <1>11 DEF Accounted
<1>13. QED
  BY <1>4, <1>5, <1>12 DEF u

-----------------------------------------------------------------------------
\* What a step does to the store: nothing, or an ordinary write, which leaves
\* the limits and the receipts alone.

Alike(t, u) ==
    t.limit = u.limit /\ t.global = u.global /\ t.mine = u.mine /\ t.theirs = u.theirs

Ordinary ==
    \/ UNCHANGED storeVars
    \/ /\ pending = Nothing /\ pending' = Nothing
       /\ ticket' \in Ticket /\ Alike(ticket', ticket)
       /\ file' \in {file, ticket'}

LEMMA Shapes ==
    ASSUME TypeOK
    PROVE  /\ ticket \in Ticket /\ Alike(ticket, ticket)
           /\ Paused \in Ticket /\ Alike(Paused, ticket)
           /\ Cleared \in Ticket /\ Alike(Cleared, ticket)
           /\ \A s \in Status, b \in Status :
                At(ticket, s, b) \in Ticket /\ Alike(At(ticket, s, b), ticket)
           /\ \A h \in Hint \cup {Nothing} :
                WithHint(ticket, h) \in Ticket /\ Alike(WithHint(ticket, h), ticket)
<1>1. ticket \in Ticket /\ Alike(ticket, ticket)
  BY DEF TypeOK, Alike
<1>2. \A s \in Status, b \in Status :
        At(ticket, s, b) \in Ticket /\ Alike(At(ticket, s, b), ticket)
  BY <1>1 DEF At, Ticket, Alike
<1>3. \A h \in Hint \cup {Nothing} :
        WithHint(ticket, h) \in Ticket /\ Alike(WithHint(ticket, h), ticket)
  BY <1>1 DEF WithHint, Ticket, Alike
<1>4. ticket.status \in Status /\ "guidance" \in Status
  BY <1>1 DEF Ticket, Status
<1>5. Paused \in Ticket /\ Alike(Paused, ticket)
  BY <1>1, <1>2, <1>4 DEF Paused
<1>6. QED
  BY <1>1, <1>2, <1>3, <1>5 DEF Cleared

LEMMA WriteIsOrdinary ==
    ASSUME TypeOK, NEW t \in Ticket, Alike(t, ticket), Write(t) \/ WriteLost(t)
    PROVE  Ordinary /\ (faults \in 0 .. MaxFaults)'
<1>1. faults \in 0 .. MaxFaults /\ MaxFaults \in Nat
  BY LoopAssumption DEF TypeOK
<1>2. QED
  BY <1>1 DEF Write, WriteLost, Settled, Ordinary, NoFault, Fault

LEMMA ReadIsOrdinary ==
    ASSUME TypeOK, Read \/ Unanswered \/ UNCHANGED <<storeVars, faults>>
    PROVE  Ordinary /\ (faults \in 0 .. MaxFaults)'
<1>1. faults \in 0 .. MaxFaults /\ MaxFaults \in Nat
  BY LoopAssumption DEF TypeOK
<1>2. QED
  BY <1>1 DEF Read, Unanswered, Ordinary, NoFault, Fault

LEMMA PauseIsOrdinary ==
    ASSUME TypeOK, Pause \/ PauseFails
    PROVE  Ordinary /\ (faults \in 0 .. MaxFaults)'
BY Shapes, WriteIsOrdinary, ReadIsOrdinary DEF Pause, PauseFails

LEMMA OrdinaryKeeps ==
    ASSUME TypeOK, GrantsStand, Ordinary, UNCHANGED granted
    PROVE  StoreTypes' /\ GrantsStand' /\ Alike(ticket', ticket)
<1>1. CASE UNCHANGED storeVars
  BY <1>1 DEF storeVars, TypeOK, StoreTypes, GrantsStand, Alike
<1>2. CASE /\ pending = Nothing /\ pending' = Nothing
           /\ ticket' \in Ticket /\ Alike(ticket', ticket)
           /\ file' \in {file, ticket'}
  <2>1. StoreTypes'
    BY <1>2 DEF TypeOK, StoreTypes
  <2>2. Accounted(ticket) /\ Accounted(file) /\ SameGrants(file, ticket)
        /\ granted \subseteq ticket.mine \cup ticket.theirs
    BY <1>2 DEF GrantsStand
  <2>3. Accounted(ticket')
    BY <1>2, <2>2 DEF Accounted, Alike
  <2>4. Accounted(file') /\ SameGrants(file', ticket')
    BY <1>2, <2>2, <2>3 DEF SameGrants, Alike
  <2>5. granted' \subseteq ticket'.mine \cup ticket'.theirs
    BY <1>2, <2>2 DEF Alike
  <2>6. GrantsStand'
    BY <1>2, <2>3, <2>4, <2>5 DEF GrantsStand, Accounted, SameGrants
  <2>7. QED
    BY <1>2, <2>1, <2>6
<1>3. QED
  BY <1>1, <1>2 DEF Ordinary

-----------------------------------------------------------------------------
\* What a step does to the counts.  Most steps go on with the same ones, or end
\* the run, or read the limits again.

Keeps == pc # "off" /\ pc' # "clear" /\ UNCHANGED <<iteration, mem>>
Rereads == pc # "off" /\ pc' # "clear" /\ UNCHANGED iteration
           /\ mem' = [limit |-> ticket'.limit, global |-> ticket'.global]

LEMMA StepKeeps ==
    ASSUME IInv, LoopTypes', HintTypes', (faults \in 0 .. MaxFaults)', Ordinary,
           UNCHANGED <<granted, spent, others>>,
           pc' = "off" \/ Keeps \/ Rereads
    PROVE  IInv'
<1>1. StoreTypes' /\ GrantsStand' /\ Alike(ticket', ticket)
  BY OrdinaryKeeps DEF IInv
<1>2. TypeOK'
  BY <1>1, TypePartsNext DEF IInv, TypeOK, LogTypes
<1>3. ticket \in Ticket /\ ticket' \in Ticket
  BY <1>1 DEF IInv, TypeOK, StoreTypes
<1>4. WithinAllowance'
  BY <1>1 DEF IInv, WithinAllowance, Alike
<1>5. GoesByGrants'
  <2>1. CASE pc' = "off"
    BY <2>1 DEF GoesByGrants
  <2>2. CASE Keeps
    BY <2>2, <1>1 DEF Keeps, IInv, GoesByGrants, Alike
  <2>3. CASE Rereads
    <3>1. iteration' = spent'
      BY <2>3 DEF Rereads, IInv, GoesByGrants
    <3>2. mem'.limit = ticket'.limit /\ mem'.global = ticket'.global
      BY <2>3 DEF Rereads
    <3>3. ticket'.limit \in Nat /\ ticket'.global \in Nat
      BY <1>3 DEF Ticket
    <3>4. QED
      BY <2>3, <3>1, <3>2, <3>3 DEF Rereads, GoesByGrants
  <2>4. QED
    BY <2>1, <2>2, <2>3
<1>6. QED
  BY <1>1, <1>2, <1>4, <1>5 DEF IInv

LEMMA EndsTypes == ASSUME Ends PROVE LoopTypes' /\ pc' = "off"
<1>1. mem' \in [limit : Nat, global : Nat]
  BY LoopAssumption DEF Ends
<1>2. tries' \in Tries
  BY DEF Ends, Fresh, Tries
<1>3. QED
  BY <1>1, <1>2 DEF Ends, LoopTypes, Step

LEMMA StaysTypes ==
    ASSUME TypeOK, NEW next \in Step, On(next)
    PROVE  LoopTypes' /\ pc' = next /\ UNCHANGED <<iteration, mem>>
BY DEF On, loopVars, readVars, askVars, TypeOK, LoopTypes

\* A step that ends the run or goes on as it is, whatever it does to the ticket.
LEMMA OnOrEnds ==
    ASSUME IInv, Ordinary, (faults \in 0 .. MaxFaults)', Elsewhere,
           NEW next \in Step \ {"clear"}, (pc # "off" /\ On(next)) \/ Ends
    PROVE  IInv'
<1>1. UNCHANGED <<granted, spent, others>> /\ HintTypes'
  BY DEF Elsewhere, logVars, hintVars, HintTypes, IInv, TypeOK
<1>2. CASE pc # "off" /\ On(next)
  <2>1. LoopTypes' /\ pc' = next /\ UNCHANGED <<iteration, mem>>
    BY <1>2, StaysTypes DEF IInv
  <2>2. Keeps
    BY <1>2, <2>1 DEF Keeps
  <2>3. QED
    BY <1>1, <2>1, <2>2, StepKeeps
<1>3. CASE Ends
  BY <1>1, <1>3, EndsTypes, StepKeeps
<1>4. QED
  BY <1>2, <1>3

LEMMA LocalIsOrdinary ==
    ASSUME TypeOK, Local
    PROVE  Ordinary /\ (faults \in 0 .. MaxFaults)' /\ Elsewhere
BY ReadIsOrdinary DEF Local, Elsewhere

LEMMA AbortIsOrdinary ==
    ASSUME TypeOK, AbortUnpausable
    PROVE  Ordinary /\ (faults \in 0 .. MaxFaults)' /\ Ends
<1>1. "moved" \in Status /\ "working" \in Status
  BY DEF Status
<1>2. QED
  BY <1>1, Shapes, WriteIsOrdinary, ReadIsOrdinary DEF AbortUnpausable

LEMMA ElsewhereKeeps ==
    ASSUME TypeOK, Elsewhere
    PROVE  UNCHANGED <<granted, spent, others>> /\ HintTypes'
BY DEF Elsewhere, logVars, hintVars, HintTypes, TypeOK

\* A step that goes on with the same counts.
LEMMA GoesOn ==
    ASSUME IInv, Ordinary, (faults \in 0 .. MaxFaults)', Elsewhere,
           LoopTypes', pc # "off", pc' # "clear", UNCHANGED <<iteration, mem>>
    PROVE  IInv'
BY ElsewhereKeeps, StepKeeps DEF IInv, Keeps

\* A request for another answer, or the end of the run at the global limit.
LEMMA Proceeds ==
    ASSUME IInv, LoopTypes', HintTypes', (faults \in 0 .. MaxFaults)', Ordinary,
           UNCHANGED <<granted, others>>, pc # "off",
           mem.limit = 0 \/ iteration <= mem.limit,
           NEW g \in Nat, g <= ticket.global, g = 0 <=> ticket.global = 0, Proceed(g),
           mem' = mem \/ mem' = [limit |-> ticket.limit, global |-> ticket.global]
    PROVE  IInv'
<1>1. StoreTypes' /\ GrantsStand' /\ Alike(ticket', ticket)
  BY OrdinaryKeeps DEF IInv
<1>2. /\ ticket.limit \in Nat /\ ticket.global \in Nat
      /\ mem.limit \in Nat /\ mem.global \in Nat
      /\ iteration \in Nat /\ spent \in Nat /\ others \in Nat
  BY DEF IInv, TypeOK, Ticket
<1>3. /\ iteration = spent
      /\ ticket.limit = 0 <=> mem.limit = 0
      /\ ticket.global = 0 <=> mem.global = 0
      /\ mem.limit <= ticket.limit
      /\ mem.global <= ticket.global
  BY DEF IInv, GoesByGrants
<1>4. ticket'.limit = ticket.limit /\ ticket'.global = ticket.global
  BY <1>1 DEF Alike
<1>5. /\ mem'.limit \in Nat /\ mem'.global \in Nat
      /\ ticket'.limit = 0 <=> mem'.limit = 0
      /\ ticket'.global = 0 <=> mem'.global = 0
      /\ mem'.limit <= ticket'.limit
      /\ mem'.global <= ticket'.global
  <2>1. CASE mem' = mem
    BY <2>1, <1>2, <1>3, <1>4
  <2>2. CASE mem' = [limit |-> ticket.limit, global |-> ticket.global]
    <3>1. mem'.limit = ticket.limit /\ mem'.global = ticket.global
      BY <2>2
    <3>2. QED
      BY <3>1, <1>2, <1>4
  <2>3. QED
    BY <2>1, <2>2
<1>6. CASE g > 0 /\ others + iteration >= g
  <2>1. pc' = "leave" /\ iteration' = iteration /\ spent' = spent
    BY <1>6 DEF Proceed, Goto
  <2>2. LogTypes'
    BY <2>1 DEF LogTypes, IInv, TypeOK
  <2>3. TypeOK'
    BY <2>2, <1>1, TypePartsNext
  <2>4. WithinAllowance'
    BY <2>1, <1>4 DEF IInv, WithinAllowance
  <2>5. GoesByGrants'
    BY <2>1, <1>3, <1>5 DEF GoesByGrants
  <2>6. QED
    BY <2>3, <2>4, <2>5, <1>1 DEF IInv
<1>7. CASE ~(g > 0 /\ others + iteration >= g)
  <2>1. pc' = "ask" /\ iteration' = iteration + 1 /\ spent' = spent + 1
    BY <1>7 DEF Proceed, Goto
  <2>2. LogTypes'
    BY <2>1, <1>2 DEF LogTypes, IInv, TypeOK
  <2>3. TypeOK'
    BY <2>2, <1>1, TypePartsNext
  <2>4. ticket'.limit > 0 => spent' <= ticket'.limit + 1
    BY <2>1, <1>2, <1>3, <1>4
  <2>5. ticket'.global > 0 => spent' + others' <= ticket'.global
    BY <2>1, <1>2, <1>3, <1>4, <1>7
  <2>6. WithinAllowance'
    BY <2>4, <2>5 DEF WithinAllowance
  <2>7. GoesByGrants'
    BY <2>1, <1>3, <1>5 DEF GoesByGrants
  <2>8. QED
    BY <2>3, <2>6, <2>7, <1>1 DEF IInv
<1>8. QED
  BY <1>6, <1>7

-----------------------------------------------------------------------------
\* The steps of the agent.

LEMMA LimitsNow ==
    ASSUME TypeOK
    PROVE  /\ [limit |-> ticket.limit, global |-> ticket.global] \in [limit : Nat, global : Nat]
           /\ ticket.limit \in Nat /\ ticket.global \in Nat
           /\ mem.limit \in Nat /\ mem.global \in Nat
BY DEF TypeOK, Ticket

LEMMA StartAgentKeeps == ASSUME IInv, StartAgent PROVE IInv'
<1>1. Ordinary /\ (faults \in 0 .. MaxFaults)'
  BY ReadIsOrdinary DEF StartAgent, IInv
<1>2. UNCHANGED <<granted, spent, others>> /\ HintTypes' /\ UNCHANGED storeVars
  BY DEF StartAgent, Read, logVars, hintVars, HintTypes, IInv, TypeOK
<1>3. StoreTypes' /\ GrantsStand' /\ Alike(ticket', ticket)
  BY <1>1, <1>2, OrdinaryKeeps DEF IInv
<1>4. LoopTypes'
  <2>1. mem' \in [limit : Nat, global : Nat]
    BY LimitsNow DEF StartAgent, IInv
  <2>2. iteration' \in Nat /\ pc' \in Step
    BY DEF StartAgent, Goto, Step, Counted, IInv, TypeOK
  <2>3. tries' \in Tries
    BY DEF StartAgent, Fresh, Tries
  <2>4. QED
    BY <2>1, <2>2, <2>3 DEF StartAgent, LoopTypes
<1>5. TypeOK'
  BY <1>1, <1>2, <1>3, <1>4, TypePartsNext DEF LogTypes, IInv, TypeOK
<1>6. WithinAllowance'
  BY <1>2, <1>3 DEF WithinAllowance, Alike, IInv
<1>7. GoesByGrants'
  <2>1. pc' = "top" /\ iteration' = spent'
    BY <1>2 DEF StartAgent, Goto, Counted
  <2>2. mem'.limit = ticket'.limit /\ mem'.global = ticket'.global
    BY <1>3 DEF StartAgent, Alike
  <2>3. ticket'.limit \in Nat /\ ticket'.global \in Nat
    BY <1>3 DEF StoreTypes, Ticket
  <2>4. QED
    BY <2>1, <2>2, <2>3 DEF GoesByGrants
<1>8. QED
  BY <1>3, <1>5, <1>6, <1>7 DEF IInv

LEMMA ContinuesWithin ==
    ASSUME IInv, Continues
    PROVE  mem.limit = 0 \/ iteration <= mem.limit
BY LimitsNow DEF Continues, IInv, TypeOK

LEMMA LookKeeps == ASSUME IInv, Look PROVE IInv'
<1>1. Ordinary /\ (faults \in 0 .. MaxFaults)' /\ UNCHANGED storeVars
  BY ReadIsOrdinary DEF Look, Read, IInv
<1>2. pc = "top" /\ (mem.limit = 0 \/ iteration <= mem.limit)
  BY ContinuesWithin DEF Look
<1>3. UNCHANGED <<granted, others>> /\ HintTypes' /\ UNCHANGED hintVars
  BY DEF Look, hintVars, HintTypes, IInv, TypeOK
<1>4. CASE Ends /\ UNCHANGED spent
  <2>1. Elsewhere
    BY <1>3, <1>4 DEF Elsewhere, logVars
  <2>2. QED
    BY <2>1, <1>1, <1>4, OnOrEnds DEF Step
<1>5. ASSUME Refresh, UNCHANGED <<tries, askVars, stopping>>
      PROVE  /\ mem' = [limit |-> ticket.limit, global |-> ticket.global]
             /\ mem' \in [limit : Nat, global : Nat]
             /\ wrapup' \in {"none", "context", "budget", "iteration"}
             /\ tries' \in Tries /\ resumed' \in BOOLEAN /\ after' \in {"top", "save"}
             /\ stopping' \in BOOLEAN
  BY <1>5, LimitsNow DEF Refresh, askVars, IInv, TypeOK
<1>6. CASE /\ ticket.hint = Nothing /\ ticket.status # "moved"
           /\ Proceed(ticket.global) /\ UNCHANGED <<hint, seen>>
           /\ Refresh /\ UNCHANGED <<tries, askVars, stopping>>
  <2>1. iteration' \in Nat /\ pc' \in Step
    BY <1>6 DEF Proceed, Goto, Step, IInv, TypeOK
  <2>2. LoopTypes'
    BY <2>1, <1>5, <1>6 DEF LoopTypes, IInv, TypeOK
  <2>3. ticket.global \in Nat
    BY LimitsNow DEF IInv
  <2>4. QED
    BY <2>2, <2>3, <1>1, <1>2, <1>3, <1>5, <1>6, Proceeds
<1>7. CASE /\ ticket.hint # Nothing
           /\ Goto("clear") /\ hint' = ticket.hint /\ seen' = ticket.status
           /\ UNCHANGED <<iteration, spent>>
           /\ Refresh /\ UNCHANGED <<tries, askVars, stopping>>
  <2>1. hint' \in Hint /\ seen' \in Status
    BY <1>7 DEF IInv, TypeOK, Ticket
  <2>2. LoopTypes'
    BY <2>1, <1>5, <1>7 DEF LoopTypes, Goto, Step, IInv, TypeOK
  <2>3. StoreTypes' /\ GrantsStand' /\ Alike(ticket', ticket)
    BY <1>1, <1>3, OrdinaryKeeps DEF IInv
  <2>4. TypeOK'
    BY <2>2, <2>3, <1>1, <1>3, <1>7, TypePartsNext DEF LogTypes, IInv, TypeOK
  <2>5. WithinAllowance'
    BY <2>3, <1>3, <1>7 DEF WithinAllowance, Alike, IInv
  <2>6. /\ iteration = spent
        /\ ticket.limit = 0 <=> mem.limit = 0
        /\ mem.limit <= ticket.limit
    BY <1>2 DEF IInv, GoesByGrants
  <2>7. mem'.limit = ticket.limit /\ mem'.global = ticket.global
    BY <1>5, <1>7
  <2>8. /\ ticket.limit \in Nat /\ ticket.global \in Nat
        /\ mem.limit \in Nat /\ iteration \in Nat
    BY LimitsNow DEF IInv, TypeOK
  <2>9. mem'.limit = 0 \/ iteration' <= mem'.limit
    BY <1>2, <1>7, <2>6, <2>7, <2>8
  <2>10. /\ iteration' = spent'
         /\ mem'.limit = ticket'.limit /\ mem'.global = ticket'.global
         /\ mem'.limit \in Nat /\ mem'.global \in Nat
    BY <1>7, <2>3, <2>6, <2>7, <2>8 DEF Alike
  <2>11. GoesByGrants'
    BY <2>1, <2>9, <2>10 DEF GoesByGrants
  <2>12. QED
    BY <2>3, <2>4, <2>5, <2>11 DEF IInv
<1>8. QED
  BY <1>4, <1>6, <1>7 DEF Look

LEMMA LookFailsKeeps == ASSUME IInv, LookFails PROVE IInv'
<1>1. Ordinary /\ (faults \in 0 .. MaxFaults)'
  BY ReadIsOrdinary DEF LookFails, IInv
<1>2. pc = "top" /\ (mem.limit = 0 \/ iteration <= mem.limit)
  BY ContinuesWithin DEF LookFails
<1>3. UNCHANGED <<granted, others>> /\ HintTypes' /\ mem' = mem
  BY DEF LookFails, hintVars, HintTypes, IInv, TypeOK
<1>4. iteration' \in Nat /\ pc' \in Step
  BY DEF LookFails, Proceed, Goto, Step, IInv, TypeOK
<1>5. LoopTypes'
  BY <1>4 DEF LookFails, LoopTypes, askVars, IInv, TypeOK
<1>6. mem.global \in Nat /\ mem.global <= ticket.global /\ (mem.global = 0 <=> ticket.global = 0)
  BY <1>2, LimitsNow DEF IInv, GoesByGrants
<1>7. Proceed(mem.global)
  BY DEF LookFails
<1>8. QED
  BY <1>1, <1>2, <1>3, <1>5, <1>6, <1>7, Proceeds

LEMMA ClearHintKeeps == ASSUME IInv, ClearHint PROVE IInv'
<1>1. Ordinary /\ (faults \in 0 .. MaxFaults)'
  BY Shapes, WriteIsOrdinary DEF ClearHint, IInv
<1>2. pc = "clear" /\ hint \in Hint /\ (mem.limit = 0 \/ iteration <= mem.limit)
  BY DEF ClearHint, IInv, GoesByGrants
<1>3. CASE Ends /\ UNCHANGED <<spent, hintVars>>
  <2>1. Elsewhere
    BY <1>3 DEF ClearHint, Elsewhere, logVars
  <2>2. QED
    BY <2>1, <1>1, <1>3, OnOrEnds DEF Step
<1>4. CASE /\ Proceed(mem.global) /\ Tell(hint) /\ hint' = Nothing /\ seen' = Nothing
           /\ UNCHANGED <<mem, wrapup, tries, askVars, stopping>>
  <2>1. UNCHANGED <<granted, others>>
    BY DEF ClearHint
  <2>2. HintTypes'
    BY <1>2, <1>4 DEF Tell, HintTypes, IInv, TypeOK
  <2>3. iteration' \in Nat /\ pc' \in Step
    BY <1>4 DEF Proceed, Goto, Step, IInv, TypeOK
  <2>4. LoopTypes'
    BY <2>3, <1>4 DEF LoopTypes, askVars, IInv, TypeOK
  <2>5. mem.global \in Nat /\ mem.global <= ticket.global
        /\ (mem.global = 0 <=> ticket.global = 0)
    BY <1>2, LimitsNow DEF IInv, GoesByGrants
  <2>6. QED
    BY <1>1, <1>2, <1>4, <2>1, <2>2, <2>4, <2>5, Proceeds
<1>5. QED
  BY <1>3, <1>4 DEF ClearHint

LEMMA ClearFailsKeeps == ASSUME IInv, ClearFails PROVE IInv'
<1>1. Ordinary /\ (faults \in 0 .. MaxFaults)'
  BY Shapes, WriteIsOrdinary, ReadIsOrdinary DEF ClearFails, IInv
<1>2. QED
  BY <1>1, OnOrEnds DEF ClearFails, Step

LEMMA StopsGracefullyKeeps == ASSUME IInv, StopsGracefully PROVE IInv'
<1>1. Ordinary /\ (faults \in 0 .. MaxFaults)' /\ Elsewhere
  BY LocalIsOrdinary DEF StopsGracefully, IInv
<1>2. QED
  BY <1>1, OnOrEnds DEF StopsGracefully, Step

LEMMA ExhaustedKeeps == ASSUME IInv, Exhausted PROVE IInv'
<1>1. Ordinary /\ (faults \in 0 .. MaxFaults)' /\ (On("leave") \/ Ends)
  BY Shapes, WriteIsOrdinary, ReadIsOrdinary, AbortIsOrdinary DEF Exhausted, IInv
<1>2. QED
  BY <1>1, OnOrEnds DEF Exhausted, Step

LEMMA LLMTimesOutKeeps == ASSUME IInv, LLMTimesOut PROVE IInv'
<1>1. Ordinary /\ (faults \in 0 .. MaxFaults)' /\ Elsewhere
  BY LocalIsOrdinary DEF LLMTimesOut, IInv
<1>2. tries' \in Tries
  BY DEF LLMTimesOut, Tries, IInv, TypeOK
<1>3. pc' \in Step \ {"clear"}
  BY DEF LLMTimesOut, Goto, Step
<1>4. LoopTypes' /\ UNCHANGED <<iteration, mem>>
  BY <1>2, <1>3 DEF LLMTimesOut, LoopTypes, readVars, askVars, IInv, TypeOK
<1>5. QED
  BY <1>1, <1>3, <1>4, GoesOn DEF LLMTimesOut

LEMMA LLMRateLimitedKeeps == ASSUME IInv, LLMRateLimited PROVE IInv'
<1>1. Ordinary /\ (faults \in 0 .. MaxFaults)' /\ Elsewhere
  BY LocalIsOrdinary DEF LLMRateLimited, IInv
<1>2. tries' \in Tries
  BY DEF LLMRateLimited, Tries, IInv, TypeOK
<1>3. pc' \in Step \ {"clear"}
  BY DEF LLMRateLimited, Goto, Step
<1>4. LoopTypes' /\ UNCHANGED <<iteration, mem>>
  BY <1>2, <1>3 DEF LLMRateLimited, LoopTypes, readVars, askVars, IInv, TypeOK
<1>5. QED
  BY <1>1, <1>3, <1>4, GoesOn DEF LLMRateLimited

LEMMA LLMFailsKeeps == ASSUME IInv, LLMFails PROVE IInv'
<1>1. Ordinary /\ (faults \in 0 .. MaxFaults)' /\ Elsewhere
  BY LocalIsOrdinary DEF LLMFails, IInv
<1>2. QED
  BY <1>1, OnOrEnds DEF LLMFails, Step

LEMMA LLMAnswersKeeps == ASSUME IInv, LLMAnswers PROVE IInv'
<1>1. Ordinary /\ (faults \in 0 .. MaxFaults)' /\ Elsewhere
  BY LocalIsOrdinary DEF LLMAnswers, IInv
<1>2. tries' \in Tries
  BY DEF LLMAnswers, Tries, IInv, TypeOK
<1>3. pc' \in Step \ {"clear"} /\ wrapup' \in {"none", "context", "budget", "iteration"}
  BY DEF LLMAnswers, Goto, Step, IInv, TypeOK
<1>4. LoopTypes' /\ UNCHANGED <<iteration, mem>>
  BY <1>2, <1>3 DEF LLMAnswers, LoopTypes, readVars, askVars, IInv, TypeOK
<1>5. QED
  BY <1>1, <1>3, <1>4, GoesOn DEF LLMAnswers

LEMMA CheckBudgetKeeps == ASSUME IInv, CheckBudget PROVE IInv'
<1>1. Ordinary /\ (faults \in 0 .. MaxFaults)'
  BY PauseIsOrdinary, ReadIsOrdinary DEF CheckBudget, IInv
<1>2. OutOfBudget \/ WithinBudget
  BY DEF CheckBudget
<1>3. /\ pc' \in Step \ {"clear"} /\ wrapup' \in {"none", "context", "budget", "iteration"}
      /\ UNCHANGED <<readVars, tries, askVars, hint, stopping>>
  BY <1>2 DEF OutOfBudget, WithinBudget, Goto, Step, IInv, TypeOK
<1>4. LoopTypes' /\ UNCHANGED <<iteration, mem>>
  BY <1>3 DEF LoopTypes, readVars, askVars, IInv, TypeOK
<1>5. QED
  BY <1>1, <1>3, <1>4, GoesOn DEF CheckBudget

LEMMA EmptyAnswerKeeps == ASSUME IInv, EmptyAnswer PROVE IInv'
<1>1. Ordinary /\ (faults \in 0 .. MaxFaults)' /\ Elsewhere
  BY LocalIsOrdinary DEF EmptyAnswer, IInv
<1>2. tries' \in Tries
  BY DEF EmptyAnswer, Tries, IInv, TypeOK
<1>3. pc' \in Step \ {"clear"}
  BY DEF EmptyAnswer, Goto, Step
<1>4. LoopTypes' /\ UNCHANGED <<iteration, mem>>
  BY <1>2, <1>3 DEF EmptyAnswer, LoopTypes, readVars, askVars, IInv, TypeOK
<1>5. QED
  BY <1>1, <1>3, <1>4, GoesOn DEF EmptyAnswer

LEMMA ProseKeeps == ASSUME IInv, Prose PROVE IInv'
<1>1. Ordinary /\ (faults \in 0 .. MaxFaults)' /\ Elsewhere
  BY LocalIsOrdinary DEF Prose, IInv
<1>2. pc' \in Step \ {"clear"} /\ after' \in {"top", "save"} /\ resumed' \in BOOLEAN
  BY DEF Prose, Goto, Step, IInv, TypeOK
<1>3. LoopTypes' /\ UNCHANGED <<iteration, mem>>
  BY <1>2 DEF Prose, LoopTypes, readVars, IInv, TypeOK
<1>4. QED
  BY <1>1, <1>2, <1>3, GoesOn DEF Prose

LEMMA SubmitKeeps == ASSUME IInv, Submit PROVE IInv'
<1>1. Ordinary /\ (faults \in 0 .. MaxFaults)' /\ Elsewhere
  BY LocalIsOrdinary DEF Submit, IInv
<1>2. pc' \in Step \ {"clear"} /\ resumed' \in BOOLEAN
  BY DEF Submit, Goto, Step
<1>3. LoopTypes' /\ UNCHANGED <<iteration, mem>>
  BY <1>2 DEF Submit, LoopTypes, readVars, IInv, TypeOK
<1>4. QED
  BY <1>1, <1>2, <1>3, GoesOn DEF Submit

LEMMA RunToolsKeeps == ASSUME IInv, RunTools PROVE IInv'
<1>1. Ordinary /\ (faults \in 0 .. MaxFaults)'
  BY ReadIsOrdinary DEF RunTools, IInv
<1>2. CASE Ends
  BY <1>1, <1>2, OnOrEnds DEF RunTools, Step
<1>3. CASE /\ \/ Goto("save") /\ UNCHANGED after
              \/ Goto("hold") /\ after' = "save"
           /\ resumed' = FALSE
           /\ UNCHANGED <<readVars, wrapup, tries, hint, stopping>>
  <2>1. pc' \in Step \ {"clear"} /\ after' \in {"top", "save"} /\ resumed' \in BOOLEAN
    BY <1>3 DEF Goto, Step, IInv, TypeOK
  <2>2. LoopTypes' /\ UNCHANGED <<iteration, mem>>
    BY <1>3, <2>1 DEF LoopTypes, readVars, IInv, TypeOK
  <2>3. QED
    BY <1>1, <2>1, <2>2, GoesOn DEF RunTools
<1>4. QED
  BY <1>2, <1>3 DEF RunTools

LEMMA SaveMessagesKeeps == ASSUME IInv, SaveMessages PROVE IInv'
<1>1. Ordinary /\ (faults \in 0 .. MaxFaults)' /\ (On("top") \/ Ends)
  BY Shapes, WriteIsOrdinary, ReadIsOrdinary DEF SaveMessages, IInv
<1>2. QED
  BY <1>1, OnOrEnds DEF SaveMessages, Step

LEMMA FinishKeeps == ASSUME IInv, Finish PROVE IInv'
<1>1. "moved" \in Status /\ "working" \in Status
  BY DEF Status
<1>2. Ordinary /\ (faults \in 0 .. MaxFaults)'
  BY <1>1, Shapes, WriteIsOrdinary, ReadIsOrdinary DEF Finish, IInv
<1>3. QED
  BY <1>2, OnOrEnds DEF Finish, Step

LEMMA HoldKeeps == ASSUME IInv, Hold PROVE IInv'
<1>1. Ordinary /\ (faults \in 0 .. MaxFaults)' /\ (On("wait") \/ On("save") \/ Ends)
  BY PauseIsOrdinary, AbortIsOrdinary DEF Hold, IInv
<1>2. QED
  BY <1>1, OnOrEnds DEF Hold, Step

LEMMA RepliedKeeps == ASSUME IInv, Replied PROVE IInv'
<1>1. Ordinary /\ (faults \in 0 .. MaxFaults)' /\ UNCHANGED storeVars
  BY ReadIsOrdinary DEF Replied, Read, IInv
<1>2. /\ mem' = [limit |-> ticket'.limit, global |-> ticket'.global]
      /\ mem' \in [limit : Nat, global : Nat]
      /\ wrapup' \in {"none", "context", "budget", "iteration"}
  BY <1>1, LimitsNow DEF Replied, Refresh, storeVars, IInv, TypeOK
<1>3. tries' \in Tries
  <2>1. \/ \E late \in {FALSE, tries.late} : tries' = [tries EXCEPT !.late = late]
        \/ tries' = tries
    BY DEF Replied
  <2>2. QED
    BY <2>1 DEF Tries, IInv, TypeOK
<1>4. pc' \in Step \ {"clear"} /\ after' \in {"top", "save"} /\ resumed' \in BOOLEAN
  BY DEF Replied, Goto, Step, IInv, TypeOK
<1>5. LoopTypes' /\ UNCHANGED iteration
  BY <1>2, <1>3, <1>4 DEF Replied, LoopTypes, IInv, TypeOK
<1>6. UNCHANGED <<granted, spent, others>> /\ HintTypes'
  BY ElsewhereKeeps DEF Replied, IInv
<1>7. Rereads
  BY <1>2, <1>4, <1>5 DEF Rereads, Replied
<1>8. QED
  BY <1>1, <1>5, <1>6, <1>7, StepKeeps

LEMMA WaitEndsKeeps == ASSUME IInv, WaitEnds PROVE IInv'
<1>1. Ordinary /\ (faults \in 0 .. MaxFaults)' /\ (On("save") \/ Ends)
  BY ReadIsOrdinary DEF WaitEnds, IInv
<1>2. QED
  BY <1>1, OnOrEnds DEF WaitEnds, Step

LEMMA WaitTimesOutKeeps == ASSUME IInv, WaitTimesOut PROVE IInv'
<1>1. Ordinary /\ (faults \in 0 .. MaxFaults)' /\ Elsewhere
  BY LocalIsOrdinary DEF WaitTimesOut, IInv
<1>2. CASE Ends
  BY <1>1, <1>2, OnOrEnds DEF Step
<1>3. CASE /\ Goto("wait") /\ tries' = [tries EXCEPT !.late = TRUE]
           /\ UNCHANGED <<readVars, wrapup, askVars, hint, stopping>>
  <2>1. tries' \in Tries
    BY <1>3 DEF Tries, IInv, TypeOK
  <2>2. pc' \in Step \ {"clear"}
    BY <1>3 DEF Goto, Step
  <2>3. LoopTypes' /\ UNCHANGED <<iteration, mem>>
    BY <1>3, <2>1, <2>2 DEF LoopTypes, readVars, askVars, IInv, TypeOK
  <2>4. QED
    BY <1>1, <2>2, <2>3, GoesOn DEF WaitTimesOut
<1>4. QED
  BY <1>2, <1>3 DEF WaitTimesOut

LEMMA LeaveKeeps == ASSUME IInv, Leave PROVE IInv'
<1>1. Ordinary /\ (faults \in 0 .. MaxFaults)'
  BY PauseIsOrdinary DEF Leave, IInv
<1>2. QED
  BY <1>1, OnOrEnds DEF Leave, Step

LEMMA KilledKeeps == ASSUME IInv, Killed PROVE IInv'
<1>1. Ordinary /\ (faults \in 0 .. MaxFaults)' /\ Elsewhere
  BY LocalIsOrdinary DEF Killed, IInv
<1>2. QED
  BY <1>1, OnOrEnds DEF Killed, Step

LEMMA AgentStepKeeps == ASSUME IInv, AgentStep PROVE IInv'
BY LookKeeps, LookFailsKeeps, ClearHintKeeps, ClearFailsKeeps, StopsGracefullyKeeps,
   ExhaustedKeeps, LLMTimesOutKeeps, LLMRateLimitedKeeps, LLMFailsKeeps, LLMAnswersKeeps,
   CheckBudgetKeeps, EmptyAnswerKeeps, ProseKeeps, SubmitKeeps, RunToolsKeeps,
   SaveMessagesKeeps, FinishKeeps, HoldKeeps, RepliedKeeps, WaitEndsKeeps,
   WaitTimesOutKeeps, LeaveKeeps
   DEF AgentStep

-----------------------------------------------------------------------------
\* Grants.  The limits only grow, so that what an agent goes by, and what the
\* agents have used, stays within them.

LEMMA GrowsKeeps ==
    ASSUME IInv, StoreTypes', GrantsStand', HintTypes', (faults \in 0 .. MaxFaults)',
           granted' \subseteq Request, UNCHANGED <<pc, loopVars, logVars>>,
           ticket.mine \subseteq ticket'.mine, ticket.theirs \subseteq ticket'.theirs
    PROVE  IInv'
<1>1. ticket \in Ticket /\ ticket' \in Ticket /\ Accounted(ticket) /\ Accounted(ticket')
  BY DEF IInv, TypeOK, StoreTypes, GrantsStand, Accounted
<1>2. /\ ticket.limit <= ticket'.limit /\ (ticket.limit = 0 <=> ticket'.limit = 0)
      /\ ticket.global <= ticket'.global /\ (ticket.global = 0 <=> ticket'.global = 0)
  BY <1>1, MoreIsAllowed
<1>3. /\ ticket.limit \in Nat /\ ticket'.limit \in Nat
      /\ ticket.global \in Nat /\ ticket'.global \in Nat
      /\ mem.limit \in Nat /\ mem.global \in Nat /\ spent \in Nat /\ others \in Nat
  BY <1>1 DEF Ticket, IInv, TypeOK
<1>4. LoopTypes' /\ LogTypes'
  BY DEF LoopTypes, LogTypes, loopVars, readVars, askVars, logVars, IInv, TypeOK
<1>5. TypeOK'
  BY <1>4, TypePartsNext
<1>6. WithinAllowance'
  <2>1. UNCHANGED <<spent, others>>
    BY DEF logVars
  <2>2. ticket'.limit > 0 => spent' <= ticket'.limit + 1
    BY <2>1, <1>2, <1>3 DEF IInv, WithinAllowance
  <2>3. ticket'.global > 0 => spent' + others' <= ticket'.global
    BY <2>1, <1>2, <1>3 DEF IInv, WithinAllowance
  <2>4. QED
    BY <2>2, <2>3 DEF WithinAllowance
<1>7. GoesByGrants'
  <2>1. UNCHANGED <<pc, iteration, mem, hint, spent>>
    BY DEF loopVars, readVars, logVars
  <2>2. SUFFICES ASSUME pc' # "off"
                 PROVE  /\ iteration' = spent'
                        /\ ticket'.limit = 0 <=> mem'.limit = 0
                        /\ ticket'.global = 0 <=> mem'.global = 0
                        /\ mem'.limit <= ticket'.limit
                        /\ mem'.global <= ticket'.global
                        /\ pc' = "clear" =>
                             hint' \in Hint /\ (mem'.limit = 0 \/ iteration' <= mem'.limit)
    BY DEF GoesByGrants
  <2>3. /\ iteration = spent
        /\ ticket.limit = 0 <=> mem.limit = 0
        /\ ticket.global = 0 <=> mem.global = 0
        /\ mem.limit <= ticket.limit
        /\ mem.global <= ticket.global
        /\ pc = "clear" => hint \in Hint /\ (mem.limit = 0 \/ iteration <= mem.limit)
    BY <2>1, <2>2 DEF IInv, GoesByGrants
  <2>4. QED
    BY <2>1, <2>3, <1>2, <1>3
<1>8. QED
  BY <1>5, <1>6, <1>7 DEF IInv

LEMMA FaultTyped ==
    ASSUME TypeOK, Fault \/ NoFault
    PROVE  (faults \in 0 .. MaxFaults)'
BY LoopAssumption DEF Fault, NoFault, TypeOK

LEMMA GrantKeeps ==
    ASSUME IInv, NEW r \in Request, NEW own \in BOOLEAN, Grant(r, own)
    PROVE  IInv'
<1>1. HintTypes' /\ UNCHANGED <<pc, loopVars, logVars>>
  BY DEF Grant, hintVars, HintTypes, IInv, TypeOK
<1>2. CASE Repeat(r, own)
  <2>1. UNCHANGED <<storeVars, faults>> /\ granted' = granted \cup {r}
    BY <1>2 DEF Repeat
  <2>2. r \in ticket.mine \cup ticket.theirs
    BY <1>2 DEF Repeat, Known
  <2>3. StoreTypes' /\ (faults \in 0 .. MaxFaults)' /\ granted' \subseteq Request
    BY <2>1 DEF storeVars, StoreTypes, IInv, TypeOK
  <2>4. GrantsStand'
    BY <2>1, <2>2 DEF storeVars, GrantsStand, IInv
  <2>5. ticket.mine \subseteq ticket'.mine /\ ticket.theirs \subseteq ticket'.theirs
    BY <2>1 DEF storeVars
  <2>6. QED
    BY <1>1, <2>3, <2>4, <2>5, GrowsKeeps
<1>3. CASE /\ Settled /\ ~Known(r)
           /\ LET t == AllowedOnce(ticket, r, own) IN Store(r, t) \/ StoreFails(t)
  <2> DEFINE t == AllowedOnce(ticket, r, own)
  <2>1. Store(r, t) \/ StoreFails(t)
    BY <1>3
  <2>2. ticket \in Ticket /\ file \in Ticket /\ pending = Nothing
        /\ Accounted(ticket) /\ Accounted(file) /\ SameGrants(file, ticket)
        /\ granted \subseteq ticket.mine \cup ticket.theirs /\ granted \subseteq Request
    BY <1>3 DEF Settled, IInv, TypeOK, GrantsStand
  <2>3. r \notin ticket.mine \cup ticket.theirs
    BY <1>3 DEF Known
  <2>4. /\ t \in Ticket /\ Accounted(t)
        /\ ticket.mine \subseteq t.mine /\ ticket.theirs \subseteq t.theirs
        /\ r \in t.mine \cup t.theirs
    BY <2>2, <2>3, AllowedIsAccounted
  <2>5. SameGrants(t, t) /\ t # Nothing
    BY <2>4, NoTicket DEF SameGrants
  <2> HIDE DEF t
  <2>6. CASE ticket' = t /\ file' = t /\ UNCHANGED pending
             /\ granted' \subseteq granted \cup {r} /\ (Fault \/ NoFault)
    <3>1. StoreTypes' /\ (faults \in 0 .. MaxFaults)' /\ granted' \subseteq Request
      BY <2>2, <2>4, <2>6, FaultTyped DEF StoreTypes, IInv
    <3>2. granted' \subseteq ticket'.mine \cup ticket'.theirs
      BY <2>2, <2>4, <2>6
    <3>3. GrantsStand'
      BY <2>2, <2>4, <2>5, <2>6, <3>2 DEF GrantsStand, Accounted, SameGrants
    <3>4. QED
      BY <1>1, <2>4, <2>6, <3>1, <3>3, GrowsKeeps
  <2>7. CASE file' = ticket /\ UNCHANGED <<ticket, pending, granted>> /\ Fault
    <3>1. StoreTypes' /\ (faults \in 0 .. MaxFaults)' /\ granted' \subseteq Request
      BY <2>2, <2>7, FaultTyped DEF StoreTypes, IInv
    <3>2. GrantsStand'
      BY <2>2, <2>7 DEF GrantsStand, Accounted, SameGrants
    <3>3. QED
      BY <1>1, <2>7, <3>1, <3>2, GrowsKeeps
  <2>8. CASE pending' = t /\ file' \in {file, t} /\ UNCHANGED <<ticket, granted>> /\ Fault
    <3>1. StoreTypes' /\ (faults \in 0 .. MaxFaults)' /\ granted' \subseteq Request
      BY <2>2, <2>4, <2>8, FaultTyped DEF StoreTypes, IInv
    <3>2. Accounted(file)' /\ (SameGrants(file, ticket)' \/ SameGrants(file, pending)')
      BY <2>2, <2>4, <2>5, <2>8 DEF Accounted, SameGrants
    <3>3. GrantsStand'
      BY <2>2, <2>4, <2>5, <2>8, <3>2 DEF GrantsStand, Accounted, SameGrants
    <3>4. QED
      BY <1>1, <2>8, <3>1, <3>3, GrowsKeeps
  <2>9. QED
    BY <2>1, <2>6, <2>7, <2>8 DEF Store, StoreFails, NoFault
<1>4. QED
  BY <1>2, <1>3 DEF Grant

LEMMA ReconcileKeeps == ASSUME IInv, Reconcile PROVE IInv'
<1>1. /\ UNCHANGED <<file, pc, loopVars, logVars, granted, faults>>
      /\ HintTypes' /\ (faults \in 0 .. MaxFaults)' /\ granted' \subseteq Request
      /\ pending # Nothing /\ pending' = Nothing
  BY DEF Reconcile, hintVars, HintTypes, IInv, TypeOK
<1>2. /\ ticket \in Ticket /\ pending \in Ticket /\ file \in Ticket
      /\ Accounted(pending) /\ Accounted(ticket) /\ Accounted(file)
      /\ ticket.mine \subseteq pending.mine /\ ticket.theirs \subseteq pending.theirs
      /\ granted \subseteq ticket.mine \cup ticket.theirs
  BY <1>1 DEF IInv, TypeOK, GrantsStand
<1>3. PICK t \in {ticket, pending} : ticket' = t /\ file = t
  BY DEF Reconcile
<1>4. StoreTypes'
  BY <1>1, <1>2, <1>3 DEF StoreTypes
<1>5. ticket.mine \subseteq ticket'.mine /\ ticket.theirs \subseteq ticket'.theirs
  BY <1>2, <1>3
<1>6. GrantsStand'
  BY <1>1, <1>2, <1>3, <1>5 DEF GrantsStand, Accounted, SameGrants
<1>7. QED
  BY <1>1, <1>4, <1>5, <1>6, GrowsKeeps

LEMMA StoreRestartsKeeps == ASSUME IInv, StoreRestarts PROVE IInv'
<1>1. /\ UNCHANGED <<file, pc, loopVars, logVars, granted>>
      /\ ticket' = file /\ pending' = Nothing /\ granted' \subseteq Request
  BY DEF StoreRestarts, IInv, TypeOK
<1>2. HintTypes' /\ (faults \in 0 .. MaxFaults)'
  BY FaultTyped DEF StoreRestarts, HintTypes, IInv, TypeOK
<1>3. /\ file \in Ticket /\ Accounted(file)
      /\ granted \subseteq ticket.mine \cup ticket.theirs
  BY DEF IInv, TypeOK, GrantsStand
<1>4. ticket.mine \subseteq file.mine /\ ticket.theirs \subseteq file.theirs
  BY DEF IInv, GrantsStand, SameGrants
<1>5. StoreTypes'
  BY <1>1, <1>3 DEF StoreTypes
<1>6. GrantsStand'
  BY <1>1, <1>3, <1>4 DEF GrantsStand, Accounted, SameGrants
<1>7. QED
  BY <1>1, <1>2, <1>4, <1>5, <1>6, GrowsKeeps

-----------------------------------------------------------------------------
\* The users and the other agents.

LEMMA OutsideKeeps ==
    ASSUME IInv, Ordinary, (faults \in 0 .. MaxFaults)', HintTypes',
           Outside, UNCHANGED logVars
    PROVE  IInv'
<1>1. StoreTypes' /\ GrantsStand' /\ Alike(ticket', ticket)
  BY OrdinaryKeeps DEF IInv, Outside
<1>2. granted' \subseteq Request
  BY DEF Outside, IInv, TypeOK
<1>3. ticket.mine \subseteq ticket'.mine /\ ticket.theirs \subseteq ticket'.theirs
  BY <1>1 DEF Alike
<1>4. QED
  BY <1>1, <1>2, <1>3, GrowsKeeps DEF Outside

LEMMA InterjectKeeps == ASSUME IInv, NEW h \in Hint, Interject(h) PROVE IInv'
<1>1. Ordinary /\ (faults \in 0 .. MaxFaults)'
  BY Shapes, WriteIsOrdinary DEF Interject, IInv
<1>2. HintTypes'
  BY DEF Interject, HintTypes, IInv, TypeOK
<1>3. QED
  BY <1>1, <1>2, OutsideKeeps DEF Interject

LEMMA TransitionKeeps == ASSUME IInv, Transition PROVE IInv'
<1>1. ticket.back \in Status /\ "moved" \in Status /\ "working" \in Status
  BY DEF IInv, TypeOK, Ticket, Status
<1>2. Ordinary /\ (faults \in 0 .. MaxFaults)'
  BY <1>1, Shapes, WriteIsOrdinary DEF Transition, IInv
<1>3. HintTypes'
  BY DEF Transition, hintVars, HintTypes, IInv, TypeOK
<1>4. QED
  BY <1>2, <1>3, OutsideKeeps DEF Transition

LEMMA RequestStopKeeps == ASSUME IInv, RequestStop PROVE IInv'
<1>1. Ordinary /\ (faults \in 0 .. MaxFaults)' /\ Elsewhere /\ UNCHANGED storeVars
  BY LocalIsOrdinary DEF RequestStop, Local, IInv
<1>2. StoreTypes' /\ GrantsStand'
  BY <1>1, OrdinaryKeeps, ElsewhereKeeps DEF IInv
<1>3. /\ UNCHANGED <<granted, spent, others, pc, iteration, mem, hint, ticket>>
      /\ HintTypes'
  BY <1>1, ElsewhereKeeps DEF RequestStop, storeVars, readVars, IInv
<1>4. LoopTypes'
  BY DEF RequestStop, LoopTypes, readVars, askVars, IInv, TypeOK
<1>5. TypeOK'
  BY <1>1, <1>2, <1>3, <1>4, TypePartsNext DEF LogTypes, IInv, TypeOK
<1>6. WithinAllowance' /\ GoesByGrants'
  BY <1>3 DEF WithinAllowance, GoesByGrants, IInv
<1>7. QED
  BY <1>2, <1>5, <1>6 DEF IInv

LEMMA OtherAgentsKeeps == ASSUME IInv, OtherAgents PROVE IInv'
<1>1. Ordinary /\ (faults \in 0 .. MaxFaults)'
  BY ReadIsOrdinary DEF OtherAgents, IInv
<1>2. /\ UNCHANGED storeVars /\ UNCHANGED <<pc, loopVars, granted, spent>> /\ HintTypes'
  BY DEF OtherAgents, Read, Outside, hintVars, HintTypes, IInv, TypeOK
<1>3. StoreTypes' /\ GrantsStand' /\ UNCHANGED ticket
  BY <1>1, <1>2, OrdinaryKeeps DEF IInv, storeVars
<1>4. /\ others' = others + 1 /\ others < MaxOthers /\ others \in 0 .. MaxOthers
      /\ spent \in Nat /\ ticket.global \in Nat /\ MaxOthers \in Nat
      /\ ticket.global = 0 \/ spent + others < ticket.global
  BY LoopAssumption, LimitsNow DEF OtherAgents, IInv, TypeOK
<1>5. LogTypes'
  BY <1>2, <1>4 DEF LogTypes, IInv, TypeOK
<1>6. LoopTypes'
  BY <1>2 DEF LoopTypes, loopVars, readVars, askVars, IInv, TypeOK
<1>7. TypeOK'
  BY <1>1, <1>2, <1>3, <1>5, <1>6, TypePartsNext
<1>8. WithinAllowance'
  <2>1. ticket'.limit > 0 => spent' <= ticket'.limit + 1
    BY <1>2, <1>3 DEF WithinAllowance, IInv
  <2>2. ticket'.global > 0 => spent' + others' <= ticket'.global
    BY <1>2, <1>3, <1>4
  <2>3. QED
    BY <2>1, <2>2 DEF WithinAllowance
<1>9. GoesByGrants'
  BY <1>2 DEF GoesByGrants, OtherAgents
<1>10. QED
  BY <1>3, <1>7, <1>8, <1>9 DEF IInv

LEMMA FleetEpochKeeps == ASSUME IInv, FleetEpoch PROVE IInv'
<1>1. Ordinary /\ (faults \in 0 .. MaxFaults)'
  BY ReadIsOrdinary DEF FleetEpoch, IInv
<1>2. /\ UNCHANGED storeVars /\ UNCHANGED <<pc, loopVars, granted>> /\ HintTypes'
  BY DEF FleetEpoch, Read, Outside, hintVars, HintTypes, IInv, TypeOK
<1>3. StoreTypes' /\ GrantsStand' /\ UNCHANGED ticket
  BY <1>1, <1>2, OrdinaryKeeps DEF IInv, storeVars
<1>4. /\ others' = others + spent /\ spent' = 0 /\ others + spent <= MaxOthers
      /\ others \in 0 .. MaxOthers /\ spent \in Nat /\ MaxOthers \in Nat
      /\ ticket.limit \in Nat /\ ticket.global \in Nat
  BY LoopAssumption, LimitsNow DEF FleetEpoch, IInv, TypeOK
<1>5. LogTypes'
  BY <1>2, <1>4 DEF LogTypes, IInv, TypeOK
<1>6. LoopTypes'
  BY <1>2 DEF LoopTypes, loopVars, readVars, askVars, IInv, TypeOK
<1>7. TypeOK'
  BY <1>1, <1>2, <1>3, <1>5, <1>6, TypePartsNext
<1>8. WithinAllowance'
  <2>1. ticket.global > 0 => spent + others <= ticket.global
    BY DEF WithinAllowance, IInv
  <2>2. QED
    BY <1>3, <1>4, <2>1 DEF WithinAllowance
<1>9. GoesByGrants'
  BY <1>2 DEF GoesByGrants, FleetEpoch
<1>10. QED
  BY <1>3, <1>7, <1>8, <1>9 DEF IInv

LEMMA OtherAgentsHearKeeps == ASSUME IInv, OtherAgentsHear PROVE IInv'
<1>1. Ordinary /\ (faults \in 0 .. MaxFaults)'
  BY Shapes, WriteIsOrdinary DEF OtherAgentsHear, IInv
<1>2. ticket.hint \in Hint
  BY DEF OtherAgentsHear, IInv, TypeOK, Ticket
<1>3. HintTypes'
  BY <1>2 DEF OtherAgentsHear, Tell, HintTypes, IInv, TypeOK
<1>4. QED
  BY <1>1, <1>3, OutsideKeeps DEF OtherAgentsHear

-----------------------------------------------------------------------------

LEMMA InitHolds == Init => IInv
<1> SUFFICES ASSUME Init PROVE IInv
  OBVIOUS
<1>1. /\ Configured \in Nat /\ ConfiguredGlobal \in Nat /\ Extra \in Nat
      /\ MaxOthers \in Nat /\ MaxFaults \in Nat
  BY LoopAssumption
<1>2. NewTicket \in Ticket
  BY <1>1 DEF NewTicket, Ticket, Status
<1>3. [limit |-> Configured, global |-> ConfiguredGlobal] \in [limit : Nat, global : Nat]
      /\ Fresh \in Tries
  BY <1>1 DEF Fresh, Tries
<1>4. TypeOK
  <2>1. StoreTypes
    BY <1>2 DEF Init, StoreTypes
  <2>2. LoopTypes
    BY <1>3 DEF Init, LoopTypes, Step
  <2>3. LogTypes /\ HintTypes /\ faults \in 0 .. MaxFaults
    BY <1>1 DEF Init, LogTypes, HintTypes
  <2>4. QED
    BY <2>1, <2>2, <2>3, TypeParts
<1>5. Accounted(NewTicket)
  <2>1. Cardinality({}) = 0
    BY FS_EmptySet
  <2>2. Extra * Cardinality({}) = 0
    BY <2>1, <1>1
  <2>3. {} \cup {} = {} /\ {} \cap {} = {}
    OBVIOUS
  <2>4. Configured + 0 = Configured /\ ConfiguredGlobal + 0 = ConfiguredGlobal
    BY <1>1
  <2>5. /\ NewTicket.mine = {} /\ NewTicket.theirs = {}
        /\ NewTicket.limit = Configured /\ NewTicket.global = ConfiguredGlobal
    BY DEF NewTicket
  <2>6. QED
    BY <2>2, <2>3, <2>4, <2>5 DEF Accounted
<1>6. GrantsStand
  BY <1>5 DEF Init, GrantsStand, SameGrants
<1>7. GoesByGrants
  BY DEF Init, GoesByGrants
<1>8. WithinAllowance
  <2>1. /\ ticket.limit \in Nat /\ ticket.global \in Nat
        /\ spent = 0 /\ others = 0
    BY <1>4, LimitsNow DEF Init
  <2>2. QED
    BY <2>1 DEF WithinAllowance
<1>9. QED
  BY <1>4, <1>6, <1>7, <1>8 DEF IInv

LEMMA StepHolds == IInv /\ [Next]_vars => IInv'
<1> SUFFICES ASSUME IInv, [Next]_vars PROVE IInv'
  OBVIOUS
<1>1. CASE UNCHANGED vars
  BY <1>1 DEF vars, storeVars, loopVars, readVars, askVars, logVars, hintVars, IInv, TypeOK,
     GrantsStand, GoesByGrants, WithinAllowance
<1>2. CASE StartAgent
  BY <1>2, StartAgentKeeps
<1>3. CASE AgentStep
  BY <1>3, AgentStepKeeps
<1>4. CASE Killed
  BY <1>4, KilledKeeps
<1>5. CASE \E r \in Request, own \in BOOLEAN : Grant(r, own)
  BY <1>5, GrantKeeps
<1>6. CASE Reconcile
  BY <1>6, ReconcileKeeps
<1>7. CASE StoreRestarts
  BY <1>7, StoreRestartsKeeps
<1>8. CASE \E h \in Hint : Interject(h)
  BY <1>8, InterjectKeeps
<1>9. CASE Transition
  BY <1>9, TransitionKeeps
<1>10. CASE RequestStop
  BY <1>10, RequestStopKeeps
<1>11. CASE OtherAgents
  BY <1>11, OtherAgentsKeeps
<1>12. CASE OtherAgentsHear
  BY <1>12, OtherAgentsHearKeeps
<1>13. CASE FleetEpoch
  BY <1>13, FleetEpochKeeps
<1>14. QED
  BY <1>1, <1>2, <1>3, <1>4, <1>5, <1>6, <1>7, <1>8, <1>9, <1>10, <1>11, <1>12, <1>13
     DEF Next

\* Every variable keeps its type, every confirmed grant stands and counts once,
\* a running agent goes by limits that were granted and by the count of the
\* log, and the agents of a stage and of the ticket stay within them
\* (store.py:1115-1284, base.py:478-868).
THEOREM GrantsAreKept == Spec => []IInv
<1>1. Init => IInv
  BY InitHolds
<1>2. IInv /\ [Next]_vars => IInv'
  BY StepHolds
<1>3. QED
  BY <1>1, <1>2, PTL DEF Spec

\* The agents of a stage use at most one iteration more than its limit, and all
\* agents no more than the limit of the ticket, over crashes, retried grants
\* and any number of runs (base.py:478-552, 862-1348; store.py:1115-1284).
THEOREM AllowanceIsKept == Spec => []WithinAllowance
<1>1. IInv => WithinAllowance
  BY DEF IInv
<1>2. QED
  BY <1>1, GrantsAreKept, PTL

\* A grant that was confirmed is never taken back, be it by a failed write, by
\* its repetition or by a restart of the store (store.py:1177-1284).
THEOREM GrantsAreDurable == Spec => [](granted \subseteq ticket.mine \cup ticket.theirs)
<1>1. IInv => granted \subseteq ticket.mine \cup ticket.theirs
  BY DEF IInv, GrantsStand
<1>2. QED
  BY <1>1, GrantsAreKept, PTL

-----------------------------------------------------------------------------
\* Interjections.  Nothing that was told is pending again, unless a restart of
\* the store brought it back.

HintInv ==
    /\ ticket.hint \in sent \cup {Nothing} /\ file.hint \in sent \cup {Nothing}
    /\ told \subseteq sent
    /\ pending # Nothing => pending.hint = ticket.hint
    /\ ticket.hint \in told => ticket.hint \in reverted
    /\ pc = "clear" => hint \in sent /\ (hint \in told => hint \in reverted)
    /\ retold \subseteq reverted

\* A step that leaves the pending interjection alone.
HintStays ==
    /\ ticket'.hint = ticket.hint
    /\ file'.hint \in {file.hint, ticket.hint}
    /\ pending' # Nothing => pending'.hint = ticket.hint

LEMMA HintFrame ==
    ASSUME HintInv, HintStays, UNCHANGED hintVars,
           pc' # "clear" \/ UNCHANGED <<pc, hint>>
    PROVE  HintInv'
BY DEF HintInv, HintStays, hintVars

LEMMA StoreStays ==
    ASSUME HintInv, Read \/ Unanswered \/ UNCHANGED storeVars
    PROVE  HintStays
BY DEF HintInv, HintStays, Read, Unanswered, storeVars

LEMMA WriteStays ==
    ASSUME NEW t, t.hint = ticket.hint, Write(t) \/ WriteLost(t)
    PROVE  HintStays
BY DEF HintStays, Write, WriteLost, Settled

LEMMA SameHint ==
    /\ Paused.hint = ticket.hint
    /\ \A s, b : At(ticket, s, b).hint = ticket.hint
    /\ \A r, own : AllowedOnce(ticket, r, own).hint = ticket.hint
BY DEF Paused, At, AllowedOnce

LEMMA PauseStays == ASSUME HintInv, Pause \/ PauseFails PROVE HintStays
BY SameHint, StoreStays, WriteStays DEF Pause, PauseFails

LEMMA AbortStays == ASSUME HintInv, AbortUnpausable PROVE HintStays
BY SameHint, StoreStays, WriteStays DEF AbortUnpausable

LEMMA LookHints == ASSUME IInv, HintInv, Look PROVE HintInv'
<1>1. HintStays /\ UNCHANGED hintVars
  BY StoreStays DEF Look
<1>2. CASE pc' # "clear"
  BY <1>1, <1>2, HintFrame
<1>3. CASE /\ ticket.hint # Nothing /\ hint' = ticket.hint
  <2>1. ticket.hint \in sent /\ (ticket.hint \in told => ticket.hint \in reverted)
    BY <1>3 DEF HintInv
  <2>2. QED
    BY <1>1, <1>3, <2>1 DEF HintInv, HintStays, hintVars
<1>4. QED
  BY <1>2, <1>3 DEF Look, Ends, Proceed, Goto

\* What is told is what was read, and is not pending afterwards.
LEMMA TellHints ==
    ASSUME IInv, HintInv, NEW h \in sent, h \in told => h \in reverted, Tell(h),
           Write(Cleared), pc' # "clear"
    PROVE  HintInv'
<1>1. /\ told' = told \cup {h} /\ reverted' = reverted /\ sent' = sent
      /\ retold' \subseteq retold \cup (told \cap {h})
  BY DEF Tell
<1>2. ticket'.hint = Nothing /\ file'.hint \in {file.hint, Nothing} /\ pending' = Nothing
  BY DEF Write, Cleared, WithHint, Settled
<1>3. Nothing \notin told'
  BY <1>1, LoopAssumption DEF IInv, TypeOK
<1>4. QED
  BY <1>1, <1>2, <1>3 DEF HintInv

LEMMA ClearHintHints == ASSUME IInv, HintInv, ClearHint PROVE HintInv'
<1>1. hint \in sent /\ (hint \in told => hint \in reverted) /\ Write(Cleared)
  BY DEF ClearHint, HintInv
<1>2. CASE Proceed(mem.global) /\ Tell(hint)
  BY <1>1, <1>2, TellHints DEF Proceed, Goto
<1>3. CASE Ends /\ UNCHANGED hintVars
  <2>1. ticket'.hint = Nothing /\ file'.hint \in {file.hint, Nothing} /\ pending' = Nothing
    BY <1>1 DEF Write, Cleared, WithHint, Settled
  <2>2. Nothing \notin told
    BY LoopAssumption DEF IInv, TypeOK
  <2>3. QED
    BY <1>3, <2>1, <2>2 DEF HintInv, hintVars, Ends
<1>4. QED
  BY <1>2, <1>3 DEF ClearHint

LEMMA ClearFailsHints == ASSUME IInv, HintInv, ClearFails PROVE HintInv'
<1>1. UNCHANGED hintVars /\ pc' # "clear"
  BY DEF ClearFails, Elsewhere, Ends
<1>2. CASE Unanswered
  BY <1>1, <1>2, StoreStays, HintFrame
<1>3. CASE WriteLost(Cleared)
  <2>1. ticket'.hint = Nothing /\ file'.hint = Nothing /\ pending' = Nothing
    BY <1>3 DEF WriteLost, Cleared, WithHint, Settled
  <2>2. Nothing \notin told
    BY LoopAssumption DEF IInv, TypeOK
  <2>3. QED
    BY <1>1, <2>1, <2>2 DEF HintInv, hintVars
<1>4. QED
  BY <1>2, <1>3 DEF ClearFails

LEMMA LocalHints == ASSUME HintInv, Local, pc' # "clear" PROVE HintInv'
BY StoreStays, HintFrame DEF Local

LEMMA ElsewhereHints == ASSUME HintInv, HintStays, Elsewhere, pc' # "clear" PROVE HintInv'
BY HintFrame DEF Elsewhere

LEMMA AgentHints == ASSUME IInv, HintInv, AgentStep PROVE HintInv'
<1>1. CASE Look \/ ClearHint \/ ClearFails
  BY <1>1, LookHints, ClearHintHints, ClearFailsHints
<1>2. CASE LookFails
  BY <1>2, StoreStays, HintFrame DEF LookFails, Proceed, Goto
<1>3. CASE StopsGracefully
  BY <1>3, LocalHints DEF StopsGracefully, On
<1>4. CASE LLMTimesOut \/ LLMRateLimited \/ LLMFails
  BY <1>4, LocalHints DEF LLMTimesOut, LLMRateLimited, LLMFails, Goto, Ends
<1>5. CASE LLMAnswers
  BY <1>5, LocalHints DEF LLMAnswers, Goto
<1>6. CASE EmptyAnswer \/ Prose \/ Submit
  BY <1>6, LocalHints DEF EmptyAnswer, Prose, Submit, Goto
<1>7. CASE WaitTimesOut
  BY <1>7, LocalHints DEF WaitTimesOut, Goto, Ends
<1>8. CASE Exhausted
  <2>1. HintStays
    BY <1>8, WriteStays, StoreStays, AbortStays DEF Exhausted
  <2>2. QED
    BY <1>8, <2>1, ElsewhereHints DEF Exhausted, AbortUnpausable, On, Ends
<1>9. CASE CheckBudget
  <2>1. HintStays
    BY <1>9, PauseStays, StoreStays DEF CheckBudget
  <2>2. QED
    BY <1>9, <2>1, ElsewhereHints DEF CheckBudget, OutOfBudget, WithinBudget, Goto
<1>10. CASE RunTools
  <2>1. HintStays
    BY <1>10, StoreStays DEF RunTools
  <2>2. QED
    BY <1>10, <2>1, ElsewhereHints DEF RunTools, Goto, Ends
<1>11. CASE SaveMessages
  <2>1. HintStays
    BY <1>11, WriteStays, StoreStays DEF SaveMessages
  <2>2. QED
    BY <1>11, <2>1, ElsewhereHints DEF SaveMessages, On, Ends
<1>12. CASE Finish
  <2>1. HintStays
    BY <1>12, SameHint, WriteStays, StoreStays DEF Finish
  <2>2. QED
    BY <1>12, <2>1, ElsewhereHints DEF Finish, Ends
<1>13. CASE Hold
  <2>1. HintStays
    BY <1>13, PauseStays, AbortStays DEF Hold
  <2>2. QED
    BY <1>13, <2>1, ElsewhereHints DEF Hold, AbortUnpausable, On, Ends
<1>14. CASE Replied
  <2>1. pc' # "clear"
    BY <1>14 DEF Replied, Goto, IInv, TypeOK
  <2>2. QED
    BY <1>14, <2>1, StoreStays, ElsewhereHints DEF Replied
<1>15. CASE WaitEnds
  <2>1. HintStays
    BY <1>15, StoreStays DEF WaitEnds
  <2>2. QED
    BY <1>15, <2>1, ElsewhereHints DEF WaitEnds, On, Ends
<1>16. CASE Leave
  BY <1>16, PauseStays, ElsewhereHints DEF Leave, Ends
<1>17. QED
  BY <1>1, <1>2, <1>3, <1>4, <1>5, <1>6, <1>7, <1>8, <1>9, <1>10, <1>11, <1>12, <1>13,
     <1>14, <1>15, <1>16 DEF AgentStep

LEMMA GrantHints == ASSUME HintInv, NEW r, NEW own, Grant(r, own) PROVE HintInv'
<1>1. UNCHANGED hintVars /\ UNCHANGED <<pc, hint>>
  BY DEF Grant, loopVars
<1>2. HintStays
  BY SameHint DEF Grant, Repeat, Store, StoreFails, storeVars, Settled, HintStays
<1>3. QED
  BY <1>1, <1>2, HintFrame

LEMMA RestartHints == ASSUME IInv, HintInv, StoreRestarts PROVE HintInv'
<1>1. /\ ticket' = file /\ file' = file /\ pending' = Nothing
      /\ reverted' = reverted \cup (told \cap {file.hint})
      /\ UNCHANGED <<pc, hint, told, retold, sent>>
  BY DEF StoreRestarts, loopVars
<1>2. QED
  BY <1>1 DEF HintInv

LEMMA InterjectHints == ASSUME IInv, HintInv, NEW h \in Hint, Interject(h) PROVE HintInv'
<1>1. /\ h \notin sent /\ sent' = sent \cup {h}
      /\ UNCHANGED <<told, retold, reverted, pc, hint>>
  BY DEF Interject, Outside, loopVars
<1>2. ticket'.hint = h /\ file'.hint \in {file.hint, h} /\ pending' = Nothing
  BY DEF Interject, Write, WithHint, Settled
<1>3. h \notin told
  BY <1>1 DEF HintInv
<1>4. QED
  BY <1>1, <1>2, <1>3 DEF HintInv

LEMMA HintStep == IInv /\ HintInv /\ [Next]_vars => HintInv'
<1> SUFFICES ASSUME IInv, HintInv, [Next]_vars PROVE HintInv'
  OBVIOUS
<1>1. CASE UNCHANGED vars
  BY <1>1, StoreStays, HintFrame DEF vars, loopVars
<1>2. CASE StartAgent
  BY <1>2, StoreStays, ElsewhereHints DEF StartAgent, Elsewhere, Goto
<1>3. CASE AgentStep
  BY <1>3, AgentHints
<1>4. CASE Killed
  BY <1>4, LocalHints DEF Killed, Ends
<1>5. CASE \E r \in Request, own \in BOOLEAN : Grant(r, own)
  BY <1>5, GrantHints
<1>6. CASE Reconcile
  <2>1. HintStays /\ UNCHANGED hintVars /\ UNCHANGED <<pc, hint>>
    BY <1>6 DEF Reconcile, HintStays, HintInv, loopVars
  <2>2. QED
    BY <2>1, HintFrame
<1>7. CASE StoreRestarts
  BY <1>7, RestartHints
<1>8. CASE \E h \in Hint : Interject(h)
  BY <1>8, InterjectHints
<1>9. CASE Transition
  <2>1. HintStays /\ UNCHANGED hintVars /\ UNCHANGED <<pc, hint>>
    BY <1>9, SameHint, WriteStays DEF Transition, Outside, loopVars
  <2>2. QED
    BY <2>1, HintFrame
<1>10. CASE RequestStop
  BY <1>10, StoreStays, HintFrame DEF RequestStop, Local
<1>11. CASE OtherAgents
  BY <1>11, StoreStays, HintFrame DEF OtherAgents, Outside, loopVars
<1>12. CASE OtherAgentsHear
  <2>1. ticket.hint \in sent /\ (ticket.hint \in told => ticket.hint \in reverted)
    BY <1>12 DEF OtherAgentsHear, HintInv
  <2>2. pc' # "clear" /\ Tell(ticket.hint) /\ Write(Cleared)
    BY <1>12 DEF OtherAgentsHear, Outside
  <2>3. QED
    BY <2>1, <2>2, TellHints
<1>13. CASE FleetEpoch
  BY <1>13, StoreStays, HintFrame DEF FleetEpoch, Outside, loopVars
<1>14. QED
  BY <1>1, <1>2, <1>3, <1>4, <1>5, <1>6, <1>7, <1>8, <1>9, <1>10, <1>11, <1>12, <1>13
     DEF Next

\* An interjection that was told is told again only after a restart of the
\* store that came back with it (base.py:882-893, 2952-3007).
THEOREM ToldOnce == Spec => []InterjectedOnce
<1>1. Init => HintInv
  BY DEF Init, HintInv, NewTicket
<1>2. IInv /\ HintInv /\ [Next]_vars => HintInv'
  BY HintStep
<1>3. HintInv => InterjectedOnce
  BY DEF HintInv, InterjectedOnce
<1>4. QED
  BY <1>1, <1>2, <1>3, GrantsAreKept, PTL DEF Spec
=============================================================================
