--------------------------- MODULE TraceSpoolProofs ---------------------------
(***************************************************************************)
(* Proofs about TraceSpool, for any producers, sweepers and events, and any  *)
(* length of spools and batches.                                             *)
(***************************************************************************)
EXTENDS TraceSpool, SequenceTheorems, TLAPS

-----------------------------------------------------------------------------
\* The inductive invariant.

Working(c) == stage[c] \in {"read", "send", "ack", "compact", "rename"}

\* One client works on a spool that is there, and it has the lock; a sweeper
\* whose spool was removed may go on without it.
Locks ==
    /\ \A p \in Producer : on[p] = p
    /\ \A p \in Producer : life[p] = "over" => stage[p] = "idle"
    /\ \A p \in Producer : life[p] # "over" => holder[p] = p /\ p \in present
    /\ \A s \in Sweeper : stage[s] # "idle" => life[on[s]] = "over"
    /\ \A c \in Client : Working(c) => holder[on[c]] = c \/ on[c] \notin present
    /\ \A c, d \in Client : Working(c) /\ Working(d) /\ on[c] = on[d] => c = d

Files ==
    /\ \A p \in Producer : p \notin present => file[p] = <<>>
    /\ \A p \in Producer : ack[p] <= Len(file[p])
    /\ AcknowledgedIsStored
    /\ \A p \in Producer : EventsOf(p) \subseteq written

\* What a client has passed is stored; what it has read is what follows in the
\* file; what it may acknowledge is stored; what it compacts away is stored.
PassedIsStored(c) ==
    stage[c] \in {"read", "send", "ack"} =>
      \A i \in DOMAIN file[on[c]] : i <= pos[c] => file[on[c]][i] \in Stored
BatchFollows(c) ==
    stage[c] \in {"send", "ack"} /\ on[c] \in present =>
      \A i \in DOMAIN batch[c] : /\ pos[c] + i \in DOMAIN file[on[c]]
                                 /\ file[on[c]][pos[c] + i] = batch[c][i]
SendsWritten(c) == stage[c] = "send" => Elements(batch[c]) \subseteq written
GrantedIsStored(c) ==
    stage[c] = "ack" => /\ granted[c] <= Len(batch[c])
                        /\ \A i \in 1 .. granted[c] : batch[c][i] \in Stored
CopiesTheRest(c) ==
    stage[c] = "rename" =>
      /\ ack[on[c]] = 0
      /\ Len(batch[c]) <= MaxFrames
      /\ Elements(batch[c]) \ {Torn} \subseteq written
      /\ EventsOf(on[c]) \subseteq Stored \cup Elements(batch[c])

ClientOK(c) ==
    /\ PassedIsStored(c) /\ BatchFollows(c) /\ SendsWritten(c) /\ GrantedIsStored(c)
    /\ CopiesTheRest(c)
Clients == \A c \in Client : ClientOK(c)

Account ==
    /\ \A e \in accepted : e \in Settled \/ \E p \in Producer : e \in EventsOf(p)
    /\ quarantined \subseteq written /\ pruned \subseteq written

IInv == DeliveryTypeOK /\ Locks /\ Files /\ Clients /\ Account

\* No client reads beyond the end of a file.
Reach(c) == IF stage[c] = "read" THEN pos[c] ELSE pos[c] + Len(batch[c])
InFile(c) ==
    stage[c] \in {"read", "send", "ack"} /\ on[c] \in present =>
      Reach(c) <= Len(file[on[c]])
InFiles == \A c \in Client : InFile(c)

-----------------------------------------------------------------------------
\* The parts of the type invariant.

DiskTypes ==
    /\ file \in [Producer -> Seq(Event \cup {Torn})]
    /\ \A p \in Producer : Len(file[p]) <= MaxFrames
    /\ present \subseteq Producer
    /\ ack \in [Producer -> Nat]
ClientTypes ==
    /\ stage \in [Client -> Stage]
    /\ on \in [Client -> Producer]
    /\ pos \in [Client -> Nat]
    /\ batch \in [Client -> Seq(Event \cup {Torn})]
    /\ granted \in [Client -> Nat]
LockTypes == holder \in [Producer -> Client \cup {Nobody}]
             /\ life \in [Producer -> {"open", "closing", "over"}]
LogTypes ==
    /\ rows \in [Event -> Nat]
    /\ written \subseteq Event /\ accepted \subseteq written
    /\ quarantined \subseteq Event /\ pruned \subseteq Event

LEMMA TypeParts == DeliveryTypeOK <=> DiskTypes /\ ClientTypes /\ LockTypes /\ LogTypes
BY DEF DeliveryTypeOK, DiskTypes, ClientTypes, LockTypes, LogTypes

LEMMA TypePartsNext ==
    DeliveryTypeOK' <=> DiskTypes' /\ ClientTypes' /\ LockTypes' /\ LogTypes'
BY DEF DeliveryTypeOK, DiskTypes, ClientTypes, LockTypes, LogTypes

LEMMA Frames ==
    ASSUME DeliveryTypeOK, NEW p \in Producer
    PROVE  /\ file[p] \in Seq(Event \cup {Torn}) /\ DOMAIN file[p] = 1 .. Len(file[p])
           /\ Len(file[p]) \in Nat /\ ack[p] \in Nat
           /\ EventsOf(p) \subseteq Event
<1>1. file[p] \in Seq(Event \cup {Torn}) /\ ack[p] \in Nat
  BY DEF DeliveryTypeOK
<1>2. DOMAIN file[p] = 1 .. Len(file[p]) /\ Len(file[p]) \in Nat
  BY <1>1
<1>3. \A i \in DOMAIN file[p] : file[p][i] \in Event \cup {Torn}
  BY <1>1, <1>2, ElementOfSeq
<1>4. QED
  BY <1>1, <1>2, <1>3 DEF EventsOf, Elements

LEMMA BatchFrames ==
    ASSUME DeliveryTypeOK, NEW c \in Client
    PROVE  /\ batch[c] \in Seq(Event \cup {Torn}) /\ DOMAIN batch[c] = 1 .. Len(batch[c])
           /\ Len(batch[c]) \in Nat /\ pos[c] \in Nat /\ granted[c] \in Nat
           /\ on[c] \in Producer /\ stage[c] \in Stage
BY DEF DeliveryTypeOK

-----------------------------------------------------------------------------
\* What a step does to the claims of a client.

\* A client that is nowhere between reading and replacing claims nothing.
LEMMA Vacuous ==
    ASSUME NEW c, stage'[c] \notin {"read", "send", "ack", "rename"}
    PROVE  ClientOK(c)'
BY DEF ClientOK, PassedIsStored, BatchFollows, SendsWritten, GrantedIsStored, CopiesTheRest

\* The spool of a client is as it was, or its acknowledgement is gone, or it is
\* gone itself.
Undisturbed(d) ==
    \/ /\ file'[on[d]] = file[on[d]]
       /\ ack'[on[d]] \in {0, ack[on[d]]}
       /\ on[d] \in present' => on[d] \in present
    \/ file'[on[d]] = <<>> /\ ack'[on[d]] = 0 /\ on[d] \notin present'

LEMMA StandsStill ==
    ASSUME DeliveryTypeOK, NEW d \in Client, ClientOK(d), Undisturbed(d),
           Stored \subseteq Stored', written \subseteq written',
           stage'[d] = stage[d], on'[d] = on[d], pos'[d] = pos[d],
           batch'[d] = batch[d], granted'[d] = granted[d]
    PROVE  ClientOK(d)'
<1>1. PassedIsStored(d)'
  BY DEF ClientOK, PassedIsStored, Undisturbed
<1>2. BatchFollows(d)'
  BY DEF ClientOK, BatchFollows, Undisturbed
<1>3. SendsWritten(d)' /\ GrantedIsStored(d)'
  BY DEF ClientOK, SendsWritten, GrantedIsStored
<1>4. CopiesTheRest(d)'
  BY DEF ClientOK, CopiesTheRest, Undisturbed, EventsOf, Elements
<1>5. QED
  BY <1>1, <1>2, <1>3, <1>4 DEF ClientOK

\* One client moves, and no spool another works on is disturbed.
Moves(c) ==
    \A d \in Client \ {c} : /\ stage'[d] = stage[d] /\ on'[d] = on[d] /\ pos'[d] = pos[d]
                            /\ batch'[d] = batch[d] /\ granted'[d] = granted[d]

LEMMA ClientsKeep ==
    ASSUME DeliveryTypeOK, Clients, NEW c \in Client, Moves(c), ClientOK(c)',
           Stored \subseteq Stored', written \subseteq written',
           \A d \in Client \ {c} : Working(d) => Undisturbed(d)
    PROVE  Clients'
<1>1. SUFFICES ASSUME NEW d \in Client \ {c} PROVE ClientOK(d)'
  BY DEF Clients
<1>2. CASE Working(d)
  BY <1>2, StandsStill DEF Moves, Clients
<1>3. CASE ~ Working(d)
  BY <1>3, Vacuous DEF Moves, Working
<1>4. QED
  BY <1>2, <1>3

LEMMA SameDisk ==
    ASSUME UNCHANGED disk
    PROVE  \A d \in Client : Undisturbed(d)
BY DEF disk, Undisturbed

\* Two clients do not work on one spool.
LEMMA ElsewhereQuiet ==
    ASSUME DeliveryTypeOK, Locks, NEW c \in Client, Working(c),
           \A p \in Producer \ {on[c]} : /\ file'[p] = file[p] /\ ack'[p] = ack[p]
                                         /\ p \in present' => p \in present
    PROVE  \A d \in Client \ {c} : Working(d) => Undisturbed(d)
<1>1. SUFFICES ASSUME NEW d \in Client \ {c}, Working(d) PROVE Undisturbed(d)
  OBVIOUS
<1>2. on[d] # on[c] /\ on[d] \in Producer
  BY <1>1, BatchFrames DEF Locks
<1>3. QED
  BY <1>2 DEF Undisturbed

LEMMA RowsGrow ==
    ASSUME DeliveryTypeOK, NEW taken, Insert(taken)
    PROVE  /\ Stored \subseteq Stored' /\ rows' \in [Event -> Nat]
           /\ taken \cap Event \subseteq Stored'
BY DEF Insert, Stored, DeliveryTypeOK

LEMMA SameRows == ASSUME UNCHANGED rows PROVE Stored' = Stored
BY DEF Stored

-----------------------------------------------------------------------------
\* What a step does to the locks.

\* A client goes on, and begins nothing.
LEMMA LocksMove ==
    ASSUME DeliveryTypeOK, Locks, NEW c \in Client, stage[c] # "idle", NEW next \in Stage,
           stage' = [stage EXCEPT ![c] = next],
           next \in {"read", "send", "ack", "compact", "rename"} => Working(c),
           UNCHANGED <<holder, life, on, present>>
    PROVE  Locks'
<1>1. stage \in [Client -> Stage]
  BY DEF DeliveryTypeOK
<1>2. /\ \A d \in Client : stage'[d] = IF d = c THEN next ELSE stage[d]
      /\ \A d \in Client : Working(d)' => Working(d)
      /\ \A d \in Client : stage'[d] # "idle" => stage[d] # "idle"
  BY <1>1 DEF Working
<1>3. \A p \in Producer : p \in Client
  BY DEF Client
<1>4. \A s \in Sweeper : s \in Client
  BY DEF Client
<1>5. QED
  BY <1>2, <1>3, <1>4 DEF Locks

\* A client lets go of its spool, or the spool goes.
LEMMA LocksLeave ==
    ASSUME DeliveryTypeOK, Locks, NEW c \in Client, stage' = [stage EXCEPT ![c] = "idle"],
           UNCHANGED on,
           c \in Sweeper => stage[c] # "idle" /\ life' = life,
           c \in Producer => life' = [life EXCEPT ![c] = "over"],
           present' \in {present, present \ {on[c]}},
           \A q \in Producer \ {on[c]} : holder'[q] = holder[q],
           holder'[on[c]] = holder[on[c]] \/ holder[on[c]] = c \/ on[c] \notin present'
    PROVE  Locks'
<1> DEFINE p == on[c]
<1>1. /\ stage \in [Client -> Stage] /\ life \in [Producer -> {"open", "closing", "over"}]
      /\ p \in Producer /\ \A d \in Client : on[d] \in Producer
  BY DEF DeliveryTypeOK
<1>2. /\ \A d \in Client : stage'[d] = IF d = c THEN "idle" ELSE stage[d]
      /\ \A d \in Client : Working(d)' => Working(d) /\ d # c
  BY <1>1 DEF Working
<1>3. c \in Producer \/ c \in Sweeper
  BY DEF Client
<1>4. /\ \A q \in Producer : life[q] = "over" => life'[q] = "over"
      /\ \A q \in Producer : life'[q] = "over" => life[q] = "over" \/ q = c
      /\ life'[p] = "over"
  <2>1. CASE c \in Producer
    <3>1. p = c
      BY <2>1 DEF Locks
    <3>2. QED
      BY <2>1, <3>1, <1>1
  <2>2. CASE c \in Sweeper
    BY <2>2, <1>1 DEF Locks
  <2>3. QED
    BY <1>3, <2>1, <2>2
<1>5. \A q \in Producer : q \in Client
  BY DEF Client
<1>6. \A s \in Sweeper : s \in Client
  BY DEF Client
<1> HIDE DEF p
<1>7. \A q \in Producer : life'[q] = "over" => stage'[q] = "idle"
  BY <1>2, <1>4, <1>5 DEF Locks
<1>8. \A q \in Producer : life'[q] # "over" => holder'[q] = q /\ q \in present'
  BY <1>4 DEF Locks, p
<1>9. \A s \in Sweeper : stage'[s] # "idle" => life'[on'[s]] = "over"
  BY <1>1, <1>2, <1>4, <1>6 DEF Locks
<1>10. \A d \in Client : Working(d)' => holder'[on'[d]] = d \/ on'[d] \notin present'
  <2>1. SUFFICES ASSUME NEW d \in Client, Working(d)'
                 PROVE  holder'[on[d]] = d \/ on[d] \notin present'
    OBVIOUS
  <2>2. d # c /\ on[d] \in Producer /\ (holder[on[d]] = d \/ on[d] \notin present)
    BY <2>1, <1>1, <1>2 DEF Locks
  <2>3. present' \subseteq present
    OBVIOUS
  <2>4. QED
    BY <2>2, <2>3
<1>11. \A q \in Producer : on'[q] = q
  BY DEF Locks
<1>12. \A d, e \in Client : Working(d)' /\ Working(e)' /\ on'[d] = on'[e] => d = e
  BY <1>2 DEF Locks
<1>13. QED
  BY <1>7, <1>8, <1>9, <1>10, <1>11, <1>12 DEF Locks

-----------------------------------------------------------------------------
\* What a step does to the account.

LEMMA FilesKeep ==
    ASSUME Files, UNCHANGED disk, Stored \subseteq Stored', written \subseteq written'
    PROVE  Files'
BY DEF Files, disk, AcknowledgedIsStored, EventsOf, Elements

LEMMA AccountKeeps ==
    ASSUME Account, accepted' \subseteq accepted, Stored \subseteq Stored',
           quarantined \subseteq quarantined', pruned \subseteq pruned',
           quarantined' \subseteq written', pruned' \subseteq written',
           \A p \in Producer : EventsOf(p) \subseteq EventsOf(p)' \cup Settled'
    PROVE  Account'
BY DEF Account, Settled

\* A step of one client that only reads, or adds rows.
LEMMA ClientStep ==
    ASSUME IInv, NEW c \in Client, stage[c] # "idle", NEW next \in Stage,
           stage' = [stage EXCEPT ![c] = next],
           next \in {"read", "send", "ack", "compact", "rename"} => Working(c),
           UNCHANGED <<holder, life, on, disk, history>>,
           Stored \subseteq Stored', rows' \in [Event -> Nat],
           Moves(c), ClientTypes', ClientOK(c)'
    PROVE  IInv'
<1>1. DeliveryTypeOK'
  BY TypePartsNext DEF IInv, DeliveryTypeOK, DiskTypes, LockTypes, LogTypes, disk, history
<1>2. Locks'
  BY LocksMove DEF IInv, disk
<1>3. Files'
  BY FilesKeep DEF IInv, history
<1>4. Clients'
  BY SameDisk, ClientsKeep DEF IInv, history
<1>5. Account'
  <2>1. UNCHANGED <<accepted, quarantined, pruned, written, file>>
    BY DEF history, disk
  <2>2. \A p \in Producer : EventsOf(p)' = EventsOf(p)
    BY <2>1 DEF EventsOf
  <2>3. QED
    BY <2>1, <2>2, AccountKeeps DEF IInv, Account
<1>6. QED
  BY <1>1, <1>2, <1>3, <1>4, <1>5 DEF IInv

-----------------------------------------------------------------------------
\* Clients that read and send.

\* One client's fields change, the others' stay.
LEMMA OneMoves ==
    ASSUME DeliveryTypeOK, NEW c \in Client,
           NEW next \in Stage, stage' = [stage EXCEPT ![c] = next],
           NEW n \in Nat, pos' = [pos EXCEPT ![c] = n],
           NEW b \in Seq(Event \cup {Torn}), batch' = [batch EXCEPT ![c] = b],
           NEW g \in Nat, granted' = [granted EXCEPT ![c] = g],
           UNCHANGED on
    PROVE  /\ ClientTypes' /\ Moves(c)
           /\ stage'[c] = next /\ pos'[c] = n /\ batch'[c] = b /\ granted'[c] = g
BY DEF DeliveryTypeOK, ClientTypes, Moves

LEMMA Itself ==
    ASSUME DeliveryTypeOK, NEW c \in Client
    PROVE  /\ stage = [stage EXCEPT ![c] = stage[c]] /\ pos = [pos EXCEPT ![c] = pos[c]]
           /\ batch = [batch EXCEPT ![c] = batch[c]]
           /\ granted = [granted EXCEPT ![c] = granted[c]]
BY DEF DeliveryTypeOK

\* Giving up, or going on to compact or to finish.
LEMMA Forgets ==
    ASSUME DeliveryTypeOK, NEW c \in Client, NEW next \in Stage, Goto(c, next), UNCHANGED on,
           next \notin {"read", "send", "ack", "rename"}
    PROVE  ClientTypes' /\ Moves(c) /\ ClientOK(c)' /\ stage' = [stage EXCEPT ![c] = next]
<1>1. <<>> \in Seq(Event \cup {Torn}) /\ 0 \in Nat
  OBVIOUS
<1>2. ClientTypes' /\ Moves(c) /\ stage'[c] = next
  BY <1>1, OneMoves DEF Goto
<1>3. QED
  BY <1>2, Vacuous DEF Goto

LEMMA ForgetStep ==
    ASSUME IInv, NEW c \in Client, stage[c] # "idle", NEW next \in {"finish", "idle"},
           Goto(c, next), UNCHANGED <<disk, holder, life, on, history>>,
           Stored \subseteq Stored', rows' \in [Event -> Nat]
    PROVE  IInv'
<1>1. next \in Stage
  BY DEF Stage
<1>2. ClientTypes' /\ Moves(c) /\ ClientOK(c)' /\ stage' = [stage EXCEPT ![c] = next]
  BY <1>1, Forgets DEF IInv
<1>3. QED
  BY <1>1, <1>2, ClientStep

\* Frames k + 1 to n of a spool.
LEMMA Rest ==
    ASSUME DeliveryTypeOK, NEW p \in Producer, NEW k \in Nat, NEW n \in Nat, n <= Len(file[p])
    PROVE  /\ SubSeq(file[p], k + 1, n) \in Seq(Event \cup {Torn})
           /\ Len(SubSeq(file[p], k + 1, n)) = IF k < n THEN n - k ELSE 0
           /\ \A i \in DOMAIN SubSeq(file[p], k + 1, n) :
                k + i \in DOMAIN file[p] /\ file[p][k + i] = SubSeq(file[p], k + 1, n)[i]
           /\ \A j \in k + 1 .. n : /\ j - k \in DOMAIN SubSeq(file[p], k + 1, n)
                                    /\ SubSeq(file[p], k + 1, n)[j - k] = file[p][j]
<1> DEFINE b == SubSeq(file[p], k + 1, n)
           S == Event \cup {Torn}
<1>1. file[p] \in Seq(S) /\ DOMAIN file[p] = 1 .. Len(file[p]) /\ Len(file[p]) \in Nat
  BY Frames
<1>2. \A i \in k + 1 .. n : file[p][i] \in S
  <2>1. SUFFICES ASSUME NEW i \in k + 1 .. n PROVE file[p][i] \in S
    OBVIOUS
  <2>2. i \in 1 .. Len(file[p])
    BY <1>1
  <2>3. QED
    BY <1>1, <2>2, ElementOfSeq
<1>3. /\ b \in Seq(S)
      /\ Len(b) = IF k + 1 <= n THEN n - (k + 1) + 1 ELSE 0
      /\ \A i \in 1 .. n - (k + 1) + 1 : b[i] = file[p][k + 1 + i - 1]
  <2>1. k + 1 \in Int /\ n \in Int
    OBVIOUS
  <2> HIDE DEF S
  <2>2. QED
    BY <1>2, <2>1, SubSeqProperties
<1> HIDE DEF b, S
<1>4. Len(b) = (IF k < n THEN n - k ELSE 0) /\ DOMAIN b = 1 .. Len(b)
  BY <1>3
<1>5. \A i \in DOMAIN b : k + i \in DOMAIN file[p] /\ file[p][k + i] = b[i]
  <2>1. SUFFICES ASSUME NEW i \in DOMAIN b
                 PROVE  k + i \in DOMAIN file[p] /\ file[p][k + i] = b[i]
    OBVIOUS
  <2>2. i \in 1 .. n - (k + 1) + 1 /\ k + i \in 1 .. Len(file[p]) /\ k + 1 + i - 1 = k + i
    BY <1>1, <1>4
  <2>3. QED
    BY <1>1, <1>3, <2>2
<1>6. \A j \in k + 1 .. n : j - k \in DOMAIN b /\ b[j - k] = file[p][j]
  <2>1. SUFFICES ASSUME NEW j \in k + 1 .. n
                 PROVE  j - k \in DOMAIN b /\ b[j - k] = file[p][j]
    OBVIOUS
  <2>2. j - k \in 1 .. n - (k + 1) + 1 /\ k + 1 + (j - k) - 1 = j /\ j - k \in 1 .. Len(b)
    BY <1>4
  <2>3. QED
    BY <1>3, <1>4, <2>2
<1>7. QED
  BY <1>3, <1>4, <1>5, <1>6 DEF b, S

LEMMA ReadBatchKeeps == ASSUME IInv, NEW c \in Client, ReadBatch(c) PROVE IInv'
<1> DEFINE p == on[c]
           b == Chunk(c)
<1>1. /\ stage[c] = "read" /\ p \in present /\ Torn \notin Elements(b)
      /\ stage' = [stage EXCEPT ![c] = "send"] /\ batch' = [batch EXCEPT ![c] = b]
      /\ UNCHANGED <<disk, holder, life, on, pos, granted, rows, history>>
  BY DEF ReadBatch, Reads
<1>2. p \in Producer /\ pos[c] \in Nat /\ granted[c] \in Nat
  BY BatchFrames DEF IInv
<1>3. /\ b \in Seq(Event \cup {Torn})
      /\ \A i \in DOMAIN b : pos[c] + i \in DOMAIN file[p] /\ file[p][pos[c] + i] = b[i]
  <2> DEFINE end == IF pos[c] + Width(c) < Len(file[p]) THEN pos[c] + Width(c)
                    ELSE Len(file[p])
             t == SubSeq(file[p], pos[c] + 1, end)
  <2>1. Width(c) \in Nat
    BY SpoolAssumption DEF Width
  <2>2. Len(file[p]) \in Nat
    BY <1>2, Frames DEF IInv
  <2>3. end \in Nat /\ end <= Len(file[p])
    BY <1>2, <2>1, <2>2
  <2>4. b = t
    BY DEF Chunk
  <2> HIDE DEF end
  <2>5. /\ t \in Seq(Event \cup {Torn})
        /\ \A i \in DOMAIN t : pos[c] + i \in DOMAIN file[p] /\ file[p][pos[c] + i] = t[i]
    BY <1>2, <2>3, Rest DEF IInv
  <2> HIDE DEF t, b
  <2>6. QED
    BY <2>4, <2>5
<1> HIDE DEF b
<1>4. /\ ClientTypes' /\ Moves(c)
      /\ stage'[c] = "send" /\ pos'[c] = pos[c] /\ batch'[c] = b
  BY <1>1, <1>3 DEF IInv, DeliveryTypeOK, ClientTypes, Moves, Stage
<1>5. ClientOK(c)'
  <2>1. on'[c] = p /\ file' = file /\ present' = present /\ Stored' = Stored
        /\ written' = written
    BY <1>1, SameRows DEF disk, history
  <2>2. PassedIsStored(c)'
    BY <1>1, <1>4, <2>1 DEF IInv, Clients, ClientOK, PassedIsStored
  <2>3. BatchFollows(c)'
    BY <1>3, <1>4, <2>1 DEF BatchFollows
  <2>4. SendsWritten(c)'
    <3>1. Elements(b) \subseteq EventsOf(p)
      BY <1>1, <1>3 DEF Elements, EventsOf
    <3>2. EventsOf(p) \subseteq written
      BY <1>2 DEF IInv, Files
    <3>3. QED
      BY <1>4, <2>1, <3>1, <3>2 DEF SendsWritten
  <2>5. QED
    BY <1>4, <2>2, <2>3, <2>4 DEF ClientOK, GrantedIsStored, CopiesTheRest
<1>6. Stored' = Stored /\ rows' \in [Event -> Nat]
  BY <1>1, SameRows DEF IInv, DeliveryTypeOK
<1>7. QED
  BY <1>1, <1>4, <1>5, <1>6, ClientStep DEF Working, Stage

LEMMA ReachEndKeeps == ASSUME IInv, NEW c \in Client, ReachEnd(c) PROVE IInv'
<1>1. /\ stage[c] = "read" /\ stage' = [stage EXCEPT ![c] = "compact"]
      /\ UNCHANGED <<disk, holder, life, on, pos, batch, granted, rows, history>>
  BY DEF ReachEnd, Reads
<1>2. ClientTypes' /\ Moves(c) /\ stage'[c] = "compact"
  BY <1>1 DEF IInv, DeliveryTypeOK, ClientTypes, Moves, Stage
<1>3. ClientOK(c)'
  BY <1>2, Vacuous
<1>4. Stored' = Stored /\ rows' \in [Event -> Nat]
  BY <1>1, SameRows DEF IInv, DeliveryTypeOK
<1>5. QED
  BY <1>1, <1>2, <1>3, <1>4, ClientStep DEF Working, Stage

LEMMA DeliverKeeps ==
    ASSUME IInv, NEW c \in Client, NEW taken \in SUBSET Elements(batch[c]), Deliver(c, taken)
    PROVE  IInv'
<1>1. /\ stage[c] = "send" /\ Insert(taken)
      /\ stage' = [stage EXCEPT ![c] = "ack"]
      /\ UNCHANGED <<disk, holder, life, on, pos, batch, history>>
  BY DEF Deliver
<1>2. PICK n \in 0 .. Len(batch[c]) : Prefix(c, taken, n) /\ granted' = [granted EXCEPT ![c] = n]
  BY DEF Deliver
<1>3. Len(batch[c]) \in Nat /\ n \in Nat /\ n <= Len(batch[c])
  BY <1>2, BatchFrames DEF IInv
<1>4. /\ Stored \subseteq Stored' /\ rows' \in [Event -> Nat]
      /\ taken \cap Event \subseteq Stored'
  BY <1>1, RowsGrow DEF IInv
<1>5. /\ ClientTypes' /\ Moves(c) /\ stage'[c] = "ack" /\ granted'[c] = n
      /\ pos'[c] = pos[c] /\ batch'[c] = batch[c]
  BY <1>1, <1>2, <1>3 DEF IInv, DeliveryTypeOK, ClientTypes, Moves, Stage
<1>6. ClientOK(c)'
  <2>1. on'[c] = on[c] /\ file' = file /\ present' = present
    BY <1>1 DEF disk
  <2>2. PassedIsStored(c)'
    BY <1>1, <1>4, <1>5, <2>1 DEF IInv, Clients, ClientOK, PassedIsStored
  <2>3. BatchFollows(c)'
    BY <1>1, <1>5, <2>1 DEF IInv, Clients, ClientOK, BatchFollows
  <2>4. taken \subseteq Event
    BY <1>1 DEF IInv, Clients, ClientOK, SendsWritten, DeliveryTypeOK
  <2>5. GrantedIsStored(c)'
    BY <1>2, <1>3, <1>4, <1>5, <2>4 DEF Prefix, GrantedIsStored
  <2>6. QED
    BY <1>5, <2>2, <2>3, <2>5 DEF ClientOK, SendsWritten, CopiesTheRest
<1>7. QED
  BY <1>1, <1>4, <1>5, <1>6, ClientStep DEF Working, Stage

LEMMA UnansweredKeeps ==
    ASSUME IInv, NEW c \in Client, NEW taken, Unanswered(c, taken)
    PROVE  IInv'
<1>1. Stored \subseteq Stored' /\ rows' \in [Event -> Nat]
  BY RowsGrow DEF Unanswered, IInv
<1>2. QED
  BY <1>1, ForgetStep DEF Unanswered

LEMMA AcknowledgedKeeps == ASSUME IInv, NEW c \in Client, Acknowledged(c) PROVE IInv'
<1>1. /\ stage[c] = "ack" /\ UNCHANGED <<disk, holder, life, on, rows, history>>
  BY DEF Acknowledged
<1>2. Stored' = Stored /\ rows' \in [Event -> Nat]
  BY <1>1, SameRows DEF IInv, DeliveryTypeOK
<1>3. CASE stage' = [stage EXCEPT ![c] = "read"] /\ UNCHANGED <<pos, batch, granted>>
  <2>1. ClientTypes' /\ Moves(c) /\ stage'[c] = "read" /\ pos'[c] = pos[c]
    BY <1>1, <1>3 DEF IInv, DeliveryTypeOK, ClientTypes, Moves, Stage
  <2>2. on'[c] = on[c] /\ file' = file
    BY <1>1 DEF disk
  <2>3. PassedIsStored(c)'
    BY <1>1, <1>2, <2>1, <2>2 DEF IInv, Clients, ClientOK, PassedIsStored
  <2>4. ClientOK(c)'
    BY <2>1, <2>3 DEF ClientOK, BatchFollows, SendsWritten, GrantedIsStored, CopiesTheRest
  <2>5. QED
    BY <1>1, <1>2, <1>3, <2>1, <2>4, ClientStep DEF Working, Stage
<1>4. CASE Goto(c, "finish")
  BY <1>1, <1>2, <1>4, ForgetStep
<1>5. CASE stage' = [stage EXCEPT ![c] = "compact"] /\ UNCHANGED <<pos, batch, granted>>
  <2>1. ClientTypes' /\ Moves(c) /\ stage'[c] = "compact"
    BY <1>1, <1>5 DEF IInv, DeliveryTypeOK, ClientTypes, Moves, Stage
  <2>2. ClientOK(c)'
    BY <2>1, Vacuous
  <2>3. QED
    BY <1>1, <1>2, <1>5, <2>1, <2>2, ClientStep DEF Working, Stage
<1>6. QED
  BY <1>3, <1>4, <1>5 DEF Acknowledged

LEMMA GivesUpKeeps ==
    ASSUME IInv, NEW c \in Client, NothingToCompact(c) \/ RenameFails(c) \/ SpoolGone(c)
    PROVE  IInv'
<1>1. Stored' = Stored /\ rows' \in [Event -> Nat]
  BY SameRows DEF NothingToCompact, RenameFails, SpoolGone, IInv, DeliveryTypeOK
<1>2. QED
  BY <1>1, ForgetStep DEF NothingToCompact, RenameFails, SpoolGone

LEMMA FlushEndsKeeps == ASSUME IInv, NEW p \in Producer, FlushEnds(p) PROVE IInv'
<1>1. Stored' = Stored /\ rows' \in [Event -> Nat]
  BY SameRows DEF FlushEnds, IInv, DeliveryTypeOK
<1>2. p \in Client
  BY DEF Client
<1>3. QED
  BY <1>1, <1>2, ForgetStep DEF FlushEnds

-----------------------------------------------------------------------------
\* Clients that change the spool they work on.

\* What the parts of the invariant need when only one spool changes.
LEMMA DiskStep ==
    ASSUME IInv, NEW c \in Client, Working(c), NEW next \in Stage,
           stage' = [stage EXCEPT ![c] = next],
           next \in {"read", "send", "ack", "compact", "rename"} => Working(c),
           UNCHANGED <<holder, life, on, present, rows, written, accepted, pruned>>,
           quarantined \subseteq quarantined', quarantined' \subseteq written,
           \A p \in Producer \ {on[c]} : file'[p] = file[p] /\ ack'[p] = ack[p],
           Moves(c), DiskTypes', ClientTypes', ClientOK(c)',
           ack'[on[c]] <= Len(file'[on[c]]),
           \A i \in DOMAIN file'[on[c]] : i <= ack'[on[c]] => file'[on[c]][i] \in Stored,
           EventsOf(on[c])' \subseteq EventsOf(on[c]),
           EventsOf(on[c]) \subseteq EventsOf(on[c])' \cup quarantined',
           on[c] \notin present => file'[on[c]] = <<>>
    PROVE  IInv'
<1>1. on[c] \in Producer /\ stage[c] # "idle"
  BY BatchFrames DEF IInv, Working
<1>2. Stored' = Stored
  BY SameRows
<1>3. DeliveryTypeOK'
  <2>1. LockTypes'
    BY DEF IInv, DeliveryTypeOK, LockTypes
  <2>2. LogTypes'
    BY DEF IInv, DeliveryTypeOK, LogTypes
  <2>3. QED
    BY <2>1, <2>2, TypePartsNext
<1>4. Locks'
  BY <1>1, LocksMove DEF IInv
<1>5. \A p \in Producer : EventsOf(p)' \subseteq EventsOf(p)
                          /\ EventsOf(p) \subseteq EventsOf(p)' \cup quarantined'
  BY DEF EventsOf, Elements
<1>6. Files'
  <2>1. \A p \in Producer : p \notin present' => file'[p] = <<>>
    BY DEF IInv, Files
  <2>2. \A p \in Producer : ack'[p] <= Len(file'[p])
    BY DEF IInv, Files
  <2>3. AcknowledgedIsStored'
    BY <1>2 DEF IInv, Files, AcknowledgedIsStored
  <2>4. \A p \in Producer : EventsOf(p)' \subseteq written'
    BY <1>5 DEF IInv, Files
  <2>5. QED
    BY <2>1, <2>2, <2>3, <2>4 DEF Files
<1>7. Clients'
  BY <1>2, ElsewhereQuiet, ClientsKeep DEF IInv
<1>8. Account'
  BY <1>2, <1>5, AccountKeeps DEF IInv, Account, Settled
<1>9. QED
  BY <1>3, <1>4, <1>6, <1>7, <1>8 DEF IInv

LEMMA AcknowledgeKeeps == ASSUME IInv, NEW c \in Client, Acknowledge(c) PROVE IInv'
<1> DEFINE p == on[c]
<1>1. /\ stage[c] = "ack" /\ granted[c] > 0 /\ p \in present
      /\ ack' = [ack EXCEPT ![p] = pos[c] + 1]
      /\ pos' = [pos EXCEPT ![c] = pos[c] + 1]
      /\ batch' = [batch EXCEPT ![c] = Tail(batch[c])]
      /\ granted' = [granted EXCEPT ![c] = granted[c] - 1]
      /\ UNCHANGED <<file, present, holder, life, stage, on, rows, history>>
  BY DEF Acknowledge
<1>2. /\ p \in Producer /\ pos[c] \in Nat /\ granted[c] \in Nat
      /\ batch[c] \in Seq(Event \cup {Torn}) /\ DOMAIN batch[c] = 1 .. Len(batch[c])
      /\ Len(batch[c]) \in Nat
  BY BatchFrames DEF IInv
<1>3. /\ \A i \in DOMAIN file[p] : i <= pos[c] => file[p][i] \in Stored
      /\ \A i \in DOMAIN batch[c] : /\ pos[c] + i \in DOMAIN file[p]
                                    /\ file[p][pos[c] + i] = batch[c][i]
      /\ granted[c] <= Len(batch[c]) /\ \A i \in 1 .. granted[c] : batch[c][i] \in Stored
  BY <1>1 DEF IInv, Clients, ClientOK, PassedIsStored, BatchFollows, GrantedIsStored
<1>4. batch[c] # <<>> /\ 1 \in DOMAIN batch[c]
  BY <1>1, <1>2, <1>3
<1>5. /\ Tail(batch[c]) \in Seq(Event \cup {Torn})
      /\ Len(Tail(batch[c])) = Len(batch[c]) - 1
      /\ \A i \in 1 .. Len(Tail(batch[c])) : Tail(batch[c])[i] = batch[c][i + 1]
  BY <1>2, <1>4, HeadTailProperties
<1>6. DOMAIN file[p] = 1 .. Len(file[p]) /\ Len(file[p]) \in Nat
  BY <1>2, Frames DEF IInv
<1>7. pos[c] + 1 \in DOMAIN file[p] /\ file[p][pos[c] + 1] \in Stored
  BY <1>1, <1>2, <1>3, <1>4
<1>8. \A i \in DOMAIN file[p] : i <= pos[c] + 1 => file[p][i] \in Stored
  <2>1. SUFFICES ASSUME NEW i \in DOMAIN file[p], i <= pos[c] + 1
                 PROVE  file[p][i] \in Stored
    OBVIOUS
  <2>2. i <= pos[c] \/ i = pos[c] + 1
    BY <1>2, <1>6, <2>1
  <2>3. QED
    BY <1>3, <1>7, <2>2
<1>9. /\ stage = [stage EXCEPT ![c] = stage[c]]
      /\ granted[c] - 1 \in Nat /\ pos[c] + 1 \in Nat /\ stage[c] \in Stage
  BY <1>1, <1>2, Itself DEF IInv, Stage
<1>10. /\ ClientTypes' /\ Moves(c) /\ pos'[c] = pos[c] + 1 /\ batch'[c] = Tail(batch[c])
       /\ granted'[c] = granted[c] - 1 /\ stage'[c] = "ack"
  BY <1>1, <1>5, <1>9 DEF IInv, DeliveryTypeOK, ClientTypes, Moves
<1>11. Stored' = Stored
  BY <1>1, SameRows
<1>12. ClientOK(c)'
  <2>1. PassedIsStored(c)'
    BY <1>1, <1>8, <1>10, <1>11 DEF PassedIsStored
  <2>2. BatchFollows(c)'
    <3>1. SUFFICES ASSUME NEW i \in DOMAIN Tail(batch[c])
                   PROVE  /\ pos[c] + 1 + i \in DOMAIN file[p]
                          /\ file[p][pos[c] + 1 + i] = Tail(batch[c])[i]
      BY <1>1, <1>10 DEF BatchFollows
    <3>2. i \in 1 .. Len(Tail(batch[c])) /\ i + 1 \in DOMAIN batch[c]
          /\ pos[c] + 1 + i = pos[c] + (i + 1)
      BY <1>2, <1>5
    <3>3. QED
      BY <1>3, <1>5, <3>2
  <2>3. GrantedIsStored(c)'
    <3>1. granted[c] - 1 <= Len(Tail(batch[c]))
      BY <1>2, <1>3, <1>5
    <3>2. \A i \in 1 .. granted[c] - 1 : Tail(batch[c])[i] \in Stored
      <4>1. SUFFICES ASSUME NEW i \in 1 .. granted[c] - 1 PROVE Tail(batch[c])[i] \in Stored
        OBVIOUS
      <4>2. i \in 1 .. Len(Tail(batch[c])) /\ i + 1 \in 1 .. granted[c]
        BY <1>2, <1>3, <1>5
      <4>3. QED
        BY <1>3, <1>5, <4>2
    <3>3. QED
      BY <1>10, <1>11, <3>1, <3>2 DEF GrantedIsStored
  <2>4. QED
    BY <1>10, <2>1, <2>2, <2>3 DEF ClientOK, SendsWritten, CopiesTheRest
<1>13. DiskTypes'
  BY <1>1, <1>2 DEF IInv, DeliveryTypeOK, DiskTypes
<1>14. /\ ack'[p] = pos[c] + 1 /\ file'[p] = file[p]
       /\ \A q \in Producer \ {p} : file'[q] = file[q] /\ ack'[q] = ack[q]
  BY <1>1, <1>2 DEF IInv, DeliveryTypeOK
<1>15. /\ ack'[p] <= Len(file'[p])
       /\ \A i \in DOMAIN file'[p] : i <= ack'[p] => file'[p][i] \in Stored
  BY <1>6, <1>7, <1>8, <1>14
<1>16. EventsOf(p)' = EventsOf(p)
  BY <1>1, <1>14 DEF EventsOf
<1>17. stage' = [stage EXCEPT ![c] = stage[c]]
  BY <1>1, <1>9
<1>18. quarantined' = quarantined /\ quarantined \subseteq written
       /\ UNCHANGED <<holder, life, on, present, rows, written, accepted, pruned>>
  BY <1>1 DEF history, IInv, Account
<1>19. Working(c)
  BY <1>1 DEF Working
<1>20. QED
  BY <1>1, <1>9, <1>10, <1>12, <1>13, <1>14, <1>15, <1>16, <1>17, <1>18, <1>19, DiskStep

LEMMA CompactKeeps == ASSUME IInv, NEW c \in Client, Compact(c) PROVE IInv'
<1> DEFINE p == on[c]
           b == SubSeq(file[p], ack[p] + 1, Len(file[p]))
<1>1. /\ stage[c] = "compact" /\ p \in present
      /\ batch' = [batch EXCEPT ![c] = b]
      /\ ack' = [ack EXCEPT ![p] = 0]
      /\ stage' = [stage EXCEPT ![c] = "rename"]
      /\ UNCHANGED <<file, present, holder, life, on, pos, granted, rows, history>>
  BY DEF Compact
<1>2. /\ p \in Producer /\ Len(file[p]) \in Nat /\ ack[p] \in Nat
      /\ DOMAIN file[p] = 1 .. Len(file[p])
  <2>1. p \in Producer
    BY BatchFrames DEF IInv
  <2>2. QED
    BY <2>1, Frames DEF IInv
<1>3. /\ b \in Seq(Event \cup {Torn})
      /\ Len(b) = IF ack[p] < Len(file[p]) THEN Len(file[p]) - ack[p] ELSE 0
      /\ \A i \in DOMAIN b : ack[p] + i \in DOMAIN file[p] /\ file[p][ack[p] + i] = b[i]
      /\ \A j \in ack[p] + 1 .. Len(file[p]) :
           j - ack[p] \in DOMAIN b /\ b[j - ack[p]] = file[p][j]
  <2> DEFINE n == Len(file[p])
             k == ack[p]
             t == SubSeq(file[p], k + 1, n)
  <2>1. n \in Nat /\ k \in Nat /\ n <= Len(file[p])
    BY <1>2
  <2> HIDE DEF n, k
  <2>2. /\ t \in Seq(Event \cup {Torn})
        /\ Len(t) = IF k < n THEN n - k ELSE 0
        /\ \A i \in DOMAIN t : k + i \in DOMAIN file[p] /\ file[p][k + i] = t[i]
        /\ \A j \in k + 1 .. n : j - k \in DOMAIN t /\ t[j - k] = file[p][j]
    BY <1>2, <2>1, Rest DEF IInv
  <2>3. b = t
    BY DEF n, k
  <2> HIDE DEF t, b
  <2>4. QED
    BY <2>2, <2>3 DEF n, k
<1> HIDE DEF b
<1>4. ClientTypes' /\ Moves(c) /\ stage'[c] = "rename" /\ batch'[c] = b
  BY <1>1, <1>3 DEF IInv, DeliveryTypeOK, ClientTypes, Moves, Stage
<1>5. /\ ack'[p] = 0 /\ file'[p] = file[p]
      /\ \A q \in Producer \ {p} : file'[q] = file[q] /\ ack'[q] = ack[q]
  BY <1>1, <1>2 DEF IInv, DeliveryTypeOK
<1>6. EventsOf(p)' = EventsOf(p) /\ Stored' = Stored
  BY <1>1, <1>5, SameRows DEF EventsOf
<1>7. \A i \in DOMAIN file[p] : i <= ack[p] => file[p][i] \in Stored
  BY <1>2 DEF IInv, Files, AcknowledgedIsStored
<1>8. EventsOf(p) \subseteq Stored \cup Elements(b)
  <2>1. SUFFICES ASSUME NEW i \in DOMAIN file[p], i > ack[p] PROVE file[p][i] \in Elements(b)
    BY <1>2, <1>7 DEF EventsOf, Elements
  <2>2. i \in ack[p] + 1 .. Len(file[p])
    BY <1>2, <2>1
  <2>3. QED
    BY <1>3, <2>2 DEF Elements
<1>9. Elements(b) \ {Torn} \subseteq written
  <2>1. Elements(b) \ {Torn} \subseteq EventsOf(p)
    BY <1>3 DEF Elements, EventsOf
  <2>2. QED
    BY <1>2, <2>1 DEF IInv, Files
<1>10. Len(b) <= MaxFrames
  <2>1. Len(file[p]) <= MaxFrames /\ MaxFrames \in Nat
    BY <1>2, SpoolAssumption DEF IInv, DeliveryTypeOK
  <2>2. QED
    BY <1>2, <1>3, <2>1
<1>11. written' = written /\ on' = on
  BY <1>1 DEF history
<1>12. ClientOK(c)'
  BY <1>4, <1>5, <1>6, <1>8, <1>9, <1>10, <1>11 DEF ClientOK, PassedIsStored, BatchFollows,
     SendsWritten, GrantedIsStored, CopiesTheRest
<1>13. DiskTypes'
  BY <1>1 DEF IInv, DeliveryTypeOK, DiskTypes
<1>14. /\ ack'[p] <= Len(file'[p])
       /\ \A i \in DOMAIN file'[p] : i <= ack'[p] => file'[p][i] \in Stored
  BY <1>2, <1>5
<1>15. quarantined' = quarantined /\ quarantined \subseteq written
       /\ UNCHANGED <<holder, life, on, present, rows, written, accepted, pruned>>
  BY <1>1 DEF history, IInv, Account
<1>16. Working(c) /\ "rename" \in Stage
  BY <1>1 DEF Working, Stage
<1>17. QED
  BY <1>1, <1>4, <1>5, <1>6, <1>12, <1>13, <1>14, <1>15, <1>16, DiskStep

LEMMA QuarantineKeeps == ASSUME IInv, NEW c \in Client, Quarantine(c) PROVE IInv'
<1> DEFINE p == on[c]
<1>1. /\ stage[c] = "read" /\ p \in present
      /\ file' = [file EXCEPT ![p] = <<>>] /\ ack' = [ack EXCEPT ![p] = 0]
      /\ quarantined' = quarantined \cup EventsOf(p)
      /\ Goto(c, "finish")
      /\ UNCHANGED <<present, holder, life, on, rows, written, accepted, pruned>>
  BY DEF Quarantine, Reads
<1>2. p \in Producer /\ <<>> \in Seq(Event \cup {Torn}) /\ Len(<<>>) = 0 /\ MaxFrames \in Nat
  BY BatchFrames, SpoolAssumption DEF IInv
<1>3. ClientTypes' /\ Moves(c) /\ ClientOK(c)' /\ stage' = [stage EXCEPT ![c] = "finish"]
  BY <1>1, Forgets DEF IInv, Stage
<1>4. /\ file'[p] = <<>> /\ ack'[p] = 0
      /\ \A q \in Producer \ {p} : file'[q] = file[q] /\ ack'[q] = ack[q]
  BY <1>1, <1>2 DEF IInv, DeliveryTypeOK
<1>5. DiskTypes'
  <2>1. \A q \in Producer : Len(file'[q]) <= MaxFrames
    <3>1. Len(file'[p]) <= MaxFrames
      BY <1>2, <1>4
    <3>2. \A q \in Producer \ {p} : Len(file'[q]) <= MaxFrames
      BY <1>4 DEF IInv, DeliveryTypeOK
    <3>3. QED
      BY <3>1, <3>2
  <2>2. file' \in [Producer -> Seq(Event \cup {Torn})] /\ ack' \in [Producer -> Nat]
        /\ present' \subseteq Producer
    BY <1>1, <1>2 DEF IInv, DeliveryTypeOK
  <2>3. QED
    BY <2>1, <2>2 DEF DiskTypes
<1>6. EventsOf(p)' = {}
  BY <1>1, <1>4 DEF EventsOf, Elements
<1>7. quarantined' \subseteq written
  BY <1>1, <1>2 DEF IInv, Account, Files
<1>8. /\ ack'[p] <= Len(file'[p])
      /\ \A i \in DOMAIN file'[p] : i <= ack'[p] => file'[p][i] \in Stored
  BY <1>2, <1>4
<1>9. Working(c) /\ "finish" \in Stage
  BY <1>1 DEF Working, Stage
<1>10. QED
  BY <1>1, <1>3, <1>4, <1>5, <1>6, <1>7, <1>8, <1>9, DiskStep

\* The copy that replaces the spool has every event the store does not have.
LEMMA RenameKeeps == ASSUME IInv, NEW c \in Client, Rename(c) PROVE IInv'
<1> DEFINE p == on[c]
           b == batch[c]
<1>1. /\ stage[c] = "rename"
      /\ file' = [file EXCEPT ![p] = b] /\ present' = present \cup {p}
      /\ Goto(c, "finish")
      /\ UNCHANGED <<ack, holder, life, on, rows, history>>
  BY DEF Rename
<1>2. p \in Producer /\ b \in Seq(Event \cup {Torn}) /\ Len(b) \in Nat
  BY BatchFrames DEF IInv
<1>3. /\ ack[p] = 0 /\ Len(b) <= MaxFrames /\ Elements(b) \ {Torn} \subseteq written
      /\ EventsOf(p) \subseteq Stored \cup Elements(b)
  BY <1>1 DEF IInv, Clients, ClientOK, CopiesTheRest
<1>4. ClientTypes' /\ Moves(c) /\ ClientOK(c)' /\ stage' = [stage EXCEPT ![c] = "finish"]
  BY <1>1, Forgets DEF IInv, Stage
<1>5. /\ file'[p] = b /\ ack'[p] = 0
      /\ \A q \in Producer \ {p} : file'[q] = file[q] /\ ack'[q] = ack[q]
  BY <1>1, <1>2, <1>3 DEF IInv, DeliveryTypeOK
<1>6. DeliveryTypeOK'
  <2>1. \A q \in Producer : Len(file'[q]) <= MaxFrames
    <3>1. \A q \in Producer \ {p} : Len(file'[q]) <= MaxFrames
      BY <1>5 DEF IInv, DeliveryTypeOK
    <3>2. QED
      BY <3>1, <1>3, <1>5
  <2>2. file' \in [Producer -> Seq(Event \cup {Torn})] /\ ack' \in [Producer -> Nat]
        /\ present' \subseteq Producer
    BY <1>1, <1>2 DEF IInv, DeliveryTypeOK
  <2>3. DiskTypes'
    BY <2>1, <2>2 DEF DiskTypes
  <2>4. LockTypes' /\ LogTypes'
    BY <1>1 DEF LockTypes, LogTypes, history, IInv, DeliveryTypeOK
  <2>5. QED
    BY <1>4, <2>3, <2>4, TypePartsNext
<1>7. Stored' = Stored /\ written' = written
  BY <1>1, SameRows DEF history
<1>8. /\ EventsOf(p)' = Elements(b) \ {Torn}
      /\ \A q \in Producer \ {p} : EventsOf(q)' = EventsOf(q)
  BY <1>1, <1>5 DEF EventsOf
<1>9. Working(c)
  BY <1>1 DEF Working
<1>10. Locks'
  <2>1. stage \in [Client -> Stage]
    BY DEF IInv, DeliveryTypeOK
  <2>2. /\ \A d \in Client : Working(d)' => Working(d) /\ d # c
        /\ \A d \in Client : stage'[d] # "idle" => d = c \/ stage[d] # "idle"
        /\ \A d \in Client : d # c => stage'[d] = stage[d]
    BY <1>4, <2>1 DEF Working
  <2>3. \A d \in Client : Working(d)' => on[d] # p
    BY <1>9, <2>2 DEF IInv, Locks
  <2>4. \A q \in Producer : q \in Client
    BY DEF Client
  <2>5. \A s \in Sweeper : s \in Client
    BY DEF Client
  <2>6. stage[c] # "idle"
    BY <1>1
  <2>7. \A q \in Producer : life'[q] = "over" => stage'[q] = "idle"
    BY <1>1, <2>2, <2>4, <2>6 DEF IInv, Locks
  <2>8. \A q \in Producer : life'[q] # "over" => holder'[q] = q /\ q \in present'
    BY <1>1 DEF IInv, Locks
  <2>9. \A s \in Sweeper : stage'[s] # "idle" => life'[on'[s]] = "over"
    BY <1>1, <2>2, <2>5, <2>6 DEF IInv, Locks
  <2>10. \A d \in Client : Working(d)' => holder'[on'[d]] = d \/ on'[d] \notin present'
    BY <1>1, <2>2, <2>3 DEF IInv, Locks
  <2>11. \A q \in Producer : on'[q] = q
    BY <1>1 DEF IInv, Locks
  <2>12. \A d, e \in Client : Working(d)' /\ Working(e)' /\ on'[d] = on'[e] => d = e
    BY <1>1, <2>2 DEF IInv, Locks
  <2>13. QED
    BY <2>7, <2>8, <2>9, <2>10, <2>11, <2>12 DEF Locks
<1>11. Files'
  <2>1. \A q \in Producer : q \notin present' => file'[q] = <<>>
    BY <1>1, <1>5 DEF IInv, Files
  <2>2. \A q \in Producer : ack'[q] <= Len(file'[q])
    BY <1>2, <1>5 DEF IInv, Files
  <2>3. AcknowledgedIsStored'
    <3>1. SUFFICES ASSUME NEW q \in Producer, NEW i \in DOMAIN file'[q], i <= ack'[q]
                   PROVE  file'[q][i] \in Stored'
      BY DEF AcknowledgedIsStored
    <3>2. CASE q = p
      BY <1>2, <1>5, <3>1, <3>2
    <3>3. CASE q # p
      BY <1>5, <1>7, <3>1, <3>3 DEF IInv, Files, AcknowledgedIsStored
    <3>4. QED
      BY <3>2, <3>3
  <2>4. \A q \in Producer : EventsOf(q)' \subseteq written'
    <3>1. SUFFICES ASSUME NEW q \in Producer PROVE EventsOf(q)' \subseteq written'
      OBVIOUS
    <3>2. CASE q = p
      BY <1>3, <1>5, <1>7, <3>2 DEF EventsOf
    <3>3. CASE q # p
      BY <1>7, <1>8, <3>3 DEF IInv, Files
    <3>4. QED
      BY <3>2, <3>3
  <2>5. QED
    BY <2>1, <2>2, <2>3, <2>4 DEF Files
<1>12. Clients'
  <2>1. \A d \in Client \ {c} : Working(d) => Undisturbed(d)
    BY <1>1, <1>5, <1>9, ElsewhereQuiet DEF IInv
  <2>2. QED
    BY <1>4, <1>7, <2>1, ClientsKeep DEF IInv
<1>13. Account'
  <2>1. \A q \in Producer : EventsOf(q) \subseteq EventsOf(q)' \cup Settled'
    <3>1. SUFFICES ASSUME NEW q \in Producer PROVE EventsOf(q) \subseteq EventsOf(q)' \cup Settled'
      OBVIOUS
    <3>2. CASE q = p
      <4>1. EventsOf(p) \subseteq Stored' \cup (Elements(b) \ {Torn})
        BY <1>3, <1>7 DEF EventsOf
      <4>2. Stored' \subseteq Settled'
        BY DEF Settled
      <4>3. Elements(b) \ {Torn} = EventsOf(q)'
        BY <1>5, <3>2 DEF EventsOf
      <4>4. QED
        BY <3>2, <4>1, <4>2, <4>3
    <3>3. CASE q # p
      BY <1>8, <3>3
    <3>4. QED
      BY <3>2, <3>3
  <2>2. UNCHANGED <<accepted, quarantined, pruned, written>>
    BY <1>1 DEF history
  <2>3. QED
    BY <1>7, <2>1, <2>2, AccountKeeps DEF IInv, Account
<1>14. QED
  BY <1>6, <1>10, <1>11, <1>12, <1>13 DEF IInv

-----------------------------------------------------------------------------
\* Producers that write.

LEMMA Appends ==
    ASSUME IInv, NEW p \in Producer, CanAppend(p), NEW frame \in Event \cup {Torn},
           Appended(p, frame), UNCHANGED <<present, ack, rows>>,
           written \subseteq written', frame \in Event => frame \in written'
    PROVE  /\ DiskTypes' /\ Files' /\ p \in Client
           /\ \A q \in Producer : EventsOf(q) \subseteq EventsOf(q)'
           /\ frame # Torn => frame \in EventsOf(p)'
           /\ \A d \in Client \ {p} : Working(d) => Undisturbed(d)
<1> DEFINE old == file[p]
           new == Append(old, frame)
           S == Event \cup {Torn}
<1>1. old \in Seq(S) /\ Len(old) \in Nat /\ DOMAIN old = 1 .. Len(old) /\ ack[p] \in Nat
  BY Frames DEF IInv
<1>2. /\ new \in Seq(S) /\ Len(new) = Len(old) + 1 /\ DOMAIN new = 1 .. Len(old) + 1
      /\ \A i \in 1 .. Len(old) : new[i] = old[i]
      /\ new[Len(old) + 1] = frame
  BY <1>1, AppendProperties
<1>3. file'[p] = new /\ \A q \in Producer \ {p} : file'[q] = file[q]
  BY DEF Appended, IInv, DeliveryTypeOK
<1>4. Len(old) < MaxFrames /\ life[p] # "over" /\ MaxFrames \in Nat
  BY SpoolAssumption DEF CanAppend
<1>5. p \in present
  BY <1>4 DEF IInv, Locks
<1>6. file' \in [Producer -> Seq(S)]
  BY <1>2 DEF Appended, IInv, DeliveryTypeOK
<1>7. ack[p] <= Len(old) /\ \A i \in DOMAIN old : i <= ack[p] => old[i] \in Stored
  BY DEF IInv, Files, AcknowledgedIsStored
<1> HIDE DEF old, new, S
<1>8. /\ EventsOf(p)' = EventsOf(p) \cup ({frame} \ {Torn})
      /\ \A q \in Producer \ {p} : EventsOf(q)' = EventsOf(q)
  <2>1. Elements(new) = Elements(old) \cup {frame}
    <3>1. \A i \in DOMAIN new : i \in DOMAIN old \/ i = Len(old) + 1
      BY <1>1, <1>2
    <3>2. \A i \in DOMAIN old : i \in DOMAIN new /\ new[i] = old[i]
      BY <1>1, <1>2
    <3>3. Len(old) + 1 \in DOMAIN new
      BY <1>1, <1>2
    <3>4. QED
      BY <1>2, <3>1, <3>2, <3>3 DEF Elements
  <2>2. QED
    BY <1>3, <2>1 DEF EventsOf, old
<1>9. DiskTypes'
  <2>1. \A q \in Producer : Len(file'[q]) <= MaxFrames
    <3>1. \A q \in Producer \ {p} : Len(file'[q]) <= MaxFrames
      BY <1>3 DEF IInv, DeliveryTypeOK
    <3>2. Len(file'[p]) <= MaxFrames
      BY <1>1, <1>2, <1>3, <1>4
    <3>3. QED
      BY <3>1, <3>2
  <2>2. QED
    BY <2>1, <1>6 DEF DiskTypes, S, IInv, DeliveryTypeOK
<1>10. Files'
  <2>1. \A q \in Producer : q \notin present' => file'[q] = <<>>
    BY <1>3, <1>5 DEF IInv, Files
  <2>2. \A q \in Producer : ack'[q] <= Len(file'[q])
    <3>1. ack'[p] <= Len(file'[p])
      BY <1>1, <1>2, <1>3, <1>7
    <3>2. \A q \in Producer \ {p} : ack'[q] <= Len(file'[q])
      BY <1>3 DEF IInv, Files
    <3>3. QED
      BY <3>1, <3>2
  <2>3. AcknowledgedIsStored'
    <3>1. SUFFICES ASSUME NEW q \in Producer, NEW i \in DOMAIN file'[q], i <= ack'[q]
                   PROVE  file'[q][i] \in Stored
      BY SameRows DEF AcknowledgedIsStored
    <3>2. CASE q = p
      <4>1. i \in 1 .. Len(old)
        BY <1>1, <1>2, <1>3, <1>7, <3>1, <3>2
      <4>2. QED
        BY <1>1, <1>2, <1>3, <1>7, <3>1, <3>2, <4>1
    <3>3. CASE q # p
      BY <1>3, <3>1, <3>3 DEF IInv, Files, AcknowledgedIsStored
    <3>4. QED
      BY <3>2, <3>3
  <2>4. \A q \in Producer : EventsOf(q)' \subseteq written'
    BY <1>8 DEF IInv, Files
  <2>5. QED
    BY <2>1, <2>2, <2>3, <2>4 DEF Files
<1>11. \A d \in Client \ {p} : Working(d) => Undisturbed(d)
  <2>1. SUFFICES ASSUME NEW d \in Client \ {p}, Working(d) PROVE Undisturbed(d)
    OBVIOUS
  <2>2. on[d] # p /\ on[d] \in Producer
    <3>1. CASE d \in Producer
      BY <2>1, <3>1 DEF IInv, Locks
    <3>2. CASE d \in Sweeper
      BY <1>4, <2>1, <3>2, BatchFrames DEF IInv, Locks, Working
    <3>3. QED
      BY <3>1, <3>2, BatchFrames DEF Client, IInv
  <2>3. QED
    BY <1>3, <2>2 DEF Undisturbed
<1>12. p \in Client
  BY DEF Client
<1>13. QED
  BY <1>8, <1>9, <1>10, <1>11, <1>12

\* What a client of the producer has read is not touched.
LEMMA AppendBehind ==
    ASSUME IInv, NEW p \in Producer, p \in Client, InFile(p), CanAppend(p),
           NEW frame \in Event \cup {Torn}, Appended(p, frame),
           UNCHANGED <<present, ack, rows, client>>, written \subseteq written'
    PROVE  ClientOK(p)'
<1>1. /\ on[p] = p /\ p \in present /\ ClientOK(p)
      /\ stage[p] \in {"idle", "compact", "finish", "send", "ack"}
      /\ stage'[p] = stage[p] /\ on'[p] = p /\ pos'[p] = pos[p]
      /\ batch'[p] = batch[p] /\ granted'[p] = granted[p]
  BY DEF CanAppend, IInv, Locks, Clients, client
<1>2. CASE stage[p] \notin {"send", "ack"}
  BY <1>1, <1>2, Vacuous
<1>3. CASE stage[p] \in {"send", "ack"}
  <2>1. /\ file[p] \in Seq(Event \cup {Torn}) /\ Len(file[p]) \in Nat
        /\ DOMAIN file[p] = 1 .. Len(file[p])
        /\ pos[p] \in Nat /\ Len(batch[p]) \in Nat
    BY Frames, BatchFrames DEF IInv
  <2>2. /\ DOMAIN file'[p] = 1 .. Len(file[p]) + 1
        /\ \A i \in DOMAIN file[p] : file'[p][i] = file[p][i]
    BY <2>1, AppendProperties DEF Appended, IInv, DeliveryTypeOK
  <2>3. pos[p] <= Len(file[p])
    <3> DEFINE n == Len(batch[p])
               m == Len(file[p])
    <3>1. pos[p] + n <= m
      BY <1>1, <1>3 DEF InFile, Reach
    <3>2. n \in Nat /\ m \in Nat /\ pos[p] \in Nat
      BY <2>1
    <3> HIDE DEF n, m
    <3>3. pos[p] <= m
      BY <3>1, <3>2
    <3>4. QED
      BY <3>3 DEF m
  <2>4. PassedIsStored(p)'
    <3>1. SUFFICES ASSUME NEW i \in DOMAIN file'[p], i <= pos[p]
                   PROVE  file'[p][i] \in Stored
      BY <1>1, SameRows DEF PassedIsStored
    <3>2. i \in DOMAIN file[p]
      BY <2>1, <2>2, <2>3, <3>1
    <3>3. QED
      BY <1>1, <1>3, <2>2, <3>1, <3>2 DEF ClientOK, PassedIsStored
  <2>5. BatchFollows(p)'
    <3>1. SUFFICES ASSUME NEW i \in DOMAIN batch[p]
                   PROVE  /\ pos[p] + i \in DOMAIN file'[p]
                          /\ file'[p][pos[p] + i] = batch[p][i]
      BY <1>1 DEF BatchFollows
    <3>2. pos[p] + i \in DOMAIN file[p] /\ file[p][pos[p] + i] = batch[p][i]
      BY <1>1, <1>3 DEF ClientOK, BatchFollows
    <3>3. QED
      BY <2>1, <2>2, <3>2
  <2>6. SendsWritten(p)' /\ GrantedIsStored(p)' /\ CopiesTheRest(p)'
    BY <1>1, <1>3, SameRows DEF ClientOK, SendsWritten, GrantedIsStored, CopiesTheRest
  <2>7. QED
    BY <2>4, <2>5, <2>6 DEF ClientOK
<1>4. QED
  BY <1>2, <1>3

LEMMA AppendStep ==
    ASSUME IInv, InFiles, NEW p \in Producer, CanAppend(p), NEW frame \in Event \cup {Torn},
           Appended(p, frame), UNCHANGED <<present, ack, rows>>,
           UNCHANGED <<holder, life, client, quarantined, pruned>>,
           written' \subseteq Event, written \subseteq written',
           frame \in Event => frame \in written',
           accepted' \subseteq accepted \cup ({frame} \ {Torn}), accepted' \subseteq written'
    PROVE  IInv'
<1>1. /\ DiskTypes' /\ Files' /\ p \in Client
      /\ \A q \in Producer : EventsOf(q) \subseteq EventsOf(q)'
      /\ frame # Torn => frame \in EventsOf(p)'
      /\ \A d \in Client \ {p} : Working(d) => Undisturbed(d)
  BY Appends
<1>2. DeliveryTypeOK'
  <2>1. ClientTypes' /\ LockTypes' /\ LogTypes'
    BY DEF ClientTypes, LockTypes, LogTypes, client, IInv, DeliveryTypeOK
  <2>2. QED
    BY <1>1, <2>1, TypePartsNext
<1>3. Locks'
  BY DEF IInv, Locks, Working, client
<1>4. Clients'
  <2>1. ClientOK(p)'
    BY <1>1, AppendBehind DEF InFiles
  <2>2. Moves(p)
    BY DEF Moves, client
  <2>3. QED
    BY <1>1, <2>1, <2>2, SameRows, ClientsKeep DEF IInv
<1>5. Account'
  <2>1. Settled' = Settled
    BY SameRows DEF Settled
  <2>2. QED
    BY <1>1, <2>1 DEF IInv, Account
<1>6. QED
  BY <1>1, <1>2, <1>3, <1>4, <1>5 DEF IInv

LEMMA RecordKeeps ==
    ASSUME IInv, InFiles, NEW p \in Producer, NEW e \in Event, Record(p, e) PROVE IInv'
<1>1. e # Torn /\ e \in Event \cup {Torn} /\ written \subseteq Event /\ accepted \subseteq written
  BY SpoolAssumption DEF IInv, DeliveryTypeOK
<1>2. QED
  BY <1>1, AppendStep DEF Record

LEMMA AppendFailsKeeps ==
    ASSUME IInv, InFiles, NEW p \in Producer, AppendFails(p) PROVE IInv'
<1>1. Torn \notin Event /\ written \subseteq Event /\ accepted \subseteq written
  BY SpoolAssumption DEF IInv, DeliveryTypeOK
<1>2. CASE Appended(p, Torn) /\ UNCHANGED written
  BY <1>1, <1>2, AppendStep DEF AppendFails
<1>3. ASSUME NEW e \in Event \ written, Appended(p, e), written' = written \cup {e}
      PROVE  IInv'
  BY <1>1, <1>3, AppendStep DEF AppendFails
<1>4. QED
  BY <1>2, <1>3 DEF AppendFails

-----------------------------------------------------------------------------
\* Clients that begin.

LEMMA OpenKeeps ==
    ASSUME IInv, NEW c \in Client, NEW p \in Producer, Open(c, p), Locks', LockTypes'
    PROVE  IInv'
<1>1. /\ stage' = [stage EXCEPT ![c] = "read"]
      /\ on' = [on EXCEPT ![c] = p] /\ pos' = [pos EXCEPT ![c] = ack[p]]
      /\ UNCHANGED <<batch, granted, disk, rows, history>>
  BY DEF Open
<1>2. ack[p] \in Nat
  BY Frames DEF IInv
<1>3. ClientTypes' /\ Moves(c) /\ stage'[c] = "read" /\ on'[c] = p /\ pos'[c] = ack[p]
  BY <1>1, <1>2 DEF IInv, DeliveryTypeOK, ClientTypes, Moves, Stage
<1>4. DeliveryTypeOK'
  <2>1. DiskTypes' /\ LogTypes'
    BY <1>1 DEF DiskTypes, LogTypes, disk, history, IInv, DeliveryTypeOK
  <2>2. QED
    BY <1>3, <2>1, TypePartsNext
<1>5. Stored' = Stored /\ written' = written /\ file' = file
  BY <1>1, SameRows DEF history, disk
<1>6. Files'
  BY <1>1, <1>5, FilesKeep DEF IInv
<1>7. Clients'
  <2>1. PassedIsStored(c)'
    BY <1>3, <1>5 DEF PassedIsStored, IInv, Files, AcknowledgedIsStored
  <2>2. ClientOK(c)'
    BY <1>3, <2>1 DEF ClientOK, BatchFollows, SendsWritten, GrantedIsStored, CopiesTheRest
  <2>3. QED
    BY <1>1, <1>3, <1>5, <2>2, SameDisk, ClientsKeep DEF IInv
<1>8. Account'
  <2>1. UNCHANGED <<accepted, quarantined, pruned, written>>
    BY <1>1 DEF history
  <2>2. \A q \in Producer : EventsOf(q)' = EventsOf(q)
    BY <1>5 DEF EventsOf
  <2>3. QED
    BY <1>5, <2>1, <2>2, AccountKeeps DEF IInv, Account
<1>9. QED
  BY <1>4, <1>6, <1>7, <1>8 DEF IInv

\* A producer whose process lives has its spool to itself.
LEMMA ProducerOpens ==
    ASSUME DeliveryTypeOK, Locks, NEW p \in Producer, life[p] = "open", Open(p, p),
           life' = life \/ life' = [life EXCEPT ![p] = "closing"], UNCHANGED holder
    PROVE  Locks' /\ LockTypes' /\ p \in Client
<1>1. /\ stage' = [stage EXCEPT ![p] = "read"] /\ on' = [on EXCEPT ![p] = p]
      /\ present' = present
  BY DEF Open, disk
<1>2. p \in Client /\ (\A q \in Producer : q \in Client) /\ (\A s \in Sweeper : s \in Client)
  BY DEF Client
<1>3. /\ stage \in [Client -> Stage] /\ on \in [Client -> Producer]
      /\ life \in [Producer -> {"open", "closing", "over"}]
  BY DEF DeliveryTypeOK
<1>4. on[p] = p
  BY DEF Locks
<1>5. on' = on
  BY <1>1, <1>2, <1>3, <1>4
<1>6. \A q \in Producer : life'[q] = "over" <=> life[q] = "over"
  BY <1>3
<1>7. /\ \A d \in Client : d # p => stage'[d] = stage[d]
      /\ stage'[p] = "read"
      /\ \A d \in Client : Working(d)' => Working(d) \/ d = p
  BY <1>1, <1>2, <1>3 DEF Working
<1>8. \A d \in Client : Working(d) /\ d # p => on[d] # p
  <2>1. SUFFICES ASSUME NEW d \in Client, Working(d), d # p, on[d] = p PROVE FALSE
    OBVIOUS
  <2>2. CASE d \in Producer
    BY <2>1, <2>2 DEF Locks
  <2>3. CASE d \in Sweeper
    BY <2>1, <2>3 DEF Locks, Working
  <2>4. QED
    BY <2>2, <2>3 DEF Client
<1>9. p \notin Sweeper
  BY SpoolAssumption
<1>10. \A q \in Producer : on'[q] = q
  BY <1>5 DEF Locks
<1>11. \A q \in Producer : life'[q] = "over" => stage'[q] = "idle"
  BY <1>2, <1>6, <1>7 DEF Locks
<1>12. \A q \in Producer : life'[q] # "over" => holder'[q] = q /\ q \in present'
  BY <1>1, <1>6 DEF Locks
<1>13. \A s \in Sweeper : stage'[s] # "idle" => life'[on'[s]] = "over"
  BY <1>2, <1>3, <1>5, <1>6, <1>7, <1>9 DEF Locks
<1>14. \A d \in Client : Working(d)' => holder'[on'[d]] = d \/ on'[d] \notin present'
  BY <1>1, <1>4, <1>5, <1>7 DEF Locks
<1>15. \A d, e \in Client : Working(d)' /\ Working(e)' /\ on'[d] = on'[e] => d = e
  BY <1>4, <1>5, <1>7, <1>8 DEF Locks
<1>16. LockTypes'
  BY <1>3 DEF LockTypes, DeliveryTypeOK
<1>17. QED
  BY <1>2, <1>10, <1>11, <1>12, <1>13, <1>14, <1>15, <1>16 DEF Locks

LEMMA FlushKeeps == ASSUME IInv, NEW p \in Producer, Flush(p) \/ Close(p) PROVE IInv'
<1>1. life[p] = "open" /\ Open(p, p) /\ UNCHANGED holder
      /\ (life' = life \/ life' = [life EXCEPT ![p] = "closing"])
  BY DEF Flush, Close
<1>2. Locks' /\ LockTypes' /\ p \in Client
  BY <1>1, ProducerOpens DEF IInv
<1>3. QED
  BY <1>1, <1>2, OpenKeeps

\* A sweeper takes a spool that nobody has: its process is over, and no other
\* client works on it.
LEMMA SweeperBegins ==
    ASSUME DeliveryTypeOK, Locks, NEW s \in Sweeper, NEW p \in Producer,
           p \in present, holder[p] = Nobody,
           NEW next \in {"read", "unlink"},
           stage' = [stage EXCEPT ![s] = next], on' = [on EXCEPT ![s] = p],
           UNCHANGED <<life, present>>,
           holder' = [holder EXCEPT ![p] = s] \/ (next = "unlink" /\ holder' = holder)
    PROVE  Locks' /\ LockTypes' /\ s \in Client
<1>1. s \in Client /\ (\A q \in Producer : q \in Client) /\ (\A r \in Sweeper : r \in Client)
  BY DEF Client
<1>2. /\ stage \in [Client -> Stage] /\ on \in [Client -> Producer]
      /\ holder \in [Producer -> Client \cup {Nobody}]
  BY DEF DeliveryTypeOK
<1>3. s \notin Producer /\ Nobody \notin Client
  BY SpoolAssumption DEF Client
<1>4. life[p] = "over"
  BY <1>1, <1>3 DEF Locks
<1>5. /\ stage'[s] = next /\ on'[s] = p
      /\ \A d \in Client : d # s => stage'[d] = stage[d] /\ on'[d] = on[d]
      /\ \A d \in Client : Working(d)' => Working(d) \/ (d = s /\ next = "read")
  BY <1>1, <1>2 DEF Working
<1>6. \A d \in Client : Working(d) => on[d] # p
  BY <1>3 DEF Locks
<1>7. /\ \A q \in Producer : q # p => holder'[q] = holder[q]
      /\ next = "read" => holder'[p] = s
  BY <1>2
<1>8. \A q \in Producer : on'[q] = q
  BY <1>1, <1>3, <1>5 DEF Locks
<1>9. \A q \in Producer : life'[q] = "over" => stage'[q] = "idle"
  BY <1>1, <1>3, <1>5 DEF Locks
<1>10. \A q \in Producer : life'[q] # "over" => holder'[q] = q /\ q \in present'
  BY <1>4, <1>7 DEF Locks
<1>11. \A r \in Sweeper : stage'[r] # "idle" => life'[on'[r]] = "over"
  BY <1>1, <1>4, <1>5 DEF Locks
<1>12. \A d \in Client : Working(d)' => holder'[on'[d]] = d \/ on'[d] \notin present'
  <2>1. SUFFICES ASSUME NEW d \in Client, Working(d)'
                 PROVE  holder'[on'[d]] = d \/ on'[d] \notin present'
    OBVIOUS
  <2>2. CASE d = s
    BY <1>5, <1>7, <2>1, <2>2 DEF Working
  <2>3. CASE d # s
    <3>1. Working(d) /\ on'[d] = on[d] /\ on[d] \in Producer /\ on[d] # p
      BY <1>2, <1>5, <1>6, <2>1, <2>3
    <3>2. QED
      BY <1>7, <3>1 DEF Locks
  <2>4. QED
    BY <2>2, <2>3
<1>13. \A d, e \in Client : Working(d)' /\ Working(e)' /\ on'[d] = on'[e] => d = e
  BY <1>5, <1>6 DEF Locks
<1>14. LockTypes'
  BY <1>1, <1>2 DEF LockTypes, DeliveryTypeOK
<1>15. QED
  BY <1>1, <1>8, <1>9, <1>10, <1>11, <1>12, <1>13, <1>14 DEF Locks

LEMMA AcquireKeeps ==
    ASSUME IInv, NEW s \in Sweeper, NEW p \in Producer, Acquire(s, p)
    PROVE  IInv'
<1>1. /\ p \in present /\ holder[p] = Nobody /\ Open(s, p)
      /\ holder' = [holder EXCEPT ![p] = s] /\ life' = life
  BY DEF Acquire
<1>2. /\ stage' = [stage EXCEPT ![s] = "read"] /\ on' = [on EXCEPT ![s] = p]
      /\ present' = present
  BY <1>1 DEF Open, disk
<1>3. Locks' /\ LockTypes' /\ s \in Client
  BY <1>1, <1>2, SweeperBegins DEF IInv
<1>4. QED
  BY <1>1, <1>3, OpenKeeps

LEMMA DoomKeeps == ASSUME IInv, NEW s \in Sweeper, NEW p \in Producer, Doom(s, p) PROVE IInv'
<1>1. /\ p \in present /\ holder[p] = Nobody /\ stage[s] = "idle"
      /\ stage' = [stage EXCEPT ![s] = "unlink"] /\ on' = [on EXCEPT ![s] = p]
      /\ UNCHANGED <<disk, holder, life, pos, batch, granted, rows, history>>
  BY DEF Doom
<1>2. Locks' /\ LockTypes' /\ s \in Client
  BY <1>1, SweeperBegins DEF IInv, disk
<1>3. ClientTypes' /\ Moves(s) /\ stage'[s] = "unlink"
  BY <1>1, <1>2 DEF IInv, DeliveryTypeOK, ClientTypes, Moves, Stage
<1>4. DeliveryTypeOK'
  <2>1. DiskTypes' /\ LogTypes'
    BY <1>1 DEF DiskTypes, LogTypes, disk, history, IInv, DeliveryTypeOK
  <2>2. QED
    BY <1>2, <1>3, <2>1, TypePartsNext
<1>5. Stored' = Stored /\ UNCHANGED <<written, file, accepted, quarantined, pruned>>
  BY <1>1, SameRows DEF history, disk
<1>6. Files'
  BY <1>1, <1>5, FilesKeep DEF IInv
<1>7. Clients'
  <2>1. ClientOK(s)'
    BY <1>3, Vacuous
  <2>2. QED
    BY <1>1, <1>2, <1>3, <1>5, <2>1, SameDisk, ClientsKeep DEF IInv
<1>8. Account'
  <2>1. \A q \in Producer : EventsOf(q)' = EventsOf(q)
    BY <1>5 DEF EventsOf
  <2>2. QED
    BY <1>5, <2>1, AccountKeeps DEF IInv, Account
<1>9. QED
  BY <1>2, <1>4, <1>6, <1>7, <1>8 DEF IInv

-----------------------------------------------------------------------------
\* Clients that stop, and spools that go.

\* What stops working leaves the spool as it is, or empties it, or has it end
\* in a torn frame.
LEMMA LeaveStep ==
    ASSUME IInv, NEW c \in Client, NEW next \in {"idle", "unlink"}, Goto(c, next),
           UNCHANGED on, Locks', LockTypes', DiskTypes', Files',
           \A d \in Client \ {c} : Working(d) => Undisturbed(d),
           UNCHANGED <<rows, written, accepted, quarantined>>,
           pruned \subseteq pruned', pruned' \subseteq written,
           \A p \in Producer : EventsOf(p) \subseteq EventsOf(p)' \cup pruned'
    PROVE  IInv'
<1>1. next \in Stage /\ next \notin {"read", "send", "ack", "rename"}
  BY DEF Stage
<1>2. ClientTypes' /\ Moves(c) /\ ClientOK(c)'
  BY <1>1, Forgets DEF IInv
<1>3. Stored' = Stored
  BY SameRows
<1>4. LogTypes'
  BY DEF LogTypes, IInv, DeliveryTypeOK
<1>5. DeliveryTypeOK'
  BY <1>2, <1>4, TypePartsNext
<1>6. Clients'
  BY <1>2, <1>3, ClientsKeep DEF IInv
<1>7. Account'
  BY <1>3, AccountKeeps DEF IInv, Account, Settled
<1>8. QED
  BY <1>5, <1>6, <1>7 DEF IInv

LEMMA ReleaseKeeps == ASSUME IInv, NEW c \in Client, Release(c) PROVE IInv'
<1> DEFINE p == on[c]
<1>1. /\ stage[c] = "finish" /\ Unlocked(c, p) /\ Goto(c, "idle")
      /\ life' = [q \in Producer |-> IF q = c THEN "over" ELSE life[q]]
      /\ UNCHANGED <<file, on, rows, history>>
      /\ \/ /\ file[p] = <<>> /\ present' = present \ {p}
            /\ ack' = [ack EXCEPT ![p] = 0]
         \/ UNCHANGED <<present, ack>>
  BY DEF Release
<1>2. /\ p \in Producer /\ ack \in [Producer -> Nat]
      /\ holder \in [Producer -> Client \cup {Nobody}]
      /\ life \in [Producer -> {"open", "closing", "over"}]
  BY BatchFrames DEF IInv, DeliveryTypeOK
<1>3. c \in Sweeper => life' = life
  BY <1>1, <1>2, SpoolAssumption
<1>4. c \in Producer => life' = [life EXCEPT ![c] = "over"]
  BY <1>1, <1>2
<1>5. /\ \A q \in Producer \ {p} : holder'[q] = holder[q] /\ ack'[q] = ack[q]
      /\ holder'[p] = holder[p] \/ holder[p] = c
      /\ ack'[p] \in {0, ack[p]}
  BY <1>1, <1>2 DEF Unlocked
<1>6. Locks'
  <2>1. stage' = [stage EXCEPT ![c] = "idle"]
    BY <1>1 DEF Goto
  <2>2. present' \in {present, present \ {p}}
    BY <1>1
  <2>3. stage[c] # "idle" /\ on' = on
    BY <1>1
  <2>4. QED
    BY <1>3, <1>4, <1>5, <2>1, <2>2, <2>3, LocksLeave DEF IInv
<1>7. LockTypes' /\ DiskTypes'
  <2>1. LockTypes'
    BY <1>1, <1>2 DEF LockTypes, Unlocked
  <2>2. ack' \in [Producer -> Nat] /\ present' \subseteq Producer
    <3>1. present \subseteq Producer
      BY DEF IInv, DeliveryTypeOK
    <3>2. CASE present' = present \ {p} /\ ack' = [ack EXCEPT ![p] = 0]
      BY <1>2, <3>1, <3>2
    <3>3. CASE UNCHANGED <<present, ack>>
      BY <1>2, <3>1, <3>3
    <3>4. QED
      BY <1>1, <3>2, <3>3
  <2>3. DiskTypes'
    BY <1>1, <2>2 DEF DiskTypes, IInv, DeliveryTypeOK
  <2>4. QED
    BY <2>1, <2>3
<1>8. Files'
  <2>1. Stored' = Stored /\ written' = written /\ file' = file
    BY <1>1, SameRows DEF history
  <2>2. \A q \in Producer : ack'[q] \in Nat /\ ack'[q] <= ack[q]
    BY <1>2, <1>5
  <2>3. \A q \in Producer : q \notin present' => file'[q] = <<>>
    BY <1>1, <2>1 DEF IInv, Files
  <2>4. \A q \in Producer : ack'[q] <= Len(file'[q])
    <3>1. SUFFICES ASSUME NEW q \in Producer PROVE ack'[q] <= Len(file[q])
      BY <2>1
    <3>2. ack[q] <= Len(file[q]) /\ ack[q] \in Nat /\ Len(file[q]) \in Nat
      BY Frames DEF IInv, Files
    <3>3. QED
      BY <2>2, <3>2
  <2>5. AcknowledgedIsStored'
    <3>1. SUFFICES ASSUME NEW q \in Producer, NEW i \in DOMAIN file[q], i <= ack'[q]
                   PROVE  file[q][i] \in Stored
      BY <2>1 DEF AcknowledgedIsStored
    <3>2. i \in Nat /\ ack[q] \in Nat
      BY Frames DEF IInv
    <3>3. i <= ack[q]
      BY <2>2, <3>1, <3>2
    <3>4. QED
      BY <3>3 DEF IInv, Files, AcknowledgedIsStored
  <2>6. \A q \in Producer : EventsOf(q)' \subseteq written'
    BY <2>1 DEF IInv, Files, EventsOf
  <2>7. QED
    BY <2>3, <2>4, <2>5, <2>6 DEF Files
<1>9. \A d \in Client \ {c} : Working(d) => Undisturbed(d)
  <2>1. SUFFICES ASSUME NEW d \in Client PROVE Undisturbed(d)
    OBVIOUS
  <2>2. on[d] \in Producer
    BY BatchFrames DEF IInv
  <2>3. CASE on[d] = p
    BY <1>1, <1>2, <2>3 DEF Undisturbed
  <2>4. CASE on[d] # p
    BY <1>1, <1>5, <2>2, <2>4 DEF Undisturbed
  <2>5. QED
    BY <2>3, <2>4
<1>10. UNCHANGED <<rows, written, accepted, quarantined, pruned>> /\ pruned \subseteq written
  BY <1>1 DEF history, IInv, Account
<1>11. \A q \in Producer : EventsOf(q)' = EventsOf(q)
  BY <1>1 DEF EventsOf
<1>12. QED
  BY <1>1, <1>6, <1>7, <1>8, <1>9, <1>10, <1>11, LeaveStep

LEMMA CrashKeeps == ASSUME IInv, NEW p \in Producer, Crash(p) PROVE IInv'
<1>1. /\ life[p] # "over" /\ life' = [life EXCEPT ![p] = "over"]
      /\ Unlocked(p, p) /\ Goto(p, "idle")
      /\ UNCHANGED <<present, ack, on, rows, history>>
      /\ file' = file \/ (CanAppend(p) /\ Appended(p, Torn))
  BY DEF Crash
<1>2. p \in Client /\ on[p] = p
  BY DEF Client, IInv, Locks
<1>3. Locks'
  <2>1. stage' = [stage EXCEPT ![p] = "idle"] /\ p \notin Sweeper
    BY <1>1, SpoolAssumption DEF Goto
  <2>2. \A q \in Producer \ {p} : holder'[q] = holder[q]
    BY <1>1 DEF Unlocked, IInv, DeliveryTypeOK
  <2>3. holder[p] = p
    BY <1>1 DEF IInv, Locks
  <2>4. QED
    BY <1>1, <1>2, <2>1, <2>2, <2>3, LocksLeave DEF IInv
<1>4. LockTypes'
  BY <1>1 DEF LockTypes, Unlocked, IInv, DeliveryTypeOK
<1>5. UNCHANGED <<rows, written, accepted, quarantined, pruned>> /\ pruned \subseteq written
  BY <1>1 DEF history, IInv, Account
<1>6. CASE file' = file
  <2>1. UNCHANGED disk
    BY <1>1, <1>6 DEF disk
  <2>2. DiskTypes'
    BY <2>1 DEF DiskTypes, disk, IInv, DeliveryTypeOK
  <2>3. Files'
    BY <2>1, <1>5, SameRows, FilesKeep DEF IInv
  <2>4. \A q \in Producer : EventsOf(q)' = EventsOf(q)
    BY <1>6 DEF EventsOf
  <2>5. QED
    BY <1>1, <1>2, <1>3, <1>4, <1>5, <2>1, <2>2, <2>3, <2>4, SameDisk, LeaveStep
<1>7. CASE CanAppend(p) /\ Appended(p, Torn)
  <2>1. Torn \in Event \cup {Torn} /\ Torn \notin Event
    BY SpoolAssumption
  <2>2. /\ DiskTypes' /\ Files'
        /\ \A q \in Producer : EventsOf(q) \subseteq EventsOf(q)'
        /\ \A d \in Client \ {p} : Working(d) => Undisturbed(d)
    BY <1>1, <1>5, <1>7, <2>1, Appends
  <2>3. QED
    BY <1>1, <1>2, <1>3, <1>4, <1>5, <2>2, LeaveStep
<1>8. QED
  BY <1>1, <1>6, <1>7

LEMMA SweeperCrashesKeeps == ASSUME IInv, NEW s \in Sweeper, SweeperCrashes(s) PROVE IInv'
<1>1. /\ stage[s] # "idle" /\ Unlocked(s, on[s]) /\ Goto(s, "idle")
      /\ UNCHANGED <<disk, life, on, rows, history>>
  BY DEF SweeperCrashes
<1>2. s \in Client /\ on[s] \in Producer /\ s \notin Producer
  BY BatchFrames, SpoolAssumption DEF Client, IInv
<1>3. /\ \A q \in Producer \ {on[s]} : holder'[q] = holder[q]
      /\ holder'[on[s]] = holder[on[s]] \/ holder[on[s]] = s
  BY <1>1, <1>2 DEF Unlocked, IInv, DeliveryTypeOK
<1>4. Locks'
  BY <1>1, <1>2, <1>3, LocksLeave DEF IInv, Goto, disk
<1>5. LockTypes' /\ DiskTypes'
  BY <1>1 DEF LockTypes, DiskTypes, Unlocked, disk, IInv, DeliveryTypeOK
<1>6. UNCHANGED <<rows, written, accepted, quarantined, pruned>> /\ pruned \subseteq written
  BY <1>1 DEF history, IInv, Account
<1>7. Files'
  BY <1>1, <1>6, SameRows, FilesKeep DEF IInv
<1>8. \A q \in Producer : EventsOf(q)' = EventsOf(q)
  BY <1>1 DEF EventsOf, disk
<1>9. QED
  BY <1>1, <1>2, <1>4, <1>5, <1>6, <1>7, <1>8, SameDisk, LeaveStep

\* A spool without frames, or without an acknowledgement, claims nothing.
LEMMA FilesShrink ==
    ASSUME IInv, NEW p \in Producer, UNCHANGED <<rows, written>>,
           \A q \in Producer \ {p} : file'[q] = file[q] /\ ack'[q] = ack[q],
           present \ {p} \subseteq present', ack'[p] = 0,
           \/ file'[p] = <<>>
           \/ file'[p] = file[p] /\ present' = present
    PROVE  Files'
<1>1. Stored' = Stored
  BY SameRows
<1>2. \A q \in Producer : q \notin present' => file'[q] = <<>>
  BY DEF IInv, Files
<1>3. file[p] \in Seq(Event \cup {Torn}) /\ Len(file[p]) \in Nat
      /\ DOMAIN file[p] = 1 .. Len(file[p])
  BY Frames DEF IInv
<1>4. /\ 0 <= Len(file'[p])
      /\ \A i \in DOMAIN file'[p] : ~ (i <= 0)
      /\ EventsOf(p)' \subseteq EventsOf(p)
  <2>1. CASE file'[p] = <<>>
    BY <2>1 DEF EventsOf, Elements
  <2>2. CASE file'[p] = file[p]
    BY <1>3, <2>2 DEF EventsOf
  <2>3. QED
    BY <2>1, <2>2
<1>5. \A q \in Producer : ack'[q] <= Len(file'[q])
  BY <1>4 DEF IInv, Files
<1>6. AcknowledgedIsStored'
  BY <1>1, <1>4 DEF IInv, Files, AcknowledgedIsStored
<1>7. \A q \in Producer : EventsOf(q)' \subseteq written'
  <2>1. \A q \in Producer \ {p} : EventsOf(q)' = EventsOf(q)
    BY DEF EventsOf
  <2>2. QED
    BY <1>4, <2>1 DEF IInv, Files
<1>8. QED
  BY <1>2, <1>5, <1>6, <1>7 DEF Files

LEMMA PruneKeeps == ASSUME IInv, NEW s \in Sweeper, Prune(s) PROVE IInv'
<1> DEFINE p == on[s]
<1>1. /\ stage[s] = "unlink"
      /\ file' = [file EXCEPT ![p] = <<>>] /\ present' = present \ {p}
      /\ ack' = [ack EXCEPT ![p] = 0]
      /\ pruned' = pruned \cup EventsOf(p)
      /\ holder' = [holder EXCEPT ![p] = Nobody]
      /\ Goto(s, "idle")
      /\ UNCHANGED <<life, on, rows, written, accepted, quarantined>>
  BY DEF Prune
<1>2. s \in Client /\ s \notin Producer
  BY SpoolAssumption DEF Client
<1>3. p \in Producer /\ <<>> \in Seq(Event \cup {Torn}) /\ Len(<<>>) = 0 /\ MaxFrames \in Nat
  BY <1>2, BatchFrames, SpoolAssumption DEF IInv
<1>4. /\ file'[p] = <<>> /\ ack'[p] = 0 /\ p \notin present'
      /\ \A q \in Producer \ {p} : file'[q] = file[q] /\ ack'[q] = ack[q]
      /\ \A q \in Producer \ {p} : holder'[q] = holder[q]
  BY <1>1, <1>3 DEF IInv, DeliveryTypeOK
<1>5. Locks'
  BY <1>1, <1>2, <1>4, LocksLeave DEF IInv, Goto
<1>6. LockTypes'
  BY <1>1 DEF LockTypes, IInv, DeliveryTypeOK
<1>7. DiskTypes'
  <2>1. \A q \in Producer : Len(file'[q]) <= MaxFrames
    <3>1. Len(file'[p]) <= MaxFrames
      BY <1>3, <1>4
    <3>2. \A q \in Producer \ {p} : Len(file'[q]) <= MaxFrames
      BY <1>4 DEF IInv, DeliveryTypeOK
    <3>3. QED
      BY <3>1, <3>2
  <2>2. file' \in [Producer -> Seq(Event \cup {Torn})] /\ ack' \in [Producer -> Nat]
        /\ present' \subseteq Producer
    BY <1>1, <1>3 DEF IInv, DeliveryTypeOK
  <2>3. QED
    BY <2>1, <2>2 DEF DiskTypes
<1>8. Files'
  BY <1>1, <1>3, <1>4, FilesShrink
<1>9. \A d \in Client \ {s} : Working(d) => Undisturbed(d)
  <2>1. SUFFICES ASSUME NEW d \in Client PROVE Undisturbed(d)
    OBVIOUS
  <2>2. on[d] \in Producer
    BY BatchFrames DEF IInv
  <2>3. CASE on[d] = p
    BY <1>4, <2>3 DEF Undisturbed
  <2>4. CASE on[d] # p
    BY <1>1, <1>4, <2>2, <2>4 DEF Undisturbed
  <2>5. QED
    BY <2>3, <2>4
<1>10. pruned' \subseteq written
  BY <1>1, <1>3 DEF IInv, Account, Files
<1>11. \A q \in Producer : EventsOf(q) \subseteq EventsOf(q)' \cup pruned'
  <2>1. SUFFICES ASSUME NEW q \in Producer PROVE EventsOf(q) \subseteq EventsOf(q)' \cup pruned'
    OBVIOUS
  <2>2. CASE q = p
    BY <1>1, <2>2
  <2>3. CASE q # p
    BY <1>4, <2>3 DEF EventsOf
  <2>4. QED
    BY <2>2, <2>3
<1>12. QED
  BY <1>1, <1>2, <1>5, <1>6, <1>7, <1>8, <1>9, <1>10, <1>11, LeaveStep

LEMMA PruneAckKeeps == ASSUME IInv, NEW s \in Sweeper, PruneAck(s) PROVE IInv'
<1> DEFINE p == on[s]
<1>1. /\ stage[s] = "unlink" /\ ack' = [ack EXCEPT ![p] = 0]
      /\ UNCHANGED <<file, present, holder, life, on, rows, history>>
  BY DEF PruneAck
<1>2. PICK next \in {"idle", "unlink"} : Goto(s, next)
  BY DEF PruneAck
<1>3. s \in Client
  BY DEF Client
<1>4. p \in Producer
  BY <1>3, BatchFrames DEF IInv
<1>5. /\ file' = file /\ present' = present /\ ack'[p] = 0
      /\ \A q \in Producer \ {p} : ack'[q] = ack[q]
  BY <1>1, <1>4 DEF IInv, DeliveryTypeOK
<1>6. Locks'
  <2>1. stage' = [stage EXCEPT ![s] = next] /\ next \in Stage /\ stage[s] # "idle"
        /\ next \notin {"read", "send", "ack", "compact", "rename"}
    BY <1>1, <1>2 DEF Goto, Stage
  <2>2. QED
    BY <1>1, <1>3, <2>1, LocksMove DEF IInv
<1>7. LockTypes' /\ DiskTypes'
  BY <1>1 DEF LockTypes, DiskTypes, IInv, DeliveryTypeOK
<1>8. UNCHANGED <<rows, written, accepted, quarantined, pruned>> /\ pruned \subseteq written
  BY <1>1 DEF history, IInv, Account
<1>9. Files'
  BY <1>4, <1>5, <1>8, FilesShrink
<1>10. \A d \in Client \ {s} : Working(d) => Undisturbed(d)
  <2>1. SUFFICES ASSUME NEW d \in Client PROVE Undisturbed(d)
    OBVIOUS
  <2>2. on[d] \in Producer
    BY BatchFrames DEF IInv
  <2>3. CASE on[d] = p
    BY <1>5, <2>3 DEF Undisturbed
  <2>4. CASE on[d] # p
    BY <1>5, <2>2, <2>4 DEF Undisturbed
  <2>5. QED
    BY <2>3, <2>4
<1>11. \A q \in Producer : EventsOf(q)' = EventsOf(q)
  BY <1>5 DEF EventsOf
<1>12. QED
  BY <1>1, <1>2, <1>3, <1>6, <1>7, <1>8, <1>9, <1>10, <1>11, LeaveStep

-----------------------------------------------------------------------------

LEMMA InitHolds == Init => IInv
<1> SUFFICES ASSUME Init PROVE IInv
  OBVIOUS
<1>1. /\ <<>> \in Seq(Event \cup {Torn}) /\ Len(<<>>) = 0 /\ MaxFrames \in Nat
      /\ Producer # {} /\ Producer \cap Sweeper = {}
  BY SpoolAssumption
<1>2. (\A p \in Producer : p \in Client) /\ (\A s \in Sweeper : s \in Client)
  BY DEF Client
<1>3. DiskTypes
  BY <1>1 DEF Init, DiskTypes
<1>4. ClientTypes
  <2>1. on \in [Client -> Producer]
    <3>1. (CHOOSE p \in Producer : TRUE) \in Producer
      BY <1>1
    <3>2. QED
      BY <3>1 DEF Init
  <2>2. QED
    BY <1>1, <2>1 DEF Init, ClientTypes, Stage
<1>5. LockTypes
  BY <1>2 DEF Init, LockTypes
<1>6. LogTypes
  BY DEF Init, LogTypes
<1>7. DeliveryTypeOK
  BY <1>3, <1>4, <1>5, <1>6, TypeParts
<1>8. \A c \in Client : stage[c] = "idle"
  BY DEF Init
<1>9. Locks
  <2>1. \A p \in Producer : on[p] = p /\ life[p] = "open" /\ holder[p] = p /\ p \in present
    BY <1>2 DEF Init
  <2>2. QED
    BY <1>2, <1>8, <2>1 DEF Locks, Working
<1>10. \A p \in Producer : file[p] = <<>> /\ ack[p] = 0
  BY DEF Init
<1>11. Files
  <2>1. \A p \in Producer : EventsOf(p) = {}
    <3>1. Elements(<<>>) = {}
      BY DEF Elements
    <3>2. QED
      BY <1>10, <3>1 DEF EventsOf
  <2>2. AcknowledgedIsStored
    BY <1>10 DEF AcknowledgedIsStored
  <2>3. \A p \in Producer : ack[p] <= Len(file[p])
    <3>1. SUFFICES ASSUME NEW p \in Producer PROVE ack[p] <= Len(file[p])
      OBVIOUS
    <3>2. Len(file[p]) = Len(<<>>) /\ ack[p] = 0
      BY <1>10
    <3>3. QED
      BY <1>1, <3>2
  <2>4. QED
    BY <1>10, <2>1, <2>2, <2>3 DEF Files
<1>12. Clients
  BY <1>8 DEF Clients, ClientOK, PassedIsStored, BatchFollows, SendsWritten,
     GrantedIsStored, CopiesTheRest
<1>13. Account
  BY DEF Init, Account
<1>14. QED
  BY <1>7, <1>9, <1>11, <1>12, <1>13 DEF IInv

LEMMA TransferKeeps == ASSUME IInv, NEW c \in Client, Transfer(c) PROVE IInv'
BY ReadBatchKeeps, ReachEndKeeps, QuarantineKeeps, DeliverKeeps, UnansweredKeeps,
   AcknowledgeKeeps, AcknowledgedKeeps, CompactKeeps, GivesUpKeeps, RenameKeeps,
   ReleaseKeeps DEF Transfer

LEMMA ProduceKeeps == ASSUME IInv, InFiles, NEW p \in Producer, Produce(p) PROVE IInv'
BY RecordKeeps, AppendFailsKeeps, FlushKeeps, FlushEndsKeeps, CrashKeeps DEF Produce

LEMMA SweepKeeps == ASSUME IInv, NEW s \in Sweeper, Sweep(s) PROVE IInv'
BY AcquireKeeps, DoomKeeps, PruneKeeps, PruneAckKeeps, SweeperCrashesKeeps DEF Sweep

LEMMA StutterKeeps == ASSUME IInv, UNCHANGED vars PROVE IInv'
<1>1. DeliveryTypeOK'
  BY DEF vars, disk, client, history, IInv, DeliveryTypeOK
<1>2. Locks'
  BY DEF vars, disk, client, IInv, Locks, Working
<1>3. Files'
  BY SameRows, FilesKeep DEF vars, history, IInv
<1>4. Clients'
  <2>1. UNCHANGED <<disk, client, rows, written>>
    BY DEF vars, history
  <2>2. Stored' = Stored /\ \A d \in Client : Undisturbed(d)
    BY <2>1, SameRows, SameDisk
  <2>3. SUFFICES ASSUME NEW d \in Client PROVE ClientOK(d)'
    BY DEF Clients
  <2>4. DeliveryTypeOK /\ ClientOK(d)
    BY DEF IInv, Clients
  <2>5. /\ stage'[d] = stage[d] /\ on'[d] = on[d] /\ pos'[d] = pos[d]
        /\ batch'[d] = batch[d] /\ granted'[d] = granted[d]
    BY <2>1 DEF client
  <2>6. QED
    BY <2>1, <2>2, <2>4, <2>5, StandsStill
<1>5. Account'
  BY DEF vars, disk, history, IInv, Account, Settled, Stored, EventsOf
<1>6. QED
  BY <1>1, <1>2, <1>3, <1>4, <1>5 DEF IInv

LEMMA StepHolds == IInv /\ InFiles /\ [Next]_vars => IInv'
BY TransferKeeps, ProduceKeeps, SweepKeeps, StutterKeeps DEF Next

-----------------------------------------------------------------------------
\* No client reads beyond the end of a file.

LEMMA OthersInFile ==
    ASSUME InFiles, NEW c \in Client, Moves(c), InFile(c)',
           \A d \in Client \ {c} : Working(d) => Undisturbed(d)
    PROVE  InFiles'
<1>1. SUFFICES ASSUME NEW d \in Client \ {c}, stage[d] \in {"read", "send", "ack"}
               PROVE  InFile(d)'
  BY DEF InFiles, InFile, Moves
<1>2. Undisturbed(d) /\ InFile(d)
  BY <1>1 DEF Working, InFiles
<1>3. /\ stage'[d] = stage[d] /\ on'[d] = on[d]
      /\ pos'[d] = pos[d] /\ batch'[d] = batch[d]
  BY DEF Moves
<1>4. Reach(d)' = Reach(d)
  BY <1>3 DEF Reach
<1>5. CASE /\ file'[on[d]] = file[on[d]]
           /\ on[d] \in present' => on[d] \in present
  BY <1>2, <1>3, <1>4, <1>5 DEF InFile
<1>6. CASE on[d] \notin present'
  BY <1>3, <1>6 DEF InFile
<1>7. QED
  BY <1>2, <1>5, <1>6 DEF Undisturbed

LEMMA LeavesFile ==
    ASSUME DeliveryTypeOK, InFiles, NEW c \in Client, NEW next \in Stage,
           next \notin {"read", "send", "ack"}, Goto(c, next), UNCHANGED on,
           \A d \in Client \ {c} : Working(d) => Undisturbed(d)
    PROVE  InFiles'
<1>1. Moves(c) /\ stage'[c] = next
  BY DEF Goto, Moves, DeliveryTypeOK
<1>2. InFile(c)'
  BY <1>1 DEF InFile
<1>3. QED
  BY <1>1, <1>2, OthersInFile

LEMMA TransferInFile ==
    ASSUME IInv, InFiles, NEW c \in Client, Transfer(c) PROVE InFiles'
<1>1. /\ on[c] \in Producer /\ pos[c] \in Nat /\ batch[c] \in Seq(Event \cup {Torn})
      /\ Len(batch[c]) \in Nat /\ InFile(c) /\ DeliveryTypeOK /\ Locks
      /\ "finish" \in Stage /\ "idle" \in Stage
  BY BatchFrames DEF IInv, InFiles, Stage
<1>2. Len(file[on[c]]) \in Nat /\ ack \in [Producer -> Nat] /\ file[on[c]] = file[on[c]]
  BY <1>1, Frames DEF DeliveryTypeOK
<1>3. ASSUME UNCHANGED disk PROVE \A d \in Client \ {c} : Working(d) => Undisturbed(d)
  BY <1>3, SameDisk
<1>4. CASE ReadBatch(c)
  <2>1. /\ stage[c] = "read" /\ on[c] \in present
        /\ stage' = [stage EXCEPT ![c] = "send"] /\ batch' = [batch EXCEPT ![c] = Chunk(c)]
        /\ UNCHANGED <<disk, on, pos, granted>>
    BY <1>4 DEF ReadBatch, Reads
  <2>2. Moves(c) /\ stage'[c] = "send" /\ batch'[c] = Chunk(c) /\ pos'[c] = pos[c]
    BY <2>1, <1>1 DEF Moves, DeliveryTypeOK
  <2>3. pos[c] <= Len(file[on[c]])
    BY <2>1, <1>1 DEF InFile, Reach
  <2>4. pos[c] + Len(Chunk(c)) <= Len(file[on[c]])
    <3> DEFINE n == Len(file[on[c]])
               end == IF pos[c] + Width(c) < n THEN pos[c] + Width(c) ELSE n
    <3>1. Width(c) \in Nat
      BY SpoolAssumption DEF Width
    <3>2. end \in Nat /\ end <= n /\ pos[c] <= end
      BY <1>1, <1>2, <2>3, <3>1
    <3>3. Chunk(c) = SubSeq(file[on[c]], pos[c] + 1, end)
      BY DEF Chunk
    <3> HIDE DEF end
    <3>4. Len(SubSeq(file[on[c]], pos[c] + 1, end)) = IF pos[c] < end THEN end - pos[c] ELSE 0
      BY <1>1, <3>2, Rest
    <3> HIDE DEF n
    <3>5. Len(Chunk(c)) = IF pos[c] < end THEN end - pos[c] ELSE 0
      BY <3>3, <3>4
    <3>6. pos[c] + Len(Chunk(c)) <= n
      BY <1>1, <1>2, <3>2, <3>5 DEF n
    <3>7. QED
      BY <3>6 DEF n
  <2>5. InFile(c)'
    BY <2>1, <2>2, <2>4 DEF InFile, Reach, disk
  <2>6. QED
    BY <1>3, <2>1, <2>2, <2>5, OthersInFile
<1>5. CASE ReachEnd(c)
  <2>1. Moves(c) /\ stage'[c] = "compact"
    BY <1>1, <1>5 DEF ReachEnd, Moves, DeliveryTypeOK
  <2>2. InFile(c)'
    BY <2>1 DEF InFile
  <2>3. QED
    BY <1>3, <1>5, <2>1, <2>2, OthersInFile DEF ReachEnd
<1>6. ASSUME NEW taken \in SUBSET Elements(batch[c]), Deliver(c, taken) PROVE InFiles'
  <2>1. stage[c] = "send" /\ stage' = [stage EXCEPT ![c] = "ack"]
        /\ UNCHANGED <<disk, on, pos, batch>>
    BY <1>6 DEF Deliver
  <2>2. PICK n \in 0 .. Len(batch[c]) : granted' = [granted EXCEPT ![c] = n]
    BY <1>6 DEF Deliver
  <2>3. Moves(c) /\ stage'[c] = "ack"
    BY <1>1, <2>1, <2>2 DEF Moves, DeliveryTypeOK
  <2>4. InFile(c)'
    BY <1>1, <2>1, <2>3 DEF InFile, Reach, disk
  <2>5. QED
    BY <1>3, <2>1, <2>3, <2>4, OthersInFile
<1>7. ASSUME NEW taken \in SUBSET Elements(batch[c]), Unanswered(c, taken) PROVE InFiles'
  BY <1>1, <1>3, <1>7, LeavesFile DEF Unanswered
<1>8. CASE Acknowledge(c)
  <2>1. /\ stage[c] = "ack" /\ granted[c] > 0 /\ on[c] \in present
        /\ ack' = [ack EXCEPT ![on[c]] = pos[c] + 1]
        /\ pos' = [pos EXCEPT ![c] = pos[c] + 1]
        /\ batch' = [batch EXCEPT ![c] = Tail(batch[c])]
        /\ granted' = [granted EXCEPT ![c] = granted[c] - 1]
        /\ UNCHANGED <<file, present, stage, on>>
    BY <1>8 DEF Acknowledge
  <2>2. granted[c] <= Len(batch[c]) /\ granted[c] \in Nat
    BY <2>1, BatchFrames DEF IInv, Clients, ClientOK, GrantedIsStored
  <2>3. batch[c] # <<>>
    BY <1>1, <2>1, <2>2
  <2>4. Len(Tail(batch[c])) = Len(batch[c]) - 1
    BY <1>1, <2>3, HeadTailProperties
  <2>5. Moves(c) /\ pos'[c] = pos[c] + 1 /\ batch'[c] = Tail(batch[c]) /\ stage'[c] = "ack"
    BY <1>1, <2>1 DEF Moves, DeliveryTypeOK
  <2>6. Reach(c)' = Reach(c)
    <3> DEFINE n == Len(batch[c])
               m == Len(Tail(batch[c]))
    <3>1. Reach(c) = pos[c] + n /\ Reach(c)' = (pos[c] + 1) + m
      BY <2>1, <2>5 DEF Reach
    <3>2. m = n - 1 /\ n \in Nat /\ pos[c] \in Nat
      BY <1>1, <2>4
    <3> HIDE DEF n, m
    <3>3. QED
      BY <3>1, <3>2
  <2>7. InFile(c)'
    BY <1>1, <2>1, <2>6 DEF InFile
  <2>8. Working(c)
    BY <2>1 DEF Working
  <2>9. \A q \in Producer \ {on[c]} : /\ file'[q] = file[q] /\ ack'[q] = ack[q]
                                      /\ q \in present' => q \in present
    BY <1>2, <2>1
  <2>10. QED
    BY <1>1, <2>5, <2>7, <2>8, <2>9, ElsewhereQuiet, OthersInFile
<1>9. CASE Acknowledged(c)
  <2>1. stage[c] = "ack" /\ UNCHANGED <<disk, on>>
    BY <1>9 DEF Acknowledged
  <2>2. CASE /\ batch[c] = <<>> /\ stage' = [stage EXCEPT ![c] = "read"]
             /\ UNCHANGED <<pos, batch, granted>>
    <3>1. Moves(c) /\ stage'[c] = "read"
      BY <1>1, <2>1, <2>2 DEF Moves, DeliveryTypeOK
    <3>2. Len(batch[c]) = 0
      BY <2>2
    <3>3. Reach(c)' = pos[c] /\ Reach(c) = pos[c]
      BY <1>1, <2>1, <2>2, <3>1, <3>2 DEF Reach
    <3>4. InFile(c)'
      BY <1>1, <2>1, <3>3 DEF InFile, disk
    <3>5. QED
      BY <1>3, <2>1, <3>1, <3>4, OthersInFile
  <2>3. CASE Goto(c, "finish")
    BY <1>1, <1>3, <2>1, <2>3, LeavesFile
  <2>4. CASE stage' = [stage EXCEPT ![c] = "compact"] /\ UNCHANGED <<pos, batch, granted>>
    <3>1. Moves(c) /\ stage'[c] = "compact"
      BY <1>1, <2>1, <2>4 DEF Moves, DeliveryTypeOK
    <3>2. InFile(c)'
      BY <3>1 DEF InFile
    <3>3. QED
      BY <1>3, <2>1, <3>1, <3>2, OthersInFile
  <2>5. QED
    BY <1>9, <2>2, <2>3, <2>4 DEF Acknowledged
<1>10. CASE Quarantine(c) \/ Rename(c)
  <2>1. /\ Goto(c, "finish") /\ on' = on /\ Working(c)
        /\ present' \in {present, present \cup {on[c]}}
        /\ \E f : file' = [file EXCEPT ![on[c]] = f]
        /\ ack' = ack \/ ack' = [ack EXCEPT ![on[c]] = 0]
    BY <1>10 DEF Quarantine, Rename, Reads, Working
  <2>2. \A q \in Producer \ {on[c]} : /\ file'[q] = file[q] /\ ack'[q] = ack[q]
                                      /\ q \in present' => q \in present
    BY <1>1, <2>1 DEF DeliveryTypeOK
  <2>3. QED
    BY <1>1, <2>1, <2>2, ElsewhereQuiet, LeavesFile
<1>11. CASE Compact(c)
  <2>1. /\ stage[c] = "compact" /\ stage' = [stage EXCEPT ![c] = "rename"]
        /\ ack' = [ack EXCEPT ![on[c]] = 0] /\ UNCHANGED <<file, present, on, pos, granted>>
        /\ \E b : batch' = [batch EXCEPT ![c] = b]
    BY <1>11 DEF Compact
  <2>2. Moves(c) /\ stage'[c] = "rename" /\ Working(c)
    BY <1>1, <2>1 DEF Moves, DeliveryTypeOK, Working
  <2>3. InFile(c)'
    BY <2>2 DEF InFile
  <2>4. \A q \in Producer \ {on[c]} : /\ file'[q] = file[q] /\ ack'[q] = ack[q]
                                      /\ q \in present' => q \in present
    BY <1>2, <2>1
  <2>5. QED
    BY <1>1, <2>2, <2>3, <2>4, ElsewhereQuiet, OthersInFile
<1>12. CASE NothingToCompact(c) \/ RenameFails(c) \/ SpoolGone(c)
  BY <1>1, <1>3, <1>12, LeavesFile DEF NothingToCompact, RenameFails, SpoolGone
<1>13. CASE Release(c)
  <2>1. /\ Goto(c, "idle") /\ UNCHANGED <<file, on>>
        /\ present' \in {present, present \ {on[c]}}
        /\ ack' = ack \/ ack' = [ack EXCEPT ![on[c]] = 0]
    BY <1>13 DEF Release
  <2>2. \A d \in Client : Undisturbed(d)
    BY <1>2, <2>1, BatchFrames DEF Undisturbed, IInv
  <2>3. QED
    BY <1>1, <2>1, <2>2, LeavesFile
<1>14. QED
  BY <1>4, <1>5, <1>6, <1>7, <1>8, <1>9, <1>10, <1>11, <1>12, <1>13 DEF Transfer

LEMMA OpenInFile ==
    ASSUME IInv, InFiles, NEW c \in Client, NEW p \in Producer, Open(c, p) PROVE InFiles'
<1>1. /\ stage' = [stage EXCEPT ![c] = "read"] /\ on' = [on EXCEPT ![c] = p]
      /\ pos' = [pos EXCEPT ![c] = ack[p]] /\ UNCHANGED <<batch, granted, disk>>
  BY DEF Open
<1>2. Moves(c) /\ stage'[c] = "read" /\ on'[c] = p /\ pos'[c] = ack[p] /\ file' = file
  BY <1>1 DEF Moves, IInv, DeliveryTypeOK, disk
<1>3. ack[p] <= Len(file[p])
  BY DEF IInv, Files
<1>4. InFile(c)'
  BY <1>2, <1>3 DEF InFile, Reach
<1>5. QED
  BY <1>1, <1>2, <1>4, SameDisk, OthersInFile

LEMMA ProduceInFile ==
    ASSUME IInv, InFiles, NEW p \in Producer, Produce(p) PROVE InFiles'
<1>1. p \in Client /\ DeliveryTypeOK /\ Locks /\ on[p] = p /\ "idle" \in Stage
  BY DEF Client, IInv, Locks, Stage
<1>2. ASSUME life[p] # "over", \A q \in Producer \ {p} : file'[q] = file[q],
             UNCHANGED <<present, ack>>
      PROVE  \A d \in Client \ {p} : Working(d) => Undisturbed(d)
  <2>1. SUFFICES ASSUME NEW d \in Client \ {p}, Working(d) PROVE Undisturbed(d)
    OBVIOUS
  <2>2. holder[p] = p /\ p \in present
    BY <1>1, <1>2 DEF Locks
  <2>3. on[d] # p /\ on[d] \in Producer
    BY <1>1, <2>1, <2>2, BatchFrames DEF Locks
  <2>4. QED
    BY <1>2, <2>3 DEF Undisturbed
<1>3. CASE AppendFails(p) \/ \E e \in Event : Record(p, e)
  <2>1. PICK frame \in Event \cup {Torn} :
          /\ life[p] # "over" /\ UNCHANGED <<client, present, ack>>
          /\ file' = [file EXCEPT ![p] = Append(file[p], frame)]
    BY <1>3 DEF AppendFails, Record, CanAppend, Appended
  <2>2. \A q \in Producer \ {p} : file'[q] = file[q]
    BY <1>1, <2>1 DEF DeliveryTypeOK
  <2>3. /\ Moves(p) /\ stage'[p] = stage[p] /\ on'[p] = p /\ pos'[p] = pos[p]
        /\ batch'[p] = batch[p]
    BY <1>1, <2>1 DEF client, Moves
  <2>4. InFile(p)'
    <3>1. CASE stage[p] \notin {"read", "send", "ack"}
      BY <2>3, <3>1 DEF InFile
    <3>2. CASE stage[p] \in {"read", "send", "ack"}
      <4> DEFINE m == Len(file[p])
                 k == Len(batch[p])
      <4>1. m \in Nat /\ k \in Nat /\ pos[p] \in Nat /\ Len(file'[p]) = m + 1
        <5>1. file[p] \in Seq(Event \cup {Torn})
          BY <1>1, Frames
        <5>2. Len(Append(file[p], frame)) = m + 1
          BY <5>1, AppendProperties
        <5>3. file'[p] = Append(file[p], frame)
          BY <1>1, <2>1 DEF DeliveryTypeOK
        <5>4. QED
          BY <1>1, <5>2, <5>3, Frames, BatchFrames
      <4>2. Reach(p) <= m /\ Reach(p) \in Nat
        <5>1. InFile(p) /\ p \in present
          BY <1>1, <2>1 DEF InFiles, Locks
        <5>2. Reach(p) <= m
          BY <1>1, <3>2, <5>1 DEF InFile
        <5>3. Reach(p) = pos[p] \/ Reach(p) = pos[p] + k
          BY DEF Reach
        <5> HIDE DEF m, k
        <5>4. QED
          BY <4>1, <5>2, <5>3
      <4>3. Reach(p)' = Reach(p)
        BY <2>3 DEF Reach
      <4> HIDE DEF m, k
      <4>4. Reach(p)' <= m + 1
        BY <4>1, <4>2, <4>3
      <4>5. QED
        BY <2>3, <4>1, <4>4 DEF InFile
    <3>3. QED
      BY <3>1, <3>2
  <2>5. QED
    BY <1>1, <1>2, <2>1, <2>2, <2>3, <2>4, OthersInFile
<1>4. CASE Flush(p) \/ Close(p)
  BY <1>1, <1>4, OpenInFile DEF Flush, Close
<1>5. CASE FlushEnds(p)
  BY <1>1, <1>5, SameDisk, LeavesFile DEF FlushEnds
<1>6. CASE Crash(p)
  <2>1. /\ life[p] # "over" /\ Goto(p, "idle") /\ UNCHANGED <<present, ack, on>>
        /\ file' = file \/ \E f : file' = [file EXCEPT ![p] = f]
    BY <1>6 DEF Crash, Appended
  <2>2. \A q \in Producer \ {p} : file'[q] = file[q]
    BY <1>1, <2>1 DEF DeliveryTypeOK
  <2>3. QED
    BY <1>1, <1>2, <2>1, <2>2, LeavesFile
<1>7. QED
  BY <1>3, <1>4, <1>5, <1>6 DEF Produce

LEMMA SweepInFile ==
    ASSUME IInv, InFiles, NEW s \in Sweeper, Sweep(s) PROVE InFiles'
<1>1. /\ s \in Client /\ DeliveryTypeOK /\ "idle" \in Stage /\ "unlink" \in Stage
      /\ file \in [Producer -> Seq(Event \cup {Torn})] /\ ack \in [Producer -> Nat]
      /\ on[s] \in Producer /\ \A d \in Client : on[d] \in Producer
  BY DEF Client, IInv, Stage, DeliveryTypeOK
<1>2. ASSUME NEW p \in Producer, Acquire(s, p) PROVE InFiles'
  BY <1>1, <1>2, OpenInFile DEF Acquire
<1>3. ASSUME NEW p \in Producer, Doom(s, p) PROVE InFiles'
  <2>1. /\ stage' = [stage EXCEPT ![s] = "unlink"] /\ on' = [on EXCEPT ![s] = p]
        /\ UNCHANGED <<disk, pos, batch, granted>>
    BY <1>3 DEF Doom
  <2>2. Moves(s) /\ stage'[s] = "unlink"
    BY <1>1, <2>1 DEF Moves, DeliveryTypeOK
  <2>3. InFile(s)'
    BY <2>2 DEF InFile
  <2>4. QED
    BY <1>1, <2>1, <2>2, <2>3, SameDisk, OthersInFile
<1>4. CASE Prune(s)
  <2>1. /\ Goto(s, "idle") /\ on' = on /\ present' = present \ {on[s]}
        /\ file' = [file EXCEPT ![on[s]] = <<>>] /\ ack' = [ack EXCEPT ![on[s]] = 0]
    BY <1>4 DEF Prune
  <2>2. \A d \in Client : Undisturbed(d)
    BY <1>1, <2>1 DEF Undisturbed
  <2>3. QED
    BY <1>1, <2>1, <2>2, LeavesFile
<1>5. CASE PruneAck(s)
  <2>1. /\ Goto(s, "unlink") \/ Goto(s, "idle")
        /\ UNCHANGED <<file, present, on>> /\ ack' = [ack EXCEPT ![on[s]] = 0]
    BY <1>5 DEF PruneAck
  <2>2. \A d \in Client : Undisturbed(d)
    BY <1>1, <2>1 DEF Undisturbed
  <2>3. QED
    BY <1>1, <2>1, <2>2, LeavesFile
<1>6. CASE SweeperCrashes(s)
  BY <1>1, <1>6, SameDisk, LeavesFile DEF SweeperCrashes
<1>7. QED
  BY <1>2, <1>3, <1>4, <1>5, <1>6 DEF Sweep

LEMMA StepInFile == IInv /\ InFiles /\ [Next]_vars => InFiles'
<1>1. ASSUME InFiles, UNCHANGED vars PROVE InFiles'
  BY <1>1 DEF vars, disk, client, InFiles, InFile, Reach
<1>2. QED
  BY <1>1, TransferInFile, ProduceInFile, SweepInFile DEF Next

-----------------------------------------------------------------------------
\* The theorems.

LEMMA Inductive == Spec => [](IInv /\ InFiles)
<1>1. Init => IInv /\ InFiles
  BY InitHolds DEF Init, InFiles, InFile
<1>2. IInv /\ InFiles /\ [Next]_vars => (IInv /\ InFiles)'
  BY StepHolds, StepInFile
<1>3. QED
  BY <1>1, <1>2, PTL DEF Spec

LEMMA LastIsTyped == Spec => [](last \subseteq Client)
<1>1. Init => last \subseteq Client
  BY DEF Init
<1>2. last \subseteq Client /\ [Next]_vars => (last \subseteq Client)'
  <2>1. ASSUME NEW c \in Client, Transfer(c), last \subseteq Client PROVE last' \subseteq Client
    BY <2>1 DEF Transfer, Deliver, Unanswered, ReadBatch, ReachEnd, Quarantine, Acknowledge,
       Acknowledged, Compact, NothingToCompact, Rename, RenameFails, SpoolGone, Release, Goto
  <2>2. ASSUME NEW p \in Producer, Produce(p), last \subseteq Client PROVE last' \subseteq Client
    BY <2>2 DEF Produce, Record, AppendFails, Flush, Close, Open, FlushEnds, Crash, Goto, client
  <2>3. ASSUME NEW s \in Sweeper, Sweep(s), last \subseteq Client PROVE last' \subseteq Client
    BY <2>3 DEF Sweep, Acquire, Open, Doom, Prune, PruneAck, SweeperCrashes, Goto
  <2>4. QED
    BY <2>1, <2>2, <2>3 DEF Next, vars, client
<1>3. QED
  BY <1>1, <1>2, PTL DEF Spec

\* Every variable keeps its type, no spool outgrows its cap, and what is
\* acknowledged is stored: whatever crashes, fails, is pruned or is delivered
\* twice (spool.py:203-229, client.py:94-114).
THEOREM AcknowledgementsAreTrue == Spec => []SpoolInv
<1>1. IInv /\ last \subseteq Client => SpoolInv
  BY DEF IInv, Files, SpoolInv, SpoolTypeOK
<1>2. QED
  BY <1>1, Inductive, LastIsTyped, PTL

\* An event whose append returned is stored, still to be read from a spool, or
\* was set aside or pruned with its spool (spool.py:120-425).
THEOREM NothingIsDropped == Spec => []AcceptedIsAccounted
<1>1. IInv => AcceptedIsAccounted
  <2>1. SUFFICES ASSUME IInv, NEW e \in accepted, e \notin Settled
                 PROVE  \E p \in Producer : e \in Pending(p)
    BY DEF AcceptedIsAccounted
  <2>2. PICK p \in Producer : e \in EventsOf(p)
    BY <2>1 DEF IInv, Account
  <2>3. PICK i \in DOMAIN file[p] : e = file[p][i] /\ e # Torn
    BY <2>2 DEF EventsOf, Elements
  <2>4. ~ (i <= ack[p])
    BY <2>1, <2>3 DEF IInv, Files, AcknowledgedIsStored, Settled
  <2>5. i > ack[p]
    BY <2>1, <2>4, Frames DEF IInv
  <2>6. QED
    BY <2>3, <2>5 DEF Pending
<1>2. QED
  BY <1>1, Inductive, PTL

-----------------------------------------------------------------------------
\* The spools and the store deliver as EventDelivery promises.

dvars == <<written, rows, quarantined \cup pruned>>

LEMMA InsertKeeps ==
    ASSUME DeliveryTypeOK, NEW taken, taken \subseteq written, Insert(taken), UNCHANGED history
    PROVE  Delivery!Next
<1> DEFINE new == taken \cap {e \in Event : rows[e] = 0}
<1>1. new \in SUBSET {e \in written : rows[e] = 0}
  OBVIOUS
<1>2. rows' = [e \in Event |-> rows[e] + IF e \in new THEN 1 ELSE 0]
  <2>1. \A e \in Event : (IF e \in taken /\ rows[e] = 0 THEN 1 ELSE rows[e])
                           = rows[e] + IF e \in new THEN 1 ELSE 0
    BY DEF DeliveryTypeOK
  <2>2. QED
    BY <2>1 DEF Insert
<1>3. UNCHANGED <<written, quarantined \cup pruned>>
  BY DEF history
<1> HIDE DEF new
<1>4. QED
  BY <1>1, <1>2, <1>3 DEF Delivery!Next, Delivery!Keep

LEMMA GivesUpWritten ==
    ASSUME NEW more, more \subseteq written,
           (quarantined' = quarantined \cup more /\ pruned' = pruned)
             \/ (pruned' = pruned \cup more /\ quarantined' = quarantined),
           quarantined \subseteq written, pruned \subseteq written,
           UNCHANGED <<written, rows>>
    PROVE  Delivery!Next
BY DEF Delivery!Next, Delivery!GiveUp

LEMMA WritesMore ==
    ASSUME written \subseteq written', written' \subseteq Event,
           UNCHANGED <<rows, quarantined, pruned>>
    PROVE  Delivery!Next
BY DEF Delivery!Next, Delivery!Write

LEMMA DeliveryStep == IInv /\ [Next]_vars => [Delivery!Next]_dvars
<1> SUFFICES ASSUME IInv, [Next]_vars PROVE Delivery!Next \/ UNCHANGED dvars
  OBVIOUS
<1>1. CASE UNCHANGED vars
  BY <1>1 DEF vars, history, dvars
<1>2. ASSUME NEW c \in Client, Transfer(c) PROVE Delivery!Next \/ UNCHANGED dvars
  <2>1. CASE Quarantine(c)
    <3>1. EventsOf(on[c]) \subseteq written
      BY BatchFrames DEF IInv, Files
    <3>2. QED
      BY <2>1, <3>1, GivesUpWritten DEF Quarantine, IInv, Account
  <2>2. ASSUME NEW taken \in SUBSET Elements(batch[c]), Deliver(c, taken) \/ Unanswered(c, taken)
        PROVE  Delivery!Next
    <3>1. stage[c] = "send" /\ Insert(taken) /\ UNCHANGED history
      BY <2>2 DEF Deliver, Unanswered
    <3>2. taken \subseteq written
      BY <3>1 DEF IInv, Clients, ClientOK, SendsWritten
    <3>3. QED
      BY <3>1, <3>2, InsertKeeps DEF IInv
  <2>3. CASE ReadBatch(c) \/ ReachEnd(c) \/ Acknowledge(c) \/ Acknowledged(c) \/ Compact(c)
    BY <2>3 DEF ReadBatch, ReachEnd, Acknowledge, Acknowledged, Compact, history, dvars
  <2>4. CASE NothingToCompact(c) \/ Rename(c) \/ RenameFails(c) \/ SpoolGone(c) \/ Release(c)
    BY <2>4 DEF NothingToCompact, Rename, RenameFails, SpoolGone, Release, history, dvars
  <2>5. QED
    BY <1>2, <2>1, <2>2, <2>3, <2>4 DEF Transfer
<1>3. ASSUME NEW p \in Producer, Produce(p) PROVE Delivery!Next \/ UNCHANGED dvars
  <2>1. written \subseteq Event
    BY DEF IInv, DeliveryTypeOK
  <2>2. ASSUME NEW e \in Event, Record(p, e) PROVE Delivery!Next
    BY <2>1, <2>2, WritesMore DEF Record
  <2>3. CASE AppendFails(p)
    BY <2>1, <2>3, WritesMore DEF AppendFails
  <2>4. CASE Flush(p) \/ Close(p) \/ FlushEnds(p) \/ Crash(p)
    BY <2>4 DEF Flush, Close, Open, FlushEnds, Crash, history, dvars
  <2>5. QED
    BY <1>3, <2>2, <2>3, <2>4 DEF Produce
<1>4. ASSUME NEW s \in Sweeper, Sweep(s) PROVE Delivery!Next \/ UNCHANGED dvars
  <2>1. CASE Prune(s)
    <3>1. on[s] \in Producer
      BY BatchFrames DEF Client, IInv
    <3>2. EventsOf(on[s]) \subseteq written
      BY <3>1 DEF IInv, Files
    <3>3. QED
      BY <2>1, <3>2, GivesUpWritten DEF Prune, IInv, Account
  <2>2. CASE PruneAck(s) \/ SweeperCrashes(s) \/ \E p \in Producer : Acquire(s, p) \/ Doom(s, p)
    BY <2>2 DEF PruneAck, SweeperCrashes, Acquire, Open, Doom, history, dvars
  <2>3. QED
    BY <1>4, <2>1, <2>2 DEF Sweep
<1>5. QED
  BY <1>1, <1>2, <1>3, <1>4 DEF Next

\* The spools, the clients and the store implement EventDelivery: the store
\* keeps a written event once, and one is given up only with its spool
\* (trace_store.py:440-545, spool.py:247-464).
THEOREM DeliveryRefines == Spec => ImplementsEventDelivery
<1>1. Init => Delivery!Init
  BY DEF Init, Delivery!Init
<1>2. IInv /\ [Next]_vars => [Delivery!Next]_<<written, rows, quarantined \cup pruned>>
  BY DeliveryStep DEF dvars
<1>3. QED
  BY <1>1, <1>2, Inductive, PTL DEF Spec, ImplementsEventDelivery, Delivery!Spec

-----------------------------------------------------------------------------
\* What sets a spool aside.

LEMMA TornQuarantined ==
    ASSUME IInv, InFiles, NEW c \in Client, Quarantine(c)
    PROVE  \E p \in Producer : Torn \in Elements(file[p]) /\ file'[p] = <<>>
<1>1. /\ Reads(c) /\ file' = [file EXCEPT ![on[c]] = <<>>]
      /\ Torn \in Elements(Chunk(c)) \/ pos[c] > Len(file[on[c]])
  BY DEF Quarantine
<1>2. /\ on[c] \in Producer /\ pos[c] \in Nat
      /\ file \in [Producer -> Seq(Event \cup {Torn})] /\ Len(file[on[c]]) \in Nat
  BY BatchFrames, Frames DEF IInv, DeliveryTypeOK
<1>3. pos[c] <= Len(file[on[c]])
  BY <1>1 DEF Reads, InFiles, InFile, Reach
<1>4. Torn \in Elements(Chunk(c))
  BY <1>1, <1>2, <1>3
<1>5. Torn \in Elements(file[on[c]])
  <2> DEFINE n == Len(file[on[c]])
             end == IF pos[c] + Width(c) < n THEN pos[c] + Width(c) ELSE n
  <2>1. Width(c) \in Nat
    BY SpoolAssumption DEF Width
  <2>2. end \in Nat /\ end <= n
    BY <1>2, <2>1
  <2>3. Chunk(c) = SubSeq(file[on[c]], pos[c] + 1, end)
    BY DEF Chunk
  <2> HIDE DEF end
  <2>4. \A i \in DOMAIN SubSeq(file[on[c]], pos[c] + 1, end) :
          /\ pos[c] + i \in DOMAIN file[on[c]]
          /\ file[on[c]][pos[c] + i] = SubSeq(file[on[c]], pos[c] + 1, end)[i]
    BY <1>2, <2>2, Rest DEF IInv
  <2>5. QED
    BY <1>4, <2>3, <2>4 DEF Elements
<1>6. file'[on[c]] = <<>>
  BY <1>1, <1>2
<1>7. QED
  BY <1>2, <1>5, <1>6

LEMMA QuarantinedOnly ==
    IInv /\ InFiles /\ [Next]_vars =>
      [quarantined' # quarantined =>
          \E p \in Producer : Torn \in Elements(file[p]) /\ file'[p] = <<>>]_vars
<1> SUFFICES ASSUME IInv, InFiles, [Next]_vars, quarantined' # quarantined
             PROVE  \E p \in Producer : Torn \in Elements(file[p]) /\ file'[p] = <<>>
  OBVIOUS
<1>1. ~ UNCHANGED vars
  BY DEF vars, history
<1>2. ASSUME NEW c \in Client, Transfer(c) PROVE Quarantine(c)
  BY <1>2 DEF Transfer, Deliver, Unanswered, ReadBatch, ReachEnd, Acknowledge, Acknowledged,
     Compact, NothingToCompact, Rename, RenameFails, SpoolGone, Release, history
<1>3. ASSUME NEW p \in Producer, Produce(p) PROVE FALSE
  BY <1>3 DEF Produce, Record, AppendFails, Flush, Close, Open, FlushEnds, Crash, history
<1>4. ASSUME NEW s \in Sweeper, Sweep(s) PROVE FALSE
  BY <1>4 DEF Sweep, Acquire, Open, Doom, Prune, PruneAck, SweeperCrashes, history
<1>5. QED
  BY <1>1, <1>2, <1>3, <1>4, TornQuarantined DEF Next

\* Only a torn frame makes a spool unreadable: no crash, pruning or compaction
\* leaves an acknowledgement, or a reader, beyond the end of the file
\* (spool.py:158-229, 247-296).
THEOREM IntactIsReadable == Spec => OnlyTornFilesAreQuarantined
BY QuarantinedOnly, Inductive, PTL DEF Spec, OnlyTornFilesAreQuarantined
=============================================================================
