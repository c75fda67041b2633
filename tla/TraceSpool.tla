----------------------------- MODULE TraceSpool ------------------------------
(***************************************************************************)
(* Delivery of trace events (providers/tracing).  Each producer process      *)
(* appends its events to a spool file of its own (TraceSpool), under a file  *)
(* lock it holds for life, and sends them to the state store in batches when *)
(* it flushes or closes (TraceClient).  What a producer leaves behind, by a  *)
(* crash or because the store was away, the sweeper of an orchestrator       *)
(* delivers event by event (drain_abandoned_spools); it then removes spools  *)
(* that are too old or too large (prune_spool_directory).                    *)
(*                                                                           *)
(* A spool is a sequence of frames and the acknowledgement an index into it. *)
(* Torn is a frame that was written in part.  The store keeps the rows in    *)
(* SQLite and answers, once its transaction is committed, or not at all.     *)
(* Every step between two system calls is one a crash may follow.            *)
(***************************************************************************)
EXTENDS Naturals, Sequences

CONSTANTS
    Producer,   \* processes that own a spool
    Sweeper,    \* orchestrators that sweep the spool directory
    Leader,     \* the one that goes on leading
    Event,      \* trace events, each with an event_id of its own
    Torn,       \* a partly written frame
    Nobody,     \* the holder of a free lock
    Batch,      \* events a flush sends in one request (100)
    MaxFrames   \* max_bytes, in frames

ASSUME SpoolAssumption ==
    /\ Producer # {}
    /\ Torn \notin Event
    /\ Producer \cap Sweeper = {}
    /\ Leader \in Sweeper
    /\ Nobody \notin Producer \cup Sweeper
    /\ Batch \in Nat \ {0}
    /\ MaxFrames \in Nat

VARIABLES
    file,        \* the frames of each producer's spool
    present,     \* producers whose spool file exists
    ack,         \* the acknowledged frames of each spool
    holder,      \* who holds the lock of each spool
    life,        \* each producer's process and its client
    stage,       \* what each client is doing
    on,          \* the spool it works on
    pos,         \* the frames of it the client has dealt with
    batch,       \* the events it has read and not acknowledged, or the compacted file
    granted,     \* how many of them the reply acknowledges
    last,        \* clients at the last batch of a flush, which is not a full one
    rows,        \* rows of the central store with each event
    written,     \* history: events whose frame is or was whole on disk
    accepted,    \* history: events whose append returned
    quarantined, \* history: events of spools renamed to .bad
    pruned       \* history: events of spools that were removed

disk == <<file, present, ack>>
client == <<stage, on, pos, batch, granted, last>>
history == <<written, accepted, quarantined, pruned>>
vars == <<disk, holder, life, client, rows, history>>

Client == Producer \cup Sweeper
Stage == {"idle", "read", "send", "ack", "compact", "rename", "finish", "unlink"}

Elements(s) == {s[i] : i \in DOMAIN s}
Stored == {e \in Event : rows[e] > 0}
EventsOf(p) == Elements(file[p]) \ {Torn}

DeliveryTypeOK ==
    /\ file \in [Producer -> Seq(Event \cup {Torn})]
    /\ \A p \in Producer : Len(file[p]) <= MaxFrames
    /\ present \subseteq Producer
    /\ ack \in [Producer -> Nat]
    /\ holder \in [Producer -> Client \cup {Nobody}]
    /\ life \in [Producer -> {"open", "closing", "over"}]
    /\ stage \in [Client -> Stage]
    /\ on \in [Client -> Producer]
    /\ pos \in [Client -> Nat]
    /\ batch \in [Client -> Seq(Event \cup {Torn})]
    /\ granted \in [Client -> Nat]
    /\ rows \in [Event -> Nat]
    /\ written \subseteq Event
    /\ accepted \subseteq written
    /\ quarantined \subseteq Event
    /\ pruned \subseteq Event

\* Every field keeps its type, and no spool outgrows its cap.
SpoolTypeOK == DeliveryTypeOK /\ last \subseteq Client

Init ==
    /\ file = [p \in Producer |-> <<>>]
    /\ present = Producer
    /\ ack = [p \in Producer |-> 0]
    /\ holder = [p \in Producer |-> p]
    /\ life = [p \in Producer |-> "open"]
    /\ stage = [c \in Client |-> "idle"]
    /\ on = [c \in Client |-> IF c \in Producer THEN c ELSE CHOOSE p \in Producer : TRUE]
    /\ pos = [c \in Client |-> 0]
    /\ batch = [c \in Client |-> <<>>]
    /\ granted = [c \in Client |-> 0]
    /\ last = {}
    /\ rows = [e \in Event |-> 0]
    /\ written = {}
    /\ accepted = {}
    /\ quarantined = {}
    /\ pruned = {}

-----------------------------------------------------------------------------
(* Producers write *)

\* TraceSpool keeps its mutex while it reads a spool, the full batches that are
\* sent meanwhile included, and while it compacts it: another thread of the
\* producer appends before, between or after, or while the last batch is sent.
CanAppend(p) ==
    /\ life[p] # "over"
    /\ \/ stage[p] \in {"idle", "compact", "finish"}
       \/ stage[p] \in {"send", "ack"} /\ p \in last
    /\ Len(file[p]) < MaxFrames

Appended(p, frame) == file' = [file EXCEPT ![p] = Append(@, frame)]

\* The frame is on disk, fsync included, when append returns.
Record(p, e) ==
    /\ CanAppend(p)
    /\ e \notin written
    /\ Appended(p, e)
    /\ written' = written \cup {e}
    /\ accepted' = accepted \cup {e}
    /\ UNCHANGED <<present, ack, holder, life, client, rows, quarantined, pruned>>

\* A failed append has written its frame, without the fsync, or part of it.
AppendFails(p) ==
    /\ CanAppend(p)
    /\ \/ /\ Appended(p, Torn)
          /\ UNCHANGED written
       \/ \E e \in Event \ written : Appended(p, e) /\ written' = written \cup {e}
    /\ UNCHANGED <<present, ack, holder, life, client, rows, accepted, quarantined, pruned>>

-----------------------------------------------------------------------------
(* Clients deliver: TraceClient.flush and the sweeper's loop *)

\* A client that has nothing to do, or gives up, forgets what it has read.
Goto(c, next) ==
    /\ stage' = [stage EXCEPT ![c] = next]
    /\ pos' = [pos EXCEPT ![c] = 0]
    /\ batch' = [batch EXCEPT ![c] = <<>>]
    /\ granted' = [granted EXCEPT ![c] = 0]
    /\ last' = last \ {c}

\* Reading starts at the acknowledged frame.
Open(c, p) ==
    /\ stage[c] = "idle"
    /\ stage' = [stage EXCEPT ![c] = "read"]
    /\ on' = [on EXCEPT ![c] = p]
    /\ pos' = [pos EXCEPT ![c] = ack[p]]
    /\ UNCHANGED <<batch, granted, last, disk, rows, history>>

Flush(p) ==
    /\ life[p] = "open"
    /\ Open(p, p)
    /\ UNCHANGED <<holder, life>>

Close(p) ==
    /\ life[p] = "open"
    /\ Open(p, p)
    /\ life' = [life EXCEPT ![p] = "closing"]
    /\ UNCHANGED holder

\* The sweeper takes any spool whose lock is free.
Acquire(s, p) ==
    /\ p \in present
    /\ holder[p] = Nobody
    /\ Open(s, p)
    /\ holder' = [holder EXCEPT ![p] = s]
    /\ UNCHANGED life

\* A flush sends full batches and then the rest, the sweeper single events.
Width(c) == IF c \in Producer THEN Batch ELSE 1

Chunk(c) ==
    LET p == on[c]
        end == IF pos[c] + Width(c) < Len(file[p]) THEN pos[c] + Width(c) ELSE Len(file[p])
    IN SubSeq(file[p], pos[c] + 1, end)

Reads(c) == stage[c] = "read" /\ on[c] \in present

ReadBatch(c) ==
    /\ Reads(c)
    /\ Chunk(c) # <<>>
    /\ Torn \notin Elements(Chunk(c))
    /\ stage' = [stage EXCEPT ![c] = "send"]
    /\ batch' = [batch EXCEPT ![c] = Chunk(c)]
    /\ last' = IF Len(Chunk(c)) < Width(c) THEN last \cup {c} ELSE last
    /\ UNCHANGED <<disk, holder, life, on, pos, granted, rows, history>>

ReachEnd(c) ==
    /\ Reads(c)
    /\ pos[c] = Len(file[on[c]])
    /\ stage' = [stage EXCEPT ![c] = "compact"]
    /\ UNCHANGED <<disk, holder, life, on, pos, batch, granted, last, rows, history>>

\* A torn frame, or an acknowledgement beyond the file, sets the file aside
\* with all its frames, those read for the batch included.  One step: a crash
\* between its rename, touch and unlink leaves no spool, or an empty one with an
\* old acknowledgement, for which the next reader sets it aside again.
Quarantine(c) ==
    /\ Reads(c)
    /\ Torn \in Elements(Chunk(c)) \/ pos[c] > Len(file[on[c]])
    /\ file' = [file EXCEPT ![on[c]] = <<>>]
    /\ ack' = [ack EXCEPT ![on[c]] = 0]
    /\ quarantined' = quarantined \cup EventsOf(on[c])
    /\ Goto(c, "finish")
    /\ UNCHANGED <<present, holder, life, on, rows, written, accepted, pruned>>

InsertAgain(events) ==
    rows' = [e \in Event |-> IF e \in events /\ rows[e] < 2 THEN rows[e] + 1 ELSE rows[e]]

\* insert_event: an event_id the store already has is not inserted again.
Insert(events) ==
    rows' = [e \in Event |-> IF e \in events /\ rows[e] = 0 THEN 1 ELSE rows[e]]

\* n events of a batch come before the first one the store did not take.
Prefix(c, taken, n) ==
    /\ \A i \in 1 .. n : batch[c][i] \in taken
    /\ n < Len(batch[c]) => batch[c][n + 1] \notin taken

DeliverAll(c, taken) ==
    /\ stage[c] = "send"
    /\ Insert(taken)
    /\ granted' = [granted EXCEPT ![c] = Len(batch[c])]
    /\ stage' = [stage EXCEPT ![c] = "ack"]
    /\ UNCHANGED <<disk, holder, life, on, pos, batch, last, history>>

\* The store takes some of the events and says which.
Deliver(c, taken) ==
    /\ stage[c] = "send"
    /\ Insert(taken)
    /\ \E n \in 0 .. Len(batch[c]) :
          Prefix(c, taken, n) /\ granted' = [granted EXCEPT ![c] = n]
    /\ stage' = [stage EXCEPT ![c] = "ack"]
    /\ UNCHANGED <<disk, holder, life, on, pos, batch, last, history>>

\* The request or its answer is lost: whatever the store took, it is sent again.
Unanswered(c, taken) ==
    /\ stage[c] = "send"
    /\ Insert(taken)
    /\ Goto(c, "finish")
    /\ UNCHANGED <<disk, holder, life, on, history>>

\* One acknowledgement is written for each event the reply confirms.
Acknowledge(c) ==
    /\ stage[c] = "ack"
    /\ granted[c] > 0
    /\ on[c] \in present
    /\ ack' = [ack EXCEPT ![on[c]] = pos[c] + 1]
    /\ pos' = [pos EXCEPT ![c] = @ + 1]
    /\ batch' = [batch EXCEPT ![c] = Tail(@)]
    /\ granted' = [granted EXCEPT ![c] = @ - 1]
    /\ UNCHANGED <<file, present, holder, life, stage, on, last, rows, history>>

\* An event the store did not take ends the flush, or the sweep.
Acknowledged(c) ==
    /\ stage[c] = "ack"
    /\ granted[c] = 0
    /\ \/ /\ batch[c] = <<>>
          /\ stage' = [stage EXCEPT ![c] = IF c \in last THEN "compact" ELSE "read"]
          /\ last' = last \ {c}
          /\ UNCHANGED <<pos, batch, granted>>
       \/ batch[c] # <<>> /\ Goto(c, "finish")
    /\ UNCHANGED <<disk, holder, life, on, rows, history>>

CompactToNothing(c) ==
    /\ stage[c] = "compact"
    /\ on[c] \in present
    /\ ack[on[c]] > 0
    /\ ack' = [ack EXCEPT ![on[c]] = 0]
    /\ stage' = [stage EXCEPT ![c] = "rename"]
    /\ UNCHANGED <<file, present, holder, life, on, pos, batch, granted, last, rows, history>>

CompactKeepsAck(c) ==
    /\ stage[c] = "compact"
    /\ on[c] \in present
    /\ ack[on[c]] > 0
    /\ batch' = [batch EXCEPT ![c] = SubSeq(file[on[c]], ack[on[c]] + 1, Len(file[on[c]]))]
    /\ stage' = [stage EXCEPT ![c] = "rename"]
    /\ UNCHANGED <<disk, holder, life, on, pos, granted, last, rows, history>>

\* Compaction copies the rest of the file and resets the acknowledgement ...
Compact(c) ==
    /\ stage[c] = "compact"
    /\ on[c] \in present
    /\ ack[on[c]] > 0
    /\ batch' = [batch EXCEPT ![c] = SubSeq(file[on[c]], ack[on[c]] + 1, Len(file[on[c]]))]
    /\ ack' = [ack EXCEPT ![on[c]] = 0]
    /\ stage' = [stage EXCEPT ![c] = "rename"]
    /\ UNCHANGED <<file, present, holder, life, on, pos, granted, last, rows, history>>

NothingToCompact(c) ==
    /\ stage[c] = "compact"
    /\ on[c] \in present
    /\ ack[on[c]] = 0
    /\ Goto(c, "finish")
    /\ UNCHANGED <<disk, holder, life, on, rows, history>>

\* ... before the copy replaces the file.
Rename(c) ==
    /\ stage[c] = "rename"
    /\ file' = [file EXCEPT ![on[c]] = batch[c]]
    /\ present' = present \cup {on[c]}
    /\ Goto(c, "finish")
    /\ UNCHANGED <<ack, holder, life, on, rows, history>>

RenameFails(c) ==
    /\ stage[c] = "rename"
    /\ Goto(c, "finish")
    /\ UNCHANGED <<disk, holder, life, on, rows, history>>

\* The file was removed under a sweeper: its next access raises.
SpoolGone(c) ==
    /\ stage[c] \in {"read", "ack", "compact"}
    /\ on[c] \notin present
    /\ Goto(c, "finish")
    /\ UNCHANGED <<disk, holder, life, on, rows, history>>

FlushEnds(p) ==
    /\ stage[p] = "finish"
    /\ life[p] = "open"
    /\ Goto(p, "idle")
    /\ UNCHANGED <<disk, holder, life, on, rows, history>>

UnlockedNever(c, p) == UNCHANGED holder

\* A lock file somebody else has made anew is not affected.
Unlocked(c, p) == holder' = [holder EXCEPT ![p] = IF @ = c THEN Nobody ELSE @]

\* TraceSpool.close: an empty file is removed, then the lock is released.  A
\* crash between leaves an acknowledgement or a lock file that nobody reads.
Release(c) ==
    LET p == on[c] IN
    /\ stage[c] = "finish"
    /\ c \in Producer => life[c] = "closing"
    /\ \/ /\ file[p] = <<>>
          /\ present' = present \ {p}
          /\ ack' = [ack EXCEPT ![p] = 0]
       \/ file[p] # <<>> /\ UNCHANGED <<present, ack>>
    /\ Unlocked(c, p)
    /\ life' = [q \in Producer |-> IF q = c THEN "over" ELSE life[q]]
    /\ Goto(c, "idle")
    /\ UNCHANGED <<file, on, rows, history>>

-----------------------------------------------------------------------------
(* Crashes and pruning *)

\* The kernel releases the locks of a dead process; it may die in an append.
Crash(p) ==
    /\ life[p] # "over"
    /\ life' = [life EXCEPT ![p] = "over"]
    /\ \/ UNCHANGED file
       \/ CanAppend(p) /\ Appended(p, Torn)
    /\ Unlocked(p, p)
    /\ Goto(p, "idle")
    /\ UNCHANGED <<present, ack, on, rows, history>>

SweeperCrashes(s) ==
    /\ stage[s] # "idle"
    /\ Unlocked(s, on[s])
    /\ Goto(s, "idle")
    /\ UNCHANGED <<disk, life, on, rows, history>>

\* Pruning looks at the lock of a spool that is too old or too large, and
\* lets go of it before it removes the file.
Doom(s, p) ==
    /\ stage[s] = "idle"
    /\ p \in present
    /\ holder[p] = Nobody
    /\ stage' = [stage EXCEPT ![s] = "unlink"]
    /\ on' = [on EXCEPT ![s] = p]
    /\ UNCHANGED <<disk, holder, life, pos, batch, granted, last, rows, history>>

\* The lock file goes with the spool: a sweeper that holds it holds nothing.
\* What a crash leaves of the two files beside the spool nobody reads.
Prune(s) ==
    LET p == on[s] IN
    /\ stage[s] = "unlink"
    /\ file' = [file EXCEPT ![p] = <<>>]
    /\ present' = present \ {p}
    /\ ack' = [ack EXCEPT ![p] = 0]
    /\ pruned' = pruned \cup EventsOf(p)
    /\ holder' = [holder EXCEPT ![p] = Nobody]
    /\ Goto(s, "idle")
    /\ UNCHANGED <<life, on, rows, written, accepted, quarantined>>

\* The acknowledgement file may go first, and the spool be locked by then.
PruneAck(s) ==
    /\ stage[s] = "unlink"
    /\ ack[on[s]] > 0
    /\ ack' = [ack EXCEPT ![on[s]] = 0]
    /\ Goto(s, IF holder[on[s]] = Nobody THEN "unlink" ELSE "idle")
    /\ UNCHANGED <<file, present, holder, life, on, rows, history>>

-----------------------------------------------------------------------------
Transfer(c) ==
    \/ \E taken \in SUBSET Elements(batch[c]) : Deliver(c, taken) \/ Unanswered(c, taken)
    \/ ReadBatch(c) \/ ReachEnd(c) \/ Quarantine(c)
    \/ Acknowledge(c) \/ Acknowledged(c)
    \/ Compact(c) \/ NothingToCompact(c) \/ Rename(c) \/ RenameFails(c)
    \/ SpoolGone(c) \/ Release(c)

Produce(p) ==
    \/ \E e \in Event : Record(p, e)
    \/ AppendFails(p) \/ Flush(p) \/ Close(p) \/ FlushEnds(p) \/ Crash(p)

Sweep(s) ==
    \/ \E p \in Producer : Acquire(s, p) \/ Doom(s, p)
    \/ Prune(s) \/ PruneAck(s) \/ SweeperCrashes(s)

Next ==
    \/ \E c \in Client : Transfer(c)
    \/ \E p \in Producer : Produce(p)
    \/ \E s \in Sweeper : Sweep(s)

Spec == Init /\ [][Next]_vars

\* Requests time out, so that every sweeper that works on a spool goes on or
\* gives up.  The leader sweeps every minute and over all spools; the store is
\* not away for ever, and the leader does not always crash.  Pruning does not
\* for ever remove an acknowledgement that is an hour old and not the spool,
\* which is older.
FairSpec ==
    /\ Spec
    /\ <>[][\A s \in Sweeper : ~ PruneAck(s)]_vars
    /\ \A s \in Sweeper : WF_vars(Transfer(s) \/ Prune(s))
    /\ SF_vars(\E taken \in SUBSET Elements(batch[Leader]) :
                  Elements(batch[Leader]) \subseteq taken /\ Deliver(Leader, taken))
    /\ SF_vars(ReadBatch(Leader))
    /\ SF_vars(Quarantine(Leader))
    /\ SF_vars(Acknowledge(Leader))
    /\ \A p \in Producer : SF_vars(Acquire(Leader, p))

-----------------------------------------------------------------------------
(* Properties *)

Pending(p) == {file[p][i] : i \in {j \in DOMAIN file[p] : j > ack[p]}} \ {Torn}

Settled == Stored \cup quarantined \cup pruned

\* What is acknowledged is stored: no acknowledgement, compaction or crash
\* between the two lets a reader skip a frame the store does not have
\* (spool.py: the acknowledgement is written after the answer).
AcknowledgedIsStored ==
    \A p \in Producer : \A i \in DOMAIN file[p] :
        i <= ack[p] => file[p][i] \in Stored

\* Types, and the acknowledgements of spool.py.
SpoolInv == SpoolTypeOK /\ AcknowledgedIsStored

\* An event whose append returned is in the store, or still to be read from a
\* spool, or in a spool that was quarantined or pruned: it is nowhere dropped.
AcceptedIsAccounted ==
    accepted \subseteq Settled \cup UNION {Pending(p) : p \in Producer}

\* Only a torn write, never a crash or a failure at any point of a delivery
\* or a compaction, makes a spool unreadable.
OnlyTornFilesAreQuarantined ==
    [][quarantined' # quarantined =>
          \E p \in Producer : Torn \in Elements(file[p]) /\ file'[p] = <<>>]_vars

\* What the spool of a process that is over still holds is eventually stored,
\* or its spool is quarantined or pruned.
AbandonedIsSwept ==
    \A p \in Producer : (life[p] = "over") ~> (Pending(p) \subseteq Settled)

\* The spools and the store deliver events as EventDelivery promises.
Delivery == INSTANCE EventDelivery WITH
    kept <- rows, given_up <- quarantined \cup pruned

ImplementsEventDelivery == Delivery!Spec
=============================================================================
