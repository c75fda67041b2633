-------------------------- MODULE OrchestratorLease --------------------------
(***************************************************************************)
(* The state store's side of the orchestrator lease: one record that says  *)
(* which orchestrator session may dispatch, with a fencing epoch and an     *)
(* expiry, kept in memory (`lease`) and in orchestrator-lease.json          *)
(* (`leaseFile`).  Every store method runs under one lock, so each is one   *)
(* step.                                                                    *)
(*                                                                          *)
(* Time is a countdown: `left` is expires_at - now, at least 0, so a lease  *)
(* is live iff left > 0 (store.py compares expires_at > now).  PassTime     *)
(* takes one unit off every countdown.  Clocks are taken to run at the same *)
(* rate and never to step backwards.                                        *)
(***************************************************************************)
EXTENDS Naturals

CONSTANTS
    Session,    \* orchestrator session ids; every process draws a fresh one
    Ttl,        \* ttl_seconds of the lease
    NoLease     \* the absence of a lease record

ASSUME TtlAssumption == Ttl \in Nat \ {0}

Epoch == Nat \ {0}
Lease == [session : Session, epoch : Epoch, left : 0 .. Ttl]

ASSUME NoLeaseAssumption == NoLease \notin Lease

VARIABLES
    lease,      \* TicketStore._lease_cache
    leaseFile   \* orchestrator-lease.json

leaseVars == <<lease, leaseFile>>

LeaseTypeOK ==
    /\ lease \in Lease \cup {NoLease}
    /\ leaseFile \in Lease \cup {NoLease}

LeaseInit ==
    /\ lease = NoLease
    /\ leaseFile = NoLease

-----------------------------------------------------------------------------
\* Reading the record.

Live(l) == l # NoLease /\ l.left > 0

OwnedByEpoch(l, s, e) == l # NoLease /\ l.epoch = e
OwnedBy(l, s, e) == l # NoLease /\ l.session = s /\ l.epoch = e

\* One unit of time off a record's countdown.
AgedBelowZero(l) == IF l # NoLease THEN [l EXCEPT !.left = @ - 1] ELSE l
AgedNever(l) == l
Aged(l) ==
    IF Live(l) THEN [l EXCEPT !.left = @ - 1] ELSE l

\* The lease an admitted acquire writes.  A live lease of the same session is
\* renewed in place; otherwise the epoch follows the expired record's, and
\* starts again at 1 when no record is left.
Granted(s) ==
    IF Live(lease)
    THEN [lease EXCEPT !.left = Ttl]
    ELSE [session |-> s,
          epoch |-> IF lease = NoLease THEN 1 ELSE lease.epoch + 1,
          left |-> Ttl]

Renewed == [lease EXCEPT !.left = Ttl]

-----------------------------------------------------------------------------
\* Writing the record: the file first, the cache only after it succeeded.

WriteLeaseCacheOnly(l) ==
    /\ lease' = l
    /\ UNCHANGED leaseFile

WriteLease(l) ==
    /\ leaseFile' = l
    /\ lease' = l

\* The write raises, before or after the rename that makes it durable; either
\* way the cache keeps the old record.
WriteLeaseFails(l) ==
    /\ leaseFile' \in {leaseFile, l}
    /\ UNCHANGED lease

-----------------------------------------------------------------------------
\* The store's methods.

AcquireAdmitted(s) == Live(lease) => lease.session = s

RenewAdmitted(s, e) == OwnedBy(lease, s, e) /\ Live(lease)

AcquireLease(s) == AcquireAdmitted(s) /\ WriteLease(Granted(s))

RenewLease(s, e) == RenewAdmitted(s, e) /\ WriteLease(Renewed)

\* An expired record of the same session and epoch can still be released.
ReleaseLease(s, e) == OwnedBy(lease, s, e) /\ WriteLease(NoLease)

\* Any read of the lease (GET /control/orchestrator-lease, GET /health) that
\* finds it expired deletes it.
InspectLease == lease # NoLease /\ ~Live(lease) /\ WriteLease(NoLease)

\* The store process starts again and reads the file.
ReloadLease ==
    /\ lease' = leaseFile
    /\ UNCHANGED leaseFile

AgeLease ==
    /\ lease' = Aged(lease)
    /\ leaseFile' = Aged(leaseFile)
=============================================================================
