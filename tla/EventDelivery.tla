---------------------------- MODULE EventDelivery ----------------------------
(***************************************************************************)
(* What trace delivery promises of the events that were written to a spool:  *)
(* the central store keeps each of them at most once, and one is given up    *)
(* only by setting its spool aside or by removing it.                        *)
(***************************************************************************)
EXTENDS Naturals

CONSTANT Event

VARIABLES
    written,    \* events whose frame reached a spool
    kept,       \* how many rows of the central store hold each event
    given_up    \* events of quarantined or removed spools

Init == written = {} /\ kept = [e \in Event |-> 0] /\ given_up = {}

Write == written' \in SUBSET Event /\ written \subseteq written' /\ UNCHANGED <<kept, given_up>>

\* Only written events are kept, and none twice.
Keep ==
    /\ \E new \in SUBSET {e \in written : kept[e] = 0} :
          kept' = [e \in Event |-> kept[e] + IF e \in new THEN 1 ELSE 0]
    /\ UNCHANGED <<written, given_up>>

GiveUp ==
    /\ given_up' \in SUBSET written
    /\ given_up \subseteq given_up'
    /\ UNCHANGED <<written, kept>>

Next == Write \/ Keep \/ GiveUp

Spec == Init /\ [][Next]_<<written, kept, given_up>>
=============================================================================
