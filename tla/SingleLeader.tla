---------------------------- MODULE SingleLeader ----------------------------
(***************************************************************************)
(* What the leader lease promises its users: at most one session leads at a *)
(* time, and leadership passes from one session to another only through a   *)
(* moment in which nobody leads.                                            *)
(***************************************************************************)
CONSTANT Session

VARIABLE leaders    \* the sessions that take themselves for the leader

Init == leaders = {}

Elect(s) == leaders = {} /\ leaders' = {s}

StepDown == leaders' = {}

Next == StepDown \/ \E s \in Session : Elect(s)

Spec == Init /\ [][Next]_leaders
=============================================================================
