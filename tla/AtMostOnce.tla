----------------------------- MODULE AtMostOnce -----------------------------
(***************************************************************************)
(* What the operation registry promises of one protected operation: its      *)
(* effect is launched at most once, its verdict is given once and never      *)
(* changed, and a verdict of success or failure is what the effect came to.  *)
(***************************************************************************)
EXTENDS Naturals

VARIABLES
    launches,  \* how often the effect was launched
    result,    \* what became of the effect, "none" while it is not known
    verdict    \* what the registry reports, "open" while it reports nothing

Init == launches = 0 /\ result = "none" /\ verdict = "open"

Launch ==
    /\ launches = 0
    /\ verdict = "open"
    /\ launches' = 1
    /\ UNCHANGED <<result, verdict>>

Conclude ==
    /\ launches = 1
    /\ result = "none"
    /\ result' \in {"success", "failure", "unknown"}
    /\ UNCHANGED <<launches, verdict>>

Settle ==
    /\ verdict = "open"
    /\ verdict' \in {"indeterminate", result} \ {"none", "unknown"}
    /\ UNCHANGED <<launches, result>>

Next == Launch \/ Conclude \/ Settle

Spec == Init /\ [][Next]_<<launches, result, verdict>>
=============================================================================
