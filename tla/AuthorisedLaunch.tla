-------------------------- MODULE AuthorisedLaunch --------------------------
(***************************************************************************)
(* What the approval of a validated benchmark and its operation promise      *)
(* together: at most one approval is ever spent on it, it is launched at     *)
(* most once and only after that, what the registry reports of it is         *)
(* reported once, and success is reported only of a run that succeeded.      *)
(***************************************************************************)
EXTENDS Naturals, FiniteSets

CONSTANT Approval

VARIABLES
    spent,     \* the approvals that were spent
    launches,  \* how often the benchmark was launched
    result,    \* how the run ended, "none" while it has not
    verdict    \* what the registry reports, "none" while it reports nothing

vars == <<spent, launches, result, verdict>>

Init == spent = {} /\ launches = 0 /\ result = "none" /\ verdict = "none"

\* Which approval was spent, not how often: an approval that a restart of the
\* store shows unspent, and that is spent again, takes no step here.
Spend ==
    /\ spent = {}
    /\ \E a \in Approval : spent' = {a}
    /\ UNCHANGED <<launches, result, verdict>>

Launch ==
    /\ spent # {}
    /\ launches = 0
    /\ verdict = "none"
    /\ launches' = 1
    /\ UNCHANGED <<spent, result, verdict>>

Conclude ==
    /\ launches = 1
    /\ result = "none"
    /\ result' \in {"success", "failure", "unknown"}
    /\ UNCHANGED <<spent, launches, verdict>>

\* A benchmark that is declined is reported as a failure and stays unlaunched.
Settle ==
    /\ verdict = "none"
    /\ \/ verdict' = "indeterminate"
       \/ verdict' = "failure" /\ (launches = 0 \/ result = "failure")
       \/ verdict' = "success" /\ result = "success"
    /\ UNCHANGED <<spent, launches, result>>

Next == Spend \/ Launch \/ Conclude \/ Settle

Spec == Init /\ [][Next]_vars
=============================================================================
