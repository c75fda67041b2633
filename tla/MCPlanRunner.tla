---------------------------- MODULE MCPlanRunner -----------------------------
(***************************************************************************)
(* Small instances of PlanRunner for TLC: the plans of the triage prompt.    *)
(***************************************************************************)
EXTENDS PlanRunner

Ordinary(agents) ==
    [agents |-> agents, image |-> FALSE, halt |-> None, investigation |-> FALSE]

\* Hosts of their own for each of two runs; an image, and a stop after the
\* review; a run that is evaluated; existing data only; an alert whose existing
\* data is analyzed first, with a stop after resource allocation.  The
\* provision steps, and the hosts of the third, are left to the program.
TriagePlans ==
    {Ordinary(<<"resource", "benchmark", "teardown", "resource", "benchmark", "teardown">>),
     [agents |-> <<"resource", "benchmark", "review", "teardown">>, image |-> TRUE,
      halt |-> "review", investigation |-> FALSE],
     Ordinary(<<"benchmark", "evaluate">>),
     Ordinary(<<"analyze", "review">>),
     [agents |-> <<"analyze", "resource", "benchmark", "review">>, image |-> FALSE,
      halt |-> "resource", investigation |-> TRUE]}
=============================================================================
