-------------------------- MODULE MCBenchmarkLaunch --------------------------
\* Two calls of execute_benchmark, two approvals, two dispatches.  The calls
\* are alike, and nothing about liveness is asked.
EXTENDS BenchmarkLaunch, TLC

AlikeCalls == Permutations(Call)
=============================================================================
