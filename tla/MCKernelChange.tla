--------------------------- MODULE MCKernelChange ---------------------------
\* Calls are alike, and so are hosts; nothing about liveness is asked.
EXTENDS KernelChange, TLC

Required == {{"install", "reboot"}}

Alike == Permutations(Call) \cup Permutations(Host)
=============================================================================
