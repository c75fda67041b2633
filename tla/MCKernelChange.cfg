SPECIFICATION Spec
CONSTANTS
    Host = {h1, h2}
    Call = {c1, c2}
    MaxIntents = 1
    MaxAttempts = 2
    MaxFaults = 1
    Inventories <- Required
SYMMETRY Alike
INVARIANTS
    IInv
    OneWriterPerHost
    VerifiedRanKernel
    CompletedIsQuiet
CHECK_DEADLOCK FALSE
