SPECIFICATION Spec
CONSTANTS
    Call = {c1, c2}
    MaxApprovals = 2
    Ttl = 1
    MaxAttempts = 2
    MaxFaults = 1
SYMMETRY AlikeCalls
INVARIANTS
    LaunchInv
    LaunchIsAuthorised
    CompletedIsRecorded
PROPERTIES
    ImplementsAuthorisedLaunch
CHECK_DEADLOCK FALSE
