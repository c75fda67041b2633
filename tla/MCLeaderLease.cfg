SPECIFICATION FairSpec
CONSTANTS
    Session = {s1, s2}
    NoLease = NoLease
    Ttl = 2
    SafetyMargin = 0
    MaxAttempts = 2
    RetryInterval = 2
    MaxFailures = 1
    MaxFaults = 1
INVARIANTS
    IInv
PROPERTIES
    LiveLeaseIsNotLost
    ImplementsSingleLeader
    SuccessorTakesOver
