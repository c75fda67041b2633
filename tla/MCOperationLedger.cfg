SPECIFICATION FairSpec
CONSTANTS
    Caller = {c1, c2}
    Owner <- OneOwner
    Ttl = 1
    MaxGeneration = 2
    MaxFaults = 2
INVARIANTS
    IInv
PROPERTIES
    ImplementsAtMostOnce
    CallsEnd
