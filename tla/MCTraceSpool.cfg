SPECIFICATION FairSpec
CONSTANTS
    Producer = {p1}
    Sweeper = {s1, s2}
    Leader = s1
    Event = {e1, e2}
    Torn = Torn
    Nobody = Nobody
    Batch = 2
    MaxFrames = 3
INVARIANTS
    SpoolInv
    AcceptedIsAccounted
PROPERTIES
    AbandonedIsSwept
    ImplementsEventDelivery
CHECK_DEADLOCK FALSE
