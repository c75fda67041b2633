SPECIFICATION FairSpec
CONSTANTS
    Session = {s1}
    NoLease = NoLease
    NoClaim = NoClaim
    Ttl = 2
    ClaimTtl = 1
    MaxClaims = 2
    MaxCalls = 2
    MaxFaults = 1
INVARIANTS
    IInv
    RecoveryStands
PROPERTIES
    WritesFollowClaims
    LostClaimStopsAgent
    DeadClaimsEnd
