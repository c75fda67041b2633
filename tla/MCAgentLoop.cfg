SPECIFICATION FairSpec
CONSTANTS
    Configured = 2
    ConfiguredGlobal = 3
    Extra = 1
    Request = {r1}
    Hint = {h1}
    Nothing = Nothing
    TimeoutRetries = 1
    RateRetries = 0
    MaxOthers = 2
    MaxFaults = 1
INVARIANTS
    IInv
    WithinAllowance
    InterjectedOnce
PROPERTIES
    RunsEnd
