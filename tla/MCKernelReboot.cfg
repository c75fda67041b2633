SPECIFICATION Spec
CONSTANTS
    Host = {h1}
    Call = {c1}
    MaxIntents = 1
    MaxAttempts = 1
    MaxFaults = 0
    Inventories <- Required
PROPERTY ReservedRebootIsSent
CHECK_DEADLOCK FALSE
