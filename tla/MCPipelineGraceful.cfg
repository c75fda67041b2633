SPECIFICATION Spec
CONSTANTS
    Path <- CleanupPath
    UserMay = {"graceful"}
    MaxRequests = 1
    HandoffMayFail = {}
    SuiteMayBeAbsent = FALSE
    MayReserve = TRUE
    BudgetMayRunOut = FALSE
    NoSnapshot = NoSnapshot
PROPERTIES
    GracefulStopPauses
