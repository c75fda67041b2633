SPECIFICATION Spec
CONSTANTS
    Path <- CleanupPath
    UserMay = {"resume", "abort", "graceful", "close"}
    MaxRequests = 1
    HandoffMayFail <- HandoffChecked
    SuiteMayBeAbsent = TRUE
    MayReserve = TRUE
    BudgetMayRunOut = FALSE
    NoSnapshot = NoSnapshot
INVARIANTS
    PipelineInv
PROPERTIES
    UnreleasedIsAborted
    CleanupStands
