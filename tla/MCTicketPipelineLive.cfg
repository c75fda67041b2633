SPECIFICATION FairSpec
CONSTANTS
    Path <- ReviewPath
    UserMay = {"resume", "hard", "close"}
    MaxRequests = 1
    HandoffMayFail = {"awaiting_review"}
    SuiteMayBeAbsent = TRUE
    MayReserve = FALSE
    BudgetMayRunOut = TRUE
    NoSnapshot = NoSnapshot
PROPERTIES
    HardStopCloses
    ClosedFreesAgent
    NeverStuck
