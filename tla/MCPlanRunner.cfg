SPECIFICATION RunnerFairSpec
CONSTANTS
    Plans <- TriagePlans
    RetryLimit = 2
    MaxEvents = 2
    Nothing = Nothing
INVARIANTS
    PlanInv
    BenchmarksAreAccounted
PROPERTIES
    CompletedStepsStay
    ReleaseDropsNoRun
    AmbiguousWorkStaysStopped
    PlanSettles
CHECK_DEADLOCK FALSE
