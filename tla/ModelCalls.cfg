CONSTANTS
    Calls = {c1, c2}
    FailureThreshold = 2
    RecoveryTimeout = 1
    MaxGeneration = 3
    MaxRetries = 1
    HasFallback = TRUE
    Streaming = {c1}
SPECIFICATION RunnerFairSpec
INVARIANTS
    OneProbe
    ClosedBelowThreshold
    RunsEndRight
PROPERTIES
    StaleResultsIgnored
    RecoversOnceHealthy
    EveryRunEnds
CHECK_DEADLOCK FALSE
