CONSTANTS
    Count = 2
    Runs = {w1, w2}
    BatchSize = 1
    MaxRetries = 3
    RetryBase = 2
    RetryMax = 2
    MaxCrashes = 1
    MaxResends = 1
SPECIFICATION FairSpec
INVARIANTS
    NeverStranded
PROPERTIES
    SentIsFinal
    EventuallySettled
