CONSTANTS
    Limits <- MCLimits
    MaxTurns = 2
SPECIFICATION FairSpec
INVARIANTS
    PendingIsDraft
    OneAnswerStreamed
PROPERTIES
    CompleteDraftKept
    EveryStreamEnds
CHECK_DEADLOCK FALSE
