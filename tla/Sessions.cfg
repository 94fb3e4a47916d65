CONSTANTS
    Requests = {o1, o2, r1, r2, r3}
    Openers = {o1, o2}
    MaxSessions = 2
    MaxSaves = 2
    MaxLosses = 1
    MaxCrashes = 1
SPECIFICATION Spec
INVARIANTS
    LatestIsKept
PROPERTIES
    CompletedIsFinal
SYMMETRY Symmetry
CHECK_DEADLOCK FALSE
