CONSTANTS
    Requests = {o1, o2, r1}
    Openers = {o1, o2}
    MaxSessions = 2
    MaxSaves = 0
    MaxLosses = 0
    MaxCrashes = 0
SPECIFICATION Spec
INVARIANTS
    OneActive
SYMMETRY Symmetry
CHECK_DEADLOCK FALSE
