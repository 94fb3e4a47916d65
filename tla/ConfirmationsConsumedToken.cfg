CONSTANTS
    Decisions = {d1, d2}
    Turns = {t1, t2}
    Locks = {p1}
    MaxActions = 1
    MaxLost = 0
SPECIFICATION Spec
PROPERTIES
    ConsumedTokenWritesNothing
SYMMETRY Symmetry
CHECK_DEADLOCK FALSE
