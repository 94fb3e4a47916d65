CONSTANTS
    Decisions = {d1, d2}
    Turns = {t1, t2}
    Locks = {p1}
    MaxActions = 2
    MaxLost = 2
SPECIFICATION FairSpec
INVARIANTS
    AnswersAreTrue
    ExecutedOnce
PROPERTIES
    ConfirmedOnly
    ConsumedUnlessOvertaken
    EveryDecisionAnswered
CHECK_DEADLOCK FALSE
