SPECIFICATION ServicesSpec
CONSTANTS
    Sessions = {s1, s2}
    Managers = {m1, m2}
    Admins = {a1}
    Names = {n1}
    Codes = {c1}
    Tokens = {t1, t2, t3}
    MaxTime = 1
    MaxSuppliers = 1
    MaxEntries = 1
    Calls = {q1}
    MaxRetries = 2
    SignatureTTL = 1
    NonceTTL = 1
    PlanSize = 3
    MaxCalls = 3
    Budgets = {1, 2, 3, 4, 5, 8}
    SyncRuns = {w1}
    MaxVersion = 2
    RetiredVersions = {2}
    MaxSyncs = 2
    MaxBreaks = 1
    MaxCache = 1
    HistorySize = 3
    EvidenceLimit = 2
    CandidateLimit = 1
    TopK = 1
    MaxRebuilds = 2
INVARIANTS
    ServicesTypeOK
    
    CalledWhenReady
    CompleteWithinBudget
    ReadyIsIndexed
    AnswerIsCurrent
    EvidenceIsKept
    ReadersStayWithin
PROPERTIES
    ReleasedForGood
    CallsEnd
CHECK_DEADLOCK FALSE
