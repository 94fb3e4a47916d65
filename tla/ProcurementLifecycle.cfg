CONSTANTS
    ann = ann
    max = max
    mia = mia
    pat = pat
    adm = adm
    tower = tower
    Employees = {ann, max, mia, pat}
    Buildings = {tower}
    Quantities = {1, 2}
    Prices = {3}
    Nobody = Nobody
    Missing = Missing
    Ids = {r1}
    Sessions = {s1}
    InitialStaff <- MCTwoManagers
    StaffChanges = {}
    MaxVersion = 11
    MaxTokens = 8
    MaxAdminOps = 0
SPECIFICATION Spec
INVARIANTS
    ReviewRoundsInOrder
    StageEvidence
    LogIsHistory
