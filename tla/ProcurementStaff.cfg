CONSTANTS
    ann = ann
    max = max
    mia = mia
    pat = pat
    adm = adm
    tower = tower
    Employees = {ann, max, mia, pat}
    Buildings = {tower}
    Quantities = {2}
    Prices = {3}
    Nobody = Nobody
    Missing = Missing
    Ids = {r1}
    Sessions = {s1}
    InitialStaff <- MCTwoManagersAndAdmin
    StaffChanges <- MCRolesLost
    MaxVersion = 11
    MaxTokens = 7
    MaxAdminOps = 1
SPECIFICATION Spec
INVARIANTS
    HandlerCanAct
    CompletionNotified
