CONSTANTS
    ann = ann
    max = max
    mia = mia
    pat = pat
    adm = adm
    tower = tower
    Employees = {ann, max, pat, adm}
    Buildings = {tower}
    Quantities = {2}
    Prices = {3}
    Nobody = Nobody
    Missing = Missing
    Ids = {r1, r2}
    Sessions = {s1, s2}
    InitialStaff <- MCStaffWithAdmin
    StaffChanges <- MCStaffChanges
    MaxVersion = 2
    MaxTokens = 4
    MaxAdminOps = 1
SPECIFICATION Spec
INVARIANTS
    TokenUsedOnce
    HandlerCanAct
SYMMETRY Symmetry
