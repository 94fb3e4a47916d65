CONSTANTS
    ann = ann
    max = max
    mia = mia
    pat = pat
    adm = adm
    tower = tower
    Employees = {ann, max}
    Buildings = {tower}
    Quantities = {2}
    Prices = {3}
    Nobody = Nobody
    Missing = Missing
    Ids = {r1}
    Sessions = {s1, s2}
    InitialStaff <- MCTwoPeople
    StaffChanges = {}
    MaxVersion = 10
    MaxTokens = 6
    MaxAdminOps = 0
SPECIFICATION Spec
INVARIANTS
    VersionGuardsRequest
PROPERTIES
    ApprovedStaysApproved
    ImplementsSerial
SYMMETRY Symmetry
