CONSTANTS
    wo = wo
    pj = pj
    l = l
    p1 = p1
    p2 = p2
    p3 = p3
    j1 = j1
    j2 = j2
    ph1 = ph1
    ph2 = ph2
    brand = brand
    Works = {wo}
    Projects = {pj}
    Lists = {l}
    People = {p1, p2, p3}
    Codes = {j1, j2}
    Assets = {ph1, ph2}
    Parties = {brand}
    Images = {ph1}
    LegacyRoles <- MCLegacyRoles
    Ids = {1, 2, 3, 4, 5}
    None = None
    EntryLimit = 2
    CreditLimit = 1
    ParticipantLimit = 2
    WorkLimit = 1
    ItemLimit = 2
    MaxRev = 5
SPECIFICATION ProdSpec
CHECK_DEADLOCK FALSE
INVARIANT CoversAreCleared
