CONSTANTS
    p1 = p1
    p2 = p2
    p3 = p3
    s1 = s1
    s2 = s2
    wo = wo
    pj = pj
    l = l
    j1 = j1
    j2 = j2
    ph1 = ph1
    ph2 = ph2
    brand = brand
    me = me
    pr = pr
    r1 = r1
    r2 = r2
    cap = cap
    cas = cas
    m1 = m1
    m2 = m2
    ad = ad
    k1 = k1
    k2 = k2
    o1 = o1
    i1 = i1
    i2 = i2
    c1 = c1
    c2 = c2
    u1 = u1
    u2 = u2
    t1 = t1
    t2 = t2
    x1 = x1
    x2 = x2
    name = name
    intro = intro
    source = source
    account = account
    suspend = suspend
    disable = disable
    confirm = confirm
    People = {p1, p2, p3}
    Sources = {s1, s2}
    RootIds = {wo}
    Nobody = nobody
    NoSource = nosource
    Notes = {1, 2}
    MaxOther = 1
    Works = {wo}
    Projects = {pj}
    Lists = {l}
    Codes = {j1, j2}
    Assets = {ph1, ph2}
    Parties = {brand}
    Images = {ph1}
    LegacyRoles <- MCLegacyRoles
    Ids = {1, 2, 3, 4, 5}
    None = none
    EntryLimit = 2
    CreditLimit = 1
    ParticipantLimit = 2
    WorkLimit = 1
    ItemLimit = 2
    MaxRev = 4
    FactRows = {me, pr, r1, r2, cap, cas, m1, m2, ad, k1, k2}
    Me = me
    KindOf <- MCKindOf
    AssetSource <- MCAssetSource
    Offers = {o1}
    MaxItems = 2
    Accounts = {u1, u2}
    Invites = {i1, i2}
    Claims = {c1, c2}
    Subs = {t1, t2}
    Fields = {name, intro}
    TextValues = {x1, x2}
    TargetOf <- MCTargetOf
    MaxUses = 1
    MaxSecret = 1
    MaxEpoch = 1
    Rights = {source, account}
    Restricts = {suspend, disable}
    Opens = {confirm}
    RightOf <- MCRightOf
    Contained = {source}
    MaxRequests = 2
SPECIFICATION Spec
CHECK_DEADLOCK FALSE
INVARIANTS MergeOK ProductionOK RevisionTellsContent FactsOK IntakeOK RebuildOK JournalOK
PROPERTIES ShownIsMerged AppliedAsProposed AppliedAsSubmitted OpenedAsReviewed
