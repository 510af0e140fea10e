CONSTANTS
    editor = editor
    reviewer = reviewer
    admin = admin
    all = all
    own = own
    s1 = s1
    s2 = s2
    p1 = p1
    p2 = p2
    Members = {editor, reviewer, admin}
    Scopes = {all, own, spare}
    Sources = {s1, s2, s3}
    People = {p1, p2}
    Workspace = all
    Values = {1, 2}
    Grants = {h1, h2}
    Reviews = {r1, r2}
    ExtraPermissions <- MCExtra
    MaxTime = 1
    MaxRequests = 4
    Temporary = 1
    Lease = 2
    MaxOpen = 2
SPECIFICATION Spec
CHECK_DEADLOCK FALSE
INVARIANTS MCRecordsOK VerifiedIsReviewed
PROPERTIES HandoffsStayEnded GivenAsAsked
