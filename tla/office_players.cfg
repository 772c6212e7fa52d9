CONSTANTS
    s1 = s1  s2 = s2  s3 = s3
    u1 = u1  u2 = u2
    NoOne = NoOne
    NoCharacter = NoCharacter
    Sessions = {s1, s2, s3}
    Users = {u1, u2}
    UserOf <- TwoOfOneUser
    Leavers = {s1, s2}
    JoinFailers = {s2}
    StoredOnline = {TRUE}
    Characters = {c1, c2}
    Reports = {0, 1}
    Lookups = {r1, r2}
    MaxStops = 1
SPECIFICATION Spec
CHECK_DEADLOCK FALSE
INVARIANTS
    LooksPaired
    PresentAreShown
PROPERTIES
    VisitorsGoOffline
