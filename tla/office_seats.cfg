CONSTANTS
    s1 = s1  s2 = s2  s3 = s3
    u1 = u1  u2 = u2
    r1 = r1  r2 = r2
    d1 = d1  d2 = d2  d3 = d3
    NoOne = NoOne
    Undefined = Undefined
    NoChat = NoChat
    Sessions = {s1, s2, s3}
    Users = {u1, u2}
    UserOf <- TwoOfOneUser
    Leavers = {s1, s2, s3}
    JoinFailers = {s2, s3}
    StoredOnline = {TRUE, FALSE}
    Candid = {s1, s2, s3}
    Chairs = {c1, c2}
    Whiteboards = {w1}
    Meetings = {}
    Requests = {}
    ChatIds = {}
    MaxEntries = 1
SPECIFICATION FairSpec
CHECK_DEADLOCK FALSE
INVARIANTS
    RoutesToOwnPlayer
    SoleSessionReachable
    SeatsHoldPlayers
    OnlineIsAccountedFor
PROPERTIES
    DepartedGoOffline
