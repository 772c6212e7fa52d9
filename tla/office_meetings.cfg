CONSTANTS
    s1 = s1  s2 = s2  s3 = s3
    u1 = u1  u2 = u2
    r1 = r1  r2 = r2
    d1 = d1  d2 = d2  d3 = d3
    NoOne = NoOne
    Undefined = Undefined
    NoChat = NoChat
    Sessions = {s1, s2, s3}
    Users = {s1, s2, s3}
    UserOf <- OneSessionEach
    Leavers = {s1, s2, s3}
    JoinFailers = {}
    StoredOnline = {FALSE}
    Candid = {s1, s2, s3}
    Chairs = {}
    Whiteboards = {}
    Meetings = {m1}
    Requests = {r1, r2}
    ChatIds = {d1, d2}
    MaxEntries = 1
SPECIFICATION Spec
CHECK_DEADLOCK FALSE
SYMMETRY Interchangeable
INVARIANTS
    EmptyMeetingIsReset
    AdminUntilDropped
    MeetingConsistent
PROPERTIES
    MeetingsAreRooms
