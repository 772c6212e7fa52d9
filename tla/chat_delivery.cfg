CONSTANTS
    s1 = s1  s2 = s2  s3 = s3
    u1 = u1  u2 = u2
    x1 = x1  x2 = x2
    NoOne = NoOne
    Sessions = {s1, s2, s3}
    Users = {u1, u2}
    UserOf <- TwoOfOneUser
    Leavers = {s1}
    JoinFailers = {s3}
    StoredOnline = {FALSE}
    Chats = {c1}
    Messages = {x1, x2}
    MaxEntries = 1
SPECIFICATION Spec
CHECK_DEADLOCK FALSE
SYMMETRY Interchangeable
INVARIANTS
    ShownIsStored
    SameOrderForAll
    NothingMissed
    ShownAsListed
