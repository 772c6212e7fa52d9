CONSTANTS
    NoMap = NoMap
    NoOtp = NoOtp
    NoName = NoName
    Awaited = Awaited
    Maps = {m1, m2}
    Names = {n1, n2}
    Sizes = {1, 2}
    Kinds = {characters}
    Labels = {label}
    Users = {u1}
    Rooms = {r1}
    Edits = {q1, q2}
    MaxRoomCapacity = 1
    Limits = {0, 1, 2}
    MaxDocs = 4
    Days = 3
    Visitors = {v1, v2}
    Links = {l1}
    Visits = {q1, q2}
    RoomCapacity = 1
    Requests = {q1, q2}
    Otps = {o1, o2}
    MaxTries = 2
SPECIFICATION DirectorySpec
CHECK_DEADLOCK FALSE
SYMMETRY Symmetry
VIEW Present
INVARIANTS
    NoneSkipped
    PastDaysMissOnlyLate
    StatusTruthful
    FreePlanOnce
    AcceptedAtMostInFlight
PROPERTIES
    SavesKeepOthers
    NobodyUninvited
