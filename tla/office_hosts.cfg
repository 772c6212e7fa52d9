CONSTANTS
    None = None
    PublicLobby = lobby
    Rooms = {lobby, r1}
    Offices = {i1, i2, i3}
    Sessions = {s1, s2}
    WhiteboardIds = {w1, w2, w3}
    TotalWhiteboard = 1
    Requests = {q1, q2}
SPECIFICATION Spec
CHECK_DEADLOCK FALSE
INVARIANTS
    IdsAccountedFor
    RoomsMapLeads
PROPERTIES
    ClosureReaches
