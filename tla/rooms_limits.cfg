CONSTANTS
    NoOne = NoOne
    NoRoom = NoRoom
    NoChat = NoChat
    Users = {u1, u2}
    Rooms = {r1, r2}
    ChatIds = {k1}
    Requests = {q1, q2}
    MaxRoom = 1
    Capacity = 2
    MaxEntries = 2
    Patient = {u1}
    Unlucky = {u2}
SPECIFICATION Spec
SYMMETRY IdsAlike
VIEW Present
INVARIANTS
    OvershootBounded
    MembersOnce
