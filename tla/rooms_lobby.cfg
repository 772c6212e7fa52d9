CONSTANTS
    NoOne = NoOne
    NoRoom = NoRoom
    NoChat = NoChat
    Users = {u1, u2, u3}
    Rooms = {r1}
    ChatIds = {k1}
    Requests = {q1, q2}
    MaxRoom = 1
    Capacity = 2
    MaxEntries = 1
    Patient = {}
    Unlucky = {u3}
SPECIFICATION Spec
SYMMETRY LuckyAlike
INVARIANTS
    LobbyListsMembers
    LobbyHasRoom
