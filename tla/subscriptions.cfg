CONSTANTS
    NoSub = NoSub
    NoCheckout = NoCheckout
    Users = {u1, u2}
    Plans = {p1}
    Subs = {s1, s2}
    Contested = {s2}
    Checkouts = {x1, x2}
    Requests = {q1, q2}
SPECIFICATION Spec
SYMMETRY Interchangeable
INVARIANTS
    ActiveWasCompleted
    CancelledEndsBilling
    EventsLeadToOne
    RoomsShutForCause
