CONSTANTS
    NoPair = NoPair
    Requests = {q1, q2}
    MaxSecond = 2
    MaxDocs = 4
SPECIFICATION Spec
CHECK_DEADLOCK FALSE
SYMMETRY Interchangeable
INVARIANTS
    ValidAtMostInFlight
    PairWorks
    OnlyPair
    LoggedOutStaysOut
PROPERTIES
    DeadStaysDead
