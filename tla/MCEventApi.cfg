SPECIFICATION Spec
CONSTANTS
    p1 = p1
    p2 = p2
    Request = {p1, p2}
    NoRequest = NoRequest
    Cap = 2
    MaxEvents = 3
INVARIANTS
    TypeOK
    UsableUnlessOverlapped
    BufferIsWindow
PROPERTIES
    PollsMissNothing
    AllDelivered
    EveryRequestEnds
CHECK_DEADLOCK FALSE
