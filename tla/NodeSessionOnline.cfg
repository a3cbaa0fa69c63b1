SPECIFICATION Spec
CONSTANTS
    c1 = c1
    c2 = c2
    c3 = c3
    r1 = r1
    NoConn = NoConn
    Conns = {c1, c2, c3}
    Requests = {r1}
CHECK_DEADLOCK FALSE
INVARIANTS
    TypeOK
    StatusFollowsSession
    PendingHasCaller
PROPERTIES
    DeadSessionGoes
    ImplementsRequest
