SPECIFICATION Safe
CONSTANTS
    Tunnel = FALSE
    j1 = j1
    j2 = j2
    t1 = t1
    t2 = t2
    Targets = {t1, t2}
    Jobs = {j1, j2}
    Ops = {"create", "hot", "rebuild", "relisten", "delete", "pause", "resume", "limit", "report"}
    MaxFaults = 1
SYMMETRY Permuted
INVARIANTS
    TypeOK
    UndisturbedAgree
CHECK_DEADLOCK FALSE
