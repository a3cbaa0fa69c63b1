SPECIFICATION Spec
CONSTANTS
    Tunnel = TRUE
    j1 = j1
    t1 = t1
    t2 = t2
    Targets = {t1, t2}
    Jobs = {j1}
    Ops = {"create", "rename", "hot", "rebuild", "relisten", "respeed", "delete", "force", "pause", "resume", "limit", "report"}
    MaxFaults = 1
INVARIANTS
    UndisturbedAgree
    ReconcileRestores
PROPERTIES
    OrphansGo
CHECK_DEADLOCK FALSE
