SPECIFICATION Spec
CONSTANTS
    Last = 3
    MaxGen = 2
    Jobs = {10}
    Ops = {"create", "update", "delete", "force", "pause", "resume", "report"}
    Arrived = {3}
    MaxFaults = 1
INVARIANTS
    TypeOK
    UndisturbedAgree
    EntryLast
    ReconcileRestores
CHECK_DEADLOCK FALSE
