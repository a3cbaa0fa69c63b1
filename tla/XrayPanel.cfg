SPECIFICATION Spec
CONSTANTS
    Last = 2
    Clients = {"c"}
    InboundOf <- OwnInbound
    MaxGen <- FirstChanges
    Limit = 1
    Jobs = {"a"}
    Ops = {"createInbound", "updateInbound", "deleteInbound", "enable", "disable", "createClient", "updateClient", "deleteClient", "reset", "check", "traffic", "expel"}
    MaxFaults = 1
INVARIANTS
    TypeOK
    UndisturbedAgree
    LimitNoticed
    ReconcileRestores
CHECK_DEADLOCK FALSE
