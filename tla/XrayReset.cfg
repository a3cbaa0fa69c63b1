SPECIFICATION Spec
CONSTANTS
    Last = 1
    Clients = {"c"}
    InboundOf <- OwnInbound
    MaxGen <- OneContent
    Limit = 1
    Jobs = {"a"}
    Ops = {"createInbound", "createClient", "updateClient", "check", "traffic"}
    MaxFaults = 0
PROPERTIES
    ResetWhenDue
CHECK_DEADLOCK FALSE
