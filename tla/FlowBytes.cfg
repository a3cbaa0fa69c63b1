SPECIFICATION Spec
CONSTANTS
    Forwards = {"f"}
    Tunnels = {"t"}
    TunnelOf <- MCTunnelOf
    Meters = {"m", "n"}
    FirstMeter <- MCFirstMeter
    Factor = 2
    UserLimit = 0
    TunnelLimit <- MCNoLimit
    Jobs = {"j", "k"}
    Ops = {"resume", "delete"}
    MaxBytes = 2
    MaxCrashes = 1
    none = none
INVARIANTS
    TypeOK
    NothingLost
    NothingTwice
PROPERTIES
    Reported
CHECK_DEADLOCK FALSE
