SPECIFICATION Spec
CONSTANTS
    Forwards = {"f", "g", "r"}
    Tunnels = {"t", "u"}
    TunnelOf <- MCTunnelOf
    Meters = {"m", "n"}
    FirstMeter <- MCFirstMeter
    Factor = 2
    UserLimit = 2
    TunnelLimit <- MCTunnelLimit
    Jobs = {"j", "k"}
    Ops = {"reset", "resume"}
    MaxBytes = 2
    MaxCrashes = 0
    none = none
INVARIANTS
    ChargesFollow
    LimitNoticed
