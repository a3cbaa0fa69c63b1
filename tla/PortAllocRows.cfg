\* Two requests at a time on three forwards.
SPECIFICATION Spec
CONSTANTS
    Nodes = {"a", "b"}
    PortRange <- MCPortRange
    Tunnels <- MCTunnels
    InNode <- MCInNode
    OutNode <- MCOutNode
    Routes = {"r"}
    Paths <- MCPaths
    Forwards = {f, g}
    Asks = {0, 2}
    Jobs = {j1, j2}
    Ops = {"create", "update", "delete", "force", "user", "route"}
    none = none
SYMMETRY Alike
INVARIANTS
    TypeOK
    PortsDistinct
    RelaysFollowRoute
