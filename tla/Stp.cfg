SPECIFICATION Spec
CONSTANTS
    Bridges = {1, 2, 3}
    Ports <- MCPorts
    Owner <- MCOwner
    Peer <- MCPeer
    PathCost <- MCPathCost
    MaxAge = 4
    FwdDelay = 3
    Kinds = {"link","port","switch"}
    MaxChanges = 2
    Overlap = FALSE
INVARIANTS TypeOK NoLoop RootPortExact
PROPERTIES Converges SmallestIsRoot
