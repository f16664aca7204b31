SPECIFICATION Spec
CONSTANTS
    Bridges = {1, 2, 3}
    Ports <- MCPorts
    Owner <- MCOwner
    Peer <- MCPeer
    PathCost <- MCPathCost
    MaxAge = 4
    FwdDelay = 3
    Kinds = {"link"}
    MaxChanges = 1
    Overlap = TRUE
PROPERTY SmallestIsRoot
