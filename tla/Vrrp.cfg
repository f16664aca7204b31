SPECIFICATION Spec
CONSTANTS
    Routers = {1, 2}
    Versions = {2, 3}
    StartPriority <- MCStartPriority
    Owner = 3
    Priorities = {1, 3}
    StartMode <- MCStartMode
    Modes <- MCModes
    AdminMaster = {2}
    Interval <- MCInterval
    Skew <- MCSkew
    MaxFaults = 3
INVARIANTS TypeOK NeverDeaf ElectionSettles
CHECK_DEADLOCK FALSE
PROPERTIES NoFlapping Converges
