SPECIFICATION FairSpec
CONSTANTS
    o1 = o1
    o2 = o2
    Apps = {}
    ObsOrder <- Two
    StateObs <- Mixed
    MsgObs <- FirstOnly
    Talkers = {}
    Closing = {}
    SendQMax = 1
    EventQMax = 1
    MaxUnreplied = 1
    PortDesc = FALSE
INVARIANT PhaseEventsInOrder
CHECK_DEADLOCK FALSE
