SPECIFICATION FairSpec
CONSTANTS
    o1 = o1
    o2 = o2
    Apps = {}
    ObsOrder <- One
    StateObs <- FirstOnly
    MsgObs <- FirstOnly
    Talkers = {o1}
    Closing = {o1}
    SendQMax = 1
    EventQMax = 1
    MaxUnreplied = 1
    PortDesc = FALSE
PROPERTIES DeadIsTornDown SendersReleased SilentSwitchDetected
CHECK_DEADLOCK FALSE
