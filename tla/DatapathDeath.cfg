SPECIFICATION FairSpec
CONSTANTS
    o1 = o1
    o2 = o2
    Apps = {}
    ObsOrder <- Two
    StateObs <- Everybody
    MsgObs <- Nobody
    Talkers = {}
    Closing = {}
    SendQMax = 1
    EventQMax = 1
    MaxUnreplied = 1
    PortDesc = FALSE
PROPERTY DeathAnnounced
CHECK_DEADLOCK FALSE
