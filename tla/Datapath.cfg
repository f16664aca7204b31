SPECIFICATION FairSpec
CONSTANTS
    o1 = o1
    o2 = o2
    Apps = {a1}
    ObsOrder <- Two
    StateObs <- Everybody
    MsgObs <- Nobody
    Talkers = {o1}
    Closing = {o2}
    SendQMax = 1
    EventQMax = 1
    MaxUnreplied = 1
    PortDesc = TRUE
INVARIANTS TypeOK SlotsConserved PhaseEventsInOrder SocketClosedLast
PROPERTY ImplementsNegotiation
CHECK_DEADLOCK FALSE
