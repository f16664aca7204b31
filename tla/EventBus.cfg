SPECIFICATION FairSpec
CONSTANTS
    a = a
    b = b
    g1 = g1
    Apps = {a, b}
    Outside = {g1}
    Closers = {m1, m2}
    Observers <- MCObservers
    Servers <- MCServers
    Contacts <- MCContacts
    QMax = 2
INVARIANTS TypeOK SlotsConserved StoppedIsQuiet CloseIsExclusive
PROPERTIES RequestAnswered SendersReleased CloseCompletes
CHECK_DEADLOCK FALSE
