SPECIFICATION Spec
CONSTANTS
    c1 = c1
    c2 = c2
    d1 = d1
    Conns = {c1, c2}
    Modern = {c2}
    IdOf <- MCIdOf
    Clients = {u1, u2}
    Classes = {"stats"}
    Asked <- MCAsked
    XidStart <- MCXidStart
    MaxReplies = 2
    MaxRequests = 2
INVARIANTS TypeOK AnswersExact ObservingExact RegistryExact
PROPERTY AnsweredOrDead
CHECK_DEADLOCK FALSE
