SPECIFICATION Spec
CONSTANTS
    c1 = c1
    c2 = c2
    d1 = d1
    Conns = {c1}
    Modern = {}
    IdOf <- MCIdOf
    Clients = {u1}
    Classes = {"stats"}
    Asked <- MCAsked
    XidStart <- MCXidStart
    MaxReplies = 1
    MaxRequests = 1
PROPERTY EveryRequestAnswered
CHECK_DEADLOCK FALSE
