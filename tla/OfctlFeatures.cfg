SPECIFICATION Spec
CONSTANTS
    c1 = c1
    c2 = c2
    d1 = d1
    Conns = {c1, c2}
    Modern = {c2}
    IdOf <- MCIdOf
    Clients = {u1}
    Classes = {"features"}
    Asked <- MCAsked
    XidStart <- MCXidStart
    MaxReplies = 1
    MaxRequests = 1
INVARIANT RegistryExact
CHECK_DEADLOCK FALSE
