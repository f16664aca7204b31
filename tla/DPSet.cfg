SPECIFICATION Spec
CONSTANTS
    c1 = c1
    c2 = c2
    d1 = d1
    Conns = {c1, c2}
    Dpids = {d1}
    DpidOf <- MCDpidOf
    Versions <- MCVersions
    Supported <- MCSupported
    SwitchHello <- MCSwitchHello
    PortNos = {1, 2}
    PortAttrs = {0, 1}
    InitPorts <- MCInitPorts
    MaxChanges = 2
INVARIANTS TypeOK VersionAgreed RegistryExact PortsInSync AnnouncementsAlternate
CHECK_DEADLOCK FALSE
