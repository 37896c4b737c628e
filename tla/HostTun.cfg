SPECIFICATION HostSpec
CONSTANTS
    a1 = a1
    a2 = a2
    wide = wide
    p = p
    praw = praw
    o = o
    e = e
    h1 = h1
    h2 = h2
    Gateways = {g1, g2}
    NoGateway = NoGateway
    Addrs = {a1, a2, wide}
    HostAddrs = {a1, a2}
    Dsts = {p, o, e, h1, h2, praw}
    Masked <- MCMasked
    FamilyOf <- MCFamilyOf
    PrefixOf <- MCPrefixOf
    Configs <- MCConfigs
    MaxFaults = 1
    MaxMeddles = 1
INVARIANTS
    TrafficKeepsItsPath
    CleanSucceeds
    NothingLeft
PROPERTIES
    ImplementsHost
CHECK_DEADLOCK FALSE
