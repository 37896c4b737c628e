SPECIFICATION PolicySpec
CONSTANTS
    Parts = {"routes", "filter"}
    None = None
    work = work
    home = home
    a = a
    b = b
    g = g
    e1 = e1
    f1 = f1
    e2 = e2
    f2 = f2
    Profiles <- MCProfiles
    Addrs <- MCAddrs
    Prefixes <- MCPrefixes
    Pools <- MCPools
    Tailnet = {g}
    Canonical <- MCCanonical
    EffectiveIP <- MCEffectiveIP
    ExitProfiles = {work}
    Reports <- MCReports
    Replacements <- MCReplacements
    Space <- MCSpace
    Blocks <- MCBlocks
    Unusable = {}
    ProtocolNames <- MCProtocols
    PortBearing = {"tcp", "udp"}
    MaxPort = 3
    Manifests <- MCManifests
    Packets <- MCPackets
    Flows <- MCFlows
    Unset = Unset
INVARIANTS
    PacketsFollowPolicy
    BothWaysAgree
    OnePlan
    RoutesConverge
    GrantsFollowSender
    FlowsFollowIdentity
PROPERTIES
    NoFailover
