SPECIFICATION DNSSpec
CONSTANTS
    work = work
    home = home
    r1 = r1
    r2 = r2
    None = None
    Profiles = {work, home}
    Lists = {{r1}, {r2}}
    Ports = {1, 2, 3, 4, 5, 6, 7, 8}
    Domains <- MCDomains
    Names <- MCNames
    Reports <- MCReports
    Requests <- MCRequests
    SearchSets <- MCSearchSets
    MaxEdits = 2
    MaxFaults = 1
    Queries = {u1, u2}
    Conns = {c1}
    Resolvers = 2
    Slots = 1
    Attempts = 2
    Streams = {c1}
    Endpoints = {"e1"}
    Datagrams = {"d1", "d2"}
    QueueSize = 1
    MaxSets = 1
INVARIANTS
    NamesFollowPolicy
    ForwardersServe
    DoneMeansAnswered
    CallsBounded
    QuietWhenDestroyed
PROPERTIES
    BindingsAreKept
    ShutdownsEnd
CHECK_DEADLOCK FALSE
