SPECIFICATION Spec
CONSTANTS
    work = work
    home = home
    NoAddr = NoAddr
    NoProfile = NoProfile
    Targets <- MCTargets
    Profiles <- MCProfiles
    ProfileOf <- MCProfileOf
    Pools <- MCPools
    DnsOffset = 2
    Retention = 1
INVARIANTS
    LeasesExclusive
    AddressesReachTheirTarget
PROPERTIES
    ReclaimedOnlyWhenQuiet
    HostAddressesStable
