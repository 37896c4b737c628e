SPECIFICATION Spec
CONSTANTS
    alice = alice
    bob = bob
    x1 = x1
    x2 = x2
    x3 = x3
    None = None
    Peers <- MCPeers
    Configs <- MCConfigs
    ExitPeers = {alice}
    ShieldRequests = {}
    SecretFiles = {x1, x2, x3}
    Faults = {}
INVARIANTS
    BootCompletes
CHECK_DEADLOCK FALSE
