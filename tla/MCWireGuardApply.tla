-------------------------- MODULE MCWireGuardApply --------------------------
EXTENDS WireGuardApply, TLC

CONSTANTS alice, bob,      \* peers
          x1, x2, x3       \* names of secret files, interchangeable

MCPeers == {alice, bob}

\* Every pair differs by an added peer, a removed peer, or both.
MCConfigs == {{alice}, {bob}, {alice, bob}}

SecretFileSymmetry == Permutations({x1, x2, x3})
=============================================================================
