------------------------------ MODULE MCHostTun ------------------------------
(***************************************************************************)
(* The host TUN's configuration on Linux and on macOS, on a small host.    *)
(***************************************************************************)
EXTENDS HostSystems

CONSTANTS a1, a2,          \* the host's addresses before and after a renumbering
          wide,            \* not a host prefix
          p, praw,         \* a peer's route, and the same not masked
          o,               \* the optional service route
          e,               \* half of a split default
          h1, h2           \* the prefixes of a1 and a2

MCMasked == [d \in Dsts |-> IF d = praw THEN p ELSE d]
MCPrefixOf == [a \in Addrs |-> IF a = a1 THEN h1 ELSE h2]
MCFamilyOf == [x \in Addrs \cup Dsts |-> 4]

PeerRoute(d, a) == [dst |-> d, src |-> a, exit |-> FALSE, opt |-> FALSE]
ServiceRoute(a) == [dst |-> o, src |-> a, exit |-> FALSE, opt |-> TRUE]
ExitRoute(a) == [dst |-> e, src |-> a, exit |-> TRUE, opt |-> FALSE]

\* Two configurations of one address, one after a renumbering with an exit node,
\* and two that Configure refuses.
MCConfigs ==
    {[addrs |-> {a1}, routes |-> {PeerRoute(p, a1), ServiceRoute(a1)}],
     [addrs |-> {a1}, routes |-> {PeerRoute(p, a1), ExitRoute(a1)}],
     [addrs |-> {a2}, routes |-> {PeerRoute(praw, a2), ServiceRoute(a2), ExitRoute(a2)}],
     [addrs |-> {a1}, routes |-> {PeerRoute(p, a2)}],
     [addrs |-> {a1, wide}, routes |-> {}]}
=============================================================================
