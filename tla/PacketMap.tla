------------------------------ MODULE PacketMap ------------------------------
(***************************************************************************)
(* The packet mapper (packetmap/packetmap.go): which profile a packet of   *)
(* the host enters, with which destination, and which source address the   *)
(* host sees on a packet that comes back.  One address family.             *)
(*                                                                         *)
(* A prefix is the set of its addresses.  Two prefixes are nested or       *)
(* disjoint, so the longest prefix that matches an address is the smallest *)
(* set that contains it.  The host's own address is not modelled: there is *)
(* one, and what a profile calls it is present or absent ("sources").      *)
(*                                                                         *)
(* A table is a record of                                                  *)
(*   destinations  effective address -> profile and canonical address      *)
(*   exact, imported, exit  prefix -> [profile, active]                    *)
(*   sources       the profiles with a self address of this family         *)
(*   inbound       profile -> (canonical address -> effective address)     *)
(***************************************************************************)

CONSTANT None

(* The rejected packet. *)
Dropped == [profile |-> None, canonical |-> None, preserve |-> FALSE]

(* A route that selects no profile: bindings that wait, ambiguous imports
   and retained leases are barriers of this kind. *)
Barrier(p) == [profile |-> p, active |-> FALSE]

Covering(routes, ip) == {x \in DOMAIN routes : ip \in x}

(* Longest-prefix match in a nonempty set of covering prefixes. *)
Longest(prefixes) ==
    CHOOSE x \in prefixes : \A y \in prefixes : x \subseteq y

LookupSubnet(routes, ip) == routes[Longest(Covering(routes, ip))]

Matches(routes, ip) == Covering(routes, ip) # {}

(* The first tier with a match decides, also when its route is a barrier. *)
SubnetRoute(table, ip) ==
    IF Matches(table.exact, ip) THEN LookupSubnet(table.exact, ip)
    ELSE IF Matches(table.imported, ip) THEN LookupSubnet(table.imported, ip)
    ELSE IF Matches(table.exit, ip) THEN LookupSubnet(table.exit, ip)
    ELSE Barrier(None)

Usable(route) == route.active /\ route.profile # None

OutboundDestination(table, ip) ==
    IF ip \in DOMAIN table.destinations
    THEN [profile |-> table.destinations[ip].profile,
          canonical |-> table.destinations[ip].canonical,
          preserve |-> FALSE]
    ELSE LET route == SubnetRoute(table, ip) IN
         IF Usable(route)
         THEN [profile |-> route.profile, canonical |-> ip, preserve |-> TRUE]
         ELSE Dropped

(* Mapper.Outbound: the profile a packet to ip enters and its destination
   there. *)
Outbound(table, ip) ==
    LET d == OutboundDestination(table, ip) IN
    IF d.profile \in table.sources THEN d ELSE Dropped

(* Mutant: the profile of the route is not compared. *)
InboundUnpinned(table, p, src) ==
    IF p \notin table.sources THEN None
    ELSE IF src \in DOMAIN table.inbound[p] THEN table.inbound[p][src]
    ELSE IF Usable(SubnetRoute(table, src)) THEN src ELSE None

(* Mapper.Inbound: the source the host sees on a packet that profile p
   delivers with source src, or None when the packet is rejected. *)
Inbound(table, p, src) ==
    IF p \notin table.sources THEN None
    ELSE IF src \in DOMAIN table.inbound[p] THEN table.inbound[p][src]
    ELSE LET route == SubnetRoute(table, src) IN
         IF Usable(route) /\ route.profile = p THEN src ELSE None
=============================================================================
