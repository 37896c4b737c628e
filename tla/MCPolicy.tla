------------------------------- MODULE MCPolicy -------------------------------
(***************************************************************************)
(* Where packets go and which of them come in: the IP route policy         *)
(* ("routes") and the packet filter of a raw WireGuard profile ("filter"). *)
(* They share no state, so a behaviour is one of one of them (part) and    *)
(* the other stays as it began: their product would show nothing more.     *)
(***************************************************************************)
EXTENDS IPRoutes, WireGuardFilter, TLC

CONSTANT Parts  \* the parts a run is about

VARIABLE part

------------------------------------------------------------------------------
(* Two profiles with the same canonical target address; nested routes, one *)
(* of them advertised by both and partly in the second pool, and one in    *)
(* Tailscale's range.                                                      *)

CONSTANTS work, home, a, b, g, e1, f1, e2, f2

Narrow == {a}
Wide == {a, b}
Shared == {g}

MCProfiles == {work, home}
MCAddrs == {a, b, g, e1, f1, e2, f2}
MCPrefixes == {Narrow, Wide, Shared}
OldPool == {e1, f1}
NewPool == {b, e2, f2}
MCPools == {OldPool, NewPool}
MCCanonical == work :> a @@ home :> a
MCEffectiveIP ==
    OldPool :> (work :> e1 @@ home :> f1) @@ NewPool :> (work :> e2 @@ home :> f2)

Status(selfs, routes, targets) == [self : selfs, routes : routes, target : targets]

MCReports ==
    work :> Status({TRUE}, {{}, {Wide}, {Narrow, Wide}}, BOOLEAN)
    @@ home :> (Status({TRUE}, {{Wide, Shared}}, BOOLEAN)
                \cup Status({TRUE}, {{}}, {TRUE})
                \cup Status({FALSE}, {{Wide}}, {FALSE}))

MCReplacements == {[bindings |-> Narrow :> home @@ Wide :> work, accept |-> {home}]}
------------------------------------------------------------------------------
(* The filter: IPv4 is 0..7 and IPv6 is 8..9, with prefixes of two lengths *)
(* above a single address.                                                 *)

V4 == 0 .. 7
V6 == 8 .. 9
MCSpace == [f \in {4, 6} |-> IF f = 4 THEN V4 ELSE V6]
MCBlocks ==
    {V4, 0 .. 3, 4 .. 7, V6} \cup {{i, i + 1} : i \in {0, 2, 4, 6}} \cup {{i} : i \in 0 .. 9}

MCProtocols == [s \in {"tcp", "udp", "icmp", "6", "41"} |-> IF s = "6" THEN "tcp" ELSE s]

PeerSpec(name, key, addrs, routes, isExit, endpoint) ==
    [name |-> name, key |-> key, addrs |-> addrs, routes |-> routes, exit |-> isExit,
     endpoint |-> endpoint, psk |-> "none"]
Via(at, block) == [at |-> at, in |-> block]
Alice(routes, isExit) == PeerSpec("alice", "ka", {4}, routes, isExit, TRUE)
Bob(key, routes, isExit, endpoint) == PeerSpec("bob", key, {2}, routes, isExit, endpoint)

Sel(kind) == [kind |-> kind, of |-> "none"]
SelOf(kind, what) == [kind |-> kind, of |-> what]
To(proto, ports) == [proto |-> proto, ports |-> ports]
Grant(src, dst, ip) == [src |-> src, dst |-> dst, ip |-> ip]

Manifest(addrs, peers, grants) ==
    [addrs |-> addrs, peers |-> peers, grants |-> grants, private |-> "own", sound |-> TRUE]

\* Routes that move between peers, nest, are spelled by another address of the same
\* prefix, a rotated key, a lost endpoint, a second family, and what is refused.
MCManifests ==
    {Manifest({7}, <<Alice({Via(1, 0 .. 3)}, TRUE), Bob("kb", {Via(0, {0, 1})}, FALSE, TRUE)>>,
        {Grant({SelOf("peer", "alice"), SelOf("routes", "alice")}, {Sel("self")}, {To("6", <<1, 1>>)})}),
     Manifest({7}, <<Alice({Via(0, {0, 1})}, TRUE), Bob("kb", {Via(3, 0 .. 3)}, FALSE, FALSE)>>,
        {Grant({SelOf("routes", "bob"), SelOf("peer", "alice")}, {Sel("all")}, {To("bare", <<0, 1>>)})}),
     Manifest({7}, <<Bob("kc", {Via(3, 0 .. 3)}, TRUE, FALSE)>>,
        {Grant({Sel("all")}, {SelOf("prefix", 4 .. 7), Sel("internet")}, {To("*", "*")}),
         Grant({Sel("routes:*")}, {Sel("self")}, {To("udp", "*")})}),
     Manifest({7, 8}, <<Alice({Via(1, 0 .. 3)}, TRUE), Bob("kb", {Via(0, {0, 1})}, FALSE, TRUE)>>,
        {Grant({Sel("peer:*"), SelOf("prefix", {0, 1})}, {Sel("self")}, {To("icmp", "*")})}),
     Manifest({7}, <<Alice({Via(2, {2})}, TRUE), Bob("kb", {}, FALSE, TRUE)>>, {}),
     Manifest({7}, <<Alice({}, FALSE)>>,
        {Grant({SelOf("routes", "alice")}, {Sel("self")}, {To("*", "*")})}),
     Manifest({7}, <<Alice({}, FALSE)>>,
        {Grant({Sel("self")}, {Sel("self")}, {To("icmp", <<1, 1>>)})})}

MCPackets ==
    {q \in [key : {"ka", "kb", "kc"}, src : {0, 2, 3, 4, 5, 9}, dst : {7, 8},
            proto : {"tcp", "udp", "icmp"}, port : {1, 3}] : (q.src \in V4) = (q.dst \in V4)}

MCFlows == {[src |-> 7, dst |-> 2]}

------------------------------------------------------------------------------
PolicyInit ==
    /\ part \in Parts
    /\ Init /\ (part = "filter" => pool = OldPool)
    /\ FilterInit

PolicyNext ==
    /\ UNCHANGED part
    /\ \/ part = "routes" /\ Next /\ UNCHANGED filterVars
       \/ part = "filter" /\ FilterNext /\ UNCHANGED vars

PolicySpec == PolicyInit /\ [][PolicyNext]_<<part, vars, filterVars>>
=============================================================================
