--------------------------- MODULE WireGuardFilter ---------------------------
(***************************************************************************)
(* From a raw WireGuard manifest to the packets it lets in:                *)
(* src/wireguardcfg/config.go and filter.go normalise the manifest,        *)
(* src/wireguardfilter/filter.go compiles its grants, and                  *)
(* src/profile/wireguardengine.go writes the difference to the device,     *)
(* whose AllowedIPs decide which peer a source address belongs to.         *)
(* WireGuardApply has the daemon's side of an apply; here the device is    *)
(* written peer by peer, and packets pass between any two steps.           *)
(*                                                                         *)
(* A prefix is the block of addresses it covers, and as a manifest spells  *)
(* it an address within its block.  Sets stand for the sorted lists.       *)
(***************************************************************************)
EXTENDS Naturals, FiniteSets, Sequences

CONSTANTS Space,       \* the addresses of each family
          Blocks,      \* prefixes: nested or disjoint sets of addresses
          Unusable,    \* addresses that are unspecified or multicast
          ProtocolNames, \* each supported spelling of a protocol, and its name
          PortBearing, \* the protocols that have ports
          MaxPort,
          Manifests,   \* the manifests that are applied
          Packets,     \* inbound packets: [key, src, dst, proto, port]
          Flows,       \* outbound flows: [src, dst]
          Unset        \* no configuration, no exit address, no owner

Families == DOMAIN Space
FamilyOf(a) == CHOOSE f \in Families : a \in Space[f]
Default(f) == Space[f]
Defaults == {Default(f) : f \in Families}
FamilyOfBlock(b) == CHOOSE f \in Families : b \subseteq Space[f]

Addresses == UNION {Space[f] : f \in Families}

VARIABLES saved,      \* the configuration in state.json
          cfg,        \* the engine's configuration, Unset before it starts
          exit,       \* the selected exit address, or Unset
          shields,
          allowed,    \* the device: the key of the peer that owns each block
          policy,     \* the installed packet filter
          flows,      \* the flow state of the installed policy
          writing,    \* the apply or exit-node change under way, or NotWriting
          pending,    \* the policy ApplyWireGuard commits when it has reconciled,
                      \* or NoPending
          degraded,   \* an apply has not ended on its final policy
          mixed,      \* history: a failed write was followed by something other
                      \* than the reapply or restart that repairs it
          crossed     \* history: the flow state is of a restricted start whose policy
                      \* was committed after a change of exit node

filterVars ==
    <<saved, cfg, exit, shields, allowed, policy, flows, writing, pending, degraded, mixed, crossed>>

----------------------------------------------------------------------------
(* Normalize and normalizePeer: m.sound stands for what concerns one value *)
(* alone (version, labels, suffix, port, endpoints, keepalives, key files). *)

ConfigFamilies(addrs) == {FamilyOf(a) : a \in addrs}

NormalPeer(p) ==
    [key |-> p.key, addrs |-> p.addrs, routes |-> {r.in : r \in p.routes},
     exit |-> p.exit, psk |-> p.psk, endpoint |-> p.endpoint]

PeerAcceptable(p, families) ==
    /\ p.addrs \cap Unusable = {}
    /\ ConfigFamilies(p.addrs) \subseteq families
    /\ \A r \in p.routes :
          /\ r.in \notin Defaults
          /\ FamilyOfBlock(r.in) \in families
          /\ \A q \in p.routes : q.in = r.in => q = r

\* The AllowedIPs of one peer, the default routes aside.
PeerBlocks(p) == p.routes \cup {{a} : a \in p.addrs}

\* Peers must differ in name, key, addresses and AllowedIPs.
PeersDiffer(peers, addrs) ==
    \A i, j \in DOMAIN peers :
        LET p == NormalPeer(peers[i])
            q == NormalPeer(peers[j])
        IN /\ p.addrs \cap addrs = {}
           /\ i # j => /\ peers[i].name # peers[j].name
                       /\ p.key # q.key
                       /\ PeerBlocks(p) \cap PeerBlocks(q) = {}

----------------------------------------------------------------------------
(* normalizeGrant.  A selector is a record of its kind and argument.       *)

\* sourcePrefixHasPossibleOwner
HasPossibleOwner(b, peers) ==
    \E n \in DOMAIN peers :
        \/ peers[n].addrs \cap b # {}
        \/ peers[n].exit /\ \E a \in peers[n].addrs : FamilyOf(a) = FamilyOfBlock(b)
        \/ \E r \in peers[n].routes : r \cap b # {}

SelectorAcceptable(s, source, peers) ==
    CASE s.kind \in {"all", "peer:*", "routes:*"} -> TRUE
      [] s.kind \in {"self", "internet"} -> ~source
      [] s.kind = "peer" -> s.of \in DOMAIN peers
      [] s.kind = "routes" -> s.of \in DOMAIN peers /\ peers[s.of].routes # {}
      [] s.kind = "prefix" -> s.of \notin Defaults /\ (source => HasPossibleOwner(s.of, peers))

\* normalizePermission: a bare port stands for two permissions, and a protocol
\* goes by one name.
PermissionAcceptable(t) ==
    \/ t.proto = "*" /\ t.ports = "*"
    \/ t.proto = "bare" /\ t.ports # "*" /\ t.ports[1] <= t.ports[2] /\ t.ports[2] <= MaxPort
    \/ /\ t.proto \in DOMAIN ProtocolNames
       /\ t.ports # "*" => /\ ProtocolNames[t.proto] \in PortBearing
                           /\ t.ports[1] <= t.ports[2]
                           /\ t.ports[2] <= MaxPort

normalizePermission(t) ==
    CASE t.proto = "*" -> {t}
      [] t.proto = "bare" -> {[t EXCEPT !.proto = "tcp"], [t EXCEPT !.proto = "udp"]}
      [] OTHER -> {[t EXCEPT !.proto = ProtocolNames[@]]}

GrantAcceptable(g, peers) ==
    /\ g.src # {} /\ \A s \in g.src : SelectorAcceptable(s, TRUE, peers)
    /\ g.dst # {} /\ \A s \in g.dst : SelectorAcceptable(s, FALSE, peers)
    /\ g.ip # {} /\ \A t \in g.ip : PermissionAcceptable(t)

normalizeGrant(g) == [g EXCEPT !.ip = UNION {normalizePermission(t) : t \in g.ip}]

Normalize(m) ==
    [addrs |-> m.addrs, private |-> m.private,
     peers |-> [n \in {m.peers[i].name : i \in DOMAIN m.peers} |->
                   NormalPeer(m.peers[CHOOSE i \in DOMAIN m.peers : m.peers[i].name = n])],
     grants |-> {normalizeGrant(g) : g \in m.grants}]

Acceptable(m) ==
    LET families == ConfigFamilies(m.addrs) IN
    /\ m.sound
    /\ m.addrs # {} /\ m.addrs \cap Unusable = {}
    /\ Cardinality(families) = Cardinality(m.addrs)
    /\ \A i \in DOMAIN m.peers : PeerAcceptable(m.peers[i], families)
    /\ PeersDiffer(m.peers, m.addrs)
    /\ \A g \in m.grants : GrantAcceptable(g, Normalize(m).peers)

----------------------------------------------------------------------------
(* What is assumed of the constants: families without common addresses and *)
(* of several each; prefixes around one address, the longest of which is   *)
(* in all others; manifests as the parser delivers them; IP packets.       *)

SelectorKinds == {"all", "peer:*", "routes:*", "self", "internet", "peer", "routes", "prefix"}

Parsed(m) ==
    /\ Normalize(m) # Unset
    /\ m.addrs \subseteq Addresses
    /\ \A i \in DOMAIN m.peers :
          m.peers[i].addrs \subseteq Addresses /\ \A r \in m.peers[i].routes : r.in \in Blocks
    /\ \A g \in m.grants :
          DOMAIN g = {"src", "dst", "ip"} /\ \A s \in g.src : s.kind \in SelectorKinds

ASSUME FilterAssumption ==
    /\ \A f \in Families : Default(f) \in Blocks /\ \A a \in Space[f] : {a} \in Blocks \ Defaults
    /\ \A e, f \in Families : e = f \/ Space[e] \cap Space[f] = {}
    /\ \A b \in Blocks : b # {} /\ \E f \in Families : b \subseteq Space[f]
    /\ \A a \in Addresses : \A S \in SUBSET {b \in Blocks : a \in b} :
          S # {} => \E b \in S : \A c \in S : b \subseteq c
    /\ Unset \notin Addresses
    /\ PortBearing \subseteq {ProtocolNames[s] : s \in DOMAIN ProtocolNames}
    /\ \A m \in Manifests : Parsed(m)
    /\ \A p \in Packets : /\ p.key # Unset /\ p.port \in 0 .. MaxPort
                          /\ \E f \in Families : p.src \in Space[f] /\ p.dst \in Space[f]

----------------------------------------------------------------------------
(* buildOwnership: what each peer owns of what it declares.                *)

\* validExitSelection, and the peer it selects.
ValidExit(c, ip) ==
    IF \E n \in DOMAIN c.peers : c.peers[n].exit /\ ip \in c.peers[n].addrs THEN ip ELSE Unset

Declared(c, ip) ==
    UNION {{[peer |-> n, kind |-> "peer", block |-> {a}] : a \in c.peers[n].addrs}
           \cup {[peer |-> n, kind |-> "routes", block |-> r] : r \in c.peers[n].routes}
           \cup {[peer |-> n, kind |-> "internet", block |-> Default(f)] :
                    f \in {f \in ConfigFamilies(c.addrs) : c.peers[n].exit /\ ip \in c.peers[n].addrs}} :
           n \in DOMAIN c.peers}

\* A block without the longer blocks of other peers, and a route without direct
\* addresses.  Mutant: overlaps stay with every peer that declares them.
EffectiveBlockDeclared(item, declared) == item.block

EffectiveBlock(item, declared) ==
    {a \in item.block :
        \A d \in declared :
            /\ d.peer # item.peer /\ d.block \subseteq item.block /\ d.block # item.block
                  => a \notin d.block
            /\ item.kind = "routes" /\ d.kind = "peer" => a \notin d.block}

\* The addresses the declared items of some kinds and peers own.
Owned(declared, kinds, peers) ==
    UNION {EffectiveBlock(item, declared) : item \in {d \in declared : d.kind \in kinds /\ d.peer \in peers}}

----------------------------------------------------------------------------
(* Compile.                                                                *)

resolveSource(s, c, declared) ==
    CASE s.kind = "all" -> Owned(declared, {"peer", "routes", "internet"}, DOMAIN c.peers)
      [] s.kind = "peer:*" -> Owned(declared, {"peer"}, DOMAIN c.peers)
      [] s.kind = "peer" -> Owned(declared, {"peer"}, {s.of})
      [] s.kind = "routes:*" -> Owned(declared, {"routes"}, DOMAIN c.peers)
      [] s.kind = "routes" -> Owned(declared, {"routes"}, {s.of})
      [] s.kind = "prefix" ->
            s.of \cap Owned(declared, {"peer", "routes", "internet"}, DOMAIN c.peers)

\* Only this host's own addresses can be delivered to.
resolveDestination(s, c) ==
    CASE s.kind \in {"self", "all"} -> c.addrs
      [] s.kind = "prefix" -> s.of \cap c.addrs
      [] OTHER -> {}

compileMatches(c, declared) ==
    UNION {{[srcs |-> UNION {resolveSource(s, c, declared) : s \in g.src},
             dsts |-> UNION {resolveDestination(s, c) : s \in g.dst},
             proto |-> t.proto,
             ports |-> IF t.ports = "*" THEN 0 .. MaxPort ELSE t.ports[1] .. t.ports[2]] :
                t \in g.ip} : g \in c.grants}

Compile(c, ip, restrictive) ==
    [cfg |-> c, exit |-> ip, local |-> c.addrs, open |-> ~restrictive,
     matches |-> IF restrictive THEN {} ELSE compileMatches(c, Declared(c, ip))]

\* Device.Write: what the upstream filter lets in as new, with the policy of that
\* moment: an echo request needs a match of its addresses only.
Matched(p) ==
    /\ p.dst \in policy.local
    /\ \E m \in policy.matches :
          /\ p.src \in m.srcs
          /\ p.dst \in m.dsts
          /\ p.proto # "icmp" => m.proto \in {"*", p.proto} /\ p.port \in m.ports

----------------------------------------------------------------------------
(* The device.                                                             *)

wgAllowedIPs(p, ip, families) ==
    PeerBlocks(p) \cup IF ip \in p.addrs THEN {Default(f) : f \in families} ELSE {}

\* What IpcSet does with one peer (external): the peer's blocks are replaced, and
\* a block has one owner.
WritePeer(dev, p, ip, families) ==
    LET own == wgAllowedIPs(p, ip, families)
        others == {b \in DOMAIN dev : dev[b] # p.key}
    IN [b \in own \cup others |-> IF b \in own THEN p.key ELSE dev[b]]

RemovePeer(dev, key) == [b \in {c \in DOMAIN dev : dev[c] # key} |-> dev[b]]

\* The owner of a source address: the longest block decides.
Owner(dev, a) ==
    LET covering == {b \in DOMAIN dev : a \in b} IN
    IF covering = {} THEN Unset
    ELSE dev[CHOOSE b \in covering : \A c \in covering : b \subseteq c]

\* fullWGConfig, on a device without peers.
Full(c, ip) ==
    LET blocks(n) == wgAllowedIPs(c.peers[n], ip, ConfigFamilies(c.addrs))
    IN [b \in UNION {blocks(n) : n \in DOMAIN c.peers} |->
           c.peers[CHOOSE n \in DOMAIN c.peers : b \in blocks(n)].key]

NoBlocks == [b \in {} |-> Unset]

Keys(c) == {c.peers[n].key : n \in DOMAIN c.peers}
PeerOf(c, key) == c.peers[CHOOSE n \in DOMAIN c.peers : c.peers[n].key = key]
NameOf(c, key) == CHOOSE n \in DOMAIN c.peers : c.peers[n].key = key

\* diffWGConfig: peers whose endpoint is cleared are removed first, peers that
\* are new or differ are written, and missing peers are removed last.
Cleared(old, new) ==
    {k \in Keys(old) \cap Keys(new) : PeerOf(old, k).endpoint /\ ~PeerOf(new, k).endpoint}

\* Mutant: peers are compared by their addresses only.
WrittenByAddress(old, oldExit, new, newExit) ==
    {k \in Keys(new) :
        \/ k \notin Keys(old)
        \/ k \in Cleared(old, new)
        \/ PeerOf(old, k).addrs # PeerOf(new, k).addrs
        \/ (oldExit \in PeerOf(old, k).addrs) # (newExit \in PeerOf(new, k).addrs)}

Written(old, oldExit, new, newExit) ==
    {k \in Keys(new) :
        \/ k \notin Keys(old)
        \/ k \in Cleared(old, new)
        \/ PeerOf(old, k) # PeerOf(new, k) \/ NameOf(old, k) # NameOf(new, k)
        \/ (oldExit \in PeerOf(old, k).addrs) # (newExit \in PeerOf(new, k).addrs)}

\* sameWGFilterIdentity
Identity(c, ip) ==
    [addrs |-> c.addrs, exit |-> ip, private |-> c.private,
     peers |-> [n \in DOMAIN c.peers |->
                   [key |-> c.peers[n].key, exit |-> c.peers[n].exit, psk |-> c.peers[n].psk,
                    addrs |-> c.peers[n].addrs, routes |-> c.peers[n].routes]]]

\* An apply that keeps the identity keeps the flows.  Mutant: every apply does.
SharesAlways(new, ip) == TRUE

Shares(new, ip) == Identity(new, ip) = Identity(cfg, exit)

----------------------------------------------------------------------------
(* The engine.                                                             *)

NotWriting == [op |-> "none"]
NoPending == [by |-> "none"]

NoPolicy == [cfg |-> Unset, exit |-> Unset, local |-> {}, open |-> FALSE, matches |-> {}]

FilterInit ==
    /\ saved = Unset
    /\ cfg = Unset
    /\ exit = Unset
    /\ shields = FALSE
    /\ allowed = NoBlocks
    /\ policy = NoPolicy
    /\ flows = {}
    /\ writing = NotWriting
    /\ pending = NoPending
    /\ degraded = FALSE
    /\ mixed = FALSE
    /\ crossed = FALSE

\* Install replaces the policy; one that was compiled to share the flow state
\* keeps it.
Install(p, share) ==
    /\ policy' = p
    /\ flows' = IF share THEN flows ELSE {}

\* NewWireGuardEngine and Start: a restricted start, by an apply, keeps the
\* transition and leaves the policy, which shares its flow state, pending.
StartEngine(restricted) ==
    /\ cfg = Unset
    /\ saved # Unset
    /\ cfg' = saved
    /\ allowed' = Full(saved, Unset)
    /\ Install(Compile(saved, Unset, restricted \/ shields), FALSE)
    /\ degraded' = restricted
    /\ pending' = IF restricted
                  THEN [by |-> "start", policy |-> Compile(saved, Unset, shields),
                        transition |-> Compile(saved, Unset, TRUE), flows |-> {}]
                  ELSE NoPending
    /\ UNCHANGED <<saved, exit, shields, writing, mixed, crossed>>

\* Close, or the end of the daemon.
CloseEngine ==
    /\ cfg # Unset
    /\ cfg' = Unset
    /\ exit' = Unset
    /\ allowed' = NoBlocks
    /\ Install(NoPolicy, FALSE)
    /\ writing' = NotWriting
    /\ pending' = NoPending
    /\ degraded' = FALSE
    /\ mixed' = FALSE
    /\ crossed' = FALSE
    /\ UNCHANGED <<saved, shields>>

\* No operation of the daemon is under way.
Free == writing = NotWriting /\ pending = NoPending

\* An accepted manifest is saved, staged when the engine runs, and its restrictive
\* transition installed.  A manifest that is refused changes nothing, and neither
\* does one that changes nothing on an engine that is not degraded.
Apply(m) ==
    /\ Free
    /\ Acceptable(m)
    /\ LET new == Normalize(m)
           ip == ValidExit(new, exit)
       IN /\ saved' = new
          /\ IF cfg = Unset \/ (new = cfg /\ ~degraded)
                THEN UNCHANGED <<policy, flows, writing, degraded, mixed, crossed>>
                ELSE /\ Install(Compile(new, ip, TRUE), Shares(new, ip))
                     /\ degraded' = TRUE
                     /\ mixed' = (mixed \/ (degraded /\ new # saved))
                     /\ crossed' = (crossed /\ Shares(new, ip))
                     /\ writing' = [op |-> "apply", cfg |-> new, exit |-> ip,
                                   first |-> Cleared(cfg, new),
                                   write |-> Written(cfg, exit, new, ip),
                                   last |-> Keys(cfg) \ Keys(new)]
    /\ UNCHANGED <<cfg, exit, shields, allowed, pending>>

\* SetExitNodeIP, from a reconciliation of its own or from the one that an apply
\* waits for: the transition starts a flow state of its own.
SetExitNodeIP(ip) ==
    /\ cfg # Unset
    /\ writing = NotWriting
    /\ pending # NoPending => policy = pending.transition   \* once in a reconciliation
    /\ ip # exit
    /\ ip # Unset => ValidExit(cfg, ip) = ip
    /\ writing' = [op |-> "exit", cfg |-> cfg, exit |-> ip, first |-> {},
                  write |-> Written(cfg, exit, cfg, ip), last |-> {},
                  old |-> policy, flows |-> flows]
    /\ Install(Compile(cfg, ip, TRUE), FALSE)
    /\ pending' = IF pending = NoPending THEN NoPending ELSE [pending EXCEPT !.flows = flows]
    /\ mixed' = (mixed \/ (degraded /\ pending = NoPending))
    /\ UNCHANGED <<saved, cfg, exit, shields, allowed, degraded, crossed>>

\* One peer of the staged UAPI request; map iteration gives the order.
WriteStep ==
    /\ writing # NotWriting
    /\ \/ \E k \in writing.first :
             /\ allowed' = RemovePeer(allowed, k)
             /\ writing' = [writing EXCEPT !.first = @ \ {k}]
       \/ \E k \in writing.write :
             /\ writing.first = {}
             /\ allowed' = WritePeer(allowed, PeerOf(writing.cfg, k), writing.exit,
                                     ConfigFamilies(writing.cfg.addrs))
             /\ writing' = [writing EXCEPT !.write = @ \ {k}]
       \/ \E k \in writing.last :
             /\ writing.first = {} /\ writing.write = {}
             /\ allowed' = RemovePeer(allowed, k)
             /\ writing' = [writing EXCEPT !.last = @ \ {k}]
    /\ UNCHANGED <<saved, cfg, exit, shields, policy, flows, pending, degraded, mixed, crossed>>

WrittenOut == writing # NotWriting /\ writing.first \cup writing.write \cup writing.last = {}

\* The request of an apply has been written: the engine takes the configuration
\* over, and the final policy, which shares the transition's flows, waits for the
\* reconciliation.
Applied ==
    /\ WrittenOut
    /\ writing.op = "apply"
    /\ cfg' = writing.cfg
    /\ exit' = writing.exit
    /\ pending' = [by |-> "apply", policy |-> Compile(writing.cfg, writing.exit, shields),
                   transition |-> policy, flows |-> {}]
    /\ writing' = NotWriting
    /\ UNCHANGED <<saved, shields, allowed, policy, flows, degraded, mixed, crossed>>

\* The request of an exit-node change has been written.
ExitNodeSet ==
    /\ WrittenOut
    /\ writing.op = "exit"
    /\ exit' = writing.exit
    /\ Install(Compile(cfg, writing.exit, shields), TRUE)
    /\ writing' = NotWriting
    /\ crossed' = FALSE
    /\ UNCHANGED <<saved, cfg, shields, allowed, pending, degraded, mixed>>

\* WireGuardApply.Commit: a filter that is not the transition any more is left alone,
\* and the apply fails.
Commit ==
    /\ writing = NotWriting
    /\ pending.by = "apply"
    /\ IF policy = pending.transition
       THEN Install(pending.policy, TRUE) /\ degraded' = FALSE
       ELSE UNCHANGED <<policy, flows, degraded>>
    /\ pending' = NoPending
    /\ UNCHANGED <<saved, cfg, exit, shields, allowed, writing, mixed, crossed>>

\* CommitStartPolicy: the policy of the start, with its flow state, whatever the
\* reconciliation has installed since.
CommitStartPolicy ==
    /\ writing = NotWriting
    /\ pending.by = "start"
    /\ policy' = pending.policy
    /\ flows' = IF policy = pending.transition THEN flows ELSE pending.flows
    /\ degraded' = FALSE
    /\ crossed' = (exit # Unset)
    /\ pending' = NoPending
    /\ UNCHANGED <<saved, cfg, exit, shields, allowed, writing, mixed>>

\* The reconciliation fails, and nobody commits.
ReconcileFails ==
    /\ writing = NotWriting
    /\ pending # NoPending
    /\ pending' = NoPending
    /\ UNCHANGED <<saved, cfg, exit, shields, allowed, policy, flows, writing, degraded, mixed, crossed>>

\* The request fails on the way: an apply stays on its transition; an exit-node
\* change goes back to the full old configuration and the old policy, unless
\* that fails too, and an apply that waits for it fails with it.
WriteFails ==
    /\ writing # NotWriting
    /\ writing' = NotWriting
    /\ pending' = NoPending
    /\ \/ UNCHANGED <<allowed, policy, flows>> /\ mixed' = (mixed \/ writing.op = "exit")
       \/ /\ writing.op = "exit"
          /\ allowed' = Full(cfg, exit)
          /\ policy' = writing.old
          /\ flows' = writing.flows
          /\ UNCHANGED mixed
    /\ UNCHANGED <<saved, cfg, exit, shields, degraded, crossed>>

\* PrepareShieldsUp and its commit: one replacement that shares the flows.
SetShieldsUp(b) ==
    /\ Free
    /\ shields # b
    /\ shields' = b
    /\ IF cfg = Unset THEN UNCHANGED <<policy, flows, mixed>>
       ELSE /\ Install(Compile(cfg, exit, b), TRUE)
            /\ mixed' = (mixed \/ degraded)
    /\ UNCHANGED <<saved, cfg, exit, allowed, writing, pending, degraded, crossed>>

\* Device.Read: the host opens a flow, and the installed policy remembers it.
DeviceRead(f) ==
    /\ f.src \in policy.local
    /\ flows' = flows \cup {[flow |-> f, by |-> Identity(policy.cfg, policy.exit)]}
    /\ UNCHANGED <<saved, cfg, exit, shields, allowed, policy, writing, pending, degraded, mixed, crossed>>

FilterNext ==
    \/ \E b \in BOOLEAN : StartEngine(b)
    \/ CloseEngine
    \/ \E m \in Manifests : Apply(m)
    \/ \E ip \in Addresses \cup {Unset} : SetExitNodeIP(ip)
    \/ WriteStep
    \/ Applied
    \/ ExitNodeSet
    \/ Commit
    \/ CommitStartPolicy
    \/ ReconcileFails
    \/ WriteFails
    \/ \E b \in BOOLEAN : SetShieldsUp(b)
    \/ \E f \in Flows : DeviceRead(f)

FilterSpec == FilterInit /\ [][FilterNext]_filterVars

----------------------------------------------------------------------------
(* Properties.                                                             *)

\* What docs/wireguard.md says of the sender of a packet: a selector names the
\* peer that sent it, by its direct addresses or by the rest of its routes.
Names(s, key, a) ==
    LET c == policy.cfg
        direct == UNION {c.peers[n].addrs : n \in DOMAIN c.peers}
        sender == {n \in DOMAIN c.peers : c.peers[n].key = key}
    IN CASE s.kind = "all" -> TRUE
         [] s.kind = "prefix" -> a \in s.of
         [] s.kind \in {"peer:*", "peer"} ->
               \E n \in sender : a \in c.peers[n].addrs /\ (s.kind = "peer" => n = s.of)
         [] s.kind \in {"routes:*", "routes"} ->
               \E n \in sender :
                  /\ a \in (UNION c.peers[n].routes) \ direct
                  /\ s.kind = "routes" => n = s.of

Granted(p) ==
    \E g \in policy.cfg.grants :
        /\ \E s \in g.src : Names(s, p.key, p.src)
        /\ p.dst \in policy.cfg.addrs
        /\ \E s \in g.dst : s.kind \in {"self", "all"} \/ (s.kind = "prefix" /\ p.dst \in s.of)
        /\ \/ p.proto = "icmp"
           \/ \E t \in g.ip : /\ t.proto \in {"*", p.proto}
                              /\ t.ports # "*" => p.port \in t.ports[1] .. t.ports[2]

\* The one policy that is installed for another exit node than the engine's: that of
\* a restricted start, committed after the reconciliation has selected one.
StartedWithoutExit == exit # Unset /\ policy = Compile(cfg, Unset, FALSE)

\* Once grants are in force, a packet the device accepts from a peer opens a
\* connection exactly when a grant names that peer for it: the ownership the
\* filter is compiled from is the ownership the device was brought to, one
\* difference at a time, through moved routes, rotated keys, retried applies and
\* changes of exit node, also the one in the midst of an apply (PrepareApply, Commit,
\* SetExitNodeIP); only CommitStartPolicy after such a change is excepted.
GrantsFollowSender ==
    policy.open /\ ~mixed /\ ~StartedWithoutExit =>
        \A p \in Packets : Owner(allowed, p.src) = p.key => (Matched(p) <=> Granted(p))

\* While grants are in force or shields are up, the device holds exactly the
\* blocks of the configuration, default routes aside, whatever was written,
\* failed and written again before.
RoutesConverge ==
    cfg # Unset /\ writing = NotWriting /\ ~degraded /\ ~mixed =>
        \A b \in Blocks \ Defaults :
            \/ b \notin DOMAIN allowed \cup DOMAIN Full(cfg, exit)
            \/ /\ b \in DOMAIN allowed \cap DOMAIN Full(cfg, exit)
               /\ allowed[b] = Full(cfg, exit)[b]

\* docs/wireguard.md: "Reapplying the file reconciles peers, keys, endpoints,
\* keepalives, addresses, routes, and packet policy on the running WireGuard
\* device": the default routes of the selected exit peer follow, too.
DeviceConverges ==
    cfg # Unset /\ writing = NotWriting /\ ~degraded /\ ~mixed => allowed = Full(cfg, exit)

\* A flow is remembered only by policies of the identity (addresses, keys, peers,
\* exit) under which the host opened it, so that a reply is never let in because
\* of what another peer was once sent; only the flow state that CommitStartPolicy
\* brings back after a change of exit node is excepted (PrepareApply, SetExitNodeIP).
FlowsFollowIdentity ==
    ~mixed /\ ~crossed => \A f \in flows : f.by = Identity(policy.cfg, policy.exit)
=============================================================================
