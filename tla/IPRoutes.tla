------------------------------ MODULE IPRoutes ------------------------------
(***************************************************************************)
(* IP route policy: the daemon-wide bindings, the accept-all flags and the *)
(* exit node that clients change (cmd/tailmixd/policyapi.go), the plan a   *)
(* reconciliation builds from them and from the engines' statuses          *)
(* (routingpolicy/policy.go, tunConfigWithPolicy in cmd/tailmixd/main.go), *)
(* and where packets of the TUN mode (PacketMap) and connections of the    *)
(* SOCKS mode (socksproxy/router.go) then go.                              *)
(*                                                                         *)
(* A profile that is not running, disabled or removed reports no status,   *)
(* which is None here.  Every profile has at most one target; its leases   *)
(* and their addresses are the matter of EffectiveLeases, here each target *)
(* has one fixed effective address in every pool.  The state of the policy *)
(* determines the plan, so only whether the plan of the present state is   *)
(* in force is recorded; which older plan a failed reconciliation leaves   *)
(* in force is the matter of Supervisor.                                   *)
(***************************************************************************)
EXTENDS Naturals, FiniteSets, PacketMap

CONSTANTS
    Profiles,
    Addrs,         \* the addresses of the family
    Prefixes,      \* what can be advertised and bound, without the default route
    Pools,         \* the effective pools the daemon may be started with
    Tailnet,       \* Tailscale's own ranges
    Canonical,     \* profile -> canonical address of its target
    EffectiveIP,   \* pool -> profile -> address of the target in that pool
    ExitProfiles,  \* the profiles that offer an exit node
    Reports,       \* profile -> statuses it may report while it runs
    Replacements   \* the policies of ReplaceIPRoutes requests

ASSUME RoutesAssumption ==
    /\ None \notin Profiles \cup Addrs
    /\ IsFiniteSet(Profiles)
    /\ Prefixes \subseteq (SUBSET Addrs) \ {{}, Addrs}
    /\ \A ip \in Addrs : \A S \in SUBSET {x \in Prefixes : ip \in x} :
          S # {} => \E x \in S : \A y \in S : x \subseteq y
    /\ Pools \subseteq SUBSET Addrs
    /\ Tailnet \subseteq Addrs
    /\ Canonical \in [Profiles -> Addrs]
    /\ EffectiveIP \in [Pools -> [Profiles -> Addrs]]
    /\ \A q \in Pools : \A p, r \in Profiles :
          /\ EffectiveIP[q][p] \in q
          /\ EffectiveIP[q][p] = EffectiveIP[q][r] => p = r
    /\ ExitProfiles \subseteq Profiles
    /\ \A p \in Profiles :
          Reports[p] \subseteq [self : BOOLEAN, routes : SUBSET Prefixes, target : BOOLEAN]
    /\ \A r \in Replacements :
          /\ r.accept \subseteq Profiles
          /\ DOMAIN r.bindings \subseteq Prefixes
          /\ \A x \in DOMAIN r.bindings : r.bindings[x] \in Profiles

VARIABLES
    bindings,   \* IPRouteBindings: prefix -> profile, for the bound prefixes
    accept,     \* the profiles with AcceptAllRoutes
    exitNode,   \* the profile of ExitNode, or None
    pool,       \* SyntheticPool
    leased,     \* the profiles whose target has a lease
    report,     \* the status of each profile, or None
    exitOn,     \* the profiles whose engine reports the exit node it offers as selected
    up,         \* is the daemon running?
    installed   \* did the last reconciliation install the plan of the present state?

desired == <<bindings, accept, exitNode>>
vars == <<desired, pool, leased, report, exitOn, up, installed>>

-----------------------------------------------------------------------------
(* What the statuses say. *)

Running == {p \in Profiles : report[p] # None}

Self == {p \in Running : report[p].self}

Present == {p \in Running : report[p].target}

Effective(p) == EffectiveIP[pool][p]

Overlaps(x, y) == x \cap y # {}

RouteOverlapsReserved(x) == Overlaps(x, Tailnet) \/ Overlaps(x, pool)

-----------------------------------------------------------------------------
(* BuildIP. *)

(* coveringIPRoute: an equal or less specific route that p advertises. *)
Advertises(p, x) == p \in Running /\ \E y \in report[p].routes : x \subseteq y

(* Mutant: a binding that waits is left out of the plan. *)
ExactInstalled ==
    [x \in {y \in DOMAIN bindings :
              Advertises(bindings[y], y) /\ ~RouteOverlapsReserved(y)} |->
        [profile |-> bindings[x], active |-> TRUE]]

Exact ==
    [x \in DOMAIN bindings |->
        [profile |-> bindings[x],
         active |-> Advertises(bindings[x], x) /\ ~RouteOverlapsReserved(x)]]

ImportCandidates(x) == {p \in accept \cap Running : x \in report[p].routes}

FullOverride(x) == \E y \in DOMAIN bindings : x \subseteq y

(* Mutant: the first of several importing profiles gets the route. *)
ImportedEntryOfFirst(x) ==
    [profile |-> CHOOSE p \in ImportCandidates(x) : TRUE,
     active |-> ~RouteOverlapsReserved(x) /\ ~FullOverride(x)]

ImportedEntry(x) ==
    LET candidates == ImportCandidates(x) IN
    IF Cardinality(candidates) > 1 THEN Barrier(None)
    ELSE [profile |-> CHOOSE p \in candidates : TRUE,
          active |-> ~RouteOverlapsReserved(x) /\ ~FullOverride(x)]

Imported ==
    [x \in {y \in Prefixes : ImportCandidates(y) # {}} |-> ImportedEntry(x)]

-----------------------------------------------------------------------------
(* tunConfigWithPolicy: the packet table and the host routes. *)

ActiveExitProfile ==
    IF exitNode \in Running \cap exitOn THEN exitNode ELSE None

(* Leases of targets that have left keep their address closed. *)
Retained == {Effective(p) : p \in leased \ Present}

Active(routes) == {x \in DOMAIN routes : Usable(routes[x])}

ExitRoutes(usable) ==
    [x \in IF ActiveExitProfile \in usable THEN {Addrs} ELSE {} |->
        [profile |-> ActiveExitProfile, active |-> TRUE]]

Table ==
    [destinations |->
        [ip \in {Effective(p) : p \in Present} |->
            LET p == CHOOSE r \in Present : Effective(r) = ip
            IN [profile |-> p, canonical |-> Canonical[p]]],
     exact |-> [x \in DOMAIN Exact \cup {{ip} : ip \in Retained} |->
                 IF x \in DOMAIN Exact THEN Exact[x] ELSE Barrier(None)],
     imported |-> Imported,
     exit |-> ExitRoutes(Self),
     sources |-> Self,
     inbound |-> [p \in Profiles |->
                    [c \in IF p \in Present THEN {Canonical[p]} ELSE {} |-> Effective(p)]]]

(* Mutant: an import with a binding inside it gets no host route. *)
HostRoutesUnlessOverridden ==
    {{Effective(p)} : p \in Present} \cup {{ip} : ip \in Retained} \cup Active(Exact)
        \cup {x \in Active(Imported) : ~\E y \in DOMAIN bindings : y \subseteq x}
        \cup DOMAIN ExitRoutes(Self)

HostRoutes ==
    {{Effective(p)} : p \in Present} \cup {{ip} : ip \in Retained}
        \cup Active(Exact) \cup Active(Imported) \cup DOMAIN ExitRoutes(Self)

(* One binding in a reserved range, or one active route or target of a
   profile without a self address, and no plan is built. *)
PlanBuilds ==
    /\ \A x \in DOMAIN bindings : ~RouteOverlapsReserved(x)
    /\ Present \subseteq Self
    /\ \A x \in Active(Exact) : Exact[x].profile \in Self
    /\ \A x \in Active(Imported) : Imported[x].profile \in Self

-----------------------------------------------------------------------------
(* NewRouterWithPolicies and Router.Resolve: where the SOCKS mode sends a
   connection to the address ip. *)
SocksTable ==
    [exact |-> Exact, imported |-> Imported,
     exit |-> ExitRoutes(Profiles)]

SocksResolve(ip) ==
    IF ip \in {Effective(p) : p \in Present}
    THEN LET p == CHOOSE r \in Present : Effective(r) = ip
         IN [profile |-> p, canonical |-> Canonical[p], preserve |-> FALSE]
    ELSE LET route == SubnetRoute(SocksTable, ip) IN
         IF Usable(route)
         THEN [profile |-> route.profile, canonical |-> ip, preserve |-> TRUE]
         ELSE Dropped

-----------------------------------------------------------------------------
(* reconcileLocked, with the leases of the state it starts from.  The
   exit-node preference is set in every running engine that reports another
   one, in no order; an engine of Tailscale may resolve it only later.  Leases
   of targets that left may have reached the end of their retention.  A
   rejected preference ends the reconciliation, and so do a plan that does
   not build and a host or DNS service that does not take it. *)
OtherExits == (exitOn \cap Running') \ {exitNode'}

SetExitNodePreferences(cleared) ==
    \E resolved \in SUBSET ({exitNode} \cap Running)' :
        exitOn' = (exitOn \ cleared) \cup resolved

PreferencesFail(leases) ==
    /\ Running' # {}
    /\ \E cleared \in SUBSET OtherExits : SetExitNodePreferences(cleared)
    /\ leased' = leases
    /\ installed' = FALSE

RefreshLeases(leases) ==
    \E kept \in SUBSET (leases \ Present') :
        leased' = kept \cup (IF installed' THEN Present' ELSE leases \cap Present')

Reconcile(leases) ==
    \/ PreferencesFail(leases)
    \/ /\ SetExitNodePreferences(OtherExits)
       /\ installed' \in {FALSE, PlanBuilds'}
       /\ RefreshLeases(leases)

-----------------------------------------------------------------------------
(* Requests.  validatePolicyPrefix rejects reserved ranges, also when a
   binding is to be removed.  A bind request may carry --replace, so a
   prefix that is bound can be bound anew. *)

AcceptAllRoutes(p, flag) ==
    /\ up
    /\ accept' = IF flag THEN accept \cup {p} ELSE accept \ {p}
    /\ UNCHANGED <<bindings, exitNode, pool, report, up>>
    /\ Reconcile(leased)

UnbindIPRoute(x) ==
    /\ up
    /\ x \in DOMAIN bindings
    /\ ~RouteOverlapsReserved(x)
    /\ bindings' = [y \in DOMAIN bindings \ {x} |-> bindings[y]]
    /\ UNCHANGED <<accept, exitNode, pool, report, up>>
    /\ Reconcile(leased)

BindIPRoute(x, p) ==
    /\ up
    /\ ~RouteOverlapsReserved(x)
    /\ bindings' = [y \in DOMAIN bindings \cup {x} |-> IF y = x THEN p ELSE bindings[y]]
    /\ UNCHANGED <<accept, exitNode, pool, report, up>>
    /\ Reconcile(leased)

ReplaceIPRoutes(r) ==
    /\ up
    /\ \A x \in DOMAIN r.bindings : ~RouteOverlapsReserved(x)
    /\ bindings' = r.bindings
    /\ accept' = r.accept
    /\ UNCHANGED <<exitNode, pool, report, up>>
    /\ Reconcile(leased)

ClearIPRoutes ==
    /\ up
    /\ bindings' = [x \in {} |-> None]
    /\ accept' = {}
    /\ UNCHANGED <<exitNode, pool, report, up>>
    /\ Reconcile(leased)

SetExitNode(p) ==
    /\ up
    /\ p \in Running \cap ExitProfiles
    /\ exitNode' = p
    /\ UNCHANGED <<bindings, accept, pool, report, up>>
    /\ Reconcile(leased)

ClearExitNode ==
    /\ up
    /\ exitNode # None
    /\ exitNode' = None
    /\ UNCHANGED <<bindings, accept, pool, report, up>>
    /\ Reconcile(leased)

(* The engine of p reports another status, or has resolved its exit node,
   and the run loop reconciles. *)
HandleUpdate(p, status) ==
    /\ up
    /\ report' = [report EXCEPT ![p] = status]
    /\ UNCHANGED <<desired, pool, up>>
    /\ Reconcile(leased)

(* The process ends and is started, perhaps with another pool, whose family
   then loses its leases (configureSyntheticPools).  Some engines already
   run again when the first reconciliation reads their statuses; when it
   fails, supervisor.Run returns (an exhausted pool, which it survives, does
   not occur here). *)
Start(q) ==
    /\ pool' = q
    /\ report' \in {report, [p \in Profiles |-> None]}
    /\ UNCHANGED desired
    /\ Reconcile(IF q = pool THEN leased ELSE {})
    /\ up' = installed'

Init ==
    /\ bindings = [x \in {} |-> None]
    /\ accept = {}
    /\ exitNode = None
    /\ pool \in Pools
    /\ leased = {}
    /\ report = [p \in Profiles |-> None]
    /\ exitOn = {}
    /\ up = TRUE
    /\ installed = TRUE

Next ==
    \/ \E p \in Profiles, flag \in BOOLEAN : AcceptAllRoutes(p, flag)
    \/ \E x \in Prefixes : UnbindIPRoute(x)
    \/ \E x \in Prefixes, p \in Profiles : BindIPRoute(x, p)
    \/ \E r \in Replacements : ReplaceIPRoutes(r)
    \/ ClearIPRoutes
    \/ \E p \in Profiles : SetExitNode(p)
    \/ ClearExitNode
    \/ \E p \in Profiles : \E status \in Reports[p] \cup {None} : HandleUpdate(p, status)
    \/ \E q \in Pools : Start(q)

Spec == Init /\ [][Next]_vars

-----------------------------------------------------------------------------
(* Properties. *)

(* Every variable has its type. *)
TypeOK ==
    /\ DOMAIN bindings \subseteq Prefixes
    /\ \A x \in DOMAIN bindings : bindings[x] \in Profiles
    /\ accept \subseteq Profiles
    /\ exitNode \in ExitProfiles \cup {None}
    /\ pool \in Pools
    /\ leased \subseteq Profiles
    /\ \A p \in Profiles : report[p] \in Reports[p] \cup {None}
    /\ exitOn \subseteq Profiles
    /\ up \in BOOLEAN
    /\ installed \in BOOLEAN

(* Where the documented policy (docs/architecture.md:176-202) sends a packet
   to ip: to the target that holds the address; else to the longest binding's
   profile if it advertises a covering route, and nowhere else; else to the
   only accepting profile that advertises the longest imported route; else to
   the exit node.  It does not use the entries of the plan. *)
Bindings(ip) == {x \in DOMAIN bindings : ip \in x}

Imports(ip) ==
    {x \in UNION {report[p].routes : p \in accept \cap Running} : ip \in x}

Importers(ip) ==
    {p \in accept \cap Running : Longest(Imports(ip)) \in report[p].routes}

Held == {Effective(p) : p \in leased \cup Present}

PolicyAllows(p, ip) ==
    IF ip \in Held THEN p \in Present /\ Effective(p) = ip
    ELSE IF Bindings(ip) # {}
    THEN LET x == Longest(Bindings(ip)) IN p = bindings[x] /\ Advertises(p, x)
    ELSE IF Imports(ip) # {}
    THEN Importers(ip) = {p} /\ ~RouteOverlapsReserved(Longest(Imports(ip)))
    ELSE p = exitNode /\ p \in exitOn \cap Self

(* PacketsFollowPolicy: once a reconciliation has installed its plan, the
   packet table of tunConfigWithPolicy sends every packet exactly where the
   documented policy does, through overrides, ambiguous imports, reserved
   ranges and retained leases. *)
PacketsFollowPolicy ==
    installed =>
        LET table == Table IN
        \A ip \in Addrs, p \in Profiles :
            Outbound(table, ip).profile = p <=> PolicyAllows(p, ip)

(* RepliesReturn: the answer to a packet that Mapper.Outbound let through comes
   back through Mapper.Inbound from the address the host sent it to.  Left
   out: a preserved destination that is also the canonical address of a
   target of the same profile, which Inbound translates. *)
RepliesReturn ==
    installed =>
        LET table == Table IN
        \A ip \in Addrs :
            LET d == Outbound(table, ip) IN
            d # Dropped /\ ~(d.preserve /\ ip \in DOMAIN table.inbound[d.profile])
                => Inbound(table, d.profile, d.canonical) = ip

(* SourcesArePinned: a packet is admitted from a profile only with a source
   the host would answer through that same profile and at the same canonical
   address, so no profile speaks for another.  Left out: an effective address
   as the source of a packet of the exit node's profile, which Inbound does
   not compare with the destinations. *)
SourcesArePinned ==
    installed =>
        LET table == Table IN
        \A p \in Profiles, src \in Addrs \ DOMAIN table.destinations :
            LET seen == Inbound(table, p, src)
                d == Outbound(table, seen)
            IN seen # None => d.profile = p /\ d.canonical = src

(* BothWaysAgree: Mapper.Outbound and Mapper.Inbound are each other's inverse,
   so that a conversation stays with one profile and one pair of addresses. *)
BothWaysAgree == RepliesReturn /\ SourcesArePinned

(* HostRoutesCarry: the host routes and the packet table of one plan agree.
   Every packet the table lets through is routed to the TUN by the host, and
   what the host routes to the TUN is only dropped where the policy has a
   barrier: a retained lease, a binding, or an import that is not installed. *)
HostRoutesCarry ==
    installed =>
        LET table == Table
            carried == UNION HostRoutes
        IN
        \A ip \in Addrs :
            LET d == Outbound(table, ip) IN
            /\ d # Dropped => ip \in carried
            /\ d = Dropped /\ ip \in carried =>
                  \/ ip \in Retained
                  \/ \E x \in Bindings(ip) : x \notin Active(Exact)
                  \/ \E x \in Imports(ip) : x \notin Active(Imported)

(* SocksAgrees: the SOCKS router and the packet table, which share no code,
   select the same profile and destination for every address
   (docs/profile-management.md:958-959) while every running profile has a
   self address.  Left out: addresses of retained leases, which only the
   packet table keeps closed. *)
SocksAgrees ==
    Running \subseteq Self =>
        LET table == Table IN
        \A ip \in Addrs \ Retained : SocksResolve(ip) = Outbound(table, ip)

(* OnePlan: packet table, host routes and SOCKS router are built apart from the
   same entries (tunConfigWithPolicy, NewRouterWithPolicies) and agree. *)
OnePlan == HostRoutesCarry /\ SocksAgrees

(* NoFailover: when a status changes, a bound address may lose its profile but
   never moves to another one, whatever that one imports or however it serves
   the exit node; the binding is a barrier until its own profile is back. *)
StaysBound ==
    installed /\ installed' /\ UNCHANGED desired =>
        LET before == Table
            after == Table'
        IN
        \A ip \in UNION DOMAIN bindings :
            LET d == Outbound(before, ip) IN
            d # Dropped => Outbound(after, ip) \in {d, Dropped}

NoFailover == [][StaysBound]_vars
=============================================================================
