------------------------------ MODULE DNSPolicy ------------------------------
(***************************************************************************)
(* DNS route policy: the bindings, accept-all flags and search domains     *)
(* that clients change (cmd/tailmixd/policyapi.go), the plan built from    *)
(* them and from the engines' statuses (routingpolicy/policy.go), the      *)
(* configuration of the aggregate resolver (tunDNSLiveConfig in            *)
(* cmd/tailmixd/main.go, configForService in dns/service.go), the loopback *)
(* forwarders it names (configureDNSLocked in cmd/tailmixd/supervisor.go), *)
(* and the choice the SOCKS mode makes (socksproxy/router.go).             *)
(*                                                                         *)
(* A domain or a name is the sequence of its labels from the root, so that *)
(* <<>> is "." and a suffix is a prefix of the sequence; every spelling is *)
(* taken as normalised, and a longer suffix of a name as the longer string *)
(* (no top-level domain of one letter).  A profile that does not run       *)
(* reports no status, which is None.                                       *)
(***************************************************************************)
EXTENDS Naturals, FiniteSets, Sequences

CONSTANTS
    Profiles,
    Domains,      \* the domains that can be advertised and bound
    Names,        \* the names that are asked for, with at least two labels
    Lists,        \* lists of resolvers an advertised route may carry
    Ports,        \* loopback ports of forwarders
    Reports,      \* profile -> statuses it may report while it runs
    Requests,     \* the PatchDNSRoutes requests of clients
    SearchSets,   \* the search lists clients ask for
    None,
    MaxEdits,     \* bound on requests of clients
    MaxFaults     \* bound on reconciliations that fail

Root == <<>>
Sources == {"magicdns", "split-dns", "default"}
NoList == {}                     \* a route without resolvers
Advertised == [dom : Domains, source : Sources, res : Lists \cup {NoList}]
Statuses == [suffix : Domains \cup {None}, routes : Seq(Advertised),
             names : SUBSET Names, exit : BOOLEAN]


\* Domains to the profiles they are bound to; None stands for any profile in a
\* request that unbinds, and for one that does not exist in a request that binds.
Bindings == UNION {[S -> Profiles \cup {None}] : S \in SUBSET Domains}

ASSUME DNSPolicyAssumption ==
    /\ IsFiniteSet(Profiles)
    /\ None \notin Profiles \cup Domains
    /\ None \notin Ports /\ None \notin Statuses
    /\ Root \in Domains
    /\ NoList \notin Lists
    /\ \A d \in Domains \cup Names : d \in Seq({d[i] : i \in DOMAIN d})
    /\ \A n \in Names : Len(n) >= 2
    /\ \A p \in Profiles : Reports[p] \subseteq Statuses
    /\ Requests \subseteq [accept : SUBSET Profiles, refuse : SUBSET Profiles,
                           unbind : Bindings, bind : Bindings, replace : BOOLEAN]
    /\ SearchSets \subseteq SUBSET (Domains \ {Root})
    /\ MaxEdits \in Nat
    /\ MaxFaults \in Nat

VARIABLES
    policy,      \* the saved state: bind, accept, exit, search
    report,      \* the status of each profile, or None
    installed,   \* the configuration the aggregate resolver works with
    live,        \* the running forwarders: port -> profile and resolvers
    dnsForwarders,   \* the ports of the forwarders that the supervisor keeps
    nextForwarders,  \* domain -> port of those a reconciliation has started
    leaving,     \* the ports it has still to close or to retire
    basis,       \* history: the policy and statuses that installed was made from
    half,        \* history: the latest change of the resolver failed half-way
    at,          \* a handler "start"s forwarders, or "end"s some, or has ended them all
    edits,       \* bound: requests clients may still make
    faults       \* bound: reconciliations that may still fail

running == <<live, dnsForwarders, nextForwarders, leaving>>
resolver == <<installed, basis, half>>
vars == <<policy, report, resolver, running, at, edits, faults>>

----------------------------------------------------------------------------
(* Domains.                                                                *)

DNSContains(suffix, name) ==
    Len(suffix) <= Len(name) /\ SubSeq(name, 1, Len(suffix)) = suffix

\* longestDNSMatch: the entries of the longest suffix that covers the name.
Covering(name, entries) == {e \in entries : DNSContains(e.dom, name)}

Longest(entries) == {e \in entries : \A f \in entries : Len(f.dom) <= Len(e.dom)}

longestDNSMatch(name, entries) == Longest(Covering(name, entries))

----------------------------------------------------------------------------
(* BuildDNS.  b is what a plan is built from: a policy and the reports.    *)

Running(b) == {p \in Profiles : b.report[p] # None}

\* dnsRoutesForStatus: the MagicDNS suffix counts as advertised.
dnsRoutesForStatus(s) ==
    LET listed(d) == \E i \in DOMAIN s.routes : s.routes[i].source = "magicdns" /\ s.routes[i].dom = d
    IN IF s.suffix = None \/ listed(s.suffix) THEN s.routes
       ELSE Append(s.routes, [dom |-> s.suffix, source |-> "magicdns", res |-> NoList])

\* coveringDNSRoute: the longest that covers, and of equal ones the first listed.
coveringDNSRoute(dom, routes) ==
    LET C == {i \in DOMAIN routes : DNSContains(routes[i].dom, dom)}
    IN {routes[i] : i \in {j \in C : \A k \in C :
            \/ Len(routes[k].dom) < Len(routes[j].dom)
            \/ Len(routes[k].dom) = Len(routes[j].dom) /\ j <= k}}

Priority == [source \in Sources |->
    CASE source = "magicdns" -> 0 [] source = "split-dns" -> 1 [] OTHER -> 2]

\* addDNSCandidate: what one profile offers for one domain, by source priority
\* and then by the order of the list.
Offer(s, dom) ==
    LET R == dnsRoutesForStatus(s)
        C == {i \in DOMAIN R : R[i].dom = dom}
    IN R[CHOOSE i \in C : \A k \in C :
            \/ Priority[R[i].source] < Priority[R[k].source]
            \/ Priority[R[i].source] = Priority[R[k].source] /\ i <= k]

Offers(s) == LET R == dnsRoutesForStatus(s) IN {R[i].dom : i \in DOMAIN R}

MagicDomains(s) == {d \in Offers(s) : Offer(s, d).source = "magicdns"}

Entry(dom, p, source, profileDNS, res) ==
    [dom |-> dom, prof |-> p, source |-> source, profileDNS |-> profileDNS, active |-> TRUE, res |-> res]

Inactive(dom, p) ==
    [dom |-> dom, prof |-> p, source |-> "", profileDNS |-> FALSE, active |-> FALSE, res |-> NoList]

\* An exact binding is active when its profile runs and advertises a cover.
exactEntry(b, d) ==
    LET p == b.policy.bind[d]
        cover == IF p \in Running(b) THEN coveringDNSRoute(d, dnsRoutesForStatus(b.report[p])) ELSE {}
    IN IF cover = {} THEN Inactive(d, p)
       ELSE LET r == CHOOSE r \in cover : TRUE IN Entry(d, p, r.source, FALSE, r.res)

\* offers[p] has an entry for each domain that p offers.  The only candidate for a
\* domain is its entry, several are an ambiguous one, and an entry of a higher tier
\* for the very domain overrides it.
Tier(offers, above) ==
    {LET C == {p \in DOMAIN offers : d \in DOMAIN offers[p]} IN
     IF d \in above \/ Cardinality(C) # 1 THEN Inactive(d, None)
                                          ELSE offers[CHOOSE p \in C : TRUE][d] :
        d \in UNION {DOMAIN offers[p] : p \in DOMAIN offers}}

Doms(entries) == {e.dom : e \in entries}

\* activeDNSExitProfile
ExitProfile(b) == {p \in Running(b) : p = b.policy.exit /\ b.report[p].exit}

\* The exit node's own DNS takes the root, whoever offers MagicDNS for it.
AutomaticDomains(b, p) ==
    IF ExitProfile(b) = {} THEN MagicDomains(b.report[p])
    ELSE (MagicDomains(b.report[p]) \ {Root}) \cup (IF p \in ExitProfile(b) THEN {Root} ELSE {})

BuildDNS(b) ==
    LET importedEntry(p, d) ==
            LET o == Offer(b.report[p], d) IN Entry(d, p, o.source, FALSE, o.res)
        automaticEntry(p, d) ==
            IF d = Root /\ p \in ExitProfile(b) THEN Entry(d, p, "exit-node", TRUE, NoList)
                                                ELSE Entry(d, p, "magicdns", FALSE, NoList)
        exact == {exactEntry(b, d) : d \in DOMAIN b.policy.bind}
        imported == Tier([p \in b.policy.accept \cap Running(b) |->
                             [d \in Offers(b.report[p]) |-> importedEntry(p, d)]], Doms(exact))
        automatic == Tier([p \in Running(b) |->
                             [d \in AutomaticDomains(b, p) |-> automaticEntry(p, d)]],
                          Doms(exact) \cup Doms(imported))
    IN [exact |-> exact, imported |-> imported, automatic |-> automatic]

\* Mutant: the first tier with a match, as the SOCKS router has it.
ResolveByTier(plan, name) ==
    LET x == longestDNSMatch(name, plan.exact)
        i == longestDNSMatch(name, plan.imported)
    IN IF x # {} THEN x ELSE IF i # {} THEN i ELSE longestDNSMatch(name, plan.automatic)

\* Resolve: the longest match of each tier, a lower tier only when it is longer.
Resolve(plan, name) ==
    LET x == longestDNSMatch(name, plan.exact)
        i == longestDNSMatch(name, plan.imported)
        a == longestDNSMatch(name, plan.automatic)
        Shorter(S, T) == \A s \in S, t \in T : Len(s.dom) < Len(t.dom)
        xi == IF i # {} /\ Shorter(x, i) THEN i ELSE x
    IN IF a # {} /\ Shorter(xi, a) THEN a ELSE xi

----------------------------------------------------------------------------
(* tunDNSLiveConfig: records, routes, MagicDNS domains, search domains.    *)

\* The nodes of the profiles with a MagicDNS suffix.
Candidates(b) ==
    UNION {{[name |-> n, prof |-> p] : n \in b.report[p].names} :
              p \in {q \in Running(b) : b.report[q].suffix # None}}

\* The entries that become routes: one per domain, of the highest tier.
PolicyEntries(plan) ==
    plan.exact
        \cup {e \in plan.imported : e.dom \notin Doms(plan.exact)}
        \cup {e \in plan.automatic : e.dom \notin Doms(plan.exact) \cup Doms(plan.imported)}

\* A record needs an active route of its own profile; a name no policy covers is
\* a shared-in node's, and needs a single owner.
tunDNSLiveConfig(b) ==
    LET plan == BuildDNS(b)
        candidates == Candidates(b)
        shared == {c \in candidates :
                      /\ Resolve(plan, c.name) = {}
                      /\ \A q \in candidates : q.name = c.name => q = c}
        records == shared \cup {c \in candidates :
                      \E e \in Resolve(plan, c.name) : e.active /\ e.prof = c.prof}
        entries == PolicyEntries(plan)
        owners == {c.prof : c \in records}
                      \cup {e.prof : e \in {f \in entries : f.active /\ f.source = "magicdns"}}
    IN [records  |-> records,
        routes   |-> entries \cup {Inactive(c.name, None) : c \in shared},
        suffixes |-> {[prof |-> p, dom |-> b.report[p].suffix] :
                         p \in {q \in owners : b.report[q].suffix # None}},
        search   |-> {d \in b.policy.search : \E e \in Resolve(plan, d) : e.active}]

----------------------------------------------------------------------------
(* configForService: what the resolver is given, or an error.              *)

\* Names of records that no served suffix covers get a route of their own.
ExactRoutes(cfg) ==
    {c.name : c \in {r \in cfg.records : \A s \in cfg.suffixes : ~DNSContains(s.dom, r.name)}}

\* The routes that need a forwarder.
Forwarded(cfg) == {r \in cfg.routes : r.active /\ (r.profileDNS \/ r.res # NoList)}

ConfigErrors(cfg) ==
    \/ \E s, u \in cfg.suffixes : s.dom = u.dom /\ s # u
    \/ ExactRoutes(cfg) \cap Doms(Forwarded(cfg)) # {}

\* routes gives each suffix the port of its forwarder; None is "no resolvers":
\* the suffix is answered from hosts alone.  Without resolvers, the root's route
\* is an empty list of default resolvers, which is none.
configForService(cfg, ports) ==
    [hosts  |-> [n \in {c.name : c \in cfg.records} |->
                    {c.prof : c \in {r \in cfg.records : r.name = n}}],
     routes |-> [d \in (Doms(cfg.routes) \cup ExactRoutes(cfg)) \ {Root} |->
                    IF d \in DOMAIN ports THEN ports[d] ELSE None],
     default |-> IF Root \in DOMAIN ports THEN ports[Root] ELSE None,
     search |-> cfg.search]

----------------------------------------------------------------------------
(* Reconciliation, as far as DNS is concerned.                             *)

Empty == [hosts |-> [n \in {} |-> {}], routes |-> [n \in {} |-> None], default |-> None, search |-> {}]

Without(f, S) == [x \in DOMAIN f \ S |-> f[x]]
With(f, g) == [x \in DOMAIN f \cup DOMAIN g |-> IF x \in DOMAIN g THEN g[x] ELSE f[x]]
NoPorts == [d \in {} |-> None]
Values(f) == {f[x] : x \in DOMAIN f}
OneOf(S) == IF S = {} THEN {} ELSE {CHOOSE x \in S : TRUE}

\* No handler holds the lock: each changes the state, starts forwarders, configures
\* the resolver and ends forwarders before another may begin.
Unlocked == at = "end" /\ leaving = {}

\* What the handler reconciles from.
Current == [policy |-> policy, report |-> report]

\* The routes whose forwarder has not been started.
ToStart(cfg) == {r \in Forwarded(cfg) : r.dom \notin DOMAIN nextForwarders}

\* One forwarder per route, in the order of the routes, each on a port nobody uses.
StartForwarder(cfg) ==
    /\ \E r \in OneOf(ToStart(cfg)), k \in OneOf(Ports \ DOMAIN live) :
          /\ nextForwarders' = With(nextForwarders, [d \in {r.dom} |-> k])
          /\ live' = With(live, [x \in {k} |-> [prof |-> r.prof, res |-> r.res]])
    /\ UNCHANGED <<policy, report, resolver, dnsForwarders, leaving, at, edits, faults>>

\* Mutant: the error return forgets what was started.
closeForwardersOmitted ==
    /\ leaving' = {}
    /\ nextForwarders' = NoPorts
    /\ at' = "end"

\* Every error return closes the forwarders that were started for this configuration.
closeForwarders ==
    /\ leaving' = Values(nextForwarders)
    /\ nextForwarders' = NoPorts
    /\ at' = "end"

\* A forwarder does not start, or an earlier step of the reconciliation fails.
StartFails(cfg) ==
    /\ ToStart(cfg) # {} \/ DOMAIN nextForwarders = {}
    /\ faults > 0
    /\ faults' = faults - 1
    /\ closeForwarders
    /\ UNCHANGED <<policy, report, resolver, live, dnsForwarders, edits>>

\* The resolver is given the new forwarders, and only then the old ones are to retire.
Configure(cfg) ==
    /\ ToStart(cfg) = {}
    /\ ~ConfigErrors(cfg)
    /\ installed' = configForService(cfg, nextForwarders)
    /\ basis' = Current
    /\ half' = FALSE
    /\ dnsForwarders' = Values(nextForwarders)
    /\ leaving' = dnsForwarders
    /\ nextForwarders' = NoPorts
    /\ at' = "end"
    /\ UNCHANGED <<policy, report, live, edits, faults>>

\* ConfigureFull fails: the configuration is refused, or the resolver's manager fails,
\* which then works with the old configuration or already with the new one (SetDNS may
\* have done half its work).
ConfigureFails(cfg) ==
    /\ ToStart(cfg) = {}
    /\ \/ /\ ConfigErrors(cfg)
          /\ UNCHANGED <<installed, half, faults>>
       \/ /\ ~ConfigErrors(cfg)
          /\ faults > 0
          /\ faults' = faults - 1
          /\ half' = TRUE
          /\ installed' \in {installed, configForService(cfg, nextForwarders)}
    /\ closeForwarders
    /\ UNCHANGED <<policy, report, basis, live, dnsForwarders, edits>>

configureDNSLocked ==
    /\ at = "start"
    /\ \E cfg \in {tunDNSLiveConfig(Current)} :
          StartForwarder(cfg) \/ StartFails(cfg) \/ Configure(cfg) \/ ConfigureFails(cfg)

\* Retire or Close of one forwarder after the other: it takes no more queries.
EndForwarder ==
    /\ at = "end"
    /\ \E k \in OneOf(leaving) :
          /\ live' = Without(live, {k})
          /\ leaving' = leaving \ {k}
    /\ UNCHANGED <<policy, report, resolver, dnsForwarders, nextForwarders, at, edits, faults>>

\* A status changes, and the watcher makes the supervisor reconcile.
Observe(p, s) ==
    /\ Unlocked
    /\ at' = "start"
    /\ report[p] # s
    /\ report' = [report EXCEPT ![p] = s]
    /\ UNCHANGED <<policy, resolver, running, edits, faults>>

----------------------------------------------------------------------------
(* Requests of clients.  Each changes a copy of the state, which is        *)
(* committed as a whole or not at all.                                     *)

\* Mutant: a binding of another profile is overwritten without replace.
PatchOverwrites(q, pol) ==
    \E d \in DOMAIN q.unbind \cap DOMAIN pol.bind : q.unbind[d] \notin {None, pol.bind[d]}

\* applyDNSPatchLocked: unbinding comes first and may name the profile it
\* expects; binding what another profile holds needs replace.
PatchFails(q, pol) ==
    \/ \E d \in DOMAIN q.unbind \cap DOMAIN pol.bind : q.unbind[d] \notin {None, pol.bind[d]}
    \/ \E d \in DOMAIN q.bind :
          \/ q.bind[d] \notin Profiles
          \/ /\ ~q.replace
             /\ d \in DOMAIN pol.bind \ DOMAIN q.unbind
             /\ pol.bind[d] # q.bind[d]

Patched(q, pol) ==
    [pol EXCEPT !.bind = With(Without(@, DOMAIN q.unbind), q.bind),
                !.accept = (@ \cup q.accept) \ q.refuse]

\* commitPolicyLocked: saved, then reconciled; a save that fails changes nothing.
Commit(pol) ==
    /\ Unlocked
    /\ at' = "start"
    /\ edits > 0
    /\ edits' = edits - 1
    /\ policy' = pol
    /\ UNCHANGED <<report, resolver, running, faults>>

PatchDNSRoutes(q) == ~PatchFails(q, policy) /\ Commit(Patched(q, policy))

\* ReplaceDNSRoutes and ClearDNSRoutes start from no bindings and no imports.
Cleared(pol) == [pol EXCEPT !.bind = [d \in {} |-> None], !.accept = {}]

ReplaceDNSRoutes(q) ==
    LET patch == [q EXCEPT !.replace = TRUE, !.unbind = [d \in {} |-> None], !.refuse = {}]
    IN ~PatchFails(patch, Cleared(policy)) /\ Commit(Patched(patch, Cleared(policy)))

ClearDNSRoutes == Commit(Cleared(policy))

\* PatchSearchDomains, ReplaceSearchDomains and ClearSearchDomains.
PatchSearchDomains(add, remove) == Commit([policy EXCEPT !.search = (@ \ remove) \cup add])
ReplaceSearchDomains(S) == Commit([policy EXCEPT !.search = S])
ClearSearchDomains == Commit([policy EXCEPT !.search = {}])

\* The exit node is chosen elsewhere (IPRoutes); here it brings its DNS along.
SelectExit(p) == Commit([policy EXCEPT !.exit = p])

Init ==
    /\ policy = [bind |-> [d \in {} |-> None], accept |-> {}, exit |-> None, search |-> {}]
    /\ report = [p \in Profiles |-> None]
    /\ installed = Empty
    /\ live = [k \in {} |-> None]
    /\ dnsForwarders = {}
    /\ nextForwarders = NoPorts
    /\ leaving = {}
    /\ basis = [policy |-> policy, report |-> report]
    /\ half = FALSE
    /\ at = "end"
    /\ edits = MaxEdits
    /\ faults = MaxFaults

Next ==
    \/ \E p \in Profiles : \E s \in Reports[p] \cup {None} : Observe(p, s)
    \/ configureDNSLocked
    \/ EndForwarder
    \/ \E q \in Requests : PatchDNSRoutes(q) \/ ReplaceDNSRoutes(q)
    \/ ClearDNSRoutes
    \/ \E S \in SearchSets : ReplaceSearchDomains(S) \/ \E R \in SearchSets : PatchSearchDomains(S, R)
    \/ ClearSearchDomains
    \/ \E p \in Profiles \cup {None} : SelectExit(p)

Spec == Init /\ [][Next]_vars

----------------------------------------------------------------------------
(* The aggregate resolver (external, as the code uses it): its own hosts,  *)
(* then the longest suffix that has a route, which without resolvers means *)
(* that the name does not exist, then the default resolvers, and else the  *)
(* resolvers the machine had before.                                       *)

Answer(c, name) ==
    LET S == {d \in DOMAIN c.routes : DNSContains(d, name)}
        best == CHOOSE d \in S : \A e \in S : Len(e) <= Len(d)
        Forward(k) == [by |-> "forwarder", of |-> {live[k].prof}]
    IN IF name \in DOMAIN c.hosts THEN [by |-> "hosts", of |-> c.hosts[name]]
       ELSE IF S # {} /\ c.routes[best] # None THEN Forward(c.routes[best])
       ELSE IF S # {} THEN [by |-> "nobody", of |-> {}]
       ELSE IF c.default # None THEN Forward(c.default)
       ELSE [by |-> "machine", of |-> {}]

----------------------------------------------------------------------------
(* The SOCKS mode: NewRouterWithPolicies keeps the entries of the plan by  *)
(* tier and the exit node's root route; Resolve takes the first tier with  *)
(* a match.                                                                *)

SocksTiers(b) ==
    LET plan == BuildDNS(b)
    IN <<plan.exact, plan.imported,
         plan.automatic \cup {Entry(Root, p, "exit-node", TRUE, NoList) : p \in ExitProfile(b)}>>

SocksResolve(b, tiers, name) ==
    LET hits == {t \in 1 .. 3 : Covering(name, tiers[t]) # {}}
        first == CHOOSE t \in hits : \A u \in hits : t <= u
        Own(p) == b.report[p].suffix # None /\ b.report[p].suffix # name /\ DNSContains(b.report[p].suffix, name)
        own == {p \in Running(b) : Own(p) /\ \A q \in Running(b) :
                    Own(q) => \/ Len(b.report[q].suffix) < Len(b.report[p].suffix)
                              \/ q = p}
    IN IF hits # {}
          THEN {e.prof : e \in {f \in longestDNSMatch(name, tiers[first]) : f.active}}
          ELSE own

----------------------------------------------------------------------------
(* What the policy means, said without tiers of lists and overrides: every *)
(* claim on a suffix, the longest suffix, the highest rank on it.          *)

Claims(b, name) ==
    LET Claim(d, rank, p) == [dom |-> d, rank |-> rank, prof |-> p]
        Offered(p) == Offers(b.report[p])
    IN {k \in
          {Claim(d, 3, b.policy.bind[d]) : d \in DOMAIN b.policy.bind}
          \cup (UNION {{Claim(d, 2, p) : d \in Offered(p)} : p \in b.policy.accept \cap Running(b)})
          \cup (UNION {{Claim(d, 1, p) : d \in {e \in MagicDomains(b.report[p]) :
                    e # Root \/ ExitProfile(b) = {}}} : p \in Running(b)})
          \cup {Claim(Root, 1, p) : p \in ExitProfile(b)} :
        DNSContains(k.dom, name)}

Winners(b, name) ==
    LET C == Claims(b, name)
    IN {k \in C : \A j \in C : Len(j.dom) < Len(k.dom) \/ (j.dom = k.dom /\ j.rank <= k.rank)}

\* The profile that is to answer, if any: a single winner, which runs and, if it
\* was bound, advertises a suffix that covers the bound one.
Chosen(b, name) ==
    LET W == Winners(b, name)
    IN {k.prof : k \in {w \in W :
            /\ W = {w}
            /\ w.prof \in Running(b)
            /\ w.rank = 3 => \E d \in Offers(b.report[w.prof]) : DNSContains(d, w.dom)}}

\* Does the winning route come with resolvers, or with the exit node's DNS?
Forwards(b, name) ==
    \E k \in Winners(b, name) :
        \/ k.rank = 3 /\ \E r \in coveringDNSRoute(k.dom, dnsRoutesForStatus(b.report[k.prof])) : r.res # NoList
        \/ k.rank = 2 /\ Offer(b.report[k.prof], k.dom).res # NoList
        \/ k.rank = 1 /\ k.dom = Root /\ k.prof \in ExitProfile(b)

\* SOCKS mode goes through the tiers one after the other, where the resolver takes
\* the longest suffix of all: the two choose alike while no tier is overruled by a
\* longer suffix in a later one.
SocksInOrder(b, tiers, name) ==
    LET C == Claims(b, name)
    IN (\A j, k \in C : j.rank > k.rank => Len(j.dom) >= Len(k.dom))
           => SocksResolve(b, tiers, name) = Chosen(b, name)

\* The profiles that know a node of that name.
Knowing(b, name) == {c.prof : c \in {k \in Candidates(b) : k.name = name}}

\* What a name is to be answered by: the records, else a forwarder of the profile
\* that wins the longest suffix; nobody when that suffix is waiting, ambiguous or
\* has no resolvers.  A name that nothing claims is a shared-in node's, if it has a
\* single owner, and otherwise the machine's own resolvers'.
PolicyAnswer(b, name) ==
    LET who == Chosen(b, name)
        owners == Knowing(b, name)
    IN IF Claims(b, name) = {}
          THEN IF Cardinality(owners) = 1 THEN [by |-> "hosts", of |-> owners]
                                          ELSE [by |-> "machine", of |-> {}]
       ELSE IF who \cap owners # {} THEN [by |-> "hosts", of |-> who]
       ELSE IF who # {} /\ Forwards(b, name) THEN [by |-> "forwarder", of |-> who]
       ELSE [by |-> "nobody", of |-> {}]

\* Names below the name of a node, whose route may hide the suffixes around it.
BelowNode(b, name) == \E c \in Candidates(b) : c.name # name /\ DNSContains(c.name, name)

\* Nobody is to answer, for only the root claims the name and its route is waiting,
\* ambiguous or without resolvers.
RootWaits(b, name) ==
    /\ PolicyAnswer(b, name).by = "nobody"
    /\ \A k \in Winners(b, name) : k.dom = Root

\* Every name is answered as the policy and the statuses of the latest complete
\* reconciliation say, at every moment of the next one and whichever of its steps
\* fails; and a search domain is installed only when a profile was chosen for it.
\* Records, routes and forwarders are computed apart (Resolve, routeBySuffix,
\* configForService) and must never disagree.  SOCKS mode chooses the same profile
\* wherever its order of tiers allows.  Excepted are names below a node's, which
\* nobody may answer, and names that only a root route without resolvers claims:
\* docs/profile-management.md:370 and 881 and design.md:187 have a waiting binding
\* fail closed, but dns/service.go:132-137 leaves the machine's own resolvers in
\* charge; of those names it is only said that no profile answers them.
NamesFollowPolicy ==
    /\ Unlocked => LET tiers == SocksTiers(basis) IN \A name \in Names : SocksInOrder(basis, tiers, name)
    /\ ~half =>
        /\ \A d \in installed.search : Chosen(basis, d) # {}
        /\ \A name \in Names :
              \/ Answer(installed, name) = PolicyAnswer(basis, name)
              \/ BelowNode(basis, name) /\ Answer(installed, name) = [by |-> "nobody", of |-> {}]
              \/ RootWaits(basis, name) /\ Answer(installed, name).of = {}

\* The forwarders the supervisor keeps run, from the first start to the last
\* retirement of a reconciliation and whichever step fails, and when it is over no
\* other forwarder runs: none is lost, none left over.  They are those the resolver
\* is given, each for the profile and with the resolvers of its route.
ForwardersServe ==
    /\ dnsForwarders \subseteq DOMAIN live
    /\ Unlocked => DOMAIN live = dnsForwarders
    /\ ~half => dnsForwarders = (Values(installed.routes) \cup {installed.default}) \ {None}
    /\ \A k \in dnsForwarders :
          /\ live[k].prof \in Running(basis)
          /\ IF live[k].res = NoList THEN live[k].prof \in ExitProfile(basis)
             ELSE \E i \in DOMAIN basis.report[live[k].prof].routes :
                     basis.report[live[k].prof].routes[i].res = live[k].res

\* A binding that a client did not ask to drop or to replace stays with its
\* profile, whatever else the same request asks for and however it ends.
BindingsAreKept ==
    [][\A d \in DOMAIN policy.bind :
          \/ d \in DOMAIN policy'.bind /\ policy'.bind[d] = policy.bind[d]
          \/ \E q \in Requests : d \in DOMAIN q.unbind /\ q.unbind[d] \in {None, policy.bind[d]}
                                 /\ policy'.bind = With(Without(policy.bind, DOMAIN q.unbind), q.bind)
          \/ \E q \in Requests : q.replace /\ d \in DOMAIN q.bind
                                 /\ policy'.bind = With(Without(policy.bind, DOMAIN q.unbind), q.bind)
          \/ \E q \in Requests : policy'.bind = q.bind
          \/ policy'.bind = Cleared(policy).bind]_vars
=============================================================================
