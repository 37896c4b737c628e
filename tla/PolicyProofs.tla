---------------------------- MODULE PolicyProofs ----------------------------
(***************************************************************************)
(* Proofs about where packets go (IPRoutes) and which come in              *)
(* (WireGuardFilter), two components without common state.  Each has an    *)
(* inductive invariant, IInv and FilterInv; what the packet table, the     *)
(* SOCKS router and the filter do with an address follows from it state by *)
(* state.                                                                  *)
(***************************************************************************)
EXTENDS IPRoutes, WireGuardFilter, FiniteSetTheorems, TLAPS

(* The inductive invariant: types, and a plan is in force only if the present state
   builds one. *)
IInv ==
    /\ TypeOK
    /\ DOMAIN report = Profiles
    /\ installed => PlanBuilds

-----------------------------------------------------------------------------
(* The invariant. *)

(* Whatever a reconciliation does, the sets it writes keep their types and it
   reports success only for a plan that builds. *)
LEMMA ReconcileTypes ==
    ASSUME NEW L, Reconcile(L), L \subseteq Profiles, exitOn \subseteq Profiles
    PROVE  /\ leased' \subseteq Profiles
           /\ exitOn' \subseteq Profiles
           /\ installed' \in BOOLEAN
           /\ installed' => PlanBuilds'
<1>1. CASE PreferencesFail(L)
  BY <1>1 DEF PreferencesFail, SetExitNodePreferences, Running
<1>2. CASE /\ SetExitNodePreferences(OtherExits)
           /\ installed' \in {FALSE, PlanBuilds'}
           /\ RefreshLeases(L)
  <2>1. exitOn' \subseteq Profiles
    BY <1>2 DEF SetExitNodePreferences, Running
  <2>2. leased' \subseteq Profiles
    BY <1>2 DEF RefreshLeases, Present, Running
  <2>3. PlanBuilds' \in BOOLEAN
    BY DEF PlanBuilds
  <2>4. CASE installed' = FALSE
    BY <2>4, <2>1, <2>2
  <2>5. CASE installed' = PlanBuilds'
    BY <2>5, <2>3, <2>1, <2>2, Zenon
  <2> QED BY <1>2, <2>4, <2>5
<1> QED BY <1>1, <1>2 DEF Reconcile

LEMMA InvInit == Init => IInv
<1> SUFFICES ASSUME Init PROVE IInv OBVIOUS
<1>1. TypeOK
  BY DEF Init, TypeOK
<1>2. DOMAIN report = Profiles
  BY DEF Init
<1>3. Running = {}
  BY DEF Init, Running
<1>4. PlanBuilds
  <2>1. DOMAIN bindings = {} /\ DOMAIN Exact = {}
    BY DEF Init, Exact
  <2>2. DOMAIN Imported = {}
    BY <1>3 DEF Imported, ImportCandidates
  <2> QED BY <1>3, <2>1, <2>2 DEF PlanBuilds, Present, Active
<1> QED BY <1>1, <1>2, <1>4 DEF IInv

LEMMA InvNext == IInv /\ [Next]_vars => IInv'
<1> SUFFICES ASSUME IInv, [Next]_vars PROVE IInv'
  OBVIOUS
<1> USE RoutesAssumption
<1>t. TypeOK /\ DOMAIN report = Profiles /\ leased \subseteq Profiles /\ exitOn \subseteq Profiles
  BY DEF IInv, TypeOK
<1>r. ASSUME NEW L, Reconcile(L), L \subseteq Profiles,
             DOMAIN bindings' \subseteq Prefixes,
             \A x \in DOMAIN bindings' : bindings'[x] \in Profiles,
             accept' \subseteq Profiles,
             exitNode' \in ExitProfiles \cup {None},
             pool' \in Pools,
             DOMAIN report' = Profiles,
             \A p \in Profiles : report'[p] \in Reports[p] \cup {None},
             up' \in BOOLEAN
      PROVE  IInv'
  <2>1. /\ leased' \subseteq Profiles
        /\ exitOn' \subseteq Profiles
        /\ installed' \in BOOLEAN
        /\ installed' => PlanBuilds'
    BY <1>r, <1>t, ReconcileTypes
  <2> QED BY <1>r, <2>1 DEF IInv, TypeOK
<1>1. CASE \E p \in Profiles, flag \in BOOLEAN : AcceptAllRoutes(p, flag)
  BY <1>1, <1>t, <1>r DEF AcceptAllRoutes, IInv, TypeOK
<1>2. CASE \E x \in Prefixes : UnbindIPRoute(x)
  <2> PICK x \in Prefixes : UnbindIPRoute(x)
    BY <1>2
  <2> QED BY <1>t, <1>r DEF UnbindIPRoute, IInv, TypeOK
<1>3. CASE \E x \in Prefixes, p \in Profiles : BindIPRoute(x, p)
  <2> PICK x \in Prefixes, p \in Profiles : BindIPRoute(x, p)
    BY <1>3
  <2>1. /\ DOMAIN bindings' \subseteq Prefixes
        /\ \A y \in DOMAIN bindings' : bindings'[y] \in Profiles
    BY <1>t DEF BindIPRoute, TypeOK
  <2> QED BY <2>1, <1>t, <1>r DEF BindIPRoute, IInv, TypeOK
<1>4. CASE \E r \in Replacements : ReplaceIPRoutes(r)
  BY <1>4, <1>t, <1>r DEF ReplaceIPRoutes, IInv, TypeOK
<1>5. CASE ClearIPRoutes
  BY <1>5, <1>t, <1>r DEF ClearIPRoutes, IInv, TypeOK
<1>6. CASE \E p \in Profiles : SetExitNode(p)
  BY <1>6, <1>t, <1>r DEF SetExitNode, IInv, TypeOK
<1>7. CASE ClearExitNode
  BY <1>7, <1>t, <1>r DEF ClearExitNode, IInv, TypeOK
<1>8. CASE \E p \in Profiles : \E status \in Reports[p] \cup {None} : HandleUpdate(p, status)
  <2> PICK p \in Profiles : \E status \in Reports[p] \cup {None} : HandleUpdate(p, status)
    BY <1>8
  <2> PICK status \in Reports[p] \cup {None} : HandleUpdate(p, status)
    OBVIOUS
  <2>1. /\ DOMAIN report' = Profiles
        /\ \A q \in Profiles : report'[q] \in Reports[q] \cup {None}
    BY <1>t DEF HandleUpdate, TypeOK
  <2> QED BY <2>1, <1>t, <1>r DEF HandleUpdate, IInv, TypeOK, desired
<1>9. CASE \E q \in Pools : Start(q)
  <2> PICK q \in Pools : Start(q)
    BY <1>9
  <2> DEFINE L == IF q = pool THEN leased ELSE {}
  <2>1. L \subseteq Profiles /\ Reconcile(L)
    BY <1>t DEF Start
  <2>2. installed' \in BOOLEAN
    BY <2>1, <1>t, ReconcileTypes
  <2>3. /\ DOMAIN report' = Profiles
        /\ \A r \in Profiles : report'[r] \in Reports[r] \cup {None}
    BY <1>t DEF Start, TypeOK, IInv
  <2>4. up' \in BOOLEAN /\ pool' \in Pools
    BY <2>2 DEF Start
  <2>5. /\ DOMAIN bindings' \subseteq Prefixes
        /\ \A x \in DOMAIN bindings' : bindings'[x] \in Profiles
        /\ accept' \subseteq Profiles
        /\ exitNode' \in ExitProfiles \cup {None}
    BY <1>t DEF Start, TypeOK, desired
  <2> HIDE DEF L
  <2> QED BY <2>1, <2>3, <2>4, <2>5, <1>r
<1>10. CASE UNCHANGED vars
  <2>1. Exact' = Exact
    BY <1>10 DEF vars, desired, Exact, Advertises, Running, RouteOverlapsReserved, Overlaps
  <2>2. Imported' = Imported
    BY <1>10 DEF vars, desired, Imported, ImportedEntry, ImportCandidates, Running,
       FullOverride, RouteOverlapsReserved, Overlaps, Barrier
  <2>3. Present' = Present /\ Self' = Self
    BY <1>10 DEF vars, desired, Present, Self, Running
  <2>4. PlanBuilds => PlanBuilds'
    BY <1>10, <2>1, <2>2, <2>3
       DEF vars, desired, PlanBuilds, RouteOverlapsReserved, Overlaps, Active
  <2> QED BY <1>10, <2>4 DEF IInv, TypeOK, vars, desired
<1> QED
  BY <1>1, <1>2, <1>3, <1>4, <1>5, <1>6, <1>7, <1>8, <1>9, <1>10 DEF Next

LEMMA Invariant == Spec => []IInv
BY InvInit, InvNext, PTL DEF Spec

(* TypeCorrect: every variable keeps its type, for any profiles, prefixes and
   pools; SetExitNode records only profiles that offer an exit node. *)
THEOREM TypeCorrect == Spec => []TypeOK
<1>1. IInv => TypeOK
  BY DEF IInv
<1> QED BY <1>1, Invariant, PTL

-----------------------------------------------------------------------------
(* The entries of the packet table. *)

(* The longest of some prefixes that contain one address is one of them. *)
LEMMA LongestIn ==
    ASSUME NEW ip \in Addrs, NEW S \in SUBSET {x \in Prefixes : ip \in x}, S # {}
    PROVE  Longest(S) \in S
BY RoutesAssumption DEF Longest

LEMMA ProfileTypes ==
    ASSUME TypeOK
    PROVE  /\ Present \subseteq Running
           /\ Self \subseteq Running
           /\ Running \subseteq Profiles
           /\ None \notin Profiles
           /\ \A p \in Running : report[p].routes \in SUBSET Prefixes
           /\ \A p \in Profiles : Effective(p) \in pool
           /\ \A p, r \in Profiles : Effective(p) = Effective(r) => p = r
<1>1. /\ Present \subseteq Running
      /\ Self \subseteq Running
      /\ Running \subseteq Profiles
      /\ None \notin Profiles
  BY RoutesAssumption DEF Present, Self, Running
<1>2. \A p \in Running : report[p].routes \in SUBSET Prefixes
  BY RoutesAssumption DEF TypeOK, Running
<1>3. /\ \A p \in Profiles : Effective(p) \in pool
      /\ \A p, r \in Profiles : Effective(p) = Effective(r) => p = r
  BY RoutesAssumption DEF TypeOK, Effective
<1> QED BY <1>1, <1>2, <1>3

(* A destination of the table belongs to the one target that is present with
   that effective address. *)
LEMMA Destination ==
    ASSUME TypeOK, NEW p \in Present
    PROVE  /\ Effective(p) \in DOMAIN Table.destinations
           /\ Table.destinations[Effective(p)] = [profile |-> p, canonical |-> Canonical[p]]
           /\ (CHOOSE r \in Present : Effective(r) = Effective(p)) = p
<1> DEFINE ip == Effective(p)
           h == CHOOSE r \in Present : Effective(r) = ip
<1>1. h \in Present /\ Effective(h) = Effective(p)
  OBVIOUS
<1>2. h = p
  BY <1>1, ProfileTypes
<1> QED BY <1>2 DEF Table

LEMMA DestinationDomain ==
    ASSUME NEW ip
    PROVE  ip \in DOMAIN Table.destinations <=> \E p \in Present : ip = Effective(p)
BY DEF Table

LEMMA TableFields ==
    /\ Table.exact = [x \in DOMAIN Exact \cup {{ip} : ip \in Retained} |->
                        IF x \in DOMAIN Exact THEN Exact[x] ELSE Barrier(None)]
    /\ Table.imported = Imported
    /\ Table.exit = ExitRoutes(Self)
    /\ Table.sources = Self
    /\ \A p \in Profiles :
          Table.inbound[p] = [c \in IF p \in Present THEN {Canonical[p]} ELSE {} |-> Effective(p)]
BY DEF Table

-----------------------------------------------------------------------------
(* Packets and their answers. *)

LEMMA Replies == TypeOK => RepliesReturn
<1> SUFFICES ASSUME TypeOK, NEW ip \in Addrs,
                    Outbound(Table, ip) # Dropped,
                    ~(/\ Outbound(Table, ip).preserve
                      /\ ip \in DOMAIN Table.inbound[Outbound(Table, ip).profile])
             PROVE  Inbound(Table, Outbound(Table, ip).profile,
                                   Outbound(Table, ip).canonical) = ip
  BY DEF RepliesReturn
<1> DEFINE d == Outbound(Table, ip)
<1>1. d = OutboundDestination(Table, ip) /\ d.profile \in Self
  BY TableFields DEF Outbound
<1>2. CASE ip \in DOMAIN Table.destinations
  <2>1. PICK p \in Present : ip = Effective(p)
    BY <1>2, DestinationDomain
  <2>a. Table.destinations[ip] = [profile |-> p, canonical |-> Canonical[p]]
    BY <2>1, Destination
  <2>b. OutboundDestination(Table, ip) =
            [profile |-> p, canonical |-> Canonical[p], preserve |-> FALSE]
    BY <1>2, <2>a DEF OutboundDestination
  <2>2. d.profile = p /\ d.canonical = Canonical[p]
    BY <1>1, <2>b
  <2>3. p \in Profiles
    BY ProfileTypes
  <2>4. Canonical[p] \in DOMAIN Table.inbound[p] /\ Table.inbound[p][Canonical[p]] = ip
    BY <2>1, <2>3, TableFields
  <2> QED BY <1>1, <2>2, <2>4, TableFields DEF Inbound
<1>3. CASE ip \notin DOMAIN Table.destinations
  <2> DEFINE route == SubnetRoute(Table, ip)
  <2>1. Usable(route)
    BY <1>1, <1>3 DEF OutboundDestination
  <2>2. d = [profile |-> route.profile, canonical |-> ip, preserve |-> TRUE]
    BY <1>1, <1>3, <2>1 DEF OutboundDestination
  <2>3. d.profile = route.profile /\ d.canonical = ip /\ d.preserve
    BY <2>2
  <2>4. ip \notin DOMAIN Table.inbound[d.profile]
    BY <2>3
  <2> HIDE DEF d, route
  <2>5. Inbound(Table, d.profile, ip) = ip
    BY <1>1, <2>1, <2>3, <2>4, TableFields DEF Inbound, route
  <2> QED BY <2>3, <2>5 DEF d
<1> QED BY <1>2, <1>3

(* RepliesReturn, for any profiles, prefixes, leases and pools: Mapper.Inbound
   undoes what Mapper.Outbound does to the address, in the plan of every
   reachable state. *)
THEOREM AnswersReturn == Spec => []RepliesReturn
BY TypeCorrect, Replies, PTL

LEMMA Pinned == TypeOK => SourcesArePinned
<1> SUFFICES ASSUME TypeOK, NEW p \in Profiles, NEW src \in Addrs \ DOMAIN Table.destinations,
                    Inbound(Table, p, src) # None
             PROVE  /\ Outbound(Table, Inbound(Table, p, src)).profile = p
                    /\ Outbound(Table, Inbound(Table, p, src)).canonical = src
  BY DEF SourcesArePinned
<1> DEFINE seen == Inbound(Table, p, src)
           d == Outbound(Table, seen)
<1>1. p \in Self
  BY TableFields DEF Inbound
<1>2. CASE src \in DOMAIN Table.inbound[p]
  <2>a. Table.inbound[p] = [c \in IF p \in Present THEN {Canonical[p]} ELSE {} |-> Effective(p)]
    BY TableFields
  <2>1. p \in Present /\ src = Canonical[p]
    BY <1>2, <2>a
  <2>2. seen = Effective(p)
    BY <1>1, <1>2, <2>1, TableFields DEF Inbound
  <2> HIDE DEF seen
  <2>3. /\ seen \in DOMAIN Table.destinations
        /\ Table.destinations[seen] = [profile |-> p, canonical |-> src]
    BY <2>1, <2>2, Destination
  <2>4. OutboundDestination(Table, seen) = [profile |-> p, canonical |-> src, preserve |-> FALSE]
    BY <2>3 DEF OutboundDestination
  <2>5. d = [profile |-> p, canonical |-> src, preserve |-> FALSE]
    BY <1>1, <2>4, TableFields DEF Outbound
  <2> QED BY <2>5 DEF seen
<1>3. CASE src \notin DOMAIN Table.inbound[p]
  <2> DEFINE route == SubnetRoute(Table, src)
  <2>1. Usable(route) /\ route.profile = p /\ seen = src
    BY <1>1, <1>3, TableFields DEF Inbound
  <2>2. OutboundDestination(Table, src) = [profile |-> p, canonical |-> src, preserve |-> TRUE]
    BY <2>1 DEF OutboundDestination
  <2>3. Outbound(Table, src) = [profile |-> p, canonical |-> src, preserve |-> TRUE]
    BY <1>1, <2>2, TableFields DEF Outbound
  <2> QED BY <2>1, <2>3
<1> QED BY <1>2, <1>3

(* SourcesArePinned, for any profiles, prefixes, leases and pools: what
   Mapper.Inbound admits from a profile, Mapper.Outbound answers through that
   profile. *)
THEOREM NoProfileSpeaksForAnother == Spec => []SourcesArePinned
BY TypeCorrect, Pinned, PTL

\* Outbound and inbound translation of every plan in force are inverse.
THEOREM ConversationsHold == Spec => []BothWaysAgree
<1>1. RepliesReturn /\ SourcesArePinned => BothWaysAgree
  BY DEF BothWaysAgree
<1> QED  BY <1>1, AnswersReturn, NoProfileSpeaksForAnother, PTL

-----------------------------------------------------------------------------
(* Which route decides. *)

(* The route of the policy for an address that no target holds, in the order
   of the tiers, when the profiles in U may serve the exit node. *)
Selected(ip, U) ==
    IF Bindings(ip) # {} THEN Exact[Longest(Bindings(ip))]
    ELSE IF Imports(ip) # {} THEN ImportedEntry(Longest(Imports(ip)))
    ELSE IF ActiveExitProfile \in U THEN [profile |-> ActiveExitProfile, active |-> TRUE]
    ELSE Barrier(None)

LEMMA CoveringTiers ==
    ASSUME TypeOK, NEW ip \in Addrs
    PROVE  /\ Covering(Exact, ip) = Bindings(ip)
           /\ Covering(Imported, ip) = Imports(ip)
           /\ ip \notin Retained => Covering(Table.exact, ip) = Bindings(ip)
           /\ Bindings(ip) \in SUBSET {x \in Prefixes : ip \in x}
           /\ Imports(ip) \in SUBSET {x \in Prefixes : ip \in x}
           /\ \A x \in Imports(ip) : Imported[x] = ImportedEntry(x)
<1>1. Covering(Exact, ip) = Bindings(ip)
  BY DEF Covering, Exact, Bindings
<1>2. Imports(ip) \in SUBSET {x \in Prefixes : ip \in x}
  BY ProfileTypes DEF Imports
<1>3. \A x \in Prefixes : ip \in x => (x \in Imports(ip) <=> ImportCandidates(x) # {})
  BY DEF Imports, ImportCandidates
<1>4. /\ DOMAIN Imported = {y \in Prefixes : ImportCandidates(y) # {}}
      /\ \A x \in DOMAIN Imported : Imported[x] = ImportedEntry(x)
  BY DEF Imported
<1>5. Covering(Imported, ip) = Imports(ip)
  BY <1>2, <1>3, <1>4 DEF Covering
<1>6. ASSUME ip \notin Retained PROVE Covering(Table.exact, ip) = Bindings(ip)
  <2>1. DOMAIN Table.exact = DOMAIN Exact \cup {{r} : r \in Retained}
    BY TableFields
  <2>2. DOMAIN Exact = DOMAIN bindings
    BY DEF Exact
  <2> QED BY <1>6, <2>1, <2>2 DEF Covering, Bindings
<1>7. Bindings(ip) \in SUBSET {x \in Prefixes : ip \in x}
  BY DEF Bindings, TypeOK
<1> QED BY <1>1, <1>2, <1>3, <1>4, <1>5, <1>6, <1>7

LEMMA ExitLookup ==
    ASSUME NEW ip \in Addrs, NEW U
    PROVE  /\ Matches(ExitRoutes(U), ip) <=> ActiveExitProfile \in U
           /\ ActiveExitProfile \in U =>
                 LookupSubnet(ExitRoutes(U), ip) = [profile |-> ActiveExitProfile, active |-> TRUE]
<1>1. CASE ActiveExitProfile \in U
  <2>1. DOMAIN ExitRoutes(U) = {Addrs}
    BY <1>1 DEF ExitRoutes
  <2>2. Covering(ExitRoutes(U), ip) = {Addrs}
    BY <2>1 DEF Covering
  <2>3. Longest({Addrs}) = Addrs
    BY DEF Longest
  <2>4. ExitRoutes(U)[Addrs] = [profile |-> ActiveExitProfile, active |-> TRUE]
    BY <1>1 DEF ExitRoutes
  <2> QED BY <1>1, <2>2, <2>3, <2>4 DEF Matches, LookupSubnet
<1>2. CASE ActiveExitProfile \notin U
  <2>1. DOMAIN ExitRoutes(U) = {}
    BY <1>2 DEF ExitRoutes
  <2> QED BY <1>2, <2>1 DEF Matches, Covering
<1> QED BY <1>1, <1>2

LEMMA TableSelects ==
    ASSUME TypeOK, NEW ip \in Addrs, ip \notin Retained
    PROVE  SubnetRoute(Table, ip) = Selected(ip, Self)
<1>1. CASE Bindings(ip) # {}
  <2> DEFINE x == Longest(Bindings(ip))
  <2>1. x \in Bindings(ip)
    BY <1>1, CoveringTiers, LongestIn
  <2>2. x \in DOMAIN Exact
    BY <2>1 DEF Bindings, Exact
  <2> HIDE DEF x
  <2>3. Table.exact[x] = Exact[x]
    BY <2>2, TableFields
  <2>4. LookupSubnet(Table.exact, ip) = Exact[x] /\ Matches(Table.exact, ip)
    BY <1>1, <2>3, CoveringTiers DEF LookupSubnet, Matches, x
  <2> QED BY <1>1, <2>4 DEF SubnetRoute, Selected, x
<1>2. CASE Bindings(ip) = {} /\ Imports(ip) # {}
  <2>1. Longest(Imports(ip)) \in Imports(ip)
    BY <1>2, CoveringTiers, LongestIn
  <2>2. LookupSubnet(Imported, ip) = ImportedEntry(Longest(Imports(ip)))
    BY <2>1, CoveringTiers DEF LookupSubnet
  <2>3. ~Matches(Table.exact, ip) /\ Matches(Imported, ip)
    BY <1>2, CoveringTiers DEF Matches
  <2> QED BY <1>2, <2>2, <2>3, TableFields DEF SubnetRoute, Selected
<1>3. CASE Bindings(ip) = {} /\ Imports(ip) = {}
  <2>1. ~Matches(Table.exact, ip) /\ ~Matches(Imported, ip)
    BY <1>3, CoveringTiers DEF Matches
  <2> QED BY <1>3, <2>1, TableFields, ExitLookup DEF SubnetRoute, Selected
<1> QED BY <1>1, <1>2, <1>3

LEMMA SocksSelects ==
    ASSUME TypeOK, NEW ip \in Addrs
    PROVE  SubnetRoute(SocksTable, ip) = Selected(ip, Profiles)
<1>1. /\ SocksTable.exact = Exact
      /\ SocksTable.imported = Imported
      /\ SocksTable.exit = ExitRoutes(Profiles)
  BY DEF SocksTable
<1>2. /\ Matches(Exact, ip) <=> Bindings(ip) # {}
      /\ Matches(Imported, ip) <=> Imports(ip) # {}
  BY CoveringTiers DEF Matches
<1>3. LookupSubnet(Exact, ip) = Exact[Longest(Bindings(ip))]
  BY CoveringTiers DEF LookupSubnet
<1>4. ASSUME Imports(ip) # {}
      PROVE  LookupSubnet(Imported, ip) = ImportedEntry(Longest(Imports(ip)))
  <2>1. Longest(Imports(ip)) \in Imports(ip)
    BY <1>4, CoveringTiers, LongestIn
  <2> QED BY <2>1, CoveringTiers DEF LookupSubnet
<1> QED BY <1>1, <1>2, <1>3, <1>4, ExitLookup DEF SubnetRoute, Selected

(* A route that is used names a profile that is running. *)
LEMMA UsableIsRunning ==
    ASSUME TypeOK, NEW ip \in Addrs, NEW U, Usable(Selected(ip, U))
    PROVE  Selected(ip, U).profile \in Running
<1>1. CASE Bindings(ip) # {}
  <2> DEFINE x == Longest(Bindings(ip))
  <2>1. x \in DOMAIN bindings
    BY <1>1, CoveringTiers, LongestIn DEF Bindings
  <2> HIDE DEF x
  <2>2. Exact[x] = [profile |-> bindings[x],
                    active |-> Advertises(bindings[x], x) /\ ~RouteOverlapsReserved(x)]
    BY <2>1 DEF Exact
  <2>3. Selected(ip, U) = Exact[x]
    BY <1>1 DEF Selected, x
  <2>4. Exact[x].profile = bindings[x]
    BY <2>2
  <2>5. Exact[x].active = (Advertises(bindings[x], x) /\ ~RouteOverlapsReserved(x))
    BY <2>2
  <2> QED BY <2>3, <2>4, <2>5 DEF Usable, Advertises
<1>2. CASE Bindings(ip) = {} /\ Imports(ip) # {}
  <2> DEFINE x == Longest(Imports(ip))
  <2>1. x \in Imports(ip)
    BY <1>2, CoveringTiers, LongestIn
  <2> HIDE DEF x
  <2>2. ImportCandidates(x) # {} /\ ImportCandidates(x) \subseteq Running
    BY <2>1 DEF Imports, ImportCandidates
  <2>3. Selected(ip, U) = ImportedEntry(x)
    BY <1>2 DEF Selected, x
  <2> QED BY <2>2, <2>3 DEF ImportedEntry, Usable, Barrier
<1>3. CASE Bindings(ip) = {} /\ Imports(ip) = {}
  BY <1>3, ProfileTypes DEF Selected, Usable, Barrier, ActiveExitProfile
<1> QED BY <1>1, <1>2, <1>3

LEMMA SameInSocks == TypeOK => SocksAgrees
<1> SUFFICES ASSUME TypeOK, Running \subseteq Self, NEW ip \in Addrs \ Retained
             PROVE  SocksResolve(ip) = Outbound(Table, ip)
  BY DEF SocksAgrees
<1>1. CASE ip \in DOMAIN Table.destinations
  <2>1. PICK p \in Present : ip = Effective(p)
    BY <1>1, DestinationDomain
  <2>2. Table.destinations[ip] = [profile |-> p, canonical |-> Canonical[p]]
    BY <2>1, Destination
  <2>3. OutboundDestination(Table, ip) =
            [profile |-> p, canonical |-> Canonical[p], preserve |-> FALSE]
    BY <1>1, <2>2 DEF OutboundDestination
  <2>4. p \in Self
    BY ProfileTypes
  <2>5. Outbound(Table, ip) = [profile |-> p, canonical |-> Canonical[p], preserve |-> FALSE]
    BY <2>3, <2>4, TableFields DEF Outbound
  <2>6. (CHOOSE r \in Present : Effective(r) = ip) = p
    BY <2>1, Destination
  <2>7. SocksResolve(ip) = [profile |-> p, canonical |-> Canonical[p], preserve |-> FALSE]
    BY <2>1, <2>6 DEF SocksResolve
  <2> QED BY <2>5, <2>7
<1>2. CASE ip \notin DOMAIN Table.destinations
  <2> DEFINE route == Selected(ip, Self)
  <2>1. SubnetRoute(Table, ip) = route
    BY TableSelects
  <2>2. ActiveExitProfile \in Self <=> ActiveExitProfile \in Profiles
    BY ProfileTypes DEF ActiveExitProfile
  <2>3. SubnetRoute(SocksTable, ip) = route
    BY <2>2, SocksSelects DEF Selected
  <2>4. Usable(route) => route.profile \in Self
    BY UsableIsRunning
  <2> HIDE DEF route
  <2>5. Dropped.profile \notin Self
    BY ProfileTypes DEF Dropped
  <2>6. ip \notin {Effective(p) : p \in Present}
    BY <1>2, DestinationDomain
  <2> QED
    BY <1>2, <2>1, <2>3, <2>4, <2>5, <2>6, TableFields
       DEF SocksResolve, Outbound, OutboundDestination
<1> QED BY <1>1, <1>2

(* SocksAgrees, for any profiles, prefixes, leases and pools: for an address
   that no departed target holds, Router.Resolve and Mapper.Outbound select the
   same profile and destination. *)
THEOREM BothModesAgree == Spec => []SocksAgrees
BY TypeCorrect, SameInSocks, PTL

-----------------------------------------------------------------------------
(* Bound addresses. *)

(* While a plan builds, a bound address is outside the pool, so only the
   longest binding decides where it goes. *)
LEMMA BoundAddress ==
    ASSUME TypeOK, PlanBuilds, NEW ip \in UNION DOMAIN bindings
    PROVE  /\ ip \in Addrs
           /\ ip \notin Retained
           /\ ip \notin DOMAIN Table.destinations
           /\ Bindings(ip) # {}
<1>1. PICK x \in DOMAIN bindings : ip \in x
  OBVIOUS
<1>2. ip \in Addrs /\ Bindings(ip) # {}
  BY <1>1, RoutesAssumption DEF TypeOK, Bindings
<1>3. ip \notin pool
  BY <1>1 DEF PlanBuilds, RouteOverlapsReserved, Overlaps
<1>4. \A p \in Profiles : ip # Effective(p)
  BY <1>3, ProfileTypes
<1>5. ip \notin Retained
  BY <1>4 DEF Retained, TypeOK
<1>6. ip \notin DOMAIN Table.destinations
  BY <1>4, ProfileTypes, DestinationDomain
<1> QED BY <1>2, <1>5, <1>6

(* A bound address enters the profile of its longest binding, as it is, or
   nothing. *)
BoundTo(ip) ==
    [profile |-> bindings[Longest(Bindings(ip))], canonical |-> ip, preserve |-> TRUE]

BoundOnly ==
    installed => \A ip \in UNION DOMAIN bindings :
                    Outbound(Table, ip) \in {BoundTo(ip), Dropped}

LEMMA InvBoundOnly == IInv => BoundOnly
<1> SUFFICES ASSUME TypeOK, PlanBuilds, NEW ip \in UNION DOMAIN bindings
             PROVE  Outbound(Table, ip) \in {BoundTo(ip), Dropped}
  BY DEF IInv, BoundOnly
<1> DEFINE x == Longest(Bindings(ip))
<1>1. x \in DOMAIN bindings
  BY BoundAddress, CoveringTiers, LongestIn DEF Bindings
<1>2. SubnetRoute(Table, ip) = Exact[x]
  BY BoundAddress, TableSelects DEF Selected
<1>3. BoundTo(ip) = [profile |-> bindings[x], canonical |-> ip, preserve |-> TRUE]
  BY DEF BoundTo
<1> HIDE DEF x
<1>4. Exact[x].profile = bindings[x]
  BY <1>1 DEF Exact
<1>5. OutboundDestination(Table, ip) \in {BoundTo(ip), Dropped}
  BY <1>2, <1>3, <1>4, BoundAddress DEF OutboundDestination
<1> QED BY <1>5 DEF Outbound

(* NoFailover, for any profiles, prefixes and pools: from one plan in force to
   the next, a restart with another pool included, a bound address keeps its
   profile or is dropped. *)
THEOREM BindingsNeverFailOver == Spec => NoFailover
<1>1. ASSUME BoundOnly, BoundOnly'
      PROVE  StaysBound
  <2> SUFFICES ASSUME installed, installed', UNCHANGED desired,
                      NEW ip \in UNION DOMAIN bindings, Outbound(Table, ip) # Dropped
               PROVE  Outbound(Table', ip) \in {Outbound(Table, ip), Dropped}
    BY DEF StaysBound
  <2>1. bindings' = bindings
    BY DEF desired
  <2>2. BoundTo(ip)' = BoundTo(ip)
    BY <2>1 DEF BoundTo, Bindings
  <2>3. Outbound(Table, ip) = BoundTo(ip)
    BY <1>1 DEF BoundOnly
  <2>4. Outbound(Table', ip) \in {BoundTo(ip)', Dropped}
    BY <1>1, <2>1 DEF BoundOnly
  <2> QED BY <2>2, <2>3, <2>4
<1>2. Spec => []BoundOnly
  BY Invariant, InvBoundOnly, PTL
<1>3. BoundOnly /\ BoundOnly' => [StaysBound]_vars
  BY <1>1
<1> QED BY <1>2, <1>3, PTL DEF NoFailover

-----------------------------------------------------------------------------
(* The documented policy. *)

(* Where no target holds the address, the packet goes to the profile of the
   selected route. *)
LEMMA OutboundSelected ==
    ASSUME TypeOK, NEW ip \in Addrs, ip \notin Retained, ip \notin DOMAIN Table.destinations
    PROVE  LET route == Selected(ip, Self) IN
           Outbound(Table, ip) =
               IF Usable(route) /\ route.profile \in Self
               THEN [profile |-> route.profile, canonical |-> ip, preserve |-> TRUE]
               ELSE Dropped
<1> DEFINE route == Selected(ip, Self)
<1>1. SubnetRoute(Table, ip) = route
  BY TableSelects
<1> HIDE DEF route
<1>2. Dropped.profile \notin Self
  BY ProfileTypes DEF Dropped
<1>3. OutboundDestination(Table, ip) =
          IF Usable(route)
          THEN [profile |-> route.profile, canonical |-> ip, preserve |-> TRUE]
          ELSE Dropped
  BY <1>1 DEF OutboundDestination
<1>4. Outbound(Table, ip) =
          IF Usable(route) /\ route.profile \in Self
          THEN [profile |-> route.profile, canonical |-> ip, preserve |-> TRUE]
          ELSE Dropped
  BY <1>2, <1>3, TableFields DEF Outbound
<1> QED BY <1>4 DEF route

(* The address of a retained lease is closed: no binding reaches into the
   pool while a plan builds, so its own barrier is the only exact route. *)
LEMMA RetainedDropped ==
    ASSUME TypeOK, PlanBuilds, NEW ip \in Retained
    PROVE  /\ ip \notin DOMAIN Table.destinations
           /\ Outbound(Table, ip) = Dropped
<1>1. PICK p \in leased \ Present : ip = Effective(p)
  BY DEF Retained
<1>2. p \in Profiles /\ ip \in pool
  BY <1>1, ProfileTypes DEF TypeOK
<1>3. ip \notin DOMAIN Table.destinations
  BY <1>1, <1>2, ProfileTypes, DestinationDomain
<1>4. Bindings(ip) = {}
  BY <1>2 DEF Bindings, PlanBuilds, RouteOverlapsReserved, Overlaps
<1>5. DOMAIN Exact = DOMAIN bindings
  BY DEF Exact
<1>6. Covering(Table.exact, ip) = {{ip}}
  <2>1. DOMAIN Table.exact = DOMAIN Exact \cup {{r} : r \in Retained}
    BY TableFields
  <2> QED BY <1>4, <1>5, <2>1 DEF Covering, Bindings
<1>7. Longest({{ip}}) = {ip}
  BY DEF Longest
<1>8. {ip} \notin DOMAIN Exact
  BY <1>4, <1>5 DEF Bindings
<1>9. Table.exact[{ip}] = Barrier(None)
  BY <1>8, TableFields
<1>10. SubnetRoute(Table, ip) = Barrier(None)
  BY <1>6, <1>7, <1>9 DEF SubnetRoute, Matches, LookupSubnet
<1>11. OutboundDestination(Table, ip) = Dropped
  BY <1>3, <1>10 DEF OutboundDestination, Usable, Barrier
<1> QED BY <1>3, <1>11 DEF Outbound

(* An address that a present target holds goes to that target. *)
LEMMA PresentReached ==
    ASSUME TypeOK, PlanBuilds, NEW r \in Present
    PROVE  Outbound(Table, Effective(r)).profile = r
<1>1. Table.destinations[Effective(r)] = [profile |-> r, canonical |-> Canonical[r]]
  BY Destination
<1>2. OutboundDestination(Table, Effective(r)) =
          [profile |-> r, canonical |-> Canonical[r], preserve |-> FALSE]
  BY <1>1, Destination DEF OutboundDestination
<1>3. r \in Table.sources
  BY TableFields DEF PlanBuilds
<1> QED BY <1>2, <1>3 DEF Outbound

LEMMA OneOrMany ==
    ASSUME NEW S \in SUBSET Profiles, NEW p
    PROVE  S = {p} <=> /\ S # {}
                       /\ ~(Cardinality(S) > 1)
                       /\ p = CHOOSE q \in S : TRUE
<1>1. IsFiniteSet(S)
  BY RoutesAssumption, FS_Subset
<1>2. Cardinality(S) \in Nat
  BY <1>1, FS_CardinalityType
<1>3. CASE S = {p}
  <2>1. Cardinality(S) = 1
    BY <1>3, FS_Singleton
  <2>2. (CHOOSE q \in S : TRUE) = p
    BY <1>3
  <2> QED BY <1>3, <2>1, <2>2
<1>4. ASSUME S # {}, ~(Cardinality(S) > 1), p = CHOOSE q \in S : TRUE
      PROVE  S = {p}
  <2>1. Cardinality(S) # 0
    BY <1>1, <1>4, FS_EmptySet
  <2>2. Cardinality(S) = 1
    BY <1>2, <1>4, <2>1
  <2>3. PICK q : S = {q}
    BY <1>1, <2>2, FS_Singleton
  <2> QED BY <1>4, <2>3
<1> QED BY <1>3, <1>4

(* The three tiers: which profile the selected route gives the packet to. *)
LEMMA BoundTier ==
    ASSUME TypeOK, PlanBuilds, NEW ip \in Addrs, Bindings(ip) # {}
    PROVE  LET x == Longest(Bindings(ip)) IN
           /\ x \in Bindings(ip)
           /\ Selected(ip, Self).profile = bindings[x]
           /\ Usable(Selected(ip, Self)) <=> Advertises(bindings[x], x)
           /\ Usable(Selected(ip, Self)) <=> x \in Active(Exact)
           /\ Usable(Selected(ip, Self)) => bindings[x] \in Self
<1> DEFINE x == Longest(Bindings(ip))
<1>1. x \in Bindings(ip)
  BY CoveringTiers, LongestIn
<1>2. Selected(ip, Self) = Exact[x]
  BY DEF Selected
<1> HIDE DEF x
<1>3. x \in DOMAIN bindings /\ bindings[x] \in Profiles /\ x \in DOMAIN Exact
  BY <1>1 DEF Bindings, TypeOK, Exact
<1>4. Exact[x] = [profile |-> bindings[x],
                  active |-> Advertises(bindings[x], x) /\ ~RouteOverlapsReserved(x)]
  BY <1>3 DEF Exact
<1>5. Exact[x].profile = bindings[x] /\ bindings[x] # None
  BY <1>3, <1>4, RoutesAssumption
<1>6. Exact[x].active = (Advertises(bindings[x], x) /\ ~RouteOverlapsReserved(x))
  BY <1>4
<1>7. ~RouteOverlapsReserved(x)
  BY <1>3 DEF PlanBuilds
<1>8. Usable(Exact[x]) <=> Advertises(bindings[x], x)
  BY <1>5, <1>6, <1>7 DEF Usable
<1>9. Usable(Exact[x]) <=> x \in Active(Exact)
  BY <1>3 DEF Active
<1>10. Usable(Exact[x]) => bindings[x] \in Self
  BY <1>5, <1>9 DEF PlanBuilds
<1> QED BY <1>1, <1>2, <1>5, <1>8, <1>9, <1>10 DEF x

LEMMA ImportedTier ==
    ASSUME TypeOK, PlanBuilds, NEW ip \in Addrs, Bindings(ip) = {}, Imports(ip) # {},
           NEW p \in Profiles
    PROVE  LET x == Longest(Imports(ip))
               route == Selected(ip, Self)
           IN
           /\ x \in Imports(ip)
           /\ Usable(route) <=> x \in Active(Imported)
           /\ Usable(route) => route.profile \in Self
           /\ Usable(route) /\ route.profile = p
                 <=> Importers(ip) = {p} /\ ~RouteOverlapsReserved(x)
<1> DEFINE x == Longest(Imports(ip))
           S == ImportCandidates(x)
           route == Selected(ip, Self)
<1>1. x \in Imports(ip)
  BY CoveringTiers, LongestIn
<1>2. route = ImportedEntry(x) /\ Importers(ip) = S
  BY DEF Selected, Importers, ImportCandidates
<1> HIDE DEF x
<1>3. x \in DOMAIN Imported /\ Imported[x] = ImportedEntry(x)
  BY <1>1, CoveringTiers DEF Covering
<1>4. S # {} /\ S \subseteq Profiles
  BY <1>1, ProfileTypes DEF Imports, ImportCandidates
<1>5. ~FullOverride(x)
  BY <1>1 DEF FullOverride, Imports, Bindings
<1> HIDE DEF S
<1>6. Usable(route) <=> x \in Active(Imported)
  BY <1>2, <1>3 DEF Active
<1>7. Usable(route) => route.profile \in Self
  BY <1>2, <1>3, <1>6 DEF PlanBuilds
<1>8. CASE Cardinality(S) > 1
  <2>1. ~Usable(route)
    BY <1>2, <1>8 DEF ImportedEntry, S, Usable, Barrier
  <2>2. S # {p}
    BY <1>4, <1>8, OneOrMany
  <2> QED BY <1>1, <1>2, <1>6, <2>1, <2>2 DEF x
<1>9. CASE ~(Cardinality(S) > 1)
  <2> DEFINE q == CHOOSE r \in S : TRUE
  <2>1. route = [profile |-> q, active |-> ~RouteOverlapsReserved(x) /\ ~FullOverride(x)]
    BY <1>2, <1>9 DEF ImportedEntry, S
  <2>2. q \in Profiles /\ q # None
    BY <1>4, RoutesAssumption
  <2>3. S = {p} <=> p = q
    BY <1>4, <1>9, OneOrMany
  <2> HIDE DEF q
  <2>4. route.profile = q
    BY <2>1
  <2>5. route.active = (~RouteOverlapsReserved(x) /\ ~FullOverride(x))
    BY <2>1
  <2> HIDE DEF route
  <2>6. Usable(route) <=> ~RouteOverlapsReserved(x)
    BY <1>5, <2>2, <2>4, <2>5 DEF Usable
  <2> QED BY <1>1, <1>2, <1>6, <1>7, <2>3, <2>4, <2>6 DEF x, route
<1> QED BY <1>8, <1>9

LEMMA ExitTier ==
    ASSUME TypeOK, NEW ip \in Addrs, Bindings(ip) = {}, Imports(ip) = {}, NEW p \in Profiles
    PROVE  LET route == Selected(ip, Self) IN
           /\ Usable(route) <=> ActiveExitProfile \in Self
           /\ Usable(route) => route.profile \in Self
           /\ Usable(route) /\ route.profile = p <=> p = exitNode /\ p \in exitOn \cap Self
BY ProfileTypes DEF Selected, Usable, Barrier, ActiveExitProfile

LEMMA NotHeld ==
    ASSUME NEW ip, ip \notin Held
    PROVE  ip \notin Retained /\ ip \notin DOMAIN Table.destinations
<1>1. ip \notin Retained
  BY DEF Held, Retained
<1>2. ip \notin DOMAIN Table.destinations
  BY DestinationDomain DEF Held
<1> QED BY <1>1, <1>2

LEMMA Policy == IInv => PacketsFollowPolicy
<1> SUFFICES ASSUME TypeOK, PlanBuilds, NEW ip \in Addrs, NEW p \in Profiles
             PROVE  Outbound(Table, ip).profile = p <=> PolicyAllows(p, ip)
  BY DEF IInv, PacketsFollowPolicy
<1>1. CASE ip \in Held
  <2>1. PICK r \in leased \cup Present : ip = Effective(r)
    BY <1>1 DEF Held
  <2>2. r \in Profiles
    BY ProfileTypes DEF TypeOK
  <2>3. PolicyAllows(p, ip) <=> p \in Present /\ p = r
    BY <1>1, <2>1, <2>2, ProfileTypes DEF PolicyAllows
  <2>4. CASE r \in Present
    BY <2>1, <2>3, <2>4, PresentReached
  <2>5. CASE r \notin Present
    <3>1. ip \in Retained
      BY <2>1, <2>5 DEF Retained
    <3>2. Outbound(Table, ip).profile = None
      BY <3>1, RetainedDropped DEF Dropped
    <3> QED BY <2>3, <2>5, <3>2, ProfileTypes
  <2> QED BY <2>4, <2>5
<1>2. CASE ip \notin Held
  <2> DEFINE route == Selected(ip, Self)
  <2>1. Outbound(Table, ip) =
            IF Usable(route) /\ route.profile \in Self
            THEN [profile |-> route.profile, canonical |-> ip, preserve |-> TRUE]
            ELSE Dropped
    BY <1>2, NotHeld, OutboundSelected
  <2> HIDE DEF route
  <2>2. Outbound(Table, ip).profile = p
            <=> Usable(route) /\ route.profile \in Self /\ route.profile = p
    BY <2>1, ProfileTypes DEF Dropped
  <2> USE DEF route
  <2>3. CASE Bindings(ip) # {}
    <3>1. PolicyAllows(p, ip) <=> LET x == Longest(Bindings(ip))
                                  IN p = bindings[x] /\ Advertises(p, x)
      BY <1>2, <2>3 DEF PolicyAllows
    <3> HIDE DEF route
    <3> QED BY <2>2, <2>3, <3>1, BoundTier DEF route
  <2>4. CASE Bindings(ip) = {} /\ Imports(ip) # {}
    <3>1. PolicyAllows(p, ip)
              <=> Importers(ip) = {p} /\ ~RouteOverlapsReserved(Longest(Imports(ip)))
      BY <1>2, <2>4 DEF PolicyAllows
    <3> QED BY <2>2, <2>4, <3>1, ImportedTier
  <2>5. CASE Bindings(ip) = {} /\ Imports(ip) = {}
    <3>1. PolicyAllows(p, ip) <=> p = exitNode /\ p \in exitOn \cap Self
      BY <1>2, <2>5 DEF PolicyAllows
    <3> QED BY <2>2, <2>5, <3>1, ExitTier
  <2> QED BY <2>3, <2>4, <2>5
<1> QED BY <1>1, <1>2

(* PacketsFollowPolicy, for any number of profiles, any nested prefixes, any
   pools: the three lookup tables and the barriers of tunConfigWithPolicy
   implement the documented order of precedence. *)
THEOREM PolicyImplemented == Spec => []PacketsFollowPolicy
BY Invariant, Policy, PTL

-----------------------------------------------------------------------------
(* Host routes. *)

LEMMA ActiveRoutesCover ==
    ASSUME TypeOK, NEW ip \in Addrs
    PROVE  /\ \A x \in Active(Exact) : ip \in x => x \in Bindings(ip)
           /\ \A x \in Active(Imported) : ip \in x => x \in Imports(ip)
           /\ \A x \in Bindings(ip) \cup Imports(ip) : ip \in x
BY CoveringTiers DEF Active, Covering

LEMMA Carried == IInv => HostRoutesCarry
<1> SUFFICES ASSUME TypeOK, PlanBuilds, NEW ip \in Addrs
             PROVE  /\ Outbound(Table, ip) # Dropped => ip \in UNION HostRoutes
                    /\ Outbound(Table, ip) = Dropped /\ ip \in UNION HostRoutes =>
                          \/ ip \in Retained
                          \/ \E x \in Bindings(ip) : x \notin Active(Exact)
                          \/ \E x \in Imports(ip) : x \notin Active(Imported)
  BY DEF IInv, HostRoutesCarry
<1>h. ip \in UNION HostRoutes <=>
          \/ \E p \in Present : ip = Effective(p)
          \/ ip \in Retained
          \/ \E x \in Active(Exact) : ip \in x
          \/ \E x \in Active(Imported) : ip \in x
          \/ ActiveExitProfile \in Self
  <2>1. ip \in UNION DOMAIN ExitRoutes(Self) <=> ActiveExitProfile \in Self
    BY DEF ExitRoutes
  <2> QED BY <2>1 DEF HostRoutes
<1>1. CASE ip \in DOMAIN Table.destinations
  <2>1. PICK p \in Present : ip = Effective(p)
    BY <1>1, DestinationDomain
  <2>2. Outbound(Table, ip).profile = p
    BY <2>1, PresentReached
  <2>3. Outbound(Table, ip) # Dropped
    BY <2>2, ProfileTypes DEF Dropped
  <2> QED BY <1>h, <2>1, <2>3
<1>2. CASE ip \in Retained
  BY <1>2, <1>h
<1>3. CASE ip \notin DOMAIN Table.destinations /\ ip \notin Retained
  <2> DEFINE route == Selected(ip, Self)
  <2>1. Outbound(Table, ip) =
            IF Usable(route) /\ route.profile \in Self
            THEN [profile |-> route.profile, canonical |-> ip, preserve |-> TRUE]
            ELSE Dropped
    BY <1>3, OutboundSelected
  <2>2. Usable(route) => route.profile \in Self
    BY BoundTier, ImportedTier, ExitTier, UsableIsRunning, ProfileTypes
  <2>3. Outbound(Table, ip) # Dropped <=> Usable(route)
    <3> HIDE DEF route
    <3> QED BY <2>1, <2>2 DEF Dropped
  <2>4. CASE Bindings(ip) # {}
    <3> DEFINE x == Longest(Bindings(ip))
    <3>1. x \in Bindings(ip) /\ (Usable(route) <=> x \in Active(Exact))
      BY <2>4, BoundTier
    <3> HIDE DEF x, route
    <3> QED BY <1>h, <2>3, <3>1, ActiveRoutesCover
  <2>5. CASE Bindings(ip) = {} /\ Imports(ip) # {}
    <3> DEFINE x == Longest(Imports(ip))
    <3>1. PICK p \in Profiles : TRUE
      BY <2>5, ProfileTypes DEF Imports
    <3>2. x \in Imports(ip) /\ (Usable(route) <=> x \in Active(Imported))
      BY <2>5, <3>1, ImportedTier
    <3> HIDE DEF x, route
    <3> QED BY <1>h, <2>3, <3>2, ActiveRoutesCover
  <2>6. CASE Bindings(ip) = {} /\ Imports(ip) = {}
    <3>1. Usable(route) <=> ActiveExitProfile \in Self
      BY <2>6, ProfileTypes DEF Selected, Usable, Barrier
    <3>2. ~\E p \in Present : ip = Effective(p)
      BY <1>3, DestinationDomain
    <3> HIDE DEF route
    <3> QED BY <1>h, <1>3, <2>3, <2>6, <3>1, <3>2, ActiveRoutesCover
  <2> QED BY <2>4, <2>5, <2>6
<1> QED BY <1>1, <1>2, <1>3

(* HostRoutesCarry, for any profiles, prefixes, leases and pools: the two halves
   of one plan, the packet table and the host routes, never disagree. *)
THEOREM HostRoutesMatchTable == Spec => []HostRoutesCarry
BY Invariant, Carried, PTL

(* OnePlan, for any profiles, prefixes, leases and pools: packet table, host
   routes and SOCKS router, computed apart, send every address the same way. *)
THEOREM RenderingsAgree == Spec => []OnePlan
<1>1. HostRoutesCarry /\ SocksAgrees => OnePlan
  BY DEF OnePlan
<1> QED BY <1>1, HostRoutesMatchTable, BothModesAgree, PTL

-----------------------------------------------------------------------------
(* The packet filter: the device and the configuration it is brought to. *)

Has(dev, b, k) == b \in DOMAIN dev /\ dev[b] = k

Declares(c, b, k) == \E n \in DOMAIN c.peers : c.peers[n].key = k /\ b \in PeerBlocks(c.peers[n])

ExitKey(c, ip, k) == \E n \in DOMAIN c.peers : c.peers[n].key = k /\ ip \in c.peers[n].addrs

(* What the device holds for key k is what the configuration c with the exit
   address ip declares for it; a default route may be missing. *)
Right(dev, c, ip, k) ==
    /\ \A b \in Blocks \ Defaults : Has(dev, b, k) <=> Declares(c, b, k)
    /\ \A b \in Defaults : Has(dev, b, k) => ExitKey(c, ip, k)

(* A normalised configuration. *)
WellFormed(c) ==
    /\ c.addrs \subseteq Addresses
    /\ \A n \in DOMAIN c.peers :
          c.peers[n].addrs \subseteq Addresses /\ c.peers[n].routes \subseteq Blocks \ Defaults
    /\ \A m, n \in DOMAIN c.peers :
          m # n => /\ c.peers[m].key # c.peers[n].key
                   /\ PeerBlocks(c.peers[m]) \cap PeerBlocks(c.peers[n]) = {}
    /\ \A g \in c.grants :
          /\ g.ip # {}
          /\ \A s \in g.src : s.kind \in {"all", "peer:*", "routes:*", "peer", "routes", "prefix"}

(* The selected exit address is that of a peer that offers to be one. *)
ExitOK(c, ip) == ip # Unset => \E n \in DOMAIN c.peers : c.peers[n].exit /\ ip \in c.peers[n].addrs

(* Single addresses are blocks and no default routes. *)
LEMMA Singles == \A x \in Addresses : {x} \in Blocks \ Defaults
<1>1. \A f \in Families : \A x \in Space[f] : {x} \in Blocks \ Defaults
  BY FilterAssumption, Zenon
<1> QED  BY <1>1 DEF Addresses

(* What a manifest that was accepted is normalised to. *)
LEMMA NormalizedWell ==
    ASSUME NEW m \in Manifests, Acceptable(m)
    PROVE  WellFormed(Normalize(m)) /\ Normalize(m) # Unset
<1> DEFINE c == Normalize(m)
           names == {m.peers[i].name : i \in DOMAIN m.peers}
           at(n) == CHOOSE i \in DOMAIN m.peers : m.peers[i].name = n
<1>1. Parsed(m)
  BY FilterAssumption
<1>2. /\ DOMAIN c.peers = names
      /\ c.addrs = m.addrs
      /\ c.grants = {normalizeGrant(g) : g \in m.grants}
      /\ \A n \in names : at(n) \in DOMAIN m.peers /\ m.peers[at(n)].name = n
      /\ \A n \in names : c.peers[n] = NormalPeer(m.peers[at(n)])
  BY DEF Normalize
<1>3. /\ PeersDiffer(m.peers, m.addrs)
      /\ \A i \in DOMAIN m.peers : \A r \in m.peers[i].routes : r.in \notin Defaults
      /\ \A g \in m.grants : GrantAcceptable(g, c.peers)
  BY DEF Acceptable, PeerAcceptable
<1> HIDE DEF c, names, at
<1>4. \A n \in names :
         c.peers[n].addrs \subseteq Addresses /\ c.peers[n].routes \subseteq Blocks \ Defaults
  <2> SUFFICES ASSUME NEW n \in names
               PROVE  c.peers[n].addrs \subseteq Addresses /\ c.peers[n].routes \subseteq Blocks \ Defaults
    OBVIOUS
  <2>1. at(n) \in DOMAIN m.peers /\ c.peers[n] = NormalPeer(m.peers[at(n)])
    BY <1>2
  <2>2. /\ c.peers[n].addrs = m.peers[at(n)].addrs
        /\ c.peers[n].routes = {r.in : r \in m.peers[at(n)].routes}
    BY <2>1 DEF NormalPeer
  <2>3. /\ m.peers[at(n)].addrs \subseteq Addresses
        /\ \A r \in m.peers[at(n)].routes : r.in \in Blocks \ Defaults
    BY <1>1, <1>3, <2>1 DEF Parsed
  <2> QED  BY <2>2, <2>3
<1>5. \A n, o \in names :
         n # o => /\ c.peers[n].key # c.peers[o].key
                  /\ PeerBlocks(c.peers[n]) \cap PeerBlocks(c.peers[o]) = {}
  <2> SUFFICES ASSUME NEW n \in names, NEW o \in names, n # o
               PROVE  /\ c.peers[n].key # c.peers[o].key
                      /\ PeerBlocks(c.peers[n]) \cap PeerBlocks(c.peers[o]) = {}
    OBVIOUS
  <2>1. at(n) # at(o) /\ at(n) \in DOMAIN m.peers /\ at(o) \in DOMAIN m.peers
    BY <1>2
  <2>2. /\ NormalPeer(m.peers[at(n)]).key # NormalPeer(m.peers[at(o)]).key
        /\ PeerBlocks(NormalPeer(m.peers[at(n)])) \cap PeerBlocks(NormalPeer(m.peers[at(o)])) = {}
    BY <1>3, <2>1, Zenon DEF PeersDiffer
  <2> QED  BY <1>2, <2>2
<1>6. \A g \in c.grants :
         /\ g.ip # {}
         /\ \A s \in g.src : s.kind \in {"all", "peer:*", "routes:*", "peer", "routes", "prefix"}
  <2> SUFFICES ASSUME NEW h \in m.grants
               PROVE  /\ normalizeGrant(h).ip # {}
                      /\ \A s \in normalizeGrant(h).src :
                            s.kind \in {"all", "peer:*", "routes:*", "peer", "routes", "prefix"}
    BY <1>2
  <2>1. DOMAIN h = {"src", "dst", "ip"} /\ \A s \in h.src : s.kind \in SelectorKinds
    BY <1>1 DEF Parsed
  <2>2. /\ normalizeGrant(h).ip = UNION {normalizePermission(t) : t \in h.ip}
        /\ normalizeGrant(h).src = h.src
    BY <2>1 DEF normalizeGrant
  <2>3. \A t \in h.ip : normalizePermission(t) # {}
    BY DEF normalizePermission
  <2>4. h.ip # {} /\ \A s \in h.src : SelectorAcceptable(s, TRUE, c.peers)
    BY <1>3 DEF GrantAcceptable
  <2>5. \A s \in h.src : s.kind \in {"all", "peer:*", "routes:*", "peer", "routes", "prefix"}
    BY <2>1, <2>4 DEF SelectorKinds, SelectorAcceptable
  <2> QED  BY <2>2, <2>3, <2>4, <2>5
<1>7. c.addrs \subseteq Addresses
  BY <1>1, <1>2 DEF Parsed
<1>8. c # Unset
  BY <1>1 DEF Parsed, c
<1> QED  BY <1>2, <1>4, <1>5, <1>6, <1>7, <1>8 DEF WellFormed, c

(* The families of a set of known addresses are families of the address space. *)
LEMMA KnownFamilies ==
    ASSUME NEW S, S \subseteq Addresses
    PROVE  ConfigFamilies(S) \subseteq Families
<1>1. \A x \in Addresses : FamilyOf(x) \in Families
  BY DEF Addresses, FamilyOf
<1> QED  BY <1>1 DEF ConfigFamilies

(* The AllowedIPs of a peer are its blocks and, for the exit peer, default routes. *)
LEMMA OwnBlocks ==
    ASSUME NEW c, WellFormed(c), NEW n \in DOMAIN c.peers, NEW ip
    PROVE  /\ PeerBlocks(c.peers[n]) \subseteq Blocks \ Defaults
           /\ wgAllowedIPs(c.peers[n], ip, ConfigFamilies(c.addrs)) \subseteq Blocks
           /\ \A b \in Blocks \ Defaults :
                 b \in wgAllowedIPs(c.peers[n], ip, ConfigFamilies(c.addrs)) <=> b \in PeerBlocks(c.peers[n])
           /\ \A b \in Defaults :
                 b \in wgAllowedIPs(c.peers[n], ip, ConfigFamilies(c.addrs)) => ip \in c.peers[n].addrs
<1> DEFINE own == wgAllowedIPs(c.peers[n], ip, ConfigFamilies(c.addrs))
           routed == IF ip \in c.peers[n].addrs THEN {Default(f) : f \in ConfigFamilies(c.addrs)} ELSE {}
<1>1. PeerBlocks(c.peers[n]) \subseteq Blocks \ Defaults
  <2>1. c.peers[n].addrs \subseteq Addresses /\ c.peers[n].routes \subseteq Blocks \ Defaults
    BY DEF WellFormed
  <2> QED  BY <2>1, Singles DEF PeerBlocks
<1>2. \A f \in ConfigFamilies(c.addrs) : Default(f) \in Blocks /\ Default(f) \in Defaults
  <2>1. c.addrs \subseteq Addresses
    BY DEF WellFormed
  <2>3. ConfigFamilies(c.addrs) \subseteq Families
    BY <2>1, KnownFamilies
  <2>4. \A f \in Families : Default(f) \in Blocks
    BY FilterAssumption, Zenon
  <2> QED  BY <2>3, <2>4 DEF Defaults
<1>3. own = PeerBlocks(c.peers[n]) \cup routed
  BY DEF wgAllowedIPs
<1>4. routed \subseteq Blocks \cap Defaults /\ (routed # {} => ip \in c.peers[n].addrs)
  BY <1>2
<1> HIDE DEF own, routed
<1>5. /\ own \subseteq Blocks
      /\ \A b \in Blocks \ Defaults : b \in own <=> b \in PeerBlocks(c.peers[n])
      /\ \A b \in Defaults : b \in own => ip \in c.peers[n].addrs
  BY <1>1, <1>3, <1>4
<1> QED  BY <1>1, <1>5 DEF own

(* A key names one peer. *)
LEMMA PeerOfKey ==
    ASSUME NEW c, WellFormed(c), NEW k \in Keys(c)
    PROVE  \E n \in DOMAIN c.peers :
              /\ c.peers[n].key = k
              /\ PeerOf(c, k) = c.peers[n]
              /\ \A b : Declares(c, b, k) <=> b \in PeerBlocks(c.peers[n])
              /\ \A ip : ExitKey(c, ip, k) <=> ip \in c.peers[n].addrs
<1>1. PICK n \in DOMAIN c.peers : c.peers[n].key = k
  BY DEF Keys
<1>2. \A m \in DOMAIN c.peers : c.peers[m].key = k => m = n
  BY <1>1 DEF WellFormed
<1>3. PeerOf(c, k) = c.peers[n]
  BY <1>1, <1>2 DEF PeerOf
<1>4. \A b : Declares(c, b, k) <=> b \in PeerBlocks(c.peers[n])
  BY <1>1, <1>2 DEF Declares
<1>5. \A ip : ExitKey(c, ip, k) <=> ip \in c.peers[n].addrs
  BY <1>1, <1>2 DEF ExitKey
<1> QED  BY <1>1, <1>3, <1>4, <1>5

(* Nothing is declared for another key. *)
LEMMA OtherKeys ==
    ASSUME NEW c, NEW k, k \notin Keys(c)
    PROVE  (\A b : ~Declares(c, b, k)) /\ (\A ip : ~ExitKey(c, ip, k))
  BY DEF Declares, ExitKey, Keys

(* No block is declared for two keys. *)
LEMMA OneDeclarer ==
    ASSUME NEW c, WellFormed(c), NEW b, NEW j, NEW k, Declares(c, b, j), Declares(c, b, k)
    PROVE  j = k
  BY DEF Declares, WellFormed

(* Writing a peer makes it right and disturbs no peer that is right. *)
LEMMA WriteRight ==
    ASSUME NEW c, WellFormed(c), NEW ip, NEW dev, NEW k \in Keys(c), NEW dev2,
           dev2 = WritePeer(dev, PeerOf(c, k), ip, ConfigFamilies(c.addrs))
    PROVE  /\ Right(dev2, c, ip, k)
           /\ \A j : j # k /\ Right(dev, c, ip, j) => Right(dev2, c, ip, j)
           /\ DOMAIN dev \subseteq Blocks => DOMAIN dev2 \subseteq Blocks
<1>1. PICK n \in DOMAIN c.peers :
         /\ c.peers[n].key = k
         /\ PeerOf(c, k) = c.peers[n]
         /\ \A b : Declares(c, b, k) <=> b \in PeerBlocks(c.peers[n])
         /\ \A e : ExitKey(c, e, k) <=> e \in c.peers[n].addrs
  BY PeerOfKey
<1> DEFINE own == wgAllowedIPs(c.peers[n], ip, ConfigFamilies(c.addrs))
<1>2. /\ own \subseteq Blocks
      /\ \A b \in Blocks \ Defaults : b \in own <=> b \in PeerBlocks(c.peers[n])
      /\ \A b \in Defaults : b \in own => ip \in c.peers[n].addrs
  BY OwnBlocks
<1>3. dev2 = [b \in own \cup {d \in DOMAIN dev : dev[d] # k} |-> IF b \in own THEN k ELSE dev[b]]
  BY <1>1 DEF WritePeer
<1> HIDE DEF own
<1>4. \A b : Has(dev2, b, k) <=> b \in own
  BY <1>3 DEF Has
<1>5. \A j, b : j # k => (Has(dev2, b, j) <=> Has(dev, b, j) /\ b \notin own)
  BY <1>3 DEF Has
<1>6. Right(dev2, c, ip, k)
  BY <1>1, <1>2, <1>4 DEF Right
<1>7. ASSUME NEW j, j # k, Right(dev, c, ip, j)
      PROVE  Right(dev2, c, ip, j)
  <2>1. \A b \in Blocks \ Defaults : Has(dev2, b, j) <=> Declares(c, b, j)
    <3> SUFFICES ASSUME NEW b \in Blocks \ Defaults PROVE Has(dev2, b, j) <=> Declares(c, b, j)
      OBVIOUS
    <3>1. Has(dev, b, j) <=> Declares(c, b, j)
      BY <1>7 DEF Right
    <3>2. b \in own => ~Declares(c, b, j)
      BY <1>1, <1>2, <1>7, OneDeclarer
    <3> QED  BY <1>5, <1>7, <3>1, <3>2
  <2>2. \A b \in Defaults : Has(dev2, b, j) => ExitKey(c, ip, j)
    BY <1>5, <1>7 DEF Right
  <2> QED  BY <2>1, <2>2 DEF Right
<1>8. DOMAIN dev \subseteq Blocks => DOMAIN dev2 \subseteq Blocks
  BY <1>2, <1>3
<1> QED  BY <1>6, <1>7, <1>8

(* Removing a peer leaves nothing of it and disturbs no other. *)
LEMMA RemoveRight ==
    ASSUME NEW c, NEW ip, NEW dev, NEW k, NEW dev2, dev2 = RemovePeer(dev, k)
    PROVE  /\ k \notin Keys(c) => Right(dev2, c, ip, k)
           /\ \A j : j # k /\ Right(dev, c, ip, j) => Right(dev2, c, ip, j)
           /\ DOMAIN dev \subseteq Blocks => DOMAIN dev2 \subseteq Blocks
<1>1. dev2 = [b \in {d \in DOMAIN dev : dev[d] # k} |-> dev[b]]
  BY DEF RemovePeer
<1>2. \A b : ~Has(dev2, b, k)
  BY <1>1 DEF Has
<1>3. \A j, b : j # k => (Has(dev2, b, j) <=> Has(dev, b, j))
  BY <1>1 DEF Has
<1>4. k \notin Keys(c) => Right(dev2, c, ip, k)
  BY <1>2, OtherKeys DEF Right
<1>5. \A j : j # k /\ Right(dev, c, ip, j) => Right(dev2, c, ip, j)
  BY <1>3 DEF Right
<1>6. DOMAIN dev \subseteq Blocks => DOMAIN dev2 \subseteq Blocks
  BY <1>1
<1> QED  BY <1>4, <1>5, <1>6

(* A full configuration is right for every key. *)
LEMMA FullRight ==
    ASSUME NEW c, WellFormed(c), NEW ip
    PROVE  /\ \A k : Right(Full(c, ip), c, ip, k)
           /\ DOMAIN Full(c, ip) \subseteq Blocks
<1> DEFINE own(n) == wgAllowedIPs(c.peers[n], ip, ConfigFamilies(c.addrs))
           who(b) == CHOOSE n \in DOMAIN c.peers : b \in own(n)
<1>1. /\ DOMAIN Full(c, ip) = UNION {own(n) : n \in DOMAIN c.peers}
      /\ \A b \in DOMAIN Full(c, ip) : Full(c, ip)[b] = c.peers[who(b)].key
  BY DEF Full
<1>2. \A n \in DOMAIN c.peers :
         /\ own(n) \subseteq Blocks
         /\ \A b \in Blocks \ Defaults : b \in own(n) <=> b \in PeerBlocks(c.peers[n])
         /\ \A b \in Defaults : b \in own(n) => ip \in c.peers[n].addrs
  BY OwnBlocks
<1>3. \A b \in DOMAIN Full(c, ip) : who(b) \in DOMAIN c.peers /\ b \in own(who(b))
  BY <1>1
<1> HIDE DEF own, who
<1>4. DOMAIN Full(c, ip) \subseteq Blocks
  BY <1>1, <1>2
<1>5. ASSUME NEW k
      PROVE  Right(Full(c, ip), c, ip, k)
  <2>1. \A b \in Blocks \ Defaults : Has(Full(c, ip), b, k) <=> Declares(c, b, k)
    <3> SUFFICES ASSUME NEW b \in Blocks \ Defaults
                 PROVE  Has(Full(c, ip), b, k) <=> Declares(c, b, k)
      OBVIOUS
    <3>1. Has(Full(c, ip), b, k) => Declares(c, b, k)
      BY <1>1, <1>2, <1>3 DEF Has, Declares
    <3>2. ASSUME Declares(c, b, k) PROVE Has(Full(c, ip), b, k)
      <4>1. PICK n \in DOMAIN c.peers : c.peers[n].key = k /\ b \in own(n)
        BY <1>2, <3>2 DEF Declares
      <4>2. b \in DOMAIN Full(c, ip)
        BY <1>1, <4>1
      <4>3. Declares(c, b, c.peers[who(b)].key)
        BY <1>2, <1>3, <4>2 DEF Declares
      <4> QED  BY <1>1, <3>2, <4>2, <4>3, OneDeclarer DEF Has
    <3> QED  BY <3>1, <3>2
  <2>2. \A b \in Defaults : Has(Full(c, ip), b, k) => ExitKey(c, ip, k)
    BY <1>1, <1>2, <1>3 DEF Has, ExitKey
  <2> QED  BY <2>1, <2>2 DEF Right
<1> QED  BY <1>4, <1>5

(* diffWGConfig leaves out only what is right already. *)
LEMMA DifferenceRight ==
    ASSUME NEW old, WellFormed(old), NEW new, WellFormed(new), NEW e1, NEW e2, NEW dev,
           NEW k, k \notin Written(old, e1, new, e2) \cup (Keys(old) \ Keys(new)),
           Right(dev, old, e1, k)
    PROVE  Right(dev, new, e2, k)
<1>1. CASE k \notin Keys(new)
  <2>1. k \notin Keys(old)
    BY <1>1
  <2> QED  BY <1>1, <2>1, OtherKeys DEF Right
<1>2. CASE k \in Keys(new)
  <2>1. /\ k \in Keys(old)
        /\ PeerOf(old, k) = PeerOf(new, k)
        /\ (e1 \in PeerOf(old, k).addrs) <=> (e2 \in PeerOf(new, k).addrs)
    BY <1>2 DEF Written
  <2>2. \A b : Declares(old, b, k) <=> b \in PeerBlocks(PeerOf(old, k))
    BY <2>1, PeerOfKey
  <2>3. \A b : Declares(new, b, k) <=> b \in PeerBlocks(PeerOf(new, k))
    BY <1>2, PeerOfKey
  <2>4. ExitKey(old, e1, k) <=> e1 \in PeerOf(old, k).addrs
    BY <2>1, PeerOfKey
  <2>5. ExitKey(new, e2, k) <=> e2 \in PeerOf(new, k).addrs
    BY <1>2, PeerOfKey
  <2> QED  BY <2>1, <2>2, <2>3, <2>4, <2>5 DEF Right
<1> QED  BY <1>1, <1>2

(* The configurations are normalised, the exit address is valid, and an engine that
   does not run has nothing. *)
Configured ==
    /\ saved # Unset => WellFormed(saved)
    /\ cfg # Unset => /\ WellFormed(cfg) /\ ExitOK(cfg, exit)
                      /\ saved # Unset /\ (~degraded => saved = cfg)
    /\ cfg = Unset => /\ exit = Unset /\ Free /\ ~degraded /\ ~mixed
                      /\ policy = NoPolicy /\ flows = {} /\ ~crossed
    /\ DOMAIN allowed \subseteq Blocks

(* What is being written. *)
Staged ==
    writing # NotWriting =>
        /\ cfg # Unset
        /\ {"op", "cfg", "exit", "first", "write", "last"} \subseteq DOMAIN writing
        /\ WellFormed(writing.cfg) /\ ExitOK(writing.cfg, writing.exit)
        /\ writing.write \subseteq Keys(writing.cfg)
        /\ writing.op \in {"apply", "exit"}
        /\ writing.op = "apply" =>
              /\ degraded /\ writing.cfg = saved /\ writing.exit = ValidExit(saved, exit)
              /\ pending = NoPending
        /\ writing.op = "exit" => /\ writing.cfg = cfg /\ writing.exit # exit
                                  /\ {"old", "flows"} \subseteq DOMAIN writing

(* An apply that waits for its reconciliation: its engine has the saved configuration
   and the final policy of that configuration is what it commits. *)
Waiting ==
    pending # NoPending =>
        /\ cfg # Unset /\ degraded /\ saved = cfg
        /\ pending.by \in {"start", "apply"}
        /\ {"by", "policy", "transition", "flows"} \subseteq DOMAIN pending

PendingFor(e) ==
    /\ pending.policy = Compile(cfg, e, shields)
    /\ pending.transition = Compile(cfg, e, TRUE)
    /\ pending.by = "start" => e = Unset /\ ~crossed

(* Flows that were opened with an exit address. *)
FlowsOf(fs, c, e) == \A f \in fs : f.by = Identity(c, e)

(* The engine's own policy; after a restricted start with a change of exit node, the one
   without an exit node. *)
OwnPolicy(p, raised) ==
    p = Compile(cfg, exit, raised) \/ (crossed /\ p = Compile(cfg, Unset, raised))

(* While a request is written: the transition is in force, what is not left to write
   or to remove is right, and a failed exit-node change has something to go back to. *)
Underway ==
    writing # NotWriting =>
        /\ policy = Compile(writing.cfg, writing.exit, TRUE)
        /\ writing.first \subseteq writing.write
        /\ writing.write \subseteq Written(cfg, exit, writing.cfg, writing.exit)
        /\ writing.last \subseteq Keys(cfg) \ Keys(writing.cfg)
        /\ \A k : k \notin writing.write \cup writing.last =>
                     Right(allowed, writing.cfg, writing.exit, k)
        /\ writing.op = "exit" => FlowsOf(flows, cfg, writing.exit)
        /\ writing.op = "exit" /\ pending = NoPending =>
              /\ ~degraded
              /\ OwnPolicy(writing.old, shields)
              /\ ~crossed => FlowsOf(writing.flows, cfg, exit)
        /\ writing.op = "exit" /\ pending # NoPending =>
              /\ PendingFor(exit)
              /\ writing.old = Compile(cfg, exit, TRUE)
              /\ ~crossed => FlowsOf(writing.flows, cfg, exit)

(* Between requests the device and the filter are those of the configuration. *)
Clean ==
    writing = NotWriting /\ cfg # Unset /\ ~degraded =>
        /\ OwnPolicy(policy, shields)
        /\ \A k : Right(allowed, cfg, exit, k)

(* After a failed apply, what a reapply of the saved configuration would neither write
   nor remove is right already; the filter is the transition, or that of a change of
   exit node after the apply had written everything. *)
Repairable ==
    Free /\ degraded =>
        /\ \/ policy = Compile(saved, ValidExit(saved, exit), TRUE)
           \/ /\ saved = cfg /\ policy = Compile(cfg, exit, shields)
              /\ \A k : Right(allowed, cfg, exit, k)
        /\ \A k : k \notin Written(cfg, exit, saved, ValidExit(saved, exit)) \cup (Keys(cfg) \ Keys(saved))
                    => Right(allowed, saved, ValidExit(saved, exit), k)

(* While an apply waits, everything is written; the filter is its transition, or that
   of the change of exit node in between. *)
Committable ==
    writing = NotWriting /\ pending # NoPending =>
        /\ \A k : Right(allowed, cfg, exit, k)
        /\ \/ PendingFor(exit) /\ policy = Compile(cfg, exit, TRUE)
           \/ /\ policy = Compile(cfg, exit, shields)
              /\ \E e : e # exit /\ PendingFor(e)

Synced == ~mixed => Underway /\ Clean /\ Repairable /\ Committable

FilterInv == Configured /\ Staged /\ Waiting /\ Synced /\ FlowsFollowIdentity

(* An exit address that is kept is one of a peer that offers to be an exit node. *)
LEMMA ValidExitOK ==
    ASSUME NEW c, NEW ip
    PROVE  ExitOK(c, ValidExit(c, ip))
  BY DEF ExitOK, ValidExit

(* A valid exit address stays selected. *)
LEMMA ValidExitKept ==
    ASSUME NEW c, NEW ip, ExitOK(c, ip)
    PROVE  ValidExit(c, ip) = ip
  BY DEF ExitOK, ValidExit

(* The invariant holds before the engine starts. *)
LEMMA FilterInvInit == FilterInit => FilterInv
<1> SUFFICES ASSUME FilterInit PROVE FilterInv
  OBVIOUS
<1>1. Configured /\ Staged /\ Waiting
  BY DEF FilterInit, Configured, Staged, Waiting, Free, NoBlocks
<1>2. Underway /\ Clean /\ Repairable /\ Committable /\ FlowsFollowIdentity
  BY DEF FilterInit, Underway, Clean, Repairable, Committable, FlowsFollowIdentity
<1> QED  BY <1>1, <1>2 DEF FilterInv, Synced

(* NewWireGuardEngine and Start bring an empty device to the saved configuration. *)
LEMMA StartStep ==
    ASSUME FilterInv, NEW restricted \in BOOLEAN, StartEngine(restricted)
    PROVE  FilterInv'
<1>1. /\ cfg = Unset /\ saved # Unset /\ WellFormed(saved)
      /\ exit = Unset /\ writing = NotWriting /\ pending = NoPending /\ ~mixed /\ ~crossed
      /\ cfg' = saved /\ allowed' = Full(saved, Unset)
      /\ policy' = Compile(saved, Unset, restricted \/ shields) /\ flows' = {}
      /\ degraded' = restricted
      /\ UNCHANGED <<saved, exit, shields, writing, mixed, crossed>>
  BY DEF FilterInv, Configured, StartEngine, Install, Free
<1>2. (\A k : Right(allowed', saved, Unset, k)) /\ DOMAIN allowed' \subseteq Blocks
  BY <1>1, FullRight
<1>3. ~restricted => pending' = NoPending
  BY DEF StartEngine
<1>4. restricted => /\ pending' # NoPending /\ pending'.by = "start"
                    /\ {"by", "policy", "transition", "flows"} \subseteq DOMAIN pending'
                    /\ pending'.policy = Compile(saved, Unset, shields)
                    /\ pending'.transition = Compile(saved, Unset, TRUE)
  BY DEF StartEngine, NoPending
<1>5. Configured'
  BY <1>1, <1>2 DEF Configured, ExitOK
<1>6. Staged' /\ Waiting' /\ Underway' /\ Repairable'
  BY <1>1, <1>3, <1>4 DEF Staged, Waiting, Underway, Repairable, Free
<1>7. policy' = Compile(saved, Unset, IF restricted THEN TRUE ELSE shields)
  BY <1>1 DEF Compile
<1>8. Clean' /\ Committable'
  BY <1>1, <1>2, <1>3, <1>4, <1>7 DEF Clean, OwnPolicy, Committable, PendingFor
<1> QED  BY <1>1, <1>5, <1>6, <1>8 DEF FilterInv, Synced, FlowsFollowIdentity

(* Close leaves nothing behind, a failed write included. *)
LEMMA CloseStep == FilterInv /\ CloseEngine => FilterInv'
<1> SUFFICES ASSUME FilterInv, CloseEngine PROVE FilterInv'
  OBVIOUS
<1>1. Configured' /\ Staged' /\ Waiting'
  BY DEF FilterInv, CloseEngine, Install, Configured, Staged, Waiting, Free, NoBlocks
<1>2. Underway' /\ Clean' /\ Repairable' /\ Committable' /\ FlowsFollowIdentity'
  BY DEF CloseEngine, Install, Underway, Clean, Repairable, Committable, FlowsFollowIdentity
<1> QED  BY <1>1, <1>2 DEF FilterInv, Synced

(* What an apply stages contains every peer that is not right on the device yet: on a
   clean engine the difference of two configurations, on a degraded one the same
   difference again. *)
LEMMA ApplyStep ==
    ASSUME FilterInv, NEW m \in Manifests, Apply(m)
    PROVE  FilterInv'
<1> DEFINE new == Normalize(m)
           ip == ValidExit(new, exit)
<1>1. /\ writing = NotWriting /\ pending = NoPending /\ saved' = new
      /\ UNCHANGED <<cfg, exit, shields, allowed, pending>>
      /\ WellFormed(new) /\ new # Unset
  BY NormalizedWell DEF Apply, Free
<1>0. Waiting'
  BY <1>1 DEF Waiting
<1>2. CASE cfg = Unset \/ (new = cfg /\ ~degraded)
  <2>1. UNCHANGED <<policy, flows, writing, degraded, mixed, crossed>>
    BY <1>2 DEF Apply
  <2>2. Configured'
    BY <1>1, <1>2, <2>1 DEF FilterInv, Configured, Free
  <2>3. Staged'
    BY <1>1, <2>1 DEF Staged
  <2>4. FlowsFollowIdentity'
    BY <2>1 DEF FilterInv, FlowsFollowIdentity
  <2>5. ~degraded
    BY <1>2 DEF FilterInv, Configured
  <2>6. ~mixed' => Clean'
    BY <1>1, <1>2, <2>1, <2>5 DEF FilterInv, Synced, Clean, OwnPolicy
  <2>7. Underway' /\ Repairable' /\ Committable'
    BY <1>1, <1>2, <2>1, <2>5 DEF Underway, Repairable, Committable
  <2> QED  BY <1>0, <2>2, <2>3, <2>4, <2>6, <2>7 DEF FilterInv, Synced
<1>3. CASE ~(cfg = Unset \/ (new = cfg /\ ~degraded))
  <2>1. /\ policy' = Compile(new, ip, TRUE)
        /\ flows' = IF Shares(new, ip) THEN flows ELSE {}
        /\ degraded' = TRUE
        /\ mixed' = (mixed \/ (degraded /\ new # saved))
        /\ crossed' = (crossed /\ Shares(new, ip))
        /\ writing' = [op |-> "apply", cfg |-> new, exit |-> ip, first |-> Cleared(cfg, new),
                       write |-> Written(cfg, exit, new, ip), last |-> Keys(cfg) \ Keys(new)]
    BY <1>3, Zenon DEF Apply, Install
  <2>2. ExitOK(new, ip)
    BY ValidExitOK
  <2>3. /\ cfg # Unset /\ WellFormed(cfg) /\ ExitOK(cfg, exit) /\ saved # Unset
        /\ (~degraded => saved = cfg) /\ DOMAIN allowed \subseteq Blocks
    BY <1>3 DEF FilterInv, Configured
  <2> HIDE DEF new, ip
  <2>4. /\ writing' # NotWriting /\ writing'.op = "apply" /\ writing'.cfg = new
        /\ writing'.exit = ip /\ writing'.first = Cleared(cfg, new)
        /\ writing'.write = Written(cfg, exit, new, ip) /\ writing'.last = Keys(cfg) \ Keys(new)
        /\ {"op", "cfg", "exit", "first", "write", "last"} \subseteq DOMAIN writing'
    BY <2>1 DEF NotWriting
  <2>5. Configured'
    BY <1>1, <2>1, <2>3 DEF Configured
  <2>6. Staged'
    BY <1>1, <2>1, <2>2, <2>3, <2>4 DEF Staged, ip, Written
  <2>7. ASSUME ~mixed'
        PROVE  \A k : k \notin Written(cfg, exit, new, ip) \cup (Keys(cfg) \ Keys(new)) => Right(allowed, new, ip, k)
    <3>1. ~mixed /\ (degraded => new = saved)
      BY <2>1, <2>7
    <3>2. CASE degraded
      BY <1>1, <3>1, <3>2 DEF FilterInv, Synced, Repairable, Free, ip
    <3>3. CASE ~degraded
      <4>1. \A k : Right(allowed, cfg, exit, k)
        BY <1>1, <2>3, <3>1, <3>3 DEF FilterInv, Synced, Clean
      <4> QED  BY <1>1, <2>3, <4>1, DifferenceRight
    <3> QED  BY <3>2, <3>3
  <2>8. Cleared(cfg, new) \subseteq Written(cfg, exit, new, ip)
    BY DEF Cleared, Written
  <2>9. Synced'
    BY <1>1, <2>1, <2>4, <2>7, <2>8 DEF Synced, Underway, Clean, Repairable, Committable, Free
  <2>10. FlowsFollowIdentity'
    <3>0. policy'.cfg = new /\ policy'.exit = ip
      BY <2>1 DEF Compile
    <3> SUFFICES ASSUME ~mixed', ~crossed', Shares(new, ip), NEW f \in flows
                 PROVE  f.by = Identity(new, ip)
      BY <2>1, <3>0 DEF FlowsFollowIdentity
    <3>1. ~mixed /\ (degraded => new = saved) /\ ~crossed
      BY <2>1
    <3>2. f.by = Identity(policy.cfg, policy.exit)
      BY <3>1 DEF FilterInv, FlowsFollowIdentity
    <3>3. CASE degraded
      <4>1. policy = Compile(new, ip, TRUE) \/ policy = Compile(cfg, exit, shields)
        BY <1>1, <3>1, <3>3 DEF FilterInv, Synced, Repairable, Free, ip
      <4> QED  BY <3>2, <4>1 DEF Compile, Shares
    <3>4. CASE ~degraded
      <4>1. policy = Compile(cfg, exit, shields)
        BY <1>1, <2>3, <3>1, <3>4 DEF FilterInv, Synced, Clean, OwnPolicy
      <4> QED  BY <3>2, <4>1 DEF Compile, Shares
    <3> QED  BY <3>3, <3>4
  <2> QED  BY <1>0, <2>5, <2>6, <2>9, <2>10 DEF FilterInv
<1> QED  BY <1>2, <1>3

(* An exit-node change stages the peers whose exit role changes, on a clean engine or
   on one whose apply waits for it. *)
LEMMA ExitStep ==
    ASSUME FilterInv, NEW ip, SetExitNodeIP(ip)
    PROVE  FilterInv'
<1>1. /\ cfg # Unset /\ writing = NotWriting /\ ip # exit
      /\ ip # Unset => ValidExit(cfg, ip) = ip
      /\ writing' = [op |-> "exit", cfg |-> cfg, exit |-> ip, first |-> {},
                     write |-> Written(cfg, exit, cfg, ip), last |-> {},
                     old |-> policy, flows |-> flows]
      /\ policy' = Compile(cfg, ip, TRUE) /\ flows' = {}
      /\ mixed' = (mixed \/ (degraded /\ pending = NoPending))
      /\ UNCHANGED <<saved, cfg, exit, shields, allowed, degraded, crossed>>
  BY DEF SetExitNodeIP, Install
<1>2. /\ writing' # NotWriting /\ writing'.op = "exit" /\ writing'.cfg = cfg
      /\ writing'.exit = ip /\ writing'.first = {}
      /\ writing'.write = Written(cfg, exit, cfg, ip) /\ writing'.last = {}
      /\ writing'.old = policy /\ writing'.flows = flows
      /\ {"op", "cfg", "exit", "first", "write", "last"} \subseteq DOMAIN writing'
      /\ {"old", "flows"} \subseteq DOMAIN writing'
  BY <1>1 DEF NotWriting
<1>3. ExitOK(cfg, ip)
  BY <1>1, ValidExitOK DEF ExitOK
<1>4. /\ WellFormed(cfg) /\ ExitOK(cfg, exit) /\ saved # Unset /\ (~degraded => saved = cfg)
      /\ DOMAIN allowed \subseteq Blocks
  BY <1>1 DEF FilterInv, Configured
<1>5. Configured'
  BY <1>1, <1>4 DEF FilterInv, Configured
<1>6. Staged'
  BY <1>1, <1>2, <1>3, <1>4 DEF Staged, Written
<1>7. /\ pending = NoPending => pending' = NoPending
      /\ pending # NoPending =>
            /\ pending' # NoPending /\ DOMAIN pending' = DOMAIN pending
            /\ pending'.by = pending.by /\ pending'.policy = pending.policy
            /\ pending'.transition = pending.transition
            /\ policy = pending.transition
  <2>1. pending # NoPending => {"by", "policy", "transition", "flows"} \subseteq DOMAIN pending
    BY DEF FilterInv, Waiting
  <2> QED  BY <2>1 DEF SetExitNodeIP, NoPending
<1>8. Waiting'
  BY <1>1, <1>7 DEF FilterInv, Waiting
<1>9. ASSUME ~mixed, pending # NoPending
      PROVE  /\ PendingFor(exit) /\ policy = Compile(cfg, exit, TRUE)
             /\ \A k : Right(allowed, cfg, exit, k)
  <2>1. ASSUME NEW e, e # exit, PendingFor(e), policy = Compile(cfg, exit, shields)
        PROVE  FALSE
    BY <1>7, <1>9, <2>1 DEF PendingFor, Compile
  <2> QED  BY <1>1, <1>9, <2>1 DEF FilterInv, Synced, Committable
<1>10. ASSUME ~mixed', pending = NoPending
       PROVE  /\ ~degraded /\ OwnPolicy(policy, shields)
              /\ \A k : Right(allowed, cfg, exit, k)
  BY <1>1, <1>10 DEF FilterInv, Synced, Clean
<1>11. ASSUME ~mixed', ~crossed
       PROVE  FlowsOf(flows, cfg, exit)
  <2>1. \E b : policy = Compile(cfg, exit, b)
    BY <1>1, <1>9, <1>10, <1>11 DEF OwnPolicy
  <2>2. policy.cfg = cfg /\ policy.exit = exit
    BY <2>1 DEF Compile
  <2> QED  BY <1>1, <1>11, <2>2 DEF FilterInv, FlowsFollowIdentity, FlowsOf
<1>12. ASSUME ~mixed'
       PROVE  \A k : k \notin Written(cfg, exit, cfg, ip) => Right(allowed, cfg, ip, k)
  <2>1. \A k : Right(allowed, cfg, exit, k)
    BY <1>1, <1>9, <1>10, <1>12
  <2> QED  BY <1>4, <2>1, DifferenceRight
<1>13. ASSUME ~mixed' PROVE Underway'
  <2>1. pending = NoPending => ~degraded' /\ OwnPolicy(writing.old, shields)'
    <3>1. OwnPolicy(writing.old, shields)' <=> OwnPolicy(policy, shields)
      BY <1>1, <1>2 DEF OwnPolicy
    <3> QED  BY <1>1, <1>10, <1>13, <3>1
  <2>2. pending # NoPending => PendingFor(exit)' /\ writing'.old = Compile(cfg, exit, TRUE)
    <3>1. ASSUME pending # NoPending
          PROVE  /\ pending'.by = pending.by /\ pending'.policy = pending.policy
                 /\ pending'.transition = pending.transition
                 /\ PendingFor(exit) /\ policy = Compile(cfg, exit, TRUE)
      BY <1>1, <1>7, <1>9, <1>13, <3>1
    <3> QED  BY <1>1, <1>2, <3>1 DEF PendingFor
  <2>3. FlowsOf(flows, cfg, writing.exit)'
    BY <1>1, <1>2 DEF FlowsOf
  <2>4. ~crossed' => FlowsOf(writing.flows, cfg, exit)'
    BY <1>1, <1>2, <1>11, <1>13 DEF FlowsOf
  <2>5. /\ (policy = Compile(writing.cfg, writing.exit, TRUE))'
        /\ (writing.first \subseteq writing.write)'
        /\ (writing.write \subseteq Written(cfg, exit, writing.cfg, writing.exit))'
        /\ (writing.last \subseteq Keys(cfg) \ Keys(writing.cfg))'
    BY <1>1, <1>2
  <2>6. (\A k : k \notin writing.write \cup writing.last => Right(allowed, writing.cfg, writing.exit, k))'
    BY <1>1, <1>2, <1>12, <1>13
  <2>7. writing'.op = "exit" /\ pending' = NoPending => ~degraded' /\ OwnPolicy(writing.old, shields)'
    BY <1>7, <2>1
  <2>8. writing'.op = "exit" /\ pending' # NoPending =>
           PendingFor(exit)' /\ (writing.old = Compile(cfg, exit, TRUE))'
    BY <1>1, <1>7, <2>2
  <2> QED  BY <2>3, <2>4, <2>5, <2>6, <2>7, <2>8, Zenon DEF Underway
<1>14. Clean' /\ Repairable' /\ Committable'
  BY <1>2 DEF Clean, Repairable, Committable, Free
<1>15. FlowsFollowIdentity'
  BY <1>1 DEF FlowsFollowIdentity
<1> QED  BY <1>5, <1>6, <1>8, <1>13, <1>14, <1>15 DEF FilterInv, Synced

(* Each peer that is written or removed is right from then on and disturbs no other. *)
LEMMA WriteStepStep == FilterInv /\ WriteStep => FilterInv'
<1> SUFFICES ASSUME FilterInv, WriteStep PROVE FilterInv'
  OBVIOUS
<1> DEFINE c == writing.cfg
           ip == writing.exit
<1>1. /\ writing # NotWriting
      /\ UNCHANGED <<saved, cfg, exit, shields, policy, flows, pending, degraded, mixed, crossed>>
  BY DEF WriteStep
<1>2. /\ cfg # Unset
      /\ {"op", "cfg", "exit", "first", "write", "last"} \subseteq DOMAIN writing
      /\ WellFormed(c) /\ writing.op \in {"apply", "exit"} /\ DOMAIN allowed \subseteq Blocks
  BY <1>1 DEF FilterInv, Staged, Configured
<1> DEFINE Kept ==
      /\ writing'.op = writing.op /\ writing'.cfg = c /\ writing'.exit = ip
      /\ DOMAIN writing' = DOMAIN writing
      /\ writing'.old = writing.old /\ writing'.flows = writing.flows
      /\ writing'.first \subseteq writing.first
      /\ writing'.write \subseteq writing.write
      /\ writing'.last \subseteq writing.last
<1>3. /\ DOMAIN allowed' \subseteq Blocks /\ Kept
      /\ ~mixed => /\ writing'.first \subseteq writing'.write
                   /\ \A k : k \notin writing'.write \cup writing'.last => Right(allowed', c, ip, k)
  <2>0. ~mixed => /\ writing.first \subseteq writing.write
                  /\ writing.last \subseteq Keys(cfg) \ Keys(c)
                  /\ writing.write \subseteq Keys(c)
                  /\ \A k : k \notin writing.write \cup writing.last => Right(allowed, c, ip, k)
    BY <1>1 DEF FilterInv, Synced, Underway, Written
  <2>1. CASE \E k \in writing.first :
                /\ allowed' = RemovePeer(allowed, k)
                /\ writing' = [writing EXCEPT !.first = @ \ {k}]
    <3> PICK k \in writing.first : /\ allowed' = RemovePeer(allowed, k)
                                   /\ writing' = [writing EXCEPT !.first = @ \ {k}]
      BY <2>1
    <3>1. Kept /\ writing'.first = writing.first \ {k} /\ writing'.write = writing.write /\ writing'.last = writing.last
      BY <1>2
    <3>2. /\ DOMAIN allowed' \subseteq Blocks
          /\ \A j : j # k /\ Right(allowed, c, ip, j) => Right(allowed', c, ip, j)
      BY <1>2, RemoveRight
    <3> QED  BY <2>0, <3>1, <3>2
  <2>2. CASE \E k \in writing.write :
                /\ writing.first = {}
                /\ allowed' = WritePeer(allowed, PeerOf(c, k), ip, ConfigFamilies(c.addrs))
                /\ writing' = [writing EXCEPT !.write = @ \ {k}]
    <3> PICK k \in writing.write :
                /\ writing.first = {}
                /\ allowed' = WritePeer(allowed, PeerOf(c, k), ip, ConfigFamilies(c.addrs))
                /\ writing' = [writing EXCEPT !.write = @ \ {k}]
      BY <2>2
    <3>1. Kept /\ writing'.first = writing.first /\ writing'.write = writing.write \ {k} /\ writing'.last = writing.last
      BY <1>2
    <3>2. k \in Keys(c)
      BY <1>1 DEF FilterInv, Staged
    <3>3. /\ DOMAIN allowed' \subseteq Blocks /\ Right(allowed', c, ip, k)
          /\ \A j : j # k /\ Right(allowed, c, ip, j) => Right(allowed', c, ip, j)
      BY <1>2, <3>2, WriteRight
    <3> QED  BY <2>0, <3>1, <3>3
  <2>3. CASE \E k \in writing.last :
                /\ writing.first = {} /\ writing.write = {}
                /\ allowed' = RemovePeer(allowed, k)
                /\ writing' = [writing EXCEPT !.last = @ \ {k}]
    <3> PICK k \in writing.last :
                /\ writing.first = {} /\ writing.write = {}
                /\ allowed' = RemovePeer(allowed, k)
                /\ writing' = [writing EXCEPT !.last = @ \ {k}]
      BY <2>3
    <3>1. Kept /\ writing'.first = writing.first /\ writing'.write = writing.write /\ writing'.last = writing.last \ {k}
      BY <1>2
    <3>2. /\ DOMAIN allowed' \subseteq Blocks
          /\ k \notin Keys(c) => Right(allowed', c, ip, k)
          /\ \A j : j # k /\ Right(allowed, c, ip, j) => Right(allowed', c, ip, j)
      BY <1>2, RemoveRight
    <3> QED  BY <2>0, <3>1, <3>2
  <2> QED  BY <2>1, <2>2, <2>3 DEF WriteStep
<1>4. writing' # NotWriting
  BY <1>2, <1>3 DEF NotWriting
<1> HIDE DEF c, ip
<1>5. Configured'
  BY <1>1, <1>2, <1>3 DEF FilterInv, Configured
<1>6. Staged'
  BY <1>1, <1>2, <1>3, <1>4 DEF FilterInv, Staged, c, ip
<1>7. ASSUME ~mixed PROVE Underway'
  <2>1. Underway
    BY <1>7 DEF FilterInv, Synced
  <2>2. /\ (policy = Compile(writing.cfg, writing.exit, TRUE))'
        /\ (writing.first \subseteq writing.write)'
        /\ (writing.write \subseteq Written(cfg, exit, writing.cfg, writing.exit))'
        /\ (writing.last \subseteq Keys(cfg) \ Keys(writing.cfg))'
        /\ (\A k : k \notin writing.write \cup writing.last => Right(allowed, writing.cfg, writing.exit, k))'
    BY <1>1, <1>3, <1>7, <2>1 DEF Underway, c, ip
  <2>3. /\ FlowsOf(flows, cfg, writing.exit)' <=> FlowsOf(flows, cfg, writing.exit)
        /\ FlowsOf(writing.flows, cfg, exit)' <=> FlowsOf(writing.flows, cfg, exit)
        /\ OwnPolicy(writing.old, shields)' <=> OwnPolicy(writing.old, shields)
        /\ PendingFor(exit)' <=> PendingFor(exit)
        /\ (writing.old = Compile(cfg, exit, TRUE))' <=> writing.old = Compile(cfg, exit, TRUE)
    BY <1>1, <1>3 DEF FlowsOf, OwnPolicy, PendingFor, c, ip
  <2>4. writing'.op = "exit" => FlowsOf(flows, cfg, writing.exit)'
    BY <1>1, <1>3, <2>1, <2>3 DEF Underway
  <2>5. writing'.op = "exit" /\ pending' = NoPending =>
           /\ ~degraded' /\ OwnPolicy(writing.old, shields)'
           /\ ~crossed' => FlowsOf(writing.flows, cfg, exit)'
    BY <1>1, <1>3, <2>1, <2>3 DEF Underway
  <2>6. writing'.op = "exit" /\ pending' # NoPending =>
           /\ PendingFor(exit)' /\ (writing.old = Compile(cfg, exit, TRUE))'
           /\ ~crossed' => FlowsOf(writing.flows, cfg, exit)'
    BY <1>1, <1>3, <2>1, <2>3 DEF Underway
  <2> QED  BY <2>2, <2>4, <2>5, <2>6, Zenon DEF Underway
<1>8. Clean' /\ Repairable' /\ Committable'
  BY <1>4 DEF Clean, Repairable, Committable, Free
<1>9. Waiting' /\ FlowsFollowIdentity'
  BY <1>1 DEF FilterInv, Waiting, FlowsFollowIdentity
<1> QED  BY <1>1, <1>5, <1>6, <1>7, <1>8, <1>9 DEF FilterInv, Synced

(* With nothing left to write, every peer is right for the new configuration. *)
LEMMA AllWritten ==
    ASSUME FilterInv, WrittenOut, ~mixed
    PROVE  /\ policy = Compile(writing.cfg, writing.exit, TRUE)
           /\ \A k : Right(allowed, writing.cfg, writing.exit, k)
  BY DEF FilterInv, WrittenOut, Synced, Underway

(* An apply whose request is written waits with its final policy. *)
LEMMA AppliedStep == FilterInv /\ Applied => FilterInv'
<1> SUFFICES ASSUME FilterInv, Applied PROVE FilterInv'
  OBVIOUS
<1> DEFINE c == writing.cfg
           ip == writing.exit
<1>1. /\ writing # NotWriting /\ writing.op = "apply" /\ cfg' = c /\ exit' = ip
      /\ writing' = NotWriting
      /\ UNCHANGED <<saved, shields, allowed, policy, flows, degraded, mixed, crossed>>
  BY DEF Applied, WrittenOut
<1>2. /\ pending' # NoPending /\ pending'.by = "apply"
      /\ pending'.policy = Compile(c, ip, shields) /\ pending'.transition = policy
      /\ {"by", "policy", "transition", "flows"} \subseteq DOMAIN pending'
  BY DEF Applied, NoPending
<1>3. /\ WellFormed(c) /\ ExitOK(c, ip) /\ degraded /\ c = saved /\ saved # Unset
      /\ DOMAIN allowed \subseteq Blocks
  BY <1>1 DEF FilterInv, Staged, Configured
<1>4. ~mixed => policy = Compile(c, ip, TRUE) /\ \A k : Right(allowed, c, ip, k)
  BY AllWritten DEF Applied
<1> HIDE DEF c, ip
<1>5. Configured'
  BY <1>1, <1>3 DEF Configured
<1>6. Staged' /\ Underway' /\ Clean' /\ Repairable'
  BY <1>1, <1>2, <1>3 DEF Staged, Underway, Clean, Repairable, Free
<1>7. Waiting'
  BY <1>1, <1>2, <1>3 DEF Waiting
<1>8. ~mixed => Committable'
  BY <1>1, <1>2, <1>4 DEF Committable, PendingFor
<1>9. FlowsFollowIdentity'
  BY <1>1 DEF FilterInv, FlowsFollowIdentity
<1> QED  BY <1>1, <1>5, <1>6, <1>7, <1>8, <1>9 DEF FilterInv, Synced

(* A change of exit node ends with the policy of the new exit node, which an apply that
   waits does not have. *)
LEMMA ExitSetStep == FilterInv /\ ExitNodeSet => FilterInv'
<1> SUFFICES ASSUME FilterInv, ExitNodeSet PROVE FilterInv'
  OBVIOUS
<1>1. /\ writing # NotWriting /\ writing.op = "exit" /\ exit' = writing.exit
      /\ policy' = Compile(cfg, writing.exit, shields) /\ flows' = flows
      /\ writing' = NotWriting /\ ~crossed'
      /\ UNCHANGED <<saved, cfg, shields, allowed, pending, degraded, mixed>>
  BY DEF ExitNodeSet, WrittenOut, Install
<1>2. /\ cfg # Unset /\ writing.cfg = cfg /\ ExitOK(cfg, writing.exit) /\ writing.exit # exit
  BY <1>1 DEF FilterInv, Staged
<1>3. ~mixed => \A k : Right(allowed, cfg, exit', k)
  BY <1>1, <1>2, AllWritten DEF ExitNodeSet
<1>4. Configured'
  BY <1>1, <1>2 DEF FilterInv, Configured
<1>5. Staged' /\ Underway'
  BY <1>1 DEF Staged, Underway
<1>6. Waiting'
  BY <1>1 DEF FilterInv, Waiting
<1>7. ~mixed => Clean'
  BY <1>1, <1>3 DEF Clean, OwnPolicy
<1>8. ~mixed => Repairable'
  <2> SUFFICES ASSUME ~mixed, pending = NoPending, degraded PROVE FALSE
    BY <1>1 DEF Repairable, Free
  <2> QED  BY <1>1 DEF FilterInv, Synced, Underway
<1>9. ~mixed => Committable'
  <2> SUFFICES ASSUME ~mixed, pending # NoPending PROVE Committable'
    BY <1>1 DEF Committable
  <2>1. PendingFor(exit)
    BY <1>1 DEF FilterInv, Synced, Underway
  <2>2. exit # exit' /\ PendingFor(exit)
    BY <1>1, <1>2, <2>1
  <2>3. \E e : e # exit' /\ (pending.policy = Compile(cfg, e, shields)
                             /\ pending.transition = Compile(cfg, e, TRUE)
                             /\ (pending.by = "start" => e = Unset))
    BY <2>2 DEF PendingFor
  <2> QED  BY <1>1, <1>3, <2>3 DEF Committable, PendingFor
<1>10. FlowsFollowIdentity'
  <2> SUFFICES ASSUME ~mixed PROVE \A f \in flows : f.by = Identity(policy'.cfg, policy'.exit)
    BY <1>1 DEF FlowsFollowIdentity
  <2>1. policy'.cfg = cfg /\ policy'.exit = writing.exit
    BY <1>1 DEF Compile
  <2> QED  BY <1>1, <2>1 DEF FilterInv, Synced, Underway, FlowsOf
<1> QED  BY <1>1, <1>4, <1>5, <1>6, <1>7, <1>8, <1>9, <1>10 DEF FilterInv, Synced

(* A policy for another exit node is not the transition: it is compared with its exit
   address. *)
LEMMA OtherExit ==
    ASSUME NEW c, NEW d, NEW e, NEW a, NEW b, d # e
    PROVE  Compile(c, d, a) # Compile(c, e, b)
  BY DEF Compile

(* Commit installs the final policy over its transition only; over anything else the
   engine stays degraded. *)
LEMMA CommitStep == FilterInv /\ Commit => FilterInv'
<1> SUFFICES ASSUME FilterInv, Commit PROVE FilterInv'
  OBVIOUS
<1>1. /\ writing = NotWriting /\ pending.by = "apply" /\ pending' = NoPending
      /\ UNCHANGED <<saved, cfg, exit, shields, allowed, writing, mixed, crossed>>
  BY DEF Commit
<1>2. pending # NoPending
  BY <1>1 DEF NoPending
<1>3. cfg # Unset /\ degraded /\ saved = cfg /\ ExitOK(cfg, exit)
  BY <1>2 DEF FilterInv, Waiting, Configured
<1>4. flows' = flows
  BY DEF Commit, Install
<1>5. Configured' /\ Staged' /\ Waiting' /\ Underway' /\ Committable'
  BY <1>1, <1>3, <1>4 DEF FilterInv, Configured, Staged, Waiting, Underway, Committable
<1>6. ~mixed => \A k : Right(allowed, cfg, exit, k)
  BY <1>1, <1>2 DEF FilterInv, Synced, Committable
<1>7. CASE policy = pending.transition
  <2>1. policy' = pending.policy /\ degraded' = FALSE
    BY <1>7 DEF Commit, Install
  <2>2. ASSUME ~mixed PROVE policy' = Compile(cfg, exit, shields) /\ policy = Compile(cfg, exit, TRUE)
    <3>1. ASSUME NEW e, e # exit, PendingFor(e), policy = Compile(cfg, exit, shields)
          PROVE  FALSE
      BY <1>7, <3>1, OtherExit DEF PendingFor
    <3> QED  BY <1>1, <1>2, <2>1, <2>2, <3>1 DEF FilterInv, Synced, Committable, PendingFor
  <2>3. ~mixed => Clean' /\ Repairable'
    BY <1>1, <1>6, <2>1, <2>2 DEF Clean, Repairable, OwnPolicy
  <2>4. FlowsFollowIdentity'
    <3> SUFFICES ASSUME ~mixed, ~crossed
                 PROVE  \A f \in flows : f.by = Identity(policy'.cfg, policy'.exit)
      BY <1>1, <1>4 DEF FlowsFollowIdentity
    <3>1. policy'.cfg = policy.cfg /\ policy'.exit = policy.exit
      BY <2>2 DEF Compile
    <3> QED  BY <3>1 DEF FilterInv, FlowsFollowIdentity
  <2> QED  BY <1>1, <1>5, <2>3, <2>4 DEF FilterInv, Synced
<1>8. CASE policy # pending.transition
  <2>1. UNCHANGED <<policy, degraded>>
    BY <1>8 DEF Commit
  <2>2. ~mixed => policy = Compile(cfg, exit, shields)
    BY <1>1, <1>2, <1>8 DEF FilterInv, Synced, Committable, PendingFor
  <2>3. ValidExit(cfg, exit) = exit
    BY <1>3, ValidExitKept
  <2>4. ~mixed => Repairable'
    BY <1>1, <1>3, <1>6, <2>1, <2>2, <2>3 DEF Repairable
  <2>5. Clean'
    BY <1>3, <2>1 DEF Clean
  <2>6. FlowsFollowIdentity'
    BY <1>1, <1>4, <2>1 DEF FilterInv, FlowsFollowIdentity
  <2> QED  BY <1>1, <1>5, <2>4, <2>5, <2>6 DEF FilterInv, Synced
<1> QED  BY <1>7, <1>8

(* CommitStartPolicy ends on the engine's own policy, or after a change of exit node on
   the one without an exit node. *)
LEMMA CommitStartStep == FilterInv /\ CommitStartPolicy => FilterInv'
<1> SUFFICES ASSUME FilterInv, CommitStartPolicy PROVE FilterInv'
  OBVIOUS
<1>1. /\ writing = NotWriting /\ pending.by = "start" /\ pending' = NoPending
      /\ policy' = pending.policy /\ degraded' = FALSE
      /\ crossed' = (exit # Unset)
      /\ UNCHANGED <<saved, cfg, exit, shields, allowed, writing, mixed>>
  BY DEF CommitStartPolicy
<1>2. pending # NoPending
  BY <1>1 DEF NoPending
<1>3. cfg # Unset /\ saved = cfg
  BY <1>2 DEF FilterInv, Waiting
<1>4. Configured' /\ Staged' /\ Waiting' /\ Underway' /\ Committable' /\ Repairable'
  BY <1>1, <1>3 DEF FilterInv, Configured, Staged, Waiting, Underway, Committable, Repairable
<1>5. ASSUME ~mixed
      PROVE  /\ \A k : Right(allowed, cfg, exit, k)
             /\ policy' = Compile(cfg, Unset, shields)
             /\ exit = Unset => policy = pending.transition /\ policy = Compile(cfg, Unset, TRUE) /\ ~crossed
  BY <1>1, <1>2, <1>5 DEF FilterInv, Synced, Committable, PendingFor
<1>6. ~mixed => Clean'
  <2> SUFFICES ASSUME ~mixed PROVE OwnPolicy(policy, shields)' /\ \A k : Right(allowed', cfg', exit', k)
    BY DEF Clean
  <2>1. CASE exit = Unset
    BY <1>1, <1>5, <2>1 DEF OwnPolicy
  <2>2. CASE exit # Unset
    BY <1>1, <1>5, <2>2 DEF OwnPolicy
  <2> QED  BY <2>1, <2>2
<1>7. FlowsFollowIdentity'
  <2> SUFFICES ASSUME ~mixed, exit = Unset
               PROVE  \A f \in flows' : f.by = Identity(policy'.cfg, policy'.exit)
    BY <1>1 DEF FlowsFollowIdentity
  <2>1. flows' = flows
    BY <1>5 DEF CommitStartPolicy
  <2>2. policy'.cfg = policy.cfg /\ policy'.exit = policy.exit
    BY <1>5 DEF Compile
  <2> QED  BY <1>5, <2>1, <2>2 DEF FilterInv, FlowsFollowIdentity
<1> QED  BY <1>1, <1>4, <1>6, <1>7 DEF FilterInv, Synced

(* An apply whose reconciliation fails has written everything. *)
LEMMA ReconcileFailsStep == FilterInv /\ ReconcileFails => FilterInv'
<1> SUFFICES ASSUME FilterInv, ReconcileFails PROVE FilterInv'
  OBVIOUS
<1>1. /\ writing = NotWriting /\ pending # NoPending /\ pending' = NoPending
      /\ UNCHANGED <<saved, cfg, exit, shields, allowed, policy, flows, writing, degraded, mixed, crossed>>
  BY DEF ReconcileFails
<1>2. cfg # Unset /\ degraded /\ saved = cfg /\ ExitOK(cfg, exit)
  BY <1>1 DEF FilterInv, Waiting, Configured
<1>3. ValidExit(cfg, exit) = exit
  BY <1>2, ValidExitKept
<1>4. Configured' /\ Staged' /\ Waiting' /\ Underway' /\ Committable' /\ Clean'
  BY <1>1, <1>2 DEF FilterInv, Configured, Staged, Waiting, Underway, Committable, Clean
<1>5. ~mixed => Repairable'
  <2> SUFFICES ASSUME ~mixed PROVE Repairable'
    OBVIOUS
  <2>1. /\ \A k : Right(allowed, cfg, exit, k)
        /\ policy = Compile(cfg, exit, TRUE) \/ policy = Compile(cfg, exit, shields)
    BY <1>1 DEF FilterInv, Synced, Committable
  <2> QED  BY <1>1, <1>2, <1>3, <2>1 DEF Repairable
<1>6. FlowsFollowIdentity'
  BY <1>1 DEF FilterInv, FlowsFollowIdentity
<1> QED  BY <1>1, <1>4, <1>5, <1>6 DEF FilterInv, Synced

(* A failed apply stays repairable by the same apply; a failed exit-node change is
   rolled back, to the transition when an apply waits. *)
LEMMA FailStep == FilterInv /\ WriteFails => FilterInv'
<1> SUFFICES ASSUME FilterInv, WriteFails PROVE FilterInv'
  OBVIOUS
<1>1. /\ writing # NotWriting /\ writing' = NotWriting /\ pending' = NoPending
      /\ UNCHANGED <<saved, cfg, exit, shields, degraded, crossed>>
  BY DEF WriteFails
<1>2. /\ cfg # Unset /\ WellFormed(cfg) /\ ExitOK(cfg, exit) /\ writing.op \in {"apply", "exit"}
      /\ DOMAIN allowed \subseteq Blocks
      /\ writing.op = "apply" => /\ degraded /\ writing.cfg = saved
                                 /\ writing.exit = ValidExit(saved, exit)
      /\ pending # NoPending => degraded /\ saved = cfg
  BY <1>1 DEF FilterInv, Staged, Configured, Waiting
<1>3. Staged' /\ Waiting' /\ Underway' /\ Committable'
  BY <1>1 DEF Staged, Waiting, Underway, Committable
<1>4. CASE UNCHANGED <<allowed, policy, flows>> /\ mixed' = (mixed \/ writing.op = "exit")
  <2>1. Configured'
    BY <1>1, <1>2, <1>4 DEF FilterInv, Configured
  <2>2. ~mixed' => Clean' /\ Repairable'
    <3> SUFFICES ASSUME ~mixed' PROVE Clean' /\ Repairable'
      OBVIOUS
    <3>1. ~mixed /\ writing.op = "apply"
      BY <1>2, <1>4
    <3>2. /\ policy = Compile(saved, ValidExit(saved, exit), TRUE)
          /\ writing.write \subseteq Written(cfg, exit, saved, ValidExit(saved, exit))
          /\ writing.last \subseteq Keys(cfg) \ Keys(saved)
          /\ \A k : k \notin writing.write \cup writing.last =>
                       Right(allowed, saved, ValidExit(saved, exit), k)
      BY <1>1, <1>2, <3>1 DEF FilterInv, Synced, Underway
    <3>3. \A k : k \notin Written(cfg, exit, saved, ValidExit(saved, exit)) \cup (Keys(cfg) \ Keys(saved))
                    => Right(allowed, saved, ValidExit(saved, exit), k)
      BY <3>2
    <3> QED  BY <1>1, <1>2, <1>4, <3>1, <3>2, <3>3 DEF Clean, Repairable
  <2>3. FlowsFollowIdentity'
    BY <1>1, <1>4 DEF FilterInv, FlowsFollowIdentity
  <2> QED  BY <1>3, <2>1, <2>2, <2>3 DEF FilterInv, Synced
<1>5. CASE /\ writing.op = "exit"
           /\ allowed' = Full(cfg, exit)
           /\ policy' = writing.old
           /\ flows' = writing.flows
           /\ UNCHANGED mixed
  <2>1. (\A k : Right(allowed', cfg, exit, k)) /\ DOMAIN allowed' \subseteq Blocks
    BY <1>2, <1>5, FullRight
  <2>2. Configured'
    BY <1>1, <1>2, <1>5, <2>1 DEF FilterInv, Configured
  <2>3. ASSUME ~mixed
        PROVE  /\ ~crossed => FlowsOf(flows', cfg, exit)
               /\ pending = NoPending => ~degraded /\ OwnPolicy(writing.old, shields)
               /\ pending # NoPending => degraded /\ policy' = Compile(cfg, exit, TRUE)
    BY <1>1, <1>2, <1>5, <2>3 DEF FilterInv, Synced, Underway
  <2>4. ValidExit(cfg, exit) = exit
    BY <1>2, ValidExitKept
  <2>5. ~mixed' => Clean'
    <3> SUFFICES ASSUME ~mixed, ~degraded PROVE Clean'
      BY <1>1, <1>5 DEF Clean
    <3>1. OwnPolicy(policy, shields)'
      BY <1>1, <1>2, <1>5, <2>3 DEF OwnPolicy
    <3> QED  BY <1>1, <2>1, <3>1 DEF Clean
  <2>6. ~mixed' => Repairable'
    BY <1>1, <1>2, <1>5, <2>1, <2>3, <2>4 DEF Repairable
  <2>7. FlowsFollowIdentity'
    <3> SUFFICES ASSUME ~mixed, ~crossed
                 PROVE  \A f \in flows' : f.by = Identity(policy'.cfg, policy'.exit)
      BY <1>1, <1>5 DEF FlowsFollowIdentity
    <3>1. policy' = Compile(cfg, exit, shields) \/ policy' = Compile(cfg, exit, TRUE)
      BY <1>5, <2>3 DEF OwnPolicy
    <3>2. policy'.cfg = cfg /\ policy'.exit = exit
      BY <3>1 DEF Compile
    <3> QED  BY <2>3, <3>2 DEF FlowsOf
  <2> QED  BY <1>3, <2>2, <2>5, <2>6, <2>7 DEF FilterInv, Synced
<1> QED  BY <1>4, <1>5 DEF WriteFails

(* Shields-up replaces the filter and touches neither device nor flows. *)
LEMMA ShieldsStep ==
    ASSUME FilterInv, NEW b, SetShieldsUp(b)
    PROVE  FilterInv'
<1>1. /\ writing = NotWriting /\ pending = NoPending /\ shields' = b
      /\ UNCHANGED <<saved, cfg, exit, allowed, writing, pending, degraded, crossed>>
  BY DEF SetShieldsUp, Free
<1>2. Staged' /\ Waiting' /\ Underway' /\ Committable'
  BY <1>1 DEF Staged, Waiting, Underway, Committable
<1>3. CASE cfg = Unset
  <2>1. UNCHANGED <<policy, flows, mixed>> /\ ~degraded
    BY <1>3 DEF SetShieldsUp, FilterInv, Configured
  <2>2. Configured' /\ FlowsFollowIdentity'
    BY <1>1, <2>1 DEF FilterInv, Configured, FlowsFollowIdentity, Free
  <2>3. Clean' /\ Repairable'
    BY <1>1, <1>3, <2>1 DEF Clean, Repairable
  <2> QED  BY <1>2, <2>2, <2>3 DEF FilterInv, Synced
<1>4. CASE cfg # Unset
  <2>1. /\ policy' = Compile(cfg, exit, b) /\ flows' = flows
        /\ mixed' = (mixed \/ degraded)
    BY <1>4 DEF SetShieldsUp, Install
  <2>2. Configured'
    BY <1>1, <1>4 DEF FilterInv, Configured
  <2>3. ~mixed' => /\ ~mixed /\ ~degraded /\ OwnPolicy(policy, shields)
                   /\ \A k : Right(allowed, cfg, exit, k)
    BY <1>1, <1>4, <2>1 DEF FilterInv, Synced, Clean
  <2>4. ~mixed' => Clean' /\ Repairable'
    BY <1>1, <2>1, <2>3 DEF Clean, Repairable, OwnPolicy
  <2>5. FlowsFollowIdentity'
    <3> SUFFICES ASSUME ~mixed', ~crossed
                 PROVE  \A f \in flows : f.by = Identity(policy'.cfg, policy'.exit)
      BY <1>1, <2>1 DEF FlowsFollowIdentity
    <3>1. policy = Compile(cfg, exit, shields) /\ policy' = Compile(cfg, exit, b)
      BY <2>1, <2>3 DEF OwnPolicy
    <3>2. policy'.cfg = policy.cfg /\ policy'.exit = policy.exit
      BY <3>1 DEF Compile
    <3> QED  BY <2>3, <3>2 DEF FilterInv, FlowsFollowIdentity
  <2> QED  BY <1>2, <2>2, <2>4, <2>5 DEF FilterInv, Synced
<1> QED  BY <1>3, <1>4

(* An outbound packet is remembered with the identity of the policy that let it out. *)
LEMMA ReadStep ==
    ASSUME FilterInv, NEW f, DeviceRead(f)
    PROVE  FilterInv'
<1> DEFINE entry == [flow |-> f, by |-> Identity(policy.cfg, policy.exit)]
<1>1. /\ UNCHANGED <<saved, cfg, exit, shields, allowed, policy, writing, pending, degraded, mixed, crossed>>
      /\ flows' = flows \cup {entry}
      /\ policy # NoPolicy
  BY DEF DeviceRead, NoPolicy
<1>2. entry.by = Identity(policy.cfg, policy.exit)
  OBVIOUS
<1> HIDE DEF entry
<1>3. Configured'
  BY <1>1 DEF FilterInv, Configured, Free
<1>4. Staged' /\ Waiting'
  BY <1>1 DEF FilterInv, Staged, Waiting
<1>5. ~mixed => Clean' /\ Repairable' /\ Committable'
  BY <1>1 DEF FilterInv, Synced, Clean, Repairable, Committable, OwnPolicy, PendingFor, Free
<1>6. ~mixed => Underway'
  <2> SUFFICES ASSUME ~mixed, writing # NotWriting PROVE Underway'
    BY <1>1 DEF Underway
  <2>1. Underway
    BY DEF FilterInv, Synced
  <2>2. policy.cfg = writing.cfg /\ policy.exit = writing.exit
    BY <2>1 DEF Underway, Compile
  <2>3. writing.op = "exit" => writing.cfg = cfg
    BY DEF FilterInv, Staged
  <2>4. writing.op = "exit" => FlowsOf(flows', cfg, writing.exit)
    BY <1>1, <1>2, <2>1, <2>2, <2>3 DEF Underway, FlowsOf
  <2> QED  BY <1>1, <2>1, <2>4 DEF Underway, FlowsOf, OwnPolicy, PendingFor
<1>7. FlowsFollowIdentity'
  BY <1>1, <1>2 DEF FilterInv, FlowsFollowIdentity
<1> QED  BY <1>1, <1>3, <1>4, <1>5, <1>6, <1>7 DEF FilterInv, Synced

(* The invariant of the filter and the device. *)
THEOREM FilterInvariance == FilterSpec => []FilterInv
<1>1. FilterInv /\ [FilterNext]_filterVars => FilterInv'
  <2> SUFFICES ASSUME FilterInv, [FilterNext]_filterVars PROVE FilterInv'
    OBVIOUS
  <2>1. CASE UNCHANGED filterVars
    <3>1. Configured' /\ Staged' /\ Waiting' /\ FlowsFollowIdentity'
      BY <2>1 DEF filterVars, FilterInv, Configured, Staged, Waiting, FlowsFollowIdentity, Free
    <3>2. Synced'
      BY <2>1 DEF filterVars, FilterInv, Synced, Underway, Clean, Repairable, Committable, Free,
                  FlowsOf, OwnPolicy, PendingFor
    <3> QED  BY <3>1, <3>2 DEF FilterInv
  <2> QED  BY <2>1, StartStep, CloseStep, ApplyStep, ExitStep, WriteStepStep, AppliedStep, ExitSetStep,
              CommitStep, CommitStartStep, ReconcileFailsStep, FailStep, ShieldsStep, ReadStep
              DEF FilterNext
<1> QED  BY <1>1, FilterInvInit, PTL DEF FilterSpec

(* A flow is remembered only under the identity that opened it. *)
THEOREM FlowsStay == FilterSpec => []FlowsFollowIdentity
<1>1. FilterInv => FlowsFollowIdentity
  BY DEF FilterInv
<1> QED  BY <1>1, FilterInvariance, PTL

(* Whatever was written, failed and written again: without an apply under way the
   device holds the blocks of the configuration. *)
THEOREM RoutesAreReached == FilterSpec => []RoutesConverge
<1>1. FilterInv => RoutesConverge
  <2> SUFFICES ASSUME FilterInv, cfg # Unset, writing = NotWriting, ~degraded, ~mixed,
                      NEW b \in Blocks \ Defaults
               PROVE  \/ b \notin DOMAIN allowed \cup DOMAIN Full(cfg, exit)
                      \/ /\ b \in DOMAIN allowed \cap DOMAIN Full(cfg, exit)
                         /\ allowed[b] = Full(cfg, exit)[b]
    BY DEF RoutesConverge
  <2>1. WellFormed(cfg) /\ \A k : Right(allowed, cfg, exit, k)
    BY DEF FilterInv, Configured, Synced, Clean
  <2>2. \A k : Right(Full(cfg, exit), cfg, exit, k)
    BY <2>1, FullRight
  <2>3. \A k : Has(allowed, b, k) <=> Has(Full(cfg, exit), b, k)
    BY <2>1, <2>2 DEF Right
  <2> QED  BY <2>3 DEF Has
<1> QED  BY <1>1, FilterInvariance, PTL

-----------------------------------------------------------------------------
(* Grants. *)

(* No block but a default route covers a whole family. *)
LEMMA BlockFacts ==
    /\ \A b \in Blocks : b # {}
    /\ \A b \in Blocks \ Defaults : \A f \in Families : ~(Default(f) \subseteq b)
<1>1. \A b \in Blocks : b # {} /\ \E f \in Families : b \subseteq Space[f]
  BY FilterAssumption, Zenon
<1>2. \A e, f \in Families : e = f \/ Space[e] \cap Space[f] = {}
  BY FilterAssumption, Zenon
<1>3. \A f \in Families : Default(f) \in Blocks
  BY FilterAssumption, Zenon
<1>4. ASSUME NEW b \in Blocks \ Defaults, NEW f \in Families, Default(f) \subseteq b
      PROVE  FALSE
  <2>1. PICK e \in Families : b \subseteq Space[e]
    BY <1>1
  <2>2. Space[f] # {} /\ Space[f] \subseteq Space[e]
    BY <1>1, <1>3, <1>4, <2>1 DEF Default
  <2>3. e = f
    BY <1>2, <2>2
  <2>4. b = Default(f)
    BY <1>4, <2>1, <2>3 DEF Default
  <2> QED  BY <2>4 DEF Defaults
<1> QED  BY <1>1, <1>4

(* The block that decides on the owner of an address. *)
LEMMA OwnersBlock ==
    ASSUME NEW dev, DOMAIN dev \subseteq Blocks, NEW x \in Addresses, NEW k,
           Owner(dev, x) = k, k # Unset
    PROVE  \E b \in DOMAIN dev : /\ x \in b /\ dev[b] = k
                                 /\ \A d \in DOMAIN dev : x \in d => b \subseteq d
<1> DEFINE covering == {b \in DOMAIN dev : x \in b}
           least == CHOOSE b \in covering : \A d \in covering : b \subseteq d
<1>1. covering # {} /\ dev[least] = k
  BY DEF Owner
<1>2. \A a \in Addresses : \A S \in SUBSET {b \in Blocks : a \in b} :
         S # {} => \E b \in S : \A d \in S : b \subseteq d
  BY FilterAssumption, Zenon
<1>3. covering \in SUBSET {b \in Blocks : x \in b}
  OBVIOUS
<1>4. \E b \in covering : \A d \in covering : b \subseteq d
  <2> HIDE DEF covering
  <2> QED  BY <1>1, <1>2, <1>3
<1>5. least \in covering /\ \A d \in covering : least \subseteq d
  BY <1>4, Zenon
<1> HIDE DEF least
<1> QED  BY <1>1, <1>5

(* What buildOwnership starts from. *)
LEMMA DeclaredItems ==
    ASSUME NEW c, NEW ip
    PROVE  /\ \A n \in DOMAIN c.peers : \A a \in c.peers[n].addrs :
                 [peer |-> n, kind |-> "peer", block |-> {a}] \in Declared(c, ip)
           /\ \A n \in DOMAIN c.peers : \A r \in c.peers[n].routes :
                 [peer |-> n, kind |-> "routes", block |-> r] \in Declared(c, ip)
           /\ \A n \in DOMAIN c.peers : \A f \in ConfigFamilies(c.addrs) :
                 c.peers[n].exit /\ ip \in c.peers[n].addrs =>
                    [peer |-> n, kind |-> "internet", block |-> Default(f)] \in Declared(c, ip)
           /\ \A d \in Declared(c, ip) :
                 /\ d.peer \in DOMAIN c.peers
                 /\ d.kind \in {"peer", "routes", "internet"}
                 /\ d.kind = "peer" => \E a \in c.peers[d.peer].addrs : d.block = {a}
                 /\ d.kind = "routes" => d.block \in c.peers[d.peer].routes
                 /\ d.kind = "internet" => \E f \in ConfigFamilies(c.addrs) : d.block = Default(f)
<1> DEFINE direct(n) == {[peer |-> n, kind |-> "peer", block |-> {a}] : a \in c.peers[n].addrs}
           routed(n) == {[peer |-> n, kind |-> "routes", block |-> r] : r \in c.peers[n].routes}
           families(n) == {f \in ConfigFamilies(c.addrs) : c.peers[n].exit /\ ip \in c.peers[n].addrs}
           internet(n) == {[peer |-> n, kind |-> "internet", block |-> Default(f)] : f \in families(n)}
           items(n) == direct(n) \cup routed(n) \cup internet(n)
<1>1. Declared(c, ip) = UNION {items(n) : n \in DOMAIN c.peers}
  BY DEF Declared
<1> HIDE DEF items
<1>2. /\ \A n \in DOMAIN c.peers : items(n) \subseteq Declared(c, ip)
      /\ \A d \in Declared(c, ip) : \E n \in DOMAIN c.peers : d \in items(n)
  BY <1>1
<1>3. ASSUME NEW n \in DOMAIN c.peers
      PROVE  /\ \A a \in c.peers[n].addrs : [peer |-> n, kind |-> "peer", block |-> {a}] \in items(n)
             /\ \A r \in c.peers[n].routes : [peer |-> n, kind |-> "routes", block |-> r] \in items(n)
             /\ \A f \in ConfigFamilies(c.addrs) :
                   c.peers[n].exit /\ ip \in c.peers[n].addrs =>
                      [peer |-> n, kind |-> "internet", block |-> Default(f)] \in items(n)
  <2>1. \A a \in c.peers[n].addrs : [peer |-> n, kind |-> "peer", block |-> {a}] \in items(n)
    BY Zenon DEF items
  <2>2. \A r \in c.peers[n].routes : [peer |-> n, kind |-> "routes", block |-> r] \in items(n)
    BY Zenon DEF items
  <2>3. \A f \in ConfigFamilies(c.addrs) :
           c.peers[n].exit /\ ip \in c.peers[n].addrs =>
              [peer |-> n, kind |-> "internet", block |-> Default(f)] \in items(n)
    BY Zenon DEF items
  <2> QED  BY <2>1, <2>2, <2>3
<1>4. ASSUME NEW n \in DOMAIN c.peers, NEW d \in items(n)
      PROVE  /\ d.peer = n
             /\ d.kind \in {"peer", "routes", "internet"}
             /\ d.kind = "peer" => \E a \in c.peers[n].addrs : d.block = {a}
             /\ d.kind = "routes" => d.block \in c.peers[n].routes
             /\ d.kind = "internet" => \E f \in ConfigFamilies(c.addrs) : d.block = Default(f)
  <2>1. CASE d \in direct(n)
    BY <2>1
  <2>2. CASE d \in routed(n)
    BY <2>2
  <2>3. CASE d \in internet(n)
    BY <2>3
  <2> QED  BY <2>1, <2>2, <2>3 DEF items
<1>5. \A d \in Declared(c, ip) :
         /\ d.peer \in DOMAIN c.peers
         /\ d.kind \in {"peer", "routes", "internet"}
         /\ d.kind = "peer" => \E a \in c.peers[d.peer].addrs : d.block = {a}
         /\ d.kind = "routes" => d.block \in c.peers[d.peer].routes
         /\ d.kind = "internet" => \E f \in ConfigFamilies(c.addrs) : d.block = Default(f)
  BY <1>2, <1>4
<1>6. \A n \in DOMAIN c.peers : \A a \in c.peers[n].addrs :
         [peer |-> n, kind |-> "peer", block |-> {a}] \in Declared(c, ip)
  BY <1>2, <1>3, Zenon
<1>7. \A n \in DOMAIN c.peers : \A r \in c.peers[n].routes :
         [peer |-> n, kind |-> "routes", block |-> r] \in Declared(c, ip)
  BY <1>2, <1>3, Zenon
<1>8. \A n \in DOMAIN c.peers : \A f \in ConfigFamilies(c.addrs) :
         c.peers[n].exit /\ ip \in c.peers[n].addrs =>
            [peer |-> n, kind |-> "internet", block |-> Default(f)] \in Declared(c, ip)
  BY <1>2, <1>3, Zenon
<1> QED  BY <1>5, <1>6, <1>7, <1>8

(* What the declared items own of one address. *)
LEMMA OwnedBy ==
    ASSUME NEW D, NEW kinds, NEW N, NEW x
    PROVE  x \in Owned(D, kinds, N) <=>
              \E d \in D : d.kind \in kinds /\ d.peer \in N /\ x \in EffectiveBlock(d, D)
  BY DEF Owned

(* What one declared item owns. *)
LEMMA InEffective ==
    ASSUME NEW D, NEW d \in D, NEW x
    PROVE  x \in EffectiveBlock(d, D) <=>
              /\ x \in d.block
              /\ \A o \in D : o.peer # d.peer /\ o.block \subseteq d.block /\ o.block # d.block => x \notin o.block
              /\ d.kind = "routes" => \A o \in D : o.kind = "peer" => x \notin o.block
  BY DEF EffectiveBlock

(* The peer that the device takes for the sender of an address is the one that the
   filter takes for its owner. *)
LEMMA SenderOwns ==
    ASSUME NEW c, WellFormed(c), NEW ip, ExitOK(c, ip), Unset \notin Addresses,
           NEW dev, DOMAIN dev \subseteq Blocks, \A j : Right(dev, c, ip, j),
           NEW f \in ConfigFamilies(c.addrs) \cap Families, NEW x \in Space[f],
           NEW k, Owner(dev, x) = k, k # Unset
    PROVE  \E n \in DOMAIN c.peers :
              /\ c.peers[n].key = k
              /\ \A N : x \in Owned(Declared(c, ip), {"peer"}, N) <=> n \in N /\ x \in c.peers[n].addrs
              /\ \A N : x \in Owned(Declared(c, ip), {"routes"}, N) <=>
                          /\ n \in N /\ x \in UNION c.peers[n].routes
                          /\ \A o \in DOMAIN c.peers : x \notin c.peers[o].addrs
              /\ x \in Owned(Declared(c, ip), {"peer", "routes", "internet"}, DOMAIN c.peers)
<1> DEFINE D == Declared(c, ip)
<1>1. x \in Addresses
  BY DEF Addresses
<1>2. PICK b \in DOMAIN dev : /\ x \in b /\ dev[b] = k
                              /\ \A d \in DOMAIN dev : x \in d => b \subseteq d
  BY <1>1, OwnersBlock
<1>3. \A n \in DOMAIN c.peers : PeerBlocks(c.peers[n]) \subseteq Blocks \ Defaults
  BY OwnBlocks
<1>4. \A m, n \in DOMAIN c.peers :
         m # n => /\ c.peers[m].key # c.peers[n].key
                  /\ PeerBlocks(c.peers[m]) \cap PeerBlocks(c.peers[n]) = {}
  BY DEF WellFormed
<1>5. \A n \in DOMAIN c.peers : \A d \in PeerBlocks(c.peers[n]) :
         d \in DOMAIN dev /\ dev[d] = c.peers[n].key
  BY <1>3 DEF Right, Has, Declares
<1>6. \A n \in DOMAIN c.peers : \A d \in PeerBlocks(c.peers[n]) : x \in d => b \subseteq d
  BY <1>2, <1>5
<1>7. /\ b \notin Defaults => \E n \in DOMAIN c.peers : c.peers[n].key = k /\ b \in PeerBlocks(c.peers[n])
      /\ b \in Defaults => \E n \in DOMAIN c.peers : c.peers[n].key = k /\ ip \in c.peers[n].addrs
  <2>1. Right(dev, c, ip, k) /\ Has(dev, b, k) /\ b \in Blocks
    BY <1>2 DEF Has
  <2> QED  BY <2>1 DEF Right, Declares, ExitKey
<1>8. PICK n \in DOMAIN c.peers : /\ c.peers[n].key = k
                                  /\ b \notin Defaults => b \in PeerBlocks(c.peers[n])
                                  /\ b \in Defaults => ip \in c.peers[n].addrs
  BY <1>7
<1>9. /\ \A o \in DOMAIN c.peers : \A a \in c.peers[o].addrs : {a} \in PeerBlocks(c.peers[o])
      /\ \A o \in DOMAIN c.peers : \A r \in c.peers[o].routes : r \in PeerBlocks(c.peers[o])
  BY DEF PeerBlocks
<1>10. \A d \in D :
          /\ d.peer \in DOMAIN c.peers
          /\ d.kind \in {"peer", "routes", "internet"}
          /\ d.kind \in {"peer", "routes"} => d.block \in PeerBlocks(c.peers[d.peer])
          /\ d.kind = "peer" => \E a \in c.peers[d.peer].addrs : d.block = {a}
          /\ d.kind = "routes" => d.block \in c.peers[d.peer].routes
          /\ d.kind = "internet" => \E e \in ConfigFamilies(c.addrs) : d.block = Default(e)
  <2>1. \A d \in D :
           /\ d.peer \in DOMAIN c.peers
           /\ d.kind \in {"peer", "routes", "internet"}
           /\ d.kind = "peer" => \E a \in c.peers[d.peer].addrs : d.block = {a}
           /\ d.kind = "routes" => d.block \in c.peers[d.peer].routes
           /\ d.kind = "internet" => \E e \in ConfigFamilies(c.addrs) : d.block = Default(e)
    BY DeclaredItems, Zenon
  <2> HIDE DEF D
  <2>2. \A d \in D : d.kind \in {"peer", "routes"} => d.block \in PeerBlocks(c.peers[d.peer])
    <3> SUFFICES ASSUME NEW d \in D, d.kind = "peer" \/ d.kind = "routes"
                 PROVE  d.block \in PeerBlocks(c.peers[d.peer])
      BY Zenon
    <3>1. d.peer \in DOMAIN c.peers
      BY <2>1
    <3>2. CASE d.kind = "peer"
      <4>1. PICK a \in c.peers[d.peer].addrs : d.block = {a}
        BY <2>1, <3>2
      <4> QED  BY <1>9, <3>1, <4>1
    <3>3. CASE d.kind = "routes"
      BY <1>9, <2>1, <3>1, <3>3
    <3> QED  BY <3>2, <3>3
  <2> QED  BY <2>1, <2>2, Zenon
<1>11. /\ \A o \in DOMAIN c.peers : \A a \in c.peers[o].addrs :
             [peer |-> o, kind |-> "peer", block |-> {a}] \in D
       /\ \A o \in DOMAIN c.peers : \A r \in c.peers[o].routes :
             [peer |-> o, kind |-> "routes", block |-> r] \in D
       /\ \A o \in DOMAIN c.peers : \A e \in ConfigFamilies(c.addrs) :
             c.peers[o].exit /\ ip \in c.peers[o].addrs =>
                [peer |-> o, kind |-> "internet", block |-> Default(e)] \in D
  BY DeclaredItems, Zenon
<1> HIDE DEF D
(* a block around x of a peer is in no default route that decides *)
<1>12. \A o \in DOMAIN c.peers : \A d \in PeerBlocks(c.peers[o]) : x \in d => b \notin Defaults
  BY <1>3, <1>6, BlockFacts DEF Defaults
<1>13. ASSUME NEW o \in DOMAIN c.peers, x \in c.peers[o].addrs
       PROVE  o = n
  <2>1. {x} \in PeerBlocks(c.peers[o]) /\ x \in {x}
    BY <1>9, <1>13
  <2>2. b \subseteq {x} /\ b \notin Defaults
    BY <1>6, <1>12, <2>1
  <2>3. b = {x}
    BY <1>2, <2>2
  <2> QED  BY <1>4, <1>8, <2>1, <2>2, <2>3
<1>14. ASSUME NEW N
       PROVE  x \in Owned(D, {"peer"}, N) <=> n \in N /\ x \in c.peers[n].addrs
  <2>1. ASSUME x \in Owned(D, {"peer"}, N)
        PROVE  n \in N /\ x \in c.peers[n].addrs
    <3>1. PICK d \in D : d.kind = "peer" /\ d.peer \in N /\ x \in d.block
      BY <2>1, OwnedBy, InEffective
    <3>2. x \in c.peers[d.peer].addrs /\ d.peer \in DOMAIN c.peers
      BY <1>10, <3>1
    <3> QED  BY <1>13, <3>1, <3>2
  <2>2. ASSUME n \in N, x \in c.peers[n].addrs
        PROVE  x \in Owned(D, {"peer"}, N)
    <3> DEFINE d == [peer |-> n, kind |-> "peer", block |-> {x}]
    <3>1. d \in D /\ d.peer = n /\ d.kind = "peer" /\ d.block = {x}
      BY <1>11, <2>2
    <3> HIDE DEF d
    <3>2. \A o \in D : o.block \subseteq {x} /\ o.block # {x} => x \notin o.block
      OBVIOUS
    <3>3. x \in EffectiveBlock(d, D)
      <4>1. x \in d.block /\ d.kind # "routes"
        BY <3>1
      <4>2. \A o \in D : o.peer # d.peer /\ o.block \subseteq d.block /\ o.block # d.block => x \notin o.block
        BY <3>1, <3>2
      <4> QED  BY <3>1, <4>1, <4>2 DEF EffectiveBlock
    <3> QED  BY <2>2, <3>1, <3>3, OwnedBy
  <2> QED  BY <2>1, <2>2
(* the deciding block of the owner, if it is a route, is effective *)
<1>15. ASSUME b \notin Defaults, \A o \in DOMAIN c.peers : x \notin c.peers[o].addrs
       PROVE  \E d \in D : d.kind = "routes" /\ d.peer = n /\ x \in EffectiveBlock(d, D)
  <2>1. b \in c.peers[n].routes
    BY <1>2, <1>8, <1>15 DEF PeerBlocks
  <2> DEFINE d == [peer |-> n, kind |-> "routes", block |-> b]
  <2>2. d \in D /\ d.peer = n /\ d.kind = "routes" /\ d.block = b
    BY <1>11, <2>1
  <2> HIDE DEF d
  <2>3. ASSUME NEW o \in D, o.block \subseteq b, o.block # b
        PROVE  x \notin o.block
    <3>1. CASE o.kind \in {"peer", "routes"}
      BY <1>6, <1>10, <2>3, <3>1
    <3>2. CASE o.kind = "internet"
      <4>1. PICK e \in ConfigFamilies(c.addrs) : o.block = Default(e)
        BY <1>10, <3>2
      <4>2. e \in Families
        BY KnownFamilies DEF WellFormed
      <4>3. b \in Blocks \ Defaults /\ Default(e) \subseteq b
        BY <1>2, <1>15, <2>3, <4>1
      <4> QED  BY <4>2, <4>3, BlockFacts
    <3> QED  BY <1>10, <3>1, <3>2
  <2>4. \A o \in D : o.kind = "peer" => x \notin o.block
    BY <1>10, <1>15
  <2>5. x \in EffectiveBlock(d, D)
    BY <1>2, <2>2, <2>3, <2>4, InEffective
  <2> QED  BY <2>2, <2>5
<1>16. ASSUME NEW N
       PROVE  x \in Owned(D, {"routes"}, N) <=>
                 /\ n \in N /\ x \in UNION c.peers[n].routes
                 /\ \A o \in DOMAIN c.peers : x \notin c.peers[o].addrs
  <2>1. ASSUME x \in Owned(D, {"routes"}, N)
        PROVE  /\ n \in N /\ x \in UNION c.peers[n].routes
               /\ \A o \in DOMAIN c.peers : x \notin c.peers[o].addrs
    <3>1. PICK d \in D : d.kind = "routes" /\ d.peer \in N /\ x \in EffectiveBlock(d, D)
      BY <2>1, OwnedBy
    <3>2. /\ x \in d.block
          /\ \A o \in D : o.peer # d.peer /\ o.block \subseteq d.block /\ o.block # d.block => x \notin o.block
          /\ \A o \in D : o.kind = "peer" => x \notin o.block
      BY <3>1, InEffective
    <3>3. \A o \in DOMAIN c.peers : x \notin c.peers[o].addrs
      <4> SUFFICES ASSUME NEW o \in DOMAIN c.peers, x \in c.peers[o].addrs PROVE FALSE
        OBVIOUS
      <4> DEFINE i == [peer |-> o, kind |-> "peer", block |-> {x}]
      <4>1. i \in D /\ i.kind = "peer" /\ x \in i.block
        BY <1>11
      <4> HIDE DEF i
      <4> QED  BY <3>2, <4>1
    <3>4. d.peer \in DOMAIN c.peers /\ d.block \in c.peers[d.peer].routes
      BY <1>10, <3>1
    <3>5. b \subseteq d.block /\ b \notin Defaults
      BY <1>6, <1>9, <1>12, <3>2, <3>4
    <3>6. PICK e \in D : e.peer = n /\ e.block = b
      <4>1. b \in c.peers[n].routes
        BY <1>2, <1>8, <3>3, <3>5 DEF PeerBlocks
      <4> DEFINE i == [peer |-> n, kind |-> "routes", block |-> b]
      <4>2. i \in D /\ i.peer = n /\ i.block = b
        BY <1>11, <4>1
      <4> HIDE DEF i
      <4> QED  BY <4>2
    <3>7. d.peer = n
      <4> SUFFICES ASSUME d.peer # n PROVE FALSE
        OBVIOUS
      <4>1. b # d.block
        BY <1>4, <1>8, <1>9, <3>4, <3>5
      <4> QED  BY <1>2, <3>2, <3>5, <3>6, <4>1
    <3> QED  BY <3>1, <3>2, <3>3, <3>4, <3>7
  <2>2. ASSUME n \in N, x \in UNION c.peers[n].routes,
               \A o \in DOMAIN c.peers : x \notin c.peers[o].addrs
        PROVE  x \in Owned(D, {"routes"}, N)
    <3>1. b \notin Defaults
      BY <1>9, <1>12, <2>2
    <3>2. PICK d \in D : d.kind = "routes" /\ d.peer = n /\ x \in EffectiveBlock(d, D)
      BY <1>15, <2>2, <3>1
    <3> QED  BY <2>2, <3>2, OwnedBy
  <2> QED  BY <2>1, <2>2
<1>17. x \in Owned(D, {"peer", "routes", "internet"}, DOMAIN c.peers)
  <2>1. CASE \E o \in DOMAIN c.peers : x \in c.peers[o].addrs
    <3>1. x \in Owned(D, {"peer"}, DOMAIN c.peers)
      BY <1>13, <1>14, <2>1
    <3>2. PICK d \in D : d.kind = "peer" /\ d.peer \in DOMAIN c.peers /\ x \in EffectiveBlock(d, D)
      BY <3>1, OwnedBy
    <3> QED  BY <3>2, OwnedBy
  <2>2. CASE b \notin Defaults /\ \A o \in DOMAIN c.peers : x \notin c.peers[o].addrs
    <3>1. PICK d \in D : d.kind = "routes" /\ d.peer = n /\ x \in EffectiveBlock(d, D)
      BY <1>15, <2>2
    <3> QED  BY <3>1, OwnedBy
  <2>3. CASE b \in Defaults /\ \A o \in DOMAIN c.peers : x \notin c.peers[o].addrs
    <3>1. c.peers[n].exit /\ ip \in c.peers[n].addrs
      <4>1. ip \in c.peers[n].addrs
        BY <1>8, <2>3
      <4>2. ip # Unset
        BY <4>1 DEF WellFormed
      <4>3. PICK o \in DOMAIN c.peers : c.peers[o].exit /\ ip \in c.peers[o].addrs
        BY <4>2 DEF ExitOK
      <4>4. {ip} \in PeerBlocks(c.peers[o]) /\ {ip} \in PeerBlocks(c.peers[n])
        BY <1>9, <4>1, <4>3
      <4>5. o = n
        BY <1>4, <4>4
      <4> QED  BY <4>1, <4>3, <4>5
    <3> DEFINE d == [peer |-> n, kind |-> "internet", block |-> Default(f)]
    <3>2. d \in D /\ d.peer = n /\ d.kind = "internet" /\ d.block = Default(f)
      BY <1>11, <3>1
    <3> HIDE DEF d
    <3>3. \A o \in D : o.kind \in {"peer", "routes"} => x \notin o.block
      BY <1>10, <1>12, <2>3
    <3>4. ASSUME NEW o \in D, o.block \subseteq Default(f), o.block # Default(f), o.kind = "internet"
          PROVE  x \notin o.block
      <4>1. PICK e \in Families : o.block = Space[e]
        BY <1>10, <3>4, KnownFamilies DEF Default, WellFormed
      <4>2. \A g, h \in Families : g = h \/ Space[g] \cap Space[h] = {}
        BY FilterAssumption, Zenon
      <4> QED  BY <3>4, <4>1, <4>2 DEF Default
    <3>5. \A o \in D : o.peer # d.peer /\ o.block \subseteq d.block /\ o.block # d.block => x \notin o.block
      BY <1>10, <3>2, <3>3, <3>4
    <3>6. x \in d.block /\ d.kind # "routes"
      BY <3>2 DEF Default
    <3>7. x \in EffectiveBlock(d, D)
      BY <3>2, <3>5, <3>6, InEffective
    <3> QED  BY <3>2, <3>7, OwnedBy
  <2> QED  BY <2>1, <2>2, <2>3
<1> QED  BY <1>8, <1>14, <1>16, <1>17 DEF D

(* A device that holds what configuration c declares takes x, an address of family f,
   for the peer with key k. *)
TakenFor(dev, c, ip, f, x, k) ==
    /\ WellFormed(c) /\ ExitOK(c, ip) /\ Unset \notin Addresses
    /\ DOMAIN dev \subseteq Blocks /\ \A j : Right(dev, c, ip, j)
    /\ f \in ConfigFamilies(c.addrs) \cap Families /\ x \in Space[f]
    /\ Owner(dev, x) = k /\ k # Unset

(* A selector resolves to an address exactly when it names the peer that owns the
   address. *)
LEMMA SourceNamed ==
    ASSUME NEW dev, NEW c, NEW ip, NEW f, NEW x, NEW k, TakenFor(dev, c, ip, f, x, k), policy.cfg = c,
           NEW s, s.kind \in {"all", "peer:*", "routes:*", "peer", "routes", "prefix"}
    PROVE  x \in resolveSource(s, c, Declared(c, ip)) <=> Names(s, k, x)
<1> DEFINE D == Declared(c, ip)
           direct == UNION {c.peers[o].addrs : o \in DOMAIN c.peers}
<1>1. PICK n \in DOMAIN c.peers :
         /\ c.peers[n].key = k
         /\ \A N : x \in Owned(D, {"peer"}, N) <=> n \in N /\ x \in c.peers[n].addrs
         /\ \A N : x \in Owned(D, {"routes"}, N) <=>
                     /\ n \in N /\ x \in UNION c.peers[n].routes
                     /\ \A o \in DOMAIN c.peers : x \notin c.peers[o].addrs
         /\ x \in Owned(D, {"peer", "routes", "internet"}, DOMAIN c.peers)
  BY SenderOwns DEF TakenFor
<1> HIDE DEF D
<1>2. \A o \in DOMAIN c.peers : c.peers[o].key = k <=> o = n
  BY <1>1 DEF TakenFor, WellFormed
<1>3. x \in direct <=> \E o \in DOMAIN c.peers : x \in c.peers[o].addrs
  OBVIOUS
<1>4. CASE s.kind = "all"
  BY <1>1, <1>4 DEF resolveSource, Names, D
<1>5. CASE s.kind = "prefix"
  BY <1>1, <1>5 DEF resolveSource, Names, D
<1>6. CASE s.kind = "peer:*"
  BY <1>1, <1>2, <1>6 DEF resolveSource, Names, D
<1>7. CASE s.kind = "peer"
  BY <1>1, <1>2, <1>7 DEF resolveSource, Names, D
<1>8. CASE s.kind = "routes:*"
  <2>1. resolveSource(s, c, D) = Owned(D, {"routes"}, DOMAIN c.peers)
    BY <1>8 DEF resolveSource
  <2>2. Names(s, k, x) <=> x \in UNION c.peers[n].routes /\ x \notin direct
    BY <1>2, <1>8 DEF Names
  <2> HIDE DEF direct
  <2> QED  BY <1>1, <1>3, <2>1, <2>2 DEF D
<1>9. CASE s.kind = "routes"
  <2>1. resolveSource(s, c, D) = Owned(D, {"routes"}, {s.of})
    BY <1>9 DEF resolveSource
  <2>2. Names(s, k, x) <=> n = s.of /\ x \in UNION c.peers[n].routes /\ x \notin direct
    BY <1>2, <1>9 DEF Names
  <2> HIDE DEF direct
  <2> QED  BY <1>1, <1>3, <2>1, <2>2 DEF D
<1> QED  BY <1>4, <1>5, <1>6, <1>7, <1>8, <1>9

(* While grants are in force, nothing is being written and the filter is that of the
   engine's configuration, but for a start without an exit node. *)
LEMMA OpenPolicy ==
    ASSUME FilterInv, policy.open, ~mixed, ~StartedWithoutExit
    PROVE  /\ cfg # Unset /\ WellFormed(cfg) /\ ExitOK(cfg, exit)
           /\ \A j : Right(allowed, cfg, exit, j)
           /\ DOMAIN allowed \subseteq Blocks
           /\ policy = Compile(cfg, exit, FALSE)
<1>1. cfg # Unset
  BY DEF FilterInv, Configured, NoPolicy
<1>0. \A c, ip : ~Compile(c, ip, TRUE).open
  BY DEF Compile
<1>2. writing = NotWriting
  BY <1>0 DEF FilterInv, Synced, Underway
<1>3. /\ \/ policy = Compile(cfg, exit, shields)
         \/ policy = Compile(cfg, Unset, shields)
      /\ \A j : Right(allowed, cfg, exit, j)
  <2>1. CASE ~degraded
    BY <1>1, <1>2, <2>1 DEF FilterInv, Synced, Clean, OwnPolicy
  <2>2. CASE degraded /\ pending = NoPending
    BY <1>0, <1>2, <2>2 DEF FilterInv, Synced, Repairable, Free
  <2>3. CASE pending # NoPending
    BY <1>0, <1>2, <2>3 DEF FilterInv, Synced, Committable
  <2> QED  BY <2>1, <2>2, <2>3
<1>4. \A e : Compile(cfg, e, shields).open => Compile(cfg, e, shields) = Compile(cfg, e, FALSE)
  BY DEF Compile
<1>5. policy = Compile(cfg, exit, FALSE)
  <2>1. policy = Compile(cfg, exit, FALSE) \/ policy = Compile(cfg, Unset, FALSE)
    BY <1>3, <1>4
  <2> QED  BY <2>1 DEF StartedWithoutExit
<1> QED  BY <1>1, <1>3, <1>5 DEF FilterInv, Configured

(* A packet from the owner of its source opens a connection exactly when a grant
   names that owner. *)
LEMMA PacketGranted ==
    ASSUME FilterInv, policy.open, ~mixed, ~StartedWithoutExit,
           NEW p \in Packets, Owner(allowed, p.src) = p.key
    PROVE  Matched(p) <=> Granted(p)
<1> DEFINE D == Declared(cfg, exit)
           srcs(g) == UNION {resolveSource(s, cfg, D) : s \in g.src}
           dsts(g) == UNION {resolveDestination(s, cfg) : s \in g.dst}
           ports(t) == IF t.ports = "*" THEN 0 .. MaxPort ELSE t.ports[1] .. t.ports[2]
           match(g, t) == [srcs |-> srcs(g), dsts |-> dsts(g), proto |-> t.proto, ports |-> ports(t)]
<1>1. /\ WellFormed(cfg) /\ ExitOK(cfg, exit)
      /\ \A j : Right(allowed, cfg, exit, j)
      /\ DOMAIN allowed \subseteq Blocks
      /\ policy = Compile(cfg, exit, FALSE)
  BY OpenPolicy
<1>2. policy.cfg = cfg /\ policy.local = cfg.addrs /\ policy.matches = compileMatches(cfg, D)
  BY <1>1 DEF Compile
<1>3. /\ p.key # Unset /\ p.port \in 0 .. MaxPort
      /\ \E f \in Families : p.src \in Space[f] /\ p.dst \in Space[f]
  BY FilterAssumption, Zenon
<1>4. Unset \notin Addresses /\ \A e, f \in Families : e = f \/ Space[e] \cap Space[f] = {}
  BY FilterAssumption, Zenon
<1>5. CASE p.dst \notin cfg.addrs
  BY <1>2, <1>5 DEF Matched, Granted
<1>6. CASE p.dst \in cfg.addrs
  <2>1. PICK f \in Families : p.src \in Space[f] /\ p.dst \in Space[f]
    BY <1>3
  <2>2. FamilyOf(p.dst) = f
    BY <1>4, <2>1 DEF FamilyOf
  <2>3. f \in ConfigFamilies(cfg.addrs) \cap Families
    BY <1>6, <2>2 DEF ConfigFamilies
  <2>4. \A g \in cfg.grants : p.src \in srcs(g) <=> \E s \in g.src : Names(s, p.key, p.src)
    <3> SUFFICES ASSUME NEW g \in cfg.grants
                 PROVE  p.src \in srcs(g) <=> \E s \in g.src : Names(s, p.key, p.src)
      OBVIOUS
    <3>1. \A s \in g.src : p.src \in resolveSource(s, cfg, D) <=> Names(s, p.key, p.src)
      <4> SUFFICES ASSUME NEW s \in g.src
                   PROVE  p.src \in resolveSource(s, cfg, D) <=> Names(s, p.key, p.src)
        OBVIOUS
      <4>1. s.kind \in {"all", "peer:*", "routes:*", "peer", "routes", "prefix"}
        BY <1>1 DEF WellFormed
      <4>2. p.src \in Space[f] /\ p.key # Unset /\ Unset \notin Addresses
        BY <1>3, <1>4, <2>1
      <4>3. TakenFor(allowed, cfg, exit, f, p.src, p.key)
        BY <1>1, <2>3, <4>2 DEF TakenFor
      <4> QED  BY <1>2, <4>1, <4>3, SourceNamed
    <3> HIDE DEF D
    <3> QED  BY <3>1
  <2>5. \A g \in cfg.grants :
           p.dst \in dsts(g) <=>
              \E s \in g.dst : s.kind \in {"self", "all"} \/ (s.kind = "prefix" /\ p.dst \in s.of)
    <3>1. ASSUME NEW s
          PROVE  p.dst \in resolveDestination(s, cfg) <=>
                    s.kind \in {"self", "all"} \/ (s.kind = "prefix" /\ p.dst \in s.of)
      BY <1>6 DEF resolveDestination
    <3> QED  BY <3>1
  <2>6. \A t : p.port \in ports(t) <=> (t.ports # "*" => p.port \in t.ports[1] .. t.ports[2])
    BY <1>3
  <2>7. policy.matches = UNION {{match(g, t) : t \in g.ip} : g \in cfg.grants}
    BY <1>2, Zenon DEF compileMatches
  <2>8. \A g, t : /\ match(g, t).srcs = srcs(g) /\ match(g, t).dsts = dsts(g)
                  /\ match(g, t).proto = t.proto /\ match(g, t).ports = ports(t)
    OBVIOUS
  <2> HIDE DEF match, srcs, dsts, ports
  <2>9. Matched(p) <=>
           \E g \in cfg.grants : \E t \in g.ip :
              /\ p.src \in srcs(g) /\ p.dst \in dsts(g)
              /\ p.proto # "icmp" => t.proto \in {"*", p.proto} /\ p.port \in ports(t)
    <3>1. \A m : m \in policy.matches <=> \E g \in cfg.grants : \E t \in g.ip : m = match(g, t)
      <4> DEFINE all(g) == {match(g, t) : t \in g.ip}
      <4>1. \A g, m : m \in all(g) <=> \E t \in g.ip : m = match(g, t)
        OBVIOUS
      <4>2. policy.matches = UNION {all(g) : g \in cfg.grants}
        BY <2>7, Zenon
      <4> HIDE DEF all
      <4>3. ASSUME NEW m PROVE m \in UNION {all(g) : g \in cfg.grants} <=> \E g \in cfg.grants : m \in all(g)
        BY SMT
      <4>4. \A m : m \in policy.matches <=> \E g \in cfg.grants : m \in all(g)
        BY <4>2, <4>3, Zenon
      <4>5. ASSUME NEW m
            PROVE  (\E g \in cfg.grants : m \in all(g)) <=>
                      (\E g \in cfg.grants : \E t \in g.ip : m = match(g, t))
        BY <4>1
      <4> QED  BY <4>4, <4>5
    <3>2. Matched(p) <=> \E m \in policy.matches :
              /\ p.src \in m.srcs /\ p.dst \in m.dsts
              /\ p.proto # "icmp" => m.proto \in {"*", p.proto} /\ p.port \in m.ports
      BY <1>2, <1>6 DEF Matched
    <3>3. ASSUME NEW g \in cfg.grants, NEW t \in g.ip, NEW m, m = match(g, t)
          PROVE  m.srcs = srcs(g) /\ m.dsts = dsts(g) /\ m.proto = t.proto /\ m.ports = ports(t)
      BY <2>8, <3>3
    <3>4. ASSUME Matched(p)
          PROVE  \E g \in cfg.grants : \E t \in g.ip :
                    /\ p.src \in srcs(g) /\ p.dst \in dsts(g)
                    /\ p.proto # "icmp" => t.proto \in {"*", p.proto} /\ p.port \in ports(t)
      <4>1. PICK m \in policy.matches :
              /\ p.src \in m.srcs /\ p.dst \in m.dsts
              /\ p.proto # "icmp" => m.proto \in {"*", p.proto} /\ p.port \in m.ports
        BY <3>2, <3>4
      <4>2. PICK g \in cfg.grants : \E t \in g.ip : m = match(g, t)
        BY <3>1
      <4>3. PICK t \in g.ip : m = match(g, t)
        BY <4>2
      <4> QED  BY <3>3, <4>1, <4>3
    <3>5. ASSUME NEW g \in cfg.grants, NEW t \in g.ip,
                 p.src \in srcs(g), p.dst \in dsts(g),
                 p.proto # "icmp" => t.proto \in {"*", p.proto} /\ p.port \in ports(t)
          PROVE  Matched(p)
      <4>1. PICK m : m = match(g, t)
        OBVIOUS
      <4>2. m \in policy.matches
        BY <3>1, <4>1
      <4> QED  BY <3>2, <3>3, <3>5, <4>1, <4>2
    <3> QED  BY <3>4, <3>5
  <2>10. Granted(p) <=>
           \E g \in cfg.grants :
              /\ p.src \in srcs(g) /\ p.dst \in dsts(g)
              /\ \/ p.proto = "icmp"
                 \/ \E t \in g.ip : t.proto \in {"*", p.proto} /\ p.port \in ports(t)
    BY <1>2, <1>6, <2>4, <2>5, <2>6 DEF Granted
  <2>11. \A g \in cfg.grants : g.ip # {}
    BY <1>1 DEF WellFormed
  <2> QED  BY <2>9, <2>10, <2>11
<1> QED  BY <1>5, <1>6

(* The owner that the filter works with is the owner on the device: a packet that the
   device takes from a peer is let in exactly when a grant names that peer. *)
THEOREM GrantsAreFollowed == FilterSpec => []GrantsFollowSender
<1>1. FilterInv => GrantsFollowSender
  BY PacketGranted DEF GrantsFollowSender
<1> QED  BY <1>1, FilterInvariance, PTL

=============================================================================
