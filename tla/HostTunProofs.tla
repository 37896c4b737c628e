---------------------------- MODULE HostTunProofs ----------------------------
(***************************************************************************)
(* The host TUN, for any addresses, routes and configurations, and any     *)
(* number of faults and meddlers: both systems implement the interface     *)
(* HostTun, Close leaves nothing behind, reconfiguring keeps traffic on    *)
(* its path, and a Configure that nothing disturbs succeeds.               *)
(***************************************************************************)
EXTENDS HostSystems, Sequences, FiniteSets, FiniteSetTheorems, WellFoundedInduction, TLAPS

----------------------------------------------------------------------------
(* What the interface sees of a step, of either system.                    *)

HostCarries == IF os = "linux" THEN Linux!Carries ELSE Darwin!Carries

Askable == {Normalized(cfg) : cfg \in Configs} \cup {[addrs |-> {}, routes |-> {}]}

Seen ==
    \/ /\ Phase = "idle" /\ Phase' = "configuring"
       /\ asked' \in Askable /\ answer' = "none"
    \/ /\ Phase \in {"idle", "closed"} /\ Phase' = Phase
       /\ UNCHANGED <<kernel, asked>>
       /\ \/ answer' = "rejected"
          \/ Phase = "idle" /\ answer' = "error"
          \/ Phase = "closed" /\ answer' = "closed"
    \/ /\ Phase = "configuring" /\ Phase' = "idle"
       /\ UNCHANGED asked
       /\ answer' = "error" \/ (answer' = "ok" /\ HostCarries /\ UNCHANGED kernel)
    \/ Phase' = Phase /\ UNCHANGED <<asked, answer>>
    \/ /\ (Phase = "idle" /\ Phase' = "closing") \/ (Phase = "closing" /\ Phase' = "closed")
       /\ UNCHANGED <<asked, answer>>
    \/ Phase' = "idle" /\ answer' = "none" /\ UNCHANGED asked

LEMMA CarriesOfKernel ==
    ASSUME UNCHANGED <<kernel, asked, os>>
    PROVE  HostCarries' = HostCarries
<1>1. Linux!Carries' = Linux!Carries
  BY DEF Linux!Carries, Linux!Lookup, Linux!AddressRoute, Linux!Required, Linux!Destinations
<1>2. Darwin!Carries' = Darwin!Carries
  BY DEF Darwin!Carries, Darwin!Required, Darwin!hasExitRoutes
<1>q. QED  BY <1>1, <1>2 DEF HostCarries

LEMMA CarriesBoolean == HostCarries \in BOOLEAN /\ HostCarries' \in BOOLEAN
<1>1. Linux!Carries \in BOOLEAN /\ Linux!Carries' \in BOOLEAN
  BY DEF Linux!Carries
<1>2. Darwin!Carries \in BOOLEAN /\ Darwin!Carries' \in BOOLEAN
  BY DEF Darwin!Carries
<1>q. QED  BY <1>1, <1>2 DEF HostCarries

LEMMA SeenIsAllowed ==
    ASSUME Seen, UNCHANGED os
    PROVE  Interface!HostNext
<1>1. CASE /\ Phase = "idle" /\ Phase' = "configuring"
           /\ asked' \in Askable /\ answer' = "none"
  <2>1. Interface!Begin
    BY <1>1, CarriesBoolean DEF Interface!Begin, Askable, HostCarries
  <2>q. QED  BY <2>1 DEF Interface!HostNext
<1>2. CASE /\ Phase \in {"idle", "closed"} /\ Phase' = Phase
           /\ UNCHANGED <<kernel, asked>>
           /\ \/ answer' = "rejected"
              \/ Phase = "idle" /\ answer' = "error"
              \/ Phase = "closed" /\ answer' = "closed"
  <2>1. HostCarries' = HostCarries
    BY <1>2, CarriesOfKernel
  <2>2. Interface!Refuse
    BY <1>2, <2>1 DEF Interface!Refuse, HostCarries
  <2>q. QED  BY <2>2 DEF Interface!HostNext
<1>3. CASE /\ Phase = "configuring" /\ Phase' = "idle"
           /\ UNCHANGED asked
           /\ answer' = "error" \/ (answer' = "ok" /\ HostCarries /\ UNCHANGED kernel)
  <2>1. UNCHANGED kernel => HostCarries' = HostCarries
    BY <1>3, CarriesOfKernel
  <2>2. Interface!Answer
    BY <1>3, <2>1, CarriesBoolean DEF Interface!Answer, HostCarries
  <2>q. QED  BY <2>2 DEF Interface!HostNext
<1>4. CASE Phase' = Phase /\ UNCHANGED <<asked, answer>>
  <2>1. Interface!Change
    BY <1>4, CarriesBoolean DEF Interface!Change, HostCarries
  <2>q. QED  BY <2>1 DEF Interface!HostNext
<1>5. CASE /\ (Phase = "idle" /\ Phase' = "closing") \/ (Phase = "closing" /\ Phase' = "closed")
           /\ UNCHANGED <<asked, answer>>
  <2>1. Interface!Close
    BY <1>5, CarriesBoolean DEF Interface!Close, HostCarries
  <2>q. QED  BY <2>1 DEF Interface!HostNext
<1>6. CASE Phase' = "idle" /\ answer' = "none" /\ UNCHANGED asked
  <2>1. Interface!Restart
    BY <1>6, CarriesBoolean DEF Interface!Restart, HostCarries
  <2>q. QED  BY <2>1 DEF Interface!HostNext
<1>q. QED  BY <1>1, <1>2, <1>3, <1>4, <1>5, <1>6 DEF Seen
----------------------------------------------------------------------------
(* Linux: loops.                                                           *)

LinuxLoops == {"rules out", "addrs in", "main out", "main in", "table out", "table in", "rules in",
               "addrs out", "verify"}
LinuxClosing == {"close rules", "close table", "close routes", "close addrs", "close device"}

LEMMA Least ==
    ASSUME NEW T \in SUBSET Nat, T # {}
    PROVE  \E x \in T : \A y \in T : x <= y
<1> DEFINE Below == {ss \in Nat \X Nat : ss[1] < ss[2]}
<1>1. IsWellFoundedOn(Below, Nat)
  BY NatLessThanWellFounded DEF OpToRel
<1>2. PICK x \in T : \A y \in T : <<y, x>> \notin Below
  <2> HIDE DEF Below
  <2>q. QED  BY <1>1, WFMin
<1>3. \A y \in T : <<y, x>> \in Nat \X Nat
  OBVIOUS
<1>4. \A y \in T : ~(y < x)
  BY <1>2, <1>3
<1>q. QED  BY <1>4

LEMMA LinuxTuple ==
    /\ DOMAIN Linux!Loops = 1 .. 9 /\ Len(Linux!Loops) = 9
    /\ Linux!Loops[1] = "rules out" /\ Linux!Loops[2] = "addrs in" /\ Linux!Loops[3] = "main out"
    /\ Linux!Loops[4] = "main in" /\ Linux!Loops[5] = "table out" /\ Linux!Loops[6] = "table in"
    /\ Linux!Loops[7] = "rules in" /\ Linux!Loops[8] = "addrs out" /\ Linux!Loops[9] = "verify"
  BY DEF Linux!Loops
LEMMA ToNine ==
    \A j \in 1 .. 9 : j = 1 \/ j = 2 \/ j = 3 \/ j = 4 \/ j = 5 \/ j = 6 \/ j = 7 \/ j = 8 \/ j = 9
  BY SMT

LEMMA LinuxGoOn ==
    ASSUME NEW i \in 1 .. 9, NEW st, NEW cfg, Linux!GoOn(i, st, cfg)
    PROVE  \E j \in i .. 9 :
              /\ pc' = Linux!Loops[j]
              /\ todo' = Linux!Work(Linux!Loops[j], st, cfg)
              /\ \A n \in i .. (j - 1) : Linux!Work(Linux!Loops[n], st, cfg) = {}
<1> DEFINE W(n) == Linux!Work(Linux!Loops[n], st, cfg)
           First(j) == W(j) # {} /\ \A n \in i .. (j - 1) : W(n) = {}
           j == CHOOSE j \in i .. 9 : First(j)
<1>1. pc' = Linux!Loops[j] /\ todo' = W(j)
  <2>1. Len(Linux!Loops) = 9
    BY LinuxTuple
  <2>q. QED  BY <2>1 DEF Linux!GoOn
<1>2. W(9) # {}
  BY LinuxTuple DEF Linux!Work
<1> HIDE DEF W
<1>3. \E x \in i .. 9 : First(x)
  <2>1. {n \in i .. 9 : W(n) # {}} \in SUBSET Nat /\ {n \in i .. 9 : W(n) # {}} # {}
    BY <1>2
  <2>2. PICK x \in {n \in i .. 9 : W(n) # {}} : \A y \in {n \in i .. 9 : W(n) # {}} : x <= y
    BY <2>1, Least
  <2>q. QED  BY <2>2
<1>4. j \in i .. 9 /\ First(j)
  <2> HIDE DEF First
  <2>q. QED  BY <1>3
<1> HIDE DEF j
<1>q. QED  BY <1>1, <1>4 DEF W

LEMMA LinuxLoopOf ==
    ASSUME NEW loop \in {Linux!Loops[i] : i \in 1 .. Len(Linux!Loops) - 1}
    PROVE  /\ Linux!LoopOf(loop) \in 1 .. 8
           /\ Linux!Loops[Linux!LoopOf(loop)] = loop
           /\ loop \in LinuxLoops \ {"verify"}
<1>1. PICK i \in 1 .. 8 : loop = Linux!Loops[i]
  <2>1. Len(Linux!Loops) - 1 = 8
    <3>1. 9 - 1 = 8
      OBVIOUS
    <3>q. QED  BY <3>1, LinuxTuple, Zenon
  <2>q. QED  BY <2>1
<1>2. i \in 1 .. 9
  OBVIOUS
<1>3. loop \in LinuxLoops \ {"verify"}
  <2>1. i = 1 \/ i = 2 \/ i = 3 \/ i = 4 \/ i = 5 \/ i = 6 \/ i = 7 \/ i = 8
    BY <1>1, ToNine
  <2>q. QED  BY <1>1, <2>1, LinuxTuple DEF LinuxLoops
<1>4. Linux!LoopOf(loop) = CHOOSE n \in 1 .. 9 : Linux!Loops[n] = loop
  BY LinuxTuple DEF Linux!LoopOf
<1>5. Linux!LoopOf(loop) \in 1 .. 9 /\ Linux!Loops[Linux!LoopOf(loop)] = loop
  BY <1>1, <1>2, <1>4
<1>6. Linux!LoopOf(loop) # 9
  BY <1>3, <1>5, LinuxTuple
<1>q. QED  BY <1>3, <1>5, <1>6

LEMMA AfterInFive ==
    /\ \A n \in 1 .. 5 : n # 5 => n + 1 \in 1 .. 5
    /\ \A n \in 1 .. 5 : \A j \in n + 1 .. 5 : j = 2 \/ j = 3 \/ j = 4 \/ j = 5
  BY SMT

LEMMA LinuxCloseTuple ==
    /\ DOMAIN Linux!CloseLoops = 1 .. 5 /\ Len(Linux!CloseLoops) = 5
    /\ Linux!CloseLoops[1] = "close rules" /\ Linux!CloseLoops[2] = "close table"
    /\ Linux!CloseLoops[3] = "close routes" /\ Linux!CloseLoops[4] = "close addrs"
    /\ Linux!CloseLoops[5] = "close device"
  BY DEF Linux!CloseLoops

LEMMA LinuxCloseOn ==
    ASSUME NEW i \in 1 .. 5, NEW st, Linux!CloseOn(i, st)
    PROVE  \E j \in i .. 5 :
              /\ pc' = Linux!CloseLoops[j]
              /\ todo' = Linux!CloseWork(Linux!CloseLoops[j], st)
              /\ \A n \in i .. (j - 1) : Linux!CloseWork(Linux!CloseLoops[n], st) = {}
<1> DEFINE W(n) == Linux!CloseWork(Linux!CloseLoops[n], st)
           First(j) == W(j) # {} /\ \A n \in i .. (j - 1) : W(n) = {}
           j == CHOOSE j \in i .. 5 : First(j)
<1>1. pc' = Linux!CloseLoops[j] /\ todo' = W(j)
  <2>1. Len(Linux!CloseLoops) = 5
    BY LinuxCloseTuple
  <2>q. QED  BY <2>1 DEF Linux!CloseOn
<1>2. W(5) # {}
  BY LinuxCloseTuple DEF Linux!CloseWork
<1> HIDE DEF W
<1>3. \E x \in i .. 5 : First(x)
  <2>1. {n \in i .. 5 : W(n) # {}} \in SUBSET Nat /\ {n \in i .. 5 : W(n) # {}} # {}
    BY <1>2
  <2>2. PICK x \in {n \in i .. 5 : W(n) # {}} : \A y \in {n \in i .. 5 : W(n) # {}} : x <= y
    BY <2>1, Least
  <2>q. QED  BY <2>2
<1>4. j \in i .. 5 /\ First(j)
  <2> HIDE DEF First
  <2>q. QED  BY <1>3
<1> HIDE DEF j
<1>q. QED  BY <1>1, <1>4 DEF W

\* Close begins with the rules, and never comes back to them.
LEMMA LinuxCloseStarts ==
    ASSUME NEW st, Linux!CloseOn(1, st)
    PROVE  /\ pc' \in LinuxClosing
           /\ todo' = Linux!CloseWork(pc', st)
           /\ pc' # "close rules" => st.rules = {}
<1>1. PICK j \in 1 .. 5 :
          /\ pc' = Linux!CloseLoops[j]
          /\ todo' = Linux!CloseWork(Linux!CloseLoops[j], st)
          /\ \A n \in 1 .. (j - 1) : Linux!CloseWork(Linux!CloseLoops[n], st) = {}
  <2>1. 1 \in 1 .. 5
    OBVIOUS
  <2>q. QED  BY <2>1, LinuxCloseOn
<1>2. j = 1 \/ j = 2 \/ j = 3 \/ j = 4 \/ j = 5
  OBVIOUS
<1>3. pc' \in LinuxClosing
  BY <1>1, <1>2, LinuxCloseTuple DEF LinuxClosing
<1>4. j # 1 => 1 \in 1 .. (j - 1)
  OBVIOUS
<1>5. j # 1 => st.rules = {}
  BY <1>1, <1>4, LinuxCloseTuple DEF Linux!CloseWork
<1>q. QED  BY <1>1, <1>3, <1>5, LinuxCloseTuple

LEMMA LinuxCloseContinues ==
    ASSUME NEW st, pc \in {Linux!CloseLoops[i] : i \in 1 .. Len(Linux!CloseLoops)}, pc # "close device",
           Linux!CloseOn((CHOOSE i \in 1 .. Len(Linux!CloseLoops) : Linux!CloseLoops[i] = pc) + 1, st)
    PROVE  /\ pc' \in LinuxClosing \ {"close rules"}
           /\ todo' = Linux!CloseWork(pc', st)
<1> DEFINE at == CHOOSE i \in 1 .. 5 : Linux!CloseLoops[i] = pc
<1>1. Linux!CloseOn(at + 1, st) /\ \E i \in 1 .. 5 : Linux!CloseLoops[i] = pc
  BY LinuxCloseTuple
<1>2. at \in 1 .. 5 /\ Linux!CloseLoops[at] = pc
  BY <1>1
<1> HIDE DEF at
<1>3. at # 5
  BY <1>2, LinuxCloseTuple
<1>4. at + 1 \in 1 .. 5
  BY <1>2, <1>3, AfterInFive, Zenon
<1>5. PICK j \in at + 1 .. 5 : pc' = Linux!CloseLoops[j] /\ todo' = Linux!CloseWork(Linux!CloseLoops[j], st)
  BY <1>1, <1>4, LinuxCloseOn
<1>6. j = 2 \/ j = 3 \/ j = 4 \/ j = 5
  BY <1>2, AfterInFive, Zenon
<1>q. QED  BY <1>5, <1>6, LinuxCloseTuple DEF LinuxClosing
----------------------------------------------------------------------------
(* Linux: types, and the rules that Close must find.                       *)

Kernels == [addrs : SUBSET Addrs, main : SUBSET Linux!KernelRoutes, table : SUBSET Linux!KernelRoutes,
            rules : SUBSET Linux!Rules]
Askeds == [addrs : SUBSET Addrs, routes : SUBSET Routes]

LinuxTypeOK ==
    /\ kernel \in Kernels /\ snap \in Kernels
    /\ asked \in Askeds /\ known \in Askeds
    /\ pc \in {"idle", "closed"} \cup LinuxLoops \cup LinuxClosing
    /\ clean \in BOOLEAN /\ trusted \in BOOLEAN
    /\ pc \in LinuxLoops => todo \subseteq Linux!Work(pc, snap, asked)
    /\ pc \in LinuxClosing => todo \subseteq Linux!CloseWork(pc, snap)

\* An exit route is never an optional one, so that a verified configuration with
\* exit routes has one in the table, and Close, which must know it to remove the
\* rules, remembers it.
LinuxRules ==
    /\ \A r \in asked.routes : ~(r.exit /\ r.opt)
    /\ pc \in LinuxLoops => ~trusted
    /\ pc = "idle" /\ trusted => kernel.rules \subseteq Linux!desiredLinuxRules(known.routes)
    /\ pc \in LinuxClosing /\ clean =>
          kernel.rules \subseteq (IF pc = "close rules" THEN todo ELSE {})
    /\ pc = "closed" /\ clean => kernel.rules = {}

LinuxInv == LinuxTypeOK /\ LinuxRules

LEMMA NormalizedType ==
    ASSUME NEW cfg \in Configs
    PROVE  /\ Linux!Normalized(cfg) \in Askeds /\ Linux!Normalized(cfg) \in Askable
           /\ \A r \in Linux!Normalized(cfg).routes : ~(r.exit /\ r.opt)
<1>1. cfg \in [addrs : SUBSET Addrs, routes : SUBSET Routes]
  BY HostConfigAssumption
<1>2. \A r \in cfg.routes : ~(r.exit /\ r.opt)
  BY HostConfigAssumption
<1>3. \A r \in cfg.routes : Masked[r.dst] \in Dsts
  BY <1>1, HostConfigAssumption DEF Routes
<1>4. \A r \in cfg.routes : /\ [r EXCEPT !.dst = Masked[@]] \in Routes
                            /\ [r EXCEPT !.dst = Masked[@]].exit = r.exit
                            /\ [r EXCEPT !.dst = Masked[@]].opt = r.opt
  BY <1>1, <1>3 DEF Routes
<1>5. Linux!Normalized(cfg) \in Askeds /\ \A r \in Linux!Normalized(cfg).routes : ~(r.exit /\ r.opt)
  BY <1>1, <1>2, <1>4 DEF Linux!Normalized, Askeds
<1>6. Linux!Normalized(cfg) = Normalized(cfg)
  BY DEF Linux!Normalized, Normalized
<1>q. QED  BY <1>5, <1>6 DEF Askable

LEMMA ReadType ==
    ASSUME NEW k \in Kernels, NEW routes
    PROVE  /\ Linux!readInstalledState(k, routes) \in Kernels
           /\ Linux!readInstalledState(k, routes).rules = k.rules
           /\ Linux!readInstalledState(k, routes).addrs = k.addrs
           /\ Linux!readInstalledState(k, routes).main = {r \in k.main : ~Linux!AddressRoute(k, r, routes)}
           /\ Linux!readInstalledState(k, routes).table = {r \in k.table : ~Linux!AddressRoute(k, r, routes)}
  BY DEF Kernels, Linux!readInstalledState

\* An address goes, and with it any of the routes that name it.
LEMMA AddrDelFacts ==
    ASSUME NEW k \in Kernels, NEW a, NEW k2 \in Linux!addrDel(k, a)
    PROVE  /\ k2 \in Kernels /\ k2.rules = k.rules /\ k2.addrs = k.addrs \ {a}
           /\ k2.main \subseteq k.main /\ \A r \in k.main : r.src # a => r \in k2.main
           /\ k2.table \subseteq k.table /\ \A r \in k.table : r.src # a => r \in k2.table
<1>1. PICK m \in SUBSET k.main, t \in SUBSET k.table :
          /\ k2 = [k EXCEPT !.addrs = @ \ {a}, !.main = m, !.table = t]
          /\ \A r \in k.main : r.src # a => r \in m
          /\ \A r \in k.table : r.src # a => r \in t
  <2>1. \E m \in {{r \in k.main : r.src # a \/ r.kind # "kernel"}, {r \in k.main : r.src # a}},
           t \in {k.table, {r \in k.table : r.src # a}} :
             k2 = [k EXCEPT !.addrs = @ \ {a}, !.main = m, !.table = t]
    BY DEF Linux!addrDel
  <2>q. QED  BY <2>1
<1>q. QED  BY <1>1 DEF Kernels

LEMMA RequestType ==
    ASSUME NEW k \in Kernels, NEW k2
    PROVE  /\ \A x : k2 \in Linux!ruleDel(k, x) => k2 \in Kernels /\ k2.rules = k.rules \ {x}
           /\ \A x \in Linux!Rules : k2 \in Linux!ruleAdd(k, x) => k2 \in Kernels /\ k2.rules = k.rules \cup {x}
           /\ \A x \in Addrs : k2 \in Linux!addrReplace(k, x) => k2 \in Kernels /\ k2.rules = k.rules
           /\ \A x : k2 \in Linux!addrDel(k, x) => k2 \in Kernels /\ k2.rules = k.rules
           /\ \A tab \in {"main", "table"} : \A d : k2 \in Linux!routeDel(k, tab, d) => k2 \in Kernels /\ k2.rules = k.rules
           /\ \A tab \in {"main", "table"}, x \in Routes :
                 k2 \in Linux!routeReplace(k, tab, x) => k2 \in Kernels /\ k2.rules = k.rules
<1>1. \A x : k2 \in Linux!ruleDel(k, x) => k2 \in Kernels /\ k2.rules = k.rules \ {x}
  BY DEF Kernels, Linux!ruleDel
<1>2. \A x \in Linux!Rules : k2 \in Linux!ruleAdd(k, x) => k2 \in Kernels /\ k2.rules = k.rules \cup {x}
  BY DEF Kernels, Linux!ruleAdd
<1>3. \A x \in Addrs : k2 \in Linux!addrReplace(k, x) => k2 \in Kernels /\ k2.rules = k.rules
  BY DEF Kernels, Linux!addrReplace
<1>4. \A x : k2 \in Linux!addrDel(k, x) => k2 \in Kernels /\ k2.rules = k.rules
  BY AddrDelFacts
<1>5. \A tab \in {"main", "table"} : \A d : k2 \in Linux!routeDel(k, tab, d) => k2 \in Kernels /\ k2.rules = k.rules
  BY DEF Kernels, Linux!routeDel
<1>6. \A tab \in {"main", "table"}, x \in Routes :
          k2 \in Linux!routeReplace(k, tab, x) => k2 \in Kernels /\ k2.rules = k.rules
  <2>1. \A x \in Routes : [dst |-> x.dst, src |-> x.src, kind |-> "ours"] \in Linux!KernelRoutes
    BY DEF Routes, Linux!KernelRoutes, Linux!RouteKinds
  <2>q. QED  BY <2>1 DEF Kernels, Linux!routeReplace
<1>q. QED  BY <1>1, <1>2, <1>3, <1>4, <1>5, <1>6

\* What a loop has to handle.
LEMMA WorkType ==
    ASSUME NEW st \in Kernels, NEW cfg \in Askeds
    PROVE  /\ Linux!Work("rules in", st, cfg) \subseteq Linux!Rules
           /\ Linux!Work("addrs in", st, cfg) \subseteq Addrs
           /\ Linux!Work("main in", st, cfg) \subseteq Routes
           /\ Linux!Work("table in", st, cfg) \subseteq Routes
<1>1. Linux!desiredLinuxRoutes(cfg.routes).main \subseteq Routes
      /\ Linux!desiredLinuxRoutes(cfg.routes).table \subseteq Routes
  BY DEF Askeds, Linux!desiredLinuxRoutes
<1>2. Linux!desiredLinuxRules(cfg.routes) \subseteq Linux!Rules
  BY DEF Linux!desiredLinuxRules, Linux!Rules, Linux!Families
<1>q. QED  BY <1>1, <1>2 DEF Linux!Work, Linux!WrongRoutes, Askeds

LEMMA ConfigureRequests ==
    ASSUME NEW st \in Kernels, NEW cfg \in Askeds, NEW k \in Kernels, NEW loop \in LinuxLoops \ {"verify"},
           NEW x \in Linux!Work(loop, st, cfg), NEW k2 \in Linux!Request(k, loop, x)
    PROVE  k2 \in Kernels
<1>1. CASE loop = "rules out"
  BY <1>1, RequestType DEF Linux!Request
<1>2. CASE loop = "addrs in"
  BY <1>2, RequestType, WorkType DEF Linux!Request
<1>3. CASE loop = "main out" \/ loop = "table out"
  BY <1>3, RequestType DEF Linux!Request
<1>4. CASE loop = "main in"
  BY <1>4, RequestType, WorkType DEF Linux!Request
<1>5. CASE loop = "table in"
  BY <1>5, RequestType, WorkType DEF Linux!Request
<1>6. CASE loop = "rules in"
  BY <1>6, RequestType, WorkType DEF Linux!Request
<1>7. CASE loop = "addrs out"
  BY <1>7, RequestType DEF Linux!Request
<1>q. QED  BY <1>1, <1>2, <1>3, <1>4, <1>5, <1>6, <1>7 DEF LinuxLoops
----------------------------------------------------------------------------
(* Linux: what verification shows.                                         *)

OurRoute(r) == [dst |-> r.dst, src |-> r.src, kind |-> "ours"]

LEMMA VerifiedFacts ==
    ASSUME NEW k \in Kernels, NEW cfg \in Askeds,
           Linux!verifyLinuxState(cfg, Linux!readInstalledState(k, cfg.routes))
    PROVE  /\ k.addrs = cfg.addrs
           /\ k.rules = Linux!desiredLinuxRules(cfg.routes)
           /\ \A r \in cfg.routes : ~r.opt /\ ~r.exit => {q \in k.main : q.dst = r.dst} = {OurRoute(r)}
           /\ \A q \in k.main : q.dst \notin Destinations(cfg.routes) => Linux!AddressRoute(k, q, cfg.routes)
           /\ Linux!hasExitRoutes(cfg.routes) =>
                 \A r \in cfg.routes : ~r.opt => {q \in k.table : q.dst = r.dst} = {OurRoute(r)}
           /\ \A q \in k.table : q.dst \notin Destinations(cfg.routes) => Linux!AddressRoute(k, q, cfg.routes)
<1> DEFINE st == Linux!readInstalledState(k, cfg.routes)
           want == Linux!desiredLinuxRoutes(cfg.routes)
<1>1. /\ st.addrs = k.addrs /\ st.rules = k.rules
      /\ st.main = {r \in k.main : ~Linux!AddressRoute(k, r, cfg.routes)}
      /\ st.table = {r \in k.table : ~Linux!AddressRoute(k, r, cfg.routes)}
  BY ReadType
<1>2. /\ st.addrs = cfg.addrs /\ st.rules = Linux!desiredLinuxRules(cfg.routes)
      /\ Linux!StaleRoutes(st.main, want.main) = {} /\ Linux!WrongRoutes(st.main, Linux!Required(want.main)) = {}
      /\ Linux!StaleRoutes(st.table, want.table) = {} /\ Linux!WrongRoutes(st.table, Linux!Required(want.table)) = {}
  BY DEF Linux!verifyLinuxState, Linux!verifyLinuxTable
<1>3. /\ want.main = {r \in cfg.routes : ~r.exit}
      /\ want.table = IF Linux!hasExitRoutes(cfg.routes) THEN cfg.routes ELSE {}
  BY DEF Linux!desiredLinuxRoutes
<1> HIDE DEF st, want
<1>4. \A q : q.dst \in Destinations(cfg.routes) => ~Linux!AddressRoute(k, q, cfg.routes)
  BY DEF Linux!AddressRoute, Destinations, Linux!Destinations
<1>5. \A r \in cfg.routes : r.dst \in Destinations(cfg.routes)
  BY DEF Destinations
<1>6. ASSUME NEW r \in cfg.routes, ~r.opt, ~r.exit
      PROVE  {q \in k.main : q.dst = r.dst} = {OurRoute(r)}
  <2>1. r \in Linux!Required(want.main)
    BY <1>3, <1>6 DEF Linux!Required
  <2>2. {q \in st.main : q.dst = r.dst} = {OurRoute(r)}
    BY <1>2, <2>1 DEF Linux!WrongRoutes, OurRoute
  <2>3. {q \in st.main : q.dst = r.dst} = {q \in k.main : q.dst = r.dst}
    BY <1>1, <1>4, <1>5
  <2>q. QED  BY <2>2, <2>3
<1>7. ASSUME NEW q \in k.main, q.dst \notin Destinations(cfg.routes)
      PROVE  Linux!AddressRoute(k, q, cfg.routes)
  <2>1. q.dst \notin Linux!Destinations(want.main)
    BY <1>3, <1>7 DEF Destinations, Linux!Destinations
  <2>q. QED  BY <1>1, <1>2, <2>1 DEF Linux!StaleRoutes
<1>8. ASSUME Linux!hasExitRoutes(cfg.routes), NEW r \in cfg.routes, ~r.opt
      PROVE  {q \in k.table : q.dst = r.dst} = {OurRoute(r)}
  <2>1. r \in Linux!Required(want.table)
    BY <1>3, <1>8 DEF Linux!Required
  <2>2. {q \in st.table : q.dst = r.dst} = {OurRoute(r)}
    BY <1>2, <2>1 DEF Linux!WrongRoutes, OurRoute
  <2>3. {q \in st.table : q.dst = r.dst} = {q \in k.table : q.dst = r.dst}
    BY <1>1, <1>4, <1>5
  <2>q. QED  BY <2>2, <2>3
<1>9. ASSUME NEW q \in k.table, q.dst \notin Destinations(cfg.routes)
      PROVE  Linux!AddressRoute(k, q, cfg.routes)
  <2>1. q.dst \notin Linux!Destinations(want.table)
    BY <1>3, <1>9 DEF Destinations, Linux!Destinations
  <2>q. QED  BY <1>1, <1>2, <2>1 DEF Linux!StaleRoutes
<1>q. QED  BY <1>1, <1>2, <1>6, <1>7, <1>8, <1>9

LEMMA VerifiedCarries ==
    ASSUME kernel \in Kernels, asked \in Askeds,
           Linux!verifyLinuxState(asked, Linux!readInstalledState(kernel, asked.routes))
    PROVE  Linux!Carries
<1> DEFINE exits == Linux!hasExitRoutes(asked.routes)
           ToMain(d) == {r \in kernel.main : r.dst = d}
           ToTable(d) == {r \in kernel.table : r.dst = d}
<1>1. \A d : \/ Linux!Lookup(kernel, d) = ToTable(d)
             \/ Linux!Lookup(kernel, d) = ToMain(d)
  BY DEF Linux!Lookup
<1>2. ~exits => \A d : Linux!Lookup(kernel, d) = ToMain(d)
  <2> SUFFICES ASSUME ~exits PROVE \A d : Linux!Lookup(kernel, d) = ToMain(d)
    OBVIOUS
  <2>1. kernel.rules = {}
    BY VerifiedFacts DEF Linux!desiredLinuxRules
  <2>q. QED  BY <2>1 DEF Linux!Lookup
<1>3. exits => \A d \in Dsts : ToTable(d) # {} => Linux!Lookup(kernel, d) = ToTable(d)
  <2> SUFFICES ASSUME exits, NEW d \in Dsts, ToTable(d) # {} PROVE Linux!Lookup(kernel, d) = ToTable(d)
    OBVIOUS
  <2>1. kernel.rules = {[fam |-> f, kind |-> "exit"] : f \in Families}
    BY VerifiedFacts DEF Linux!desiredLinuxRules, Families, Linux!Families
  <2>2. FamilyOf[d] \in Families
    BY HostConfigAssumption
  <2>3. [fam |-> FamilyOf[d], kind |-> "exit"] \in kernel.rules
    BY <2>1, <2>2
  <2>q. QED  BY <2>3 DEF Linux!Lookup
<1>4. ASSUME NEW r \in asked.routes, ~r.opt PROVE Linux!Lookup(kernel, r.dst) = {OurRoute(r)}
  <2>1. r.dst \in Dsts
    BY DEF Askeds, Routes
  <2>2. CASE exits
    <3>1. ToTable(r.dst) = {OurRoute(r)}
      BY <1>4, <2>2, VerifiedFacts
    <3>q. QED  BY <1>3, <2>1, <2>2, <3>1
  <2>3. CASE ~exits
    <3>1. ~r.exit
      BY <2>3 DEF Linux!hasExitRoutes
    <3>2. ToMain(r.dst) = {OurRoute(r)}
      BY <1>4, <3>1, VerifiedFacts
    <3>q. QED  BY <1>2, <2>3, <3>2
  <2>q. QED  BY <2>2, <2>3
<1>5. ASSUME NEW d \in Dsts, d \notin Linux!Destinations(asked.routes), NEW q \in Linux!Lookup(kernel, d)
      PROVE  Linux!AddressRoute(kernel, q, asked.routes)
  <2>1. q.dst = d /\ (q \in kernel.main \/ q \in kernel.table)
    BY <1>1
  <2>2. q.dst \notin Destinations(asked.routes)
    BY <1>5, <2>1 DEF Destinations, Linux!Destinations
  <2>q. QED  BY <2>1, <2>2, VerifiedFacts
<1>q. QED
  BY <1>4, <1>5, VerifiedFacts DEF Linux!Carries, Linux!Required, OurRoute

\* A verified configuration is remembered with an exit route, if it has one.
LEMMA VerifiedRemembers ==
    ASSUME kernel \in Kernels, asked \in Askeds, \A r \in asked.routes : ~(r.exit /\ r.opt),
           NEW st, st = Linux!readInstalledState(kernel, asked.routes),
           Linux!verifyLinuxState(asked, st)
    PROVE  kernel.rules \subseteq Linux!desiredLinuxRules(Linux!logicalLinuxRoutes(st, asked.routes))
<1>1. kernel.rules = Linux!desiredLinuxRules(asked.routes)
  BY VerifiedFacts
<1>2. CASE Linux!hasExitRoutes(asked.routes)
  <2>1. PICK r \in asked.routes : r.exit
    BY <1>2 DEF Linux!hasExitRoutes
  <2>2. {q \in kernel.table : q.dst = r.dst} = {OurRoute(r)}
    BY <1>2, <2>1, VerifiedFacts
  <2>3. PICK q \in kernel.table : q.dst = r.dst
    BY <2>2
  <2>4. ~Linux!AddressRoute(kernel, q, asked.routes)
    BY <2>3 DEF Linux!AddressRoute, Linux!Destinations
  <2>5. q \in st.table
    BY <2>3, <2>4, ReadType
  <2>6. r \in Linux!logicalLinuxRoutes(st, asked.routes)
    BY <2>1, <2>3, <2>5 DEF Linux!logicalLinuxRoutes, Linux!Destinations
  <2>q. QED  BY <1>1, <1>2, <2>1, <2>6 DEF Linux!desiredLinuxRules, Linux!hasExitRoutes
<1>3. CASE ~Linux!hasExitRoutes(asked.routes)
  BY <1>1, <1>3 DEF Linux!desiredLinuxRules
<1>q. QED  BY <1>2, <1>3
----------------------------------------------------------------------------
(* Linux: every step keeps the invariant and is seen as the interface has  *)
(* it.                                                                     *)

LEMMA PhaseOf ==
    /\ pc = "idle" => Phase = "idle"
    /\ pc = "closed" => Phase = "closed"
    /\ pc \in LinuxLoops => Phase = "configuring"
    /\ pc \in LinuxClosing => Phase = "closing"
  BY DEF Phase, LinuxLoops, LinuxClosing

LEMMA PhaseOfNext ==
    /\ pc' = "idle" => Phase' = "idle"
    /\ pc' = "closed" => Phase' = "closed"
    /\ pc' \in LinuxLoops => Phase' = "configuring"
    /\ pc' \in LinuxClosing => Phase' = "closing"
    /\ pc' = pc => Phase' = Phase
  BY DEF Phase, LinuxLoops, LinuxClosing

LEMMA LinuxStages ==
    /\ "idle" \notin LinuxLoops \cup LinuxClosing /\ "closed" \notin LinuxLoops \cup LinuxClosing
    /\ LinuxLoops \cap LinuxClosing = {}
  BY DEF LinuxLoops, LinuxClosing

LEMMA LoopsNext ==
    ASSUME NEW i \in 1 .. 9, NEW st, NEW cfg, Linux!GoOn(i, st, cfg)
    PROVE  pc' \in LinuxLoops /\ todo' = Linux!Work(pc', st, cfg)
<1>1. PICK j \in i .. 9 : pc' = Linux!Loops[j] /\ todo' = Linux!Work(Linux!Loops[j], st, cfg)
  BY LinuxGoOn
<1>2. j \in 1 .. 9
  OBVIOUS
<1>3. j = 1 \/ j = 2 \/ j = 3 \/ j = 4 \/ j = 5 \/ j = 6 \/ j = 7 \/ j = 8 \/ j = 9
  BY <1>2, ToNine
<1>q. QED  BY <1>1, <1>3, LinuxTuple DEF LinuxLoops

LEMMA LinuxRefuses ==
    ASSUME LinuxInv, NEW cfg \in Configs, Linux!Refuse(cfg)
    PROVE  LinuxInv' /\ Seen
<1>1. UNCHANGED <<kernel, pc, todo, snap, asked, known, clean, trusted>>
      /\ pc \in {"idle", "closed"} /\ answer' \in {"rejected", "closed"} /\ (answer' = "closed" => pc = "closed")
  BY DEF Linux!Refuse
<1>2. LinuxInv'
  BY <1>1 DEF LinuxInv, LinuxTypeOK, LinuxRules
<1>3. Seen
  BY <1>1, PhaseOf, PhaseOfNext DEF Seen
<1>q. QED  BY <1>2, <1>3

LEMMA LinuxConfigures ==
    ASSUME LinuxInv, NEW cfg \in Configs, Linux!Configure(cfg)
    PROVE  LinuxInv' /\ Seen
<1>1. CASE UNCHANGED <<kernel, pc, todo, snap, asked, known, trusted>> /\ pc = "idle" /\ answer' = "error"
           /\ clean' = FALSE
  <2>1. LinuxInv'
    BY <1>1, LinuxStages DEF LinuxInv, LinuxTypeOK, LinuxRules
  <2>2. Seen
    BY <1>1, PhaseOf, PhaseOfNext DEF Seen
  <2>q. QED  BY <2>1, <2>2
<1>2. CASE /\ pc = "idle" /\ UNCHANGED kernel
           /\ asked' = Linux!Normalized(cfg)
           /\ snap' = Linux!readInstalledState(kernel, asked'.routes)
           /\ known' = [addrs |-> snap'.addrs, routes |-> Linux!logicalLinuxRoutes(snap', asked'.routes)]
           /\ Linux!GoOn(1, snap', asked')
           /\ clean' = TRUE /\ trusted' = FALSE /\ answer' = "none"
  <2>1. asked' \in Askeds /\ asked' \in Askable /\ \A r \in asked'.routes : ~(r.exit /\ r.opt)
    BY <1>2, NormalizedType
  <2>2. kernel \in Kernels
    BY DEF LinuxInv, LinuxTypeOK
  <2>3. snap' \in Kernels
    BY <1>2, <2>2, ReadType
  <2>4. known' \in Askeds
    BY <1>2, <2>1, <2>3 DEF Linux!logicalLinuxRoutes, Askeds, Kernels
  <2>5. pc' \in LinuxLoops /\ todo' = Linux!Work(pc', snap', asked')
    <3>1. 1 \in 1 .. 9
      OBVIOUS
    <3>q. QED  BY <1>2, <3>1, LoopsNext
  <2>6. LinuxTypeOK'
    BY <1>2, <2>1, <2>2, <2>3, <2>4, <2>5, LinuxStages DEF LinuxTypeOK
  <2>7. LinuxRules'
    BY <1>2, <2>1, <2>5, LinuxStages DEF LinuxRules
  <2>8. Seen
    BY <1>2, <2>1, <2>5, PhaseOf, PhaseOfNext DEF Seen
  <2>q. QED  BY <2>6, <2>7, <2>8 DEF LinuxInv
<1>q. QED  BY <1>1, <1>2 DEF Linux!Configure

LEMMA LinuxConfigureSteps ==
    ASSUME LinuxInv, Linux!ConfigureStep
    PROVE  LinuxInv' /\ Seen
<1>1. pc \in LinuxLoops \ {"verify"} /\ Linux!LoopOf(pc) \in 1 .. 8
  BY LinuxLoopOf DEF Linux!ConfigureStep
<1>2. PICK x \in todo, outcome \in Linux!Outcomes :
          /\ Linux!Ends(outcome)
          /\ IF outcome = "failed" /\ ~Linux!Tolerated(x)
                THEN /\ kernel' \in Linux!Undone
                     /\ Linux!GiveUp
                ELSE /\ IF outcome = "done" THEN kernel' \in Linux!Request(kernel, pc, x)
                                            ELSE UNCHANGED kernel
                     /\ IF todo = {x} THEN Linux!GoOn(Linux!LoopOf(pc) + 1, snap, asked)
                                      ELSE pc' = pc /\ todo' = todo \ {x}
                     /\ UNCHANGED answer
  BY DEF Linux!ConfigureStep
<1>3. UNCHANGED <<snap, asked, known, trusted>> /\ clean' \in BOOLEAN
  BY <1>2 DEF Linux!ConfigureStep, Linux!Ends
<1>4. /\ kernel \in Kernels /\ snap \in Kernels /\ asked \in Askeds /\ known \in Askeds /\ ~trusted
      /\ todo \subseteq Linux!Work(pc, snap, asked)
      /\ \A r \in asked.routes : ~(r.exit /\ r.opt)
  BY <1>1 DEF LinuxInv, LinuxTypeOK, LinuxRules
<1>5. CASE kernel' \in Linux!Undone /\ Linux!GiveUp
  <2>1. kernel' \in Kernels
    <3>1. \/ kernel' = kernel
          \/ \E gone \in SUBSET (Linux!Work("rules in", snap, asked) \ todo) :
                kernel' = [kernel EXCEPT !.rules = @ \ gone]
      BY <1>5 DEF Linux!Undone
    <3>2. ASSUME NEW gone, kernel' = [kernel EXCEPT !.rules = @ \ gone] PROVE kernel' \in Kernels
      BY <1>4, <3>2 DEF Kernels
    <3>q. QED  BY <1>4, <3>1, <3>2
  <2>2. pc' = "idle" /\ answer' = "error"
    BY <1>5 DEF Linux!GiveUp
  <2>3. LinuxInv'
    BY <1>3, <1>4, <2>1, <2>2, LinuxStages DEF LinuxInv, LinuxTypeOK, LinuxRules
  <2>4. Seen
    BY <1>1, <1>3, <2>2, PhaseOf, PhaseOfNext DEF Seen
  <2>q. QED  BY <2>3, <2>4
<1>6. CASE /\ IF outcome = "done" THEN kernel' \in Linux!Request(kernel, pc, x) ELSE UNCHANGED kernel
           /\ IF todo = {x} THEN Linux!GoOn(Linux!LoopOf(pc) + 1, snap, asked)
                            ELSE pc' = pc /\ todo' = todo \ {x}
           /\ UNCHANGED answer
  <2>1. kernel' \in Kernels
    BY <1>1, <1>4, <1>6, ConfigureRequests
  <2>2. pc' \in LinuxLoops /\ todo' \subseteq Linux!Work(pc', snap, asked)
    <3>1. CASE todo = {x}
      <4>1. Linux!LoopOf(pc) + 1 \in 1 .. 9
        BY <1>1
      <4>q. QED  BY <1>6, <3>1, <4>1, LoopsNext
    <3>2. CASE todo # {x}
      BY <1>1, <1>4, <1>6, <3>2
    <3>q. QED  BY <3>1, <3>2
  <2>3. LinuxInv'
    BY <1>3, <1>4, <2>1, <2>2, LinuxStages DEF LinuxInv, LinuxTypeOK, LinuxRules
  <2>4. Seen
    BY <1>1, <1>3, <1>6, <2>2, PhaseOf, PhaseOfNext DEF Seen
  <2>q. QED  BY <2>3, <2>4
<1>q. QED  BY <1>2, <1>5, <1>6

LEMMA LinuxVerifies ==
    ASSUME LinuxInv, os = "linux", Linux!Verify
    PROVE  LinuxInv' /\ Seen
<1>1. /\ pc = "verify" /\ pc' = "idle" /\ UNCHANGED <<kernel, asked>>
      /\ kernel \in Kernels /\ asked \in Askeds /\ snap \in Kernels /\ known \in Askeds /\ ~trusted
      /\ \A r \in asked.routes : ~(r.exit /\ r.opt)
      /\ pc \in LinuxLoops /\ clean \in BOOLEAN
  BY DEF Linux!Verify, LinuxInv, LinuxTypeOK, LinuxRules, LinuxLoops
<1>2. CASE clean' = FALSE /\ answer' = "error" /\ UNCHANGED <<snap, known, trusted>>
  <2>1. LinuxInv'
    BY <1>1, <1>2, LinuxStages DEF LinuxInv, LinuxTypeOK, LinuxRules
  <2>2. Seen
    BY <1>1, <1>2, PhaseOf, PhaseOfNext DEF Seen
  <2>q. QED  BY <2>1, <2>2
<1>3. CASE /\ snap' = Linux!readInstalledState(kernel, asked.routes)
           /\ known' = [addrs |-> snap'.addrs, routes |-> Linux!logicalLinuxRoutes(snap', asked.routes)]
           /\ answer' = IF Linux!verifyLinuxState(asked, snap') THEN "ok" ELSE "error"
           /\ trusted' = (answer' = "ok")
           /\ UNCHANGED clean
  <2>1. snap' \in Kernels
    BY <1>1, <1>3, ReadType
  <2>2. known' \in Askeds
    BY <1>1, <1>3, <2>1 DEF Linux!logicalLinuxRoutes, Askeds, Kernels
  <2>3. trusted' => kernel.rules \subseteq Linux!desiredLinuxRules(known'.routes)
    BY <1>1, <1>3, VerifiedRemembers
  <2>4. trusted' \in BOOLEAN
    BY <1>3
  <2>5. LinuxTypeOK'
    BY <1>1, <1>3, <2>1, <2>2, <2>4, LinuxStages DEF LinuxTypeOK
  <2>6. LinuxRules'
    BY <1>1, <2>3, LinuxStages DEF LinuxRules
  <2>7. answer' = "ok" => HostCarries
    BY <1>1, <1>3, VerifiedCarries DEF HostCarries
  <2>8. Seen
    BY <1>1, <1>3, <2>7, PhaseOf, PhaseOfNext DEF Seen
  <2>q. QED  BY <2>5, <2>6, <2>8 DEF LinuxInv
<1>q. QED  BY <1>2, <1>3 DEF Linux!Verify

LEMMA RememberedType ==
    ASSUME known \in Askeds
    PROVE  Linux!Remembered \in Kernels /\ Linux!Remembered.rules = Linux!desiredLinuxRules(known.routes)
<1>1. /\ Linux!desiredLinuxRoutes(known.routes).main \subseteq Routes
      /\ Linux!desiredLinuxRoutes(known.routes).table \subseteq Routes
  BY DEF Askeds, Linux!desiredLinuxRoutes
<1>2. Linux!desiredLinuxRules(known.routes) \subseteq Linux!Rules
  BY DEF Linux!desiredLinuxRules, Linux!Rules, Linux!Families
<1>3. \A r \in Routes : [dst |-> r.dst, src |-> r.src, kind |-> "ours"] \in Linux!KernelRoutes
  BY DEF Routes, Linux!KernelRoutes, Linux!RouteKinds
<1>q. QED  BY <1>1, <1>2, <1>3 DEF Linux!Remembered, Kernels, Askeds

LEMMA LinuxCloses ==
    ASSUME LinuxInv, Linux!Close
    PROVE  LinuxInv' /\ Seen
<1>1. /\ pc = "idle" /\ UNCHANGED <<kernel, asked, known, answer, trusted>> /\ Linux!CloseOn(1, snap')
      /\ kernel \in Kernels /\ asked \in Askeds /\ known \in Askeds /\ trusted \in BOOLEAN
      /\ \A r \in asked.routes : ~(r.exit /\ r.opt)
  BY DEF Linux!Close, LinuxInv, LinuxTypeOK, LinuxRules
<1>2. snap' \in Kernels /\ clean' \in BOOLEAN /\ (clean' => kernel.rules \subseteq snap'.rules)
  <2>1. CASE snap' = Linux!readInstalledState(kernel, known.routes) /\ clean' = TRUE
    BY <1>1, <2>1, ReadType
  <2>2. CASE snap' = Linux!Remembered /\ clean' = trusted
    BY <1>1, <2>2, RememberedType DEF LinuxInv, LinuxRules
  <2>q. QED  BY <2>1, <2>2 DEF Linux!Close
<1>3. /\ pc' \in LinuxClosing /\ todo' = Linux!CloseWork(pc', snap')
      /\ pc' # "close rules" => snap'.rules = {}
  BY <1>1, LinuxCloseStarts
<1>4. pc' = "close rules" => todo' = snap'.rules
  BY <1>3 DEF Linux!CloseWork
<1>5. LinuxTypeOK'
  BY <1>1, <1>2, <1>3, LinuxStages DEF LinuxTypeOK
<1>6. LinuxRules'
  BY <1>1, <1>2, <1>3, <1>4, LinuxStages DEF LinuxRules
<1>7. Seen
  BY <1>1, <1>3, PhaseOf, PhaseOfNext DEF Seen
<1>q. QED  BY <1>5, <1>6, <1>7 DEF LinuxInv

LEMMA LinuxCloseSteps ==
    ASSUME LinuxInv, Linux!CloseStep
    PROVE  LinuxInv' /\ Seen
<1>1. pc \in LinuxClosing
  <2>1. PICK i \in 1 .. 5 : pc = Linux!CloseLoops[i]
    BY LinuxCloseTuple DEF Linux!CloseStep
  <2>2. i = 1 \/ i = 2 \/ i = 3 \/ i = 4 \/ i = 5
    OBVIOUS
  <2>q. QED  BY <2>1, <2>2, LinuxCloseTuple DEF LinuxClosing
<1>2. PICK x \in todo, outcome \in Linux!Outcomes :
          /\ Linux!Ends(outcome)
          /\ IF outcome # "done" THEN UNCHANGED kernel
             ELSE kernel' \in CASE pc = "close rules" -> Linux!ruleDel(kernel, x)
                                [] pc = "close table" -> Linux!routeDel(kernel, "table", x.dst)
                                [] pc = "close routes" -> Linux!routeDel(kernel, "main", x.dst)
                                [] pc = "close addrs" -> Linux!addrDel(kernel, x)
                                [] OTHER -> {[Linux!Nothing EXCEPT !.rules = kernel.rules]}
          /\ IF pc = "close device"
                THEN pc' = "closed" /\ todo' = {} /\ known' = [addrs |-> {}, routes |-> {}]
                ELSE /\ IF todo = {x}
                           THEN Linux!CloseOn((CHOOSE i \in 1 .. Len(Linux!CloseLoops) :
                                                   Linux!CloseLoops[i] = pc) + 1, snap)
                           ELSE pc' = pc /\ todo' = todo \ {x}
                     /\ UNCHANGED known
  BY DEF Linux!CloseStep
<1>3. /\ UNCHANGED <<snap, asked, answer, trusted>>
      /\ clean \in BOOLEAN /\ clean' = (clean /\ outcome = "done") /\ trusted \in BOOLEAN
      /\ kernel \in Kernels /\ snap \in Kernels /\ asked \in Askeds /\ known \in Askeds
      /\ \A r \in asked.routes : ~(r.exit /\ r.opt)
      /\ todo \subseteq Linux!CloseWork(pc, snap)
      /\ clean => kernel.rules \subseteq (IF pc = "close rules" THEN todo ELSE {})
  BY <1>1, <1>2 DEF Linux!CloseStep, Linux!Ends, LinuxInv, LinuxTypeOK, LinuxRules
<1>4. kernel' \in Kernels
      /\ (clean' => kernel'.rules \subseteq (IF pc = "close rules" THEN todo \ {x} ELSE {}))
  <2>1. CASE outcome # "done"
    BY <1>2, <1>3, <2>1
  <2>2. CASE outcome = "done" /\ pc = "close rules"
    <3>1. kernel' \in Linux!ruleDel(kernel, x)
      BY <1>2, <2>2
    <3>2. kernel' \in Kernels /\ kernel'.rules = kernel.rules \ {x}
      BY <1>3, <3>1, RequestType
    <3>q. QED  BY <1>3, <2>2, <3>2
  <2>3. CASE outcome = "done" /\ pc = "close device"
    BY <1>2, <1>3, <2>3 DEF Linux!Nothing, Kernels
  <2>4. CASE outcome = "done" /\ pc \in {"close table", "close routes", "close addrs"}
    <3>1. kernel' \in Kernels /\ kernel'.rules = kernel.rules
      BY <1>2, <1>3, <2>4, RequestType
    <3>q. QED  BY <1>3, <2>4, <3>1
  <2>q. QED  BY <1>1, <2>1, <2>2, <2>3, <2>4 DEF LinuxClosing
<1>5. CASE pc = "close device"
  <2>1. pc' = "closed" /\ known' = [addrs |-> {}, routes |-> {}]
    BY <1>2, <1>5
  <2>2. known' \in Askeds
    BY <2>1 DEF Askeds
  <2>3. LinuxInv'
    BY <1>3, <1>4, <1>5, <2>1, <2>2, LinuxStages DEF LinuxInv, LinuxTypeOK, LinuxRules
  <2>4. Seen
    BY <1>1, <1>3, <2>1, PhaseOf, PhaseOfNext DEF Seen
  <2>q. QED  BY <2>3, <2>4
<1>6. CASE pc # "close device"
  <2>1. UNCHANGED known
    BY <1>2, <1>6
  <2>2. /\ pc' \in LinuxClosing /\ todo' \subseteq Linux!CloseWork(pc', snap)
        /\ clean' => kernel'.rules \subseteq (IF pc' = "close rules" THEN todo' ELSE {})
    <3>1. CASE todo = {x}
      <4>1. pc' \in LinuxClosing \ {"close rules"} /\ todo' = Linux!CloseWork(pc', snap)
        BY <1>2, <1>6, <3>1, LinuxCloseContinues DEF Linux!CloseStep
      <4>q. QED  BY <1>4, <3>1, <4>1
    <3>2. CASE todo # {x}
      BY <1>1, <1>2, <1>3, <1>4, <1>6, <3>2
    <3>q. QED  BY <3>1, <3>2
  <2>3. LinuxInv'
    BY <1>3, <1>4, <2>1, <2>2, LinuxStages DEF LinuxInv, LinuxTypeOK, LinuxRules
  <2>4. Seen
    BY <1>1, <1>3, <2>2, PhaseOf, PhaseOfNext DEF Seen
  <2>q. QED  BY <2>3, <2>4
<1>q. QED  BY <1>5, <1>6

LEMMA SixParts ==
    ASSUME NEW K, NEW A, NEW B, NEW C, NEW D, NEW E, NEW F, A \subseteq K, B \subseteq K, C \subseteq K,
           D \subseteq K, E \subseteq K, F \subseteq K
    PROVE  A \cup B \cup C \cup D \cup E \cup F \subseteq K
  OBVIOUS

LEMMA MeddledType ==
    ASSUME NEW k \in Kernels, NEW k2 \in Linux!Meddled(k)
    PROVE  k2 \in Kernels
<1> DEFINE A == {[k EXCEPT !.rules = @ \cup {r}] : r \in Linux!Rules}
           B == {[k EXCEPT !.rules = @ \ {r}] : r \in Linux!Rules}
           C == {[k EXCEPT !.addrs = @ \cup {a}] : a \in Addrs}
           D == {Linux!addrDel(k, a) : a \in k.addrs}
           Out(tab) == {[k EXCEPT ![tab] = @ \ {r}] : r \in k[tab]}
           E == {Out(tab) : tab \in {"main", "table"}}
           New(tab) == {q \in Linux!KernelRoutes :
                        /\ q.dst = Masked[q.dst]
                        /\ q.kind = "kernel" => tab = "main" /\ q.src \in k.addrs /\ q.dst = PrefixOf[q.src]
                        /\ q.kind \in {"ours", "gateway"} =>
                              \A p \in k[tab] : p.dst = q.dst => p.kind \notin {"ours", "gateway"}}
           In(tab) == {[k EXCEPT ![tab] = @ \cup {r}] : r \in New(tab)}
           F == {In(tab) : tab \in {"main", "table"}}
<1>1. k2 \in A \cup B \cup C \cup (UNION D) \cup (UNION E) \cup (UNION F)
  BY DEF Linux!Meddled
<1>2. A \subseteq Kernels /\ B \subseteq Kernels /\ C \subseteq Kernels
  BY DEF Kernels
<1>3. UNION D \subseteq Kernels
  BY AddrDelFacts
<1>4. \A tab \in {"main", "table"} : Out(tab) \subseteq Kernels
  BY DEF Kernels
<1>5. \A tab \in {"main", "table"} : New(tab) \subseteq Linux!KernelRoutes
  OBVIOUS
<1> HIDE DEF New
<1>6. \A tab \in {"main", "table"} : In(tab) \subseteq Kernels
  BY <1>5 DEF Kernels
<1> HIDE DEF A, B, C, D, Out, In
<1>7. UNION E \subseteq Kernels /\ UNION F \subseteq Kernels
  BY <1>4, <1>6
<1> HIDE DEF E, F
<1>8. A \cup B \cup C \cup (UNION D) \cup (UNION E) \cup (UNION F) \subseteq Kernels
  BY <1>2, <1>3, <1>7, SixParts
<1>q. QED  BY <1>1, <1>8

LEMMA LinuxOthers ==
    ASSUME LinuxInv, Linux!Meddle \/ Linux!Crash
    PROVE  LinuxInv' /\ Seen
<1>0. kernel \in Kernels /\ asked \in Askeds
  BY DEF LinuxInv, LinuxTypeOK
<1>1. CASE Linux!Meddle
  <2>1. kernel' \in Kernels
    <3>1. kernel' \in Linux!Meddled(kernel)
      BY <1>1 DEF Linux!Meddle
    <3>q. QED  BY <1>0, <3>1, MeddledType
  <2>2. pc # "closed" /\ clean' = FALSE /\ trusted' = FALSE /\ UNCHANGED <<pc, todo, snap, asked, known, answer>>
    BY <1>1 DEF Linux!Meddle
  <2>3. LinuxInv'
    BY <2>1, <2>2 DEF LinuxInv, LinuxTypeOK, LinuxRules
  <2>4. Seen
    BY <2>2, PhaseOfNext DEF Seen
  <2>q. QED  BY <2>3, <2>4
<1>2. CASE Linux!Crash
  <2>1. /\ kernel' = [Linux!Nothing EXCEPT !.rules = kernel.rules] /\ snap' = Linux!Nothing
        /\ pc' = "idle" /\ known' = [addrs |-> {}, routes |-> {}] /\ answer' = "none"
        /\ clean' = FALSE /\ trusted' = FALSE /\ UNCHANGED asked
    BY <1>2 DEF Linux!Crash
  <2>2. kernel' \in Kernels /\ snap' \in Kernels /\ known' \in Askeds
    BY <1>0, <2>1 DEF Kernels, Askeds, Linux!Nothing
  <2>3. LinuxInv'
    BY <1>0, <2>1, <2>2, LinuxStages DEF LinuxInv, LinuxTypeOK, LinuxRules
  <2>4. Seen
    BY <2>1, PhaseOfNext DEF Seen
  <2>q. QED  BY <2>3, <2>4
<1>q. QED  BY <1>1, <1>2

LEMMA LinuxStutters ==
    ASSUME LinuxInv, UNCHANGED vars
    PROVE  LinuxInv'
<1>1. UNCHANGED <<kernel, pc, todo, snap, asked, known, clean, trusted>>
  BY DEF vars
<1>q. QED  BY <1>1 DEF LinuxInv, LinuxTypeOK, LinuxRules

LEMMA LinuxStarts ==
    ASSUME Linux!Init
    PROVE  LinuxInv
<1>1. kernel \in Kernels /\ snap \in Kernels /\ asked \in Askeds /\ known \in Askeds
  BY DEF Linux!Init, Linux!Nothing, Kernels, Askeds
<1>2. pc = "idle" /\ clean = FALSE /\ trusted = TRUE /\ asked.routes = {} /\ kernel.rules = {}
  BY DEF Linux!Init, Linux!Nothing
<1>q. QED  BY <1>1, <1>2, LinuxStages DEF LinuxInv, LinuxTypeOK, LinuxRules

LEMMA LinuxSteps ==
    ASSUME LinuxInv, os = "linux", Linux!Next
    PROVE  LinuxInv' /\ Seen
  BY LinuxConfigures, LinuxRefuses, LinuxConfigureSteps, LinuxVerifies, LinuxCloses, LinuxCloseSteps,
     LinuxOthers DEF Linux!Next
----------------------------------------------------------------------------
(* macOS: loops.                                                           *)

DarwinLoops == {"routes out", "scoped out", "addrs out", "addrs in", "scoped in", "routes in", "verify"}
DarwinClosing == {"close routes", "close scoped", "close addrs", "close device"}

LEMMA DarwinTuple ==
    /\ DOMAIN Darwin!Loops = 1 .. 7 /\ Len(Darwin!Loops) = 7
    /\ Darwin!Loops[1] = "routes out" /\ Darwin!Loops[2] = "scoped out" /\ Darwin!Loops[3] = "addrs out"
    /\ Darwin!Loops[4] = "addrs in" /\ Darwin!Loops[5] = "scoped in" /\ Darwin!Loops[6] = "routes in"
    /\ Darwin!Loops[7] = "verify"
  BY DEF Darwin!Loops

LEMMA InSeven ==
    /\ \A j \in 1 .. 7 : j = 1 \/ j = 2 \/ j = 3 \/ j = 4 \/ j = 5 \/ j = 6 \/ j = 7
    /\ \A j \in 1 .. 6 : j \in 1 .. 7 /\ j # 7 /\ j + 1 \in 1 .. 7
    /\ \A j \in 1 .. 7 : j # 7 => j + 1 \in 1 .. 7 /\ j + 1 # 1 /\ (j + 1 < 6 <=> j # 5 /\ j # 6)
    /\ \A i \in 1 .. 7 : \A j \in i .. 7 : j \in 1 .. 7
    /\ 7 - 1 = 6
  BY SMT

LEMMA DarwinGoOn ==
    ASSUME NEW i \in 1 .. 7, NEW st, NEW cfg, NEW mem, Darwin!GoOn(i, st, cfg, mem)
    PROVE  \E j \in i .. 7 :
              /\ pc' = Darwin!Loops[j]
              /\ todo' = Darwin!Work(Darwin!Loops[j], st, cfg, mem)
              /\ \A n \in i .. (j - 1) : Darwin!Work(Darwin!Loops[n], st, cfg, mem) = {}
<1> DEFINE W(n) == Darwin!Work(Darwin!Loops[n], st, cfg, mem)
           First(j) == W(j) # {} /\ \A n \in i .. (j - 1) : W(n) = {}
           j == CHOOSE j \in i .. 7 : First(j)
<1>1. pc' = Darwin!Loops[j] /\ todo' = W(j)
  <2>1. Len(Darwin!Loops) = 7
    BY DarwinTuple
  <2>q. QED  BY <2>1 DEF Darwin!GoOn
<1>2. W(7) # {}
  BY DarwinTuple DEF Darwin!Work
<1> HIDE DEF W
<1>3. \E x \in i .. 7 : First(x)
  <2>1. {n \in i .. 7 : W(n) # {}} \in SUBSET Nat /\ {n \in i .. 7 : W(n) # {}} # {}
    BY <1>2
  <2>2. PICK x \in {n \in i .. 7 : W(n) # {}} : \A y \in {n \in i .. 7 : W(n) # {}} : x <= y
    BY <2>1, Least
  <2>q. QED  BY <2>2
<1>4. j \in i .. 7 /\ First(j)
  <2> HIDE DEF First
  <2>q. QED  BY <1>3
<1> HIDE DEF j
<1>q. QED  BY <1>1, <1>4 DEF W

LEMMA PassedOver ==
    \A i \in 1 .. 7 : \A j \in i .. 7 :
        /\ i = 1 /\ j # 1 => 1 \in i .. (j - 1)
        /\ i # 1 => j # 1
        /\ i < 6 /\ (j = 6 \/ j = 7) => 5 \in i .. (j - 1)
        /\ ~(i < 6) => j = 6 \/ j = 7
  BY SMT

\* The next loop with anything to do; what a call passes over has nothing.
LEMMA DarwinGoesOn ==
    ASSUME NEW i \in 1 .. 7, NEW st, NEW cfg, NEW mem, Darwin!GoOn(i, st, cfg, mem)
    PROVE  /\ pc' \in DarwinLoops /\ todo' = Darwin!Work(pc', st, cfg, mem)
           /\ i = 1 /\ pc' # "routes out" => Darwin!Work("routes out", st, cfg, mem) = {}
           /\ i # 1 => pc' # "routes out"
           /\ i < 6 /\ pc' \in {"routes in", "verify"} => Darwin!Work("scoped in", st, cfg, mem) = {}
           /\ ~(i < 6) => pc' \in {"routes in", "verify"}
<1>1. PICK j \in i .. 7 :
          /\ pc' = Darwin!Loops[j]
          /\ todo' = Darwin!Work(Darwin!Loops[j], st, cfg, mem)
          /\ \A n \in i .. (j - 1) : Darwin!Work(Darwin!Loops[n], st, cfg, mem) = {}
  BY DarwinGoOn
<1>2. j = 1 \/ j = 2 \/ j = 3 \/ j = 4 \/ j = 5 \/ j = 6 \/ j = 7
  BY <1>1, InSeven, Zenon
<1>3. /\ i = 1 /\ j # 1 => 1 \in i .. (j - 1)
      /\ i # 1 => j # 1
      /\ i < 6 /\ (j = 6 \/ j = 7) => 5 \in i .. (j - 1)
      /\ ~(i < 6) => j = 6 \/ j = 7
  BY <1>1, PassedOver, Zenon
<1>4. pc' \in DarwinLoops
  BY <1>1, <1>2, DarwinTuple DEF DarwinLoops
<1>5. (pc' = "routes out" <=> j = 1) /\ (pc' \in {"routes in", "verify"} <=> j = 6 \/ j = 7)
  BY <1>1, <1>2, DarwinTuple
<1>6. i = 1 /\ j # 1 => Darwin!Work("routes out", st, cfg, mem) = {}
  BY <1>1, <1>3, DarwinTuple, Zenon
<1>7. i < 6 /\ (j = 6 \/ j = 7) => Darwin!Work("scoped in", st, cfg, mem) = {}
  BY <1>1, <1>3, DarwinTuple, Zenon
<1>q. QED  BY <1>1, <1>3, <1>4, <1>5, <1>6, <1>7, Zenon

LEMMA DarwinLoopOf ==
    ASSUME NEW loop \in {Darwin!Loops[i] : i \in 1 .. Len(Darwin!Loops) - 1}
    PROVE  /\ Darwin!LoopOf(loop) + 1 \in 1 .. 7 /\ loop \in DarwinLoops \ {"verify"}
           /\ Darwin!LoopOf(loop) + 1 # 1
           /\ Darwin!LoopOf(loop) + 1 < 6 <=> loop \notin {"scoped in", "routes in"}
<1>1. PICK i \in 1 .. 6 : loop = Darwin!Loops[i]
  <2>1. Len(Darwin!Loops) - 1 = 6
    BY InSeven, DarwinTuple, Zenon
  <2>q. QED  BY <2>1
<1>2. i \in 1 .. 7 /\ i # 7
  BY InSeven, Zenon
<1>3. loop \in DarwinLoops \ {"verify"}
  <2>1. i = 1 \/ i = 2 \/ i = 3 \/ i = 4 \/ i = 5 \/ i = 6
    BY <1>2, InSeven, Zenon
  <2>q. QED  BY <1>1, <2>1, DarwinTuple DEF DarwinLoops
<1>4. Darwin!LoopOf(loop) = CHOOSE n \in 1 .. 7 : Darwin!Loops[n] = loop
  BY DarwinTuple DEF Darwin!LoopOf
<1>5. Darwin!LoopOf(loop) \in 1 .. 7 /\ Darwin!Loops[Darwin!LoopOf(loop)] = loop
  BY <1>1, <1>2, <1>4
<1> DEFINE c == Darwin!LoopOf(loop)
<1> HIDE DEF c
<1>6. c # 7 /\ c \in 1 .. 7
  BY <1>3, <1>5, DarwinTuple DEF c
<1>7. c + 1 \in 1 .. 7 /\ c + 1 # 1 /\ (c + 1 < 6 <=> c # 5 /\ c # 6)
  BY <1>6, InSeven, Zenon
<1>8. c = 1 \/ c = 2 \/ c = 3 \/ c = 4 \/ c = 5 \/ c = 6 \/ c = 7
  BY <1>6, InSeven, Zenon
<1>9. c = 5 \/ c = 6 <=> loop \in {"scoped in", "routes in"}
  BY <1>5, <1>8, DarwinTuple DEF c
<1>q. QED  BY <1>3, <1>7, <1>9 DEF c

LEMMA DarwinCloseTuple ==
    /\ DOMAIN Darwin!CloseLoops = 1 .. 4 /\ Len(Darwin!CloseLoops) = 4
    /\ Darwin!CloseLoops[1] = "close routes" /\ Darwin!CloseLoops[2] = "close scoped"
    /\ Darwin!CloseLoops[3] = "close addrs" /\ Darwin!CloseLoops[4] = "close device"
  BY DEF Darwin!CloseLoops

LEMMA InFour ==
    /\ \A j \in 1 .. 4 : j = 1 \/ j = 2 \/ j = 3 \/ j = 4
    /\ \A j \in 1 .. 4 : j # 4 => j + 1 \in 1 .. 4
    /\ \A i \in 1 .. 4 : \A j \in i .. 4 : j \in 1 .. 4 /\ (i # 1 => j # 1) /\ (i = 3 => j # 2)
    /\ \A i \in 1 .. 4 : \A j \in i .. 4 : (i = 1 \/ i = 2) /\ (j = 3 \/ j = 4) => 2 \in i .. (j - 1)
    /\ \A i \in 1 .. 4 : (i + 1 = 2 <=> i = 1) /\ (i + 1 = 3 <=> i = 2)
  BY SMT

\* The next part of Close, which never passes over remembered scoped defaults.
LEMMA DarwinCloseOn ==
    ASSUME NEW i \in 1 .. 4, NEW mem, Darwin!CloseOn(i, mem)
    PROVE  /\ pc' \in DarwinClosing
           /\ i # 1 => pc' # "close routes"
           /\ i = 3 => pc' # "close scoped"
           /\ pc' = "close scoped" => todo' = mem.scoped
           /\ (i = 1 \/ i = 2) /\ pc' \notin {"close routes", "close scoped"} => mem.scoped = {}
<1> DEFINE W(n) == Darwin!CloseWork(Darwin!CloseLoops[n], mem)
           First(j) == W(j) # {} /\ \A n \in i .. (j - 1) : W(n) = {}
           j == CHOOSE j \in i .. 4 : First(j)
<1>1. pc' = Darwin!CloseLoops[j] /\ todo' = W(j)
  <2>1. Len(Darwin!CloseLoops) = 4
    BY DarwinCloseTuple
  <2>q. QED  BY <2>1 DEF Darwin!CloseOn
<1>2. W(4) # {}
  BY DarwinCloseTuple DEF Darwin!CloseWork
<1>0. W(2) = mem.scoped
  BY DarwinCloseTuple DEF Darwin!CloseWork
<1> HIDE DEF W
<1>3. \E x \in i .. 4 : First(x)
  <2>1. {n \in i .. 4 : W(n) # {}} \in SUBSET Nat /\ {n \in i .. 4 : W(n) # {}} # {}
    BY <1>2
  <2>2. PICK x \in {n \in i .. 4 : W(n) # {}} : \A y \in {n \in i .. 4 : W(n) # {}} : x <= y
    BY <2>1, Least
  <2>q. QED  BY <2>2
<1>4. j \in i .. 4 /\ First(j)
  <2> HIDE DEF First
  <2>q. QED  BY <1>3
<1> HIDE DEF j
<1>5. /\ j = 1 \/ j = 2 \/ j = 3 \/ j = 4
      /\ i # 1 => j # 1
      /\ i = 3 => j # 2
      /\ (i = 1 \/ i = 2) /\ (j = 3 \/ j = 4) => 2 \in i .. (j - 1)
  BY <1>4, InFour, Zenon
<1>6. (i = 1 \/ i = 2) /\ (j = 3 \/ j = 4) => mem.scoped = {}
  BY <1>0, <1>4, <1>5
<1> HIDE DEF First
<1>q. QED  BY <1>0, <1>1, <1>5, <1>6, DarwinCloseTuple DEF DarwinClosing

LEMMA DarwinCloseAt ==
    ASSUME pc \in {Darwin!CloseLoops[i] : i \in 1 .. Len(Darwin!CloseLoops)}
    PROVE  /\ pc \in DarwinClosing
           /\ pc # "close device" =>
                 \E at \in 1 .. 4 : /\ at = (CHOOSE i \in 1 .. Len(Darwin!CloseLoops) : Darwin!CloseLoops[i] = pc) + 1
                                    /\ at # 1
                                    /\ (pc = "close routes" => at = 2)
                                    /\ (pc = "close scoped" => at = 3)
<1> DEFINE c == CHOOSE i \in 1 .. 4 : Darwin!CloseLoops[i] = pc
<1>1. PICK n \in 1 .. 4 : Darwin!CloseLoops[n] = pc
  BY DarwinCloseTuple
<1>2. c \in 1 .. 4 /\ Darwin!CloseLoops[c] = pc
  BY <1>1
<1>3. c = CHOOSE i \in 1 .. Len(Darwin!CloseLoops) : Darwin!CloseLoops[i] = pc
  BY DarwinCloseTuple
<1> HIDE DEF c
<1>4. c = 1 \/ c = 2 \/ c = 3 \/ c = 4
  BY <1>2, InFour, Zenon
<1>5. pc \in DarwinClosing
  BY <1>2, <1>4, DarwinCloseTuple DEF DarwinClosing
<1>6. (pc = "close routes" => c = 1) /\ (pc = "close scoped" => c = 2) /\ (pc # "close device" => c # 4)
  BY <1>2, <1>4, DarwinCloseTuple
<1>7. ASSUME pc # "close device" PROVE c + 1 \in 1 .. 4
  BY <1>2, <1>6, <1>7, InFour, Zenon
<1>8. c + 1 # 1 /\ (c = 1 => c + 1 = 2) /\ (c = 2 => c + 1 = 3)
  BY <1>4
<1>q. QED  BY <1>3, <1>5, <1>6, <1>7, <1>8, Zenon
----------------------------------------------------------------------------
(* macOS: types, and the scoped defaults that Close must find.             *)

DarwinKernels == [addrs : SUBSET Addrs, routes : SUBSET Darwin!KernelRoutes, scoped : SUBSET Darwin!Scoped,
                  underlay : [Families -> Gateways \cup {NoGateway}]]
Memories == [addrs : SUBSET Addrs, routes : SUBSET Darwin!KernelRoutes, scoped : SUBSET Darwin!Scoped]
Plans == [addrs : SUBSET Addrs, routes : SUBSET Darwin!KernelRoutes, scoped : SUBSET Darwin!Scoped,
          want : SUBSET Darwin!Scoped]

\* What the loops that add something have still to add.
Addable(loop, items) ==
    /\ loop = "addrs in" => items \subseteq Addrs
    /\ loop = "scoped in" => items \subseteq Darwin!Scoped
    /\ loop = "routes in" => items \subseteq Routes

DarwinTypeOK ==
    /\ kernel \in DarwinKernels /\ snap \in Plans
    /\ asked \in Askeds /\ known \in Memories
    /\ pc \in {"idle", "closed"} \cup DarwinLoops \cup DarwinClosing
    /\ clean \in BOOLEAN /\ trusted \in BOOLEAN
    /\ pc \in DarwinLoops => Addable(pc, todo)

\* Scoped defaults are planned beneath exit routes and only there; as long as no
\* command lied and nobody meddled, the remembered ones are all there are; and
\* those that Close has not handled yet are the only ones left.
DarwinScoped ==
    /\ pc \in DarwinLoops => (Darwin!hasExitRoutes(asked.routes) <=> snap.want # {})
    /\ pc \in {"idle"} \cup DarwinLoops /\ trusted => kernel.scoped \subseteq known.scoped
    /\ pc = "close routes" /\ clean => kernel.scoped \subseteq known.scoped
    /\ pc = "close scoped" /\ clean => kernel.scoped \subseteq todo
    /\ pc \in {"close addrs", "close device", "closed"} /\ clean => kernel.scoped = {}

DarwinInv == DarwinTypeOK /\ DarwinScoped

LEMMA DarwinNormalized ==
    ASSUME NEW cfg \in Configs
    PROVE  Darwin!Normalized(cfg) \in Askeds /\ Darwin!Normalized(cfg) \in Askable
<1>1. Darwin!Normalized(cfg) = Normalized(cfg) /\ Linux!Normalized(cfg) = Normalized(cfg)
  BY DEF Linux!Normalized, Darwin!Normalized, Normalized
<1>q. QED  BY <1>1, NormalizedType

LEMMA ScopedType ==
    ASSUME NEW underlay \in [Families -> Gateways \cup {NoGateway}], NEW routes
    PROVE  /\ Darwin!desiredScopedDefaults(routes, underlay) \subseteq Darwin!Scoped
           /\ ~Darwin!hasExitRoutes(routes) => Darwin!desiredScopedDefaults(routes, underlay) = {}
<1>1. \A f \in Families : underlay[f] # NoGateway => underlay[f] \in Gateways
  OBVIOUS
<1>q. QED  BY <1>1 DEF Darwin!desiredScopedDefaults, Darwin!Scoped, Families, Darwin!Families

\* What the commands do to the scoped defaults.
LEMMA CommandType ==
    ASSUME NEW k \in DarwinKernels, NEW k2
    PROVE  /\ \A x : k2 \in Darwin!Delete(k, "addrs", x) => k2 \in DarwinKernels /\ k2.scoped = k.scoped
           /\ \A x : k2 \in Darwin!Delete(k, "scoped", x) => k2 \in DarwinKernels /\ k2.scoped = k.scoped \ {x}
           /\ \A x \in Addrs : k2 \in Darwin!Add(k, "addrs", x) => k2 \in DarwinKernels /\ k2.scoped = k.scoped
           /\ \A x \in Darwin!Scoped :
                 k2 \in Darwin!Add(k, "scoped", x) => k2 \in DarwinKernels /\ k2.scoped = k.scoped \cup {x}
           /\ \A x \in Routes : k2 \in Darwin!routeAdd(k, x) => k2 \in DarwinKernels /\ k2.scoped = k.scoped
           /\ \A x : k2 \in Darwin!routeDelete(k, x) => k2 \in DarwinKernels /\ k2.scoped = k.scoped
<1>1. \A x : k2 \in Darwin!Delete(k, "addrs", x) => k2 \in DarwinKernels /\ k2.scoped = k.scoped
  BY DEF DarwinKernels, Darwin!Delete
<1>2. \A x : k2 \in Darwin!Delete(k, "scoped", x) => k2 \in DarwinKernels /\ k2.scoped = k.scoped \ {x}
  BY DEF DarwinKernels, Darwin!Delete
<1>3. \A x \in Addrs : k2 \in Darwin!Add(k, "addrs", x) => k2 \in DarwinKernels /\ k2.scoped = k.scoped
  BY DEF DarwinKernels, Darwin!Add
<1>4. \A x \in Darwin!Scoped :
          k2 \in Darwin!Add(k, "scoped", x) => k2 \in DarwinKernels /\ k2.scoped = k.scoped \cup {x}
  BY DEF DarwinKernels, Darwin!Add
<1>5. \A x \in Routes : k2 \in Darwin!routeAdd(k, x) => k2 \in DarwinKernels /\ k2.scoped = k.scoped
  <2>1. \A x \in Routes : [dst |-> x.dst, src |-> x.src] \in Darwin!KernelRoutes
    BY DEF Routes, Darwin!KernelRoutes
  <2>q. QED  BY <2>1 DEF DarwinKernels, Darwin!routeAdd
<1>6. \A x : k2 \in Darwin!routeDelete(k, x) => k2 \in DarwinKernels /\ k2.scoped = k.scoped
  BY DEF DarwinKernels, Darwin!routeDelete
<1>q. QED  BY <1>1, <1>2, <1>3, <1>4, <1>5, <1>6

\* What a command does to the scoped defaults, in the kernel or in memory.
Rescoped(loop, scoped, x) ==
    CASE loop = "scoped out" -> scoped \ {x}
      [] loop = "scoped in" -> scoped \cup {x}
      [] OTHER -> scoped

LEMMA RememberType ==
    ASSUME NEW mem \in Memories, NEW loop \in DarwinLoops \ {"verify"}, NEW items, NEW x \in items,
           Addable(loop, items)
    PROVE  /\ Darwin!Remember(mem, loop, x) \in Memories
           /\ Darwin!Remember(mem, loop, x).scoped = Rescoped(loop, mem.scoped, x)
<1>1. CASE loop = "routes out"
  BY <1>1 DEF Darwin!Remember, Memories, Rescoped
<1>2. CASE loop = "scoped out"
  BY <1>2 DEF Darwin!Remember, Memories, Rescoped
<1>3. CASE loop = "addrs out"
  BY <1>3 DEF Darwin!Remember, Memories, Rescoped
<1>4. CASE loop = "addrs in"
  BY <1>4 DEF Darwin!Remember, Memories, Rescoped, Addable
<1>5. CASE loop = "scoped in"
  BY <1>5 DEF Darwin!Remember, Memories, Rescoped, Addable
<1>6. CASE loop = "routes in"
  <2>1. [dst |-> x.dst, src |-> x.src] \in Darwin!KernelRoutes
    BY <1>6 DEF Routes, Darwin!KernelRoutes, Addable
  <2>q. QED  BY <1>6, <2>1 DEF Darwin!Remember, Memories, Rescoped
<1>q. QED  BY <1>1, <1>2, <1>3, <1>4, <1>5, <1>6 DEF DarwinLoops

\* A command that takes effect does the same to the kernel and to the memory.
LEMMA DarwinCommands ==
    ASSUME NEW k \in DarwinKernels, NEW loop \in DarwinLoops \ {"verify"}, NEW items, NEW x \in items,
           Addable(loop, items), NEW k2 \in Darwin!Command(k, loop, x)
    PROVE  /\ k2 \in DarwinKernels
           /\ k2.scoped = Rescoped(loop, k.scoped, x)
<1>1. CASE loop = "routes out"
  BY <1>1, CommandType DEF Darwin!Command, Rescoped
<1>2. CASE loop = "scoped out"
  <2>1. k2 \in Darwin!Delete(k, "scoped", x)
    BY <1>2 DEF Darwin!Command
  <2>2. k2 \in DarwinKernels /\ k2.scoped = k.scoped \ {x}
    BY <2>1, CommandType
  <2>q. QED  BY <1>2, <2>2 DEF Rescoped
<1>3. CASE loop = "addrs out"
  BY <1>3, CommandType DEF Darwin!Command, Rescoped
<1>4. CASE loop = "addrs in"
  BY <1>4, CommandType DEF Darwin!Command, Rescoped, Addable
<1>5. CASE loop = "scoped in"
  BY <1>5, CommandType DEF Darwin!Command, Rescoped, Addable
<1>6. CASE loop = "routes in"
  BY <1>6, CommandType DEF Darwin!Command, Rescoped, Addable
<1>q. QED  BY <1>1, <1>2, <1>3, <1>4, <1>5, <1>6 DEF DarwinLoops

LEMMA DarwinWorkType ==
    ASSUME NEW st \in Plans, NEW cfg \in Askeds, NEW mem, NEW loop \in DarwinLoops
    PROVE  Addable(loop, Darwin!Work(loop, st, cfg, mem))
  BY DEF Addable, Darwin!Work, Plans, Askeds

LEMMA DarwinVerified ==
    ASSUME kernel \in DarwinKernels, Darwin!Verified(Darwin!Installed(kernel), asked, snap.want),
           Darwin!hasExitRoutes(asked.routes) <=> snap.want # {}
    PROVE  Darwin!Carries
<1>1. /\ Darwin!Installed(kernel).addrs = kernel.addrs /\ Darwin!Installed(kernel).routes = kernel.routes
      /\ Darwin!Installed(kernel).scoped = kernel.scoped
  BY DEF Darwin!Installed
<1>2. /\ kernel.addrs = asked.addrs /\ kernel.scoped = snap.want
      /\ Darwin!Destinations(kernel.routes) \subseteq Darwin!Destinations(asked.routes)
      /\ \A r \in Darwin!Required(asked.routes) :
            {q \in kernel.routes : q.dst = r.dst} = {[dst |-> r.dst, src |-> r.src]}
  BY <1>1 DEF Darwin!Verified
<1>3. ASSUME NEW q \in kernel.routes
      PROVE  \E r \in asked.routes : q.dst = r.dst /\ (q.src = r.src \/ r.opt)
  <2>1. PICK r \in asked.routes : q.dst = r.dst
    BY <1>2 DEF Darwin!Destinations
  <2>2. CASE ~r.opt
    <3>1. r \in Darwin!Required(asked.routes)
      BY <2>2 DEF Darwin!Required
    <3>2. q \in {p \in kernel.routes : p.dst = r.dst}
      BY <2>1
    <3>3. q = [dst |-> r.dst, src |-> r.src]
      BY <1>2, <3>1, <3>2
    <3>q. QED  BY <2>1, <3>3
  <2>q. QED  BY <2>1, <2>2
<1>4. \A r \in Darwin!Required(asked.routes) : [dst |-> r.dst, src |-> r.src] \in kernel.routes
  BY <1>2
<1>q. QED  BY <1>2, <1>3, <1>4 DEF Darwin!Carries
----------------------------------------------------------------------------
(* macOS: every step keeps the invariant and is seen as the interface has  *)
(* it.                                                                     *)

LEMMA DarwinPhaseOf ==
    /\ pc \in DarwinLoops => Phase = "configuring"
    /\ pc \in DarwinClosing => Phase = "closing"
    /\ pc' \in DarwinLoops => Phase' = "configuring"
    /\ pc' \in DarwinClosing => Phase' = "closing"
  BY DEF Phase, DarwinLoops, DarwinClosing

LEMMA DarwinStages ==
    /\ "idle" \notin DarwinLoops \cup DarwinClosing /\ "closed" \notin DarwinLoops \cup DarwinClosing
    /\ DarwinLoops \cap DarwinClosing = {}
    /\ {"close routes", "close scoped", "close addrs", "close device"} = DarwinClosing
  BY DEF DarwinLoops, DarwinClosing

LEMMA DarwinRefuses ==
    ASSUME DarwinInv, NEW cfg \in Configs, Darwin!Refuse(cfg)
    PROVE  DarwinInv' /\ Seen
<1>1. UNCHANGED <<kernel, pc, todo, snap, asked, known, clean, trusted>>
      /\ pc \in {"idle", "closed"} /\ answer' \in {"rejected", "closed"} /\ (answer' = "closed" => pc = "closed")
  BY DEF Darwin!Refuse
<1>2. DarwinInv'
  BY <1>1 DEF DarwinInv, DarwinTypeOK, DarwinScoped
<1>3. Seen
  BY <1>1, PhaseOf, PhaseOfNext DEF Seen
<1>q. QED  BY <1>2, <1>3

LEMMA InstalledType ==
    ASSUME NEW k \in DarwinKernels
    PROVE  /\ Darwin!Installed(k) \in Memories /\ Darwin!Installed(k).scoped = k.scoped
           /\ \A want \in SUBSET Darwin!Scoped :
                 Darwin!Planned(k, want) \in Plans /\ Darwin!Planned(k, want).want = want
  BY DEF DarwinKernels, Memories, Plans, Darwin!Installed, Darwin!Planned

LEMMA DarwinConfigures ==
    ASSUME DarwinInv, NEW cfg \in Configs, Darwin!Configure(cfg)
    PROVE  DarwinInv' /\ Seen
<1> DEFINE want == Darwin!desiredScopedDefaults(Darwin!Normalized(cfg).routes, kernel.underlay)
<1>t. kernel \in DarwinKernels /\ snap \in Plans /\ asked \in Askeds /\ known \in Memories
  BY DEF DarwinInv, DarwinTypeOK
<1>w. want \subseteq Darwin!Scoped /\ (~Darwin!hasExitRoutes(Darwin!Normalized(cfg).routes) => want = {})
  <2>1. kernel.underlay \in [Families -> Gateways \cup {NoGateway}]
    BY <1>t DEF DarwinKernels
  <2>q. QED  BY <2>1, ScopedType
<1>1. CASE /\ pc = "idle" /\ UNCHANGED <<kernel, pc, todo, snap, asked>> /\ answer' = "error"
           /\ clean' = FALSE
           /\ UNCHANGED <<known, trusted>> \/ (known' = Darwin!Installed(kernel) /\ trusted' = TRUE)
  <2>1. known' \in Memories /\ trusted' \in BOOLEAN /\ (trusted' => kernel.scoped \subseteq known'.scoped)
    <3>1. CASE UNCHANGED <<known, trusted>>
      BY <1>1, <3>1 DEF DarwinInv, DarwinTypeOK, DarwinScoped
    <3>2. CASE known' = Darwin!Installed(kernel) /\ trusted' = TRUE
      BY <1>t, <3>2, InstalledType
    <3>q. QED  BY <1>1, <3>1, <3>2
  <2>2. DarwinInv'
    BY <1>1, <1>t, <2>1, DarwinStages DEF DarwinInv, DarwinTypeOK, DarwinScoped
  <2>3. Seen
    BY <1>1, PhaseOf, PhaseOfNext DEF Seen
  <2>q. QED  BY <2>2, <2>3
<1>2. CASE /\ pc = "idle" /\ UNCHANGED kernel
           /\ Darwin!hasExitRoutes(Darwin!Normalized(cfg).routes) => want # {}
           /\ asked' = Darwin!Normalized(cfg)
           /\ known' = Darwin!Installed(kernel)
           /\ snap' = Darwin!Planned(kernel, want)
           /\ Darwin!GoOn(1, snap', asked', known')
           /\ trusted' = TRUE /\ clean' = TRUE /\ answer' = "none"
  <2> HIDE DEF want
  <2>1. asked' \in Askeds /\ asked' \in Askable
    BY <1>2, DarwinNormalized
  <2>2. known' \in Memories /\ known'.scoped = kernel.scoped /\ snap' \in Plans /\ snap'.want = want
    BY <1>2, <1>t, <1>w, InstalledType
  <2>3. pc' \in DarwinLoops /\ todo' = Darwin!Work(pc', snap', asked', known')
    <3>1. 1 \in 1 .. 7
      OBVIOUS
    <3>q. QED  BY <1>2, <3>1, DarwinGoesOn
  <2>4. Addable(pc', todo')
    BY <2>1, <2>2, <2>3, DarwinWorkType
  <2>5. Darwin!hasExitRoutes(asked'.routes) <=> snap'.want # {}
    BY <1>2, <1>w, <2>2
  <2>6. DarwinTypeOK'
    BY <1>2, <1>t, <2>1, <2>2, <2>3, <2>4 DEF DarwinTypeOK, Addable
  <2>7. DarwinScoped'
    BY <1>2, <2>2, <2>3, <2>5, DarwinStages DEF DarwinScoped, Darwin!hasExitRoutes
  <2>8. Seen
    BY <1>2, <2>1, <2>3, PhaseOf, DarwinPhaseOf DEF Seen
  <2>q. QED  BY <2>6, <2>7, <2>8 DEF DarwinInv
<1>q. QED  BY <1>1, <1>2 DEF Darwin!Configure

LEMMA DarwinConfigureSteps ==
    ASSUME DarwinInv, Darwin!ConfigureStep
    PROVE  DarwinInv' /\ Seen
<1>1. pc \in DarwinLoops \ {"verify"} /\ Darwin!LoopOf(pc) + 1 \in 1 .. 7
  BY DarwinLoopOf DEF Darwin!ConfigureStep
<1>2. PICK x \in todo, outcome \in Darwin!Outcomes :
          /\ Darwin!CommandEnds(Darwin!Command(kernel, pc, x), outcome)
          /\ known' = IF outcome = "failed" THEN known ELSE Darwin!Remember(known, pc, x)
          /\ \/ pc' = "idle" /\ todo' = {} /\ answer' = "error"
             \/ /\ IF todo = {x} THEN Darwin!GoOn(Darwin!LoopOf(pc) + 1, snap, asked, known')
                                  ELSE pc' = pc /\ todo' = todo \ {x}
                /\ UNCHANGED answer
  BY DEF Darwin!ConfigureStep
<1>3. UNCHANGED <<snap, asked>>
  BY DEF Darwin!ConfigureStep
<1>4. /\ kernel \in DarwinKernels /\ snap \in Plans /\ asked \in Askeds /\ known \in Memories
      /\ clean \in BOOLEAN /\ trusted \in BOOLEAN
      /\ Addable(pc, todo)
      /\ Darwin!hasExitRoutes(asked.routes) <=> snap.want # {}
      /\ trusted => kernel.scoped \subseteq known.scoped
  BY <1>1 DEF DarwinInv, DarwinTypeOK, DarwinScoped
<1>5. /\ clean' \in BOOLEAN /\ trusted' \in BOOLEAN /\ (trusted' => trusted /\ outcome # "lost")
      /\ IF outcome = "done" THEN kernel' \in Darwin!Command(kernel, pc, x) ELSE UNCHANGED kernel
  BY <1>2 DEF Darwin!CommandEnds
<1>6. kernel' \in DarwinKernels /\ known' \in Memories /\ (trusted' => kernel'.scoped \subseteq known'.scoped)
  <2>1. CASE outcome = "done"
    <3>1. kernel' \in DarwinKernels /\ kernel'.scoped = Rescoped(pc, kernel.scoped, x)
      BY <1>1, <1>2, <1>4, <1>5, <2>1, DarwinCommands
    <3>2. known' \in Memories /\ known'.scoped = Rescoped(pc, known.scoped, x)
      BY <1>1, <1>2, <1>4, <2>1, RememberType
    <3>3. kernel.scoped \subseteq known.scoped =>
          Rescoped(pc, kernel.scoped, x) \subseteq Rescoped(pc, known.scoped, x)
      BY DEF Rescoped
    <3>q. QED  BY <1>4, <1>5, <3>1, <3>2, <3>3
  <2>2. CASE outcome = "failed"
    BY <1>2, <1>4, <1>5, <2>2
  <2>3. CASE outcome = "lost"
    <3>1. known' \in Memories
      BY <1>1, <1>2, <1>4, <2>3, RememberType
    <3>q. QED  BY <1>4, <1>5, <2>3, <3>1
  <2>q. QED  BY <2>1, <2>2, <2>3 DEF Darwin!Outcomes
<1>7. CASE pc' = "idle" /\ todo' = {} /\ answer' = "error"
  <2>1. DarwinInv'
    BY <1>3, <1>4, <1>5, <1>6, <1>7, DarwinStages DEF DarwinInv, DarwinTypeOK, DarwinScoped
  <2>2. Seen
    BY <1>1, <1>3, <1>7, DarwinPhaseOf, PhaseOfNext DEF Seen
  <2>q. QED  BY <2>1, <2>2
<1>8. CASE /\ IF todo = {x} THEN Darwin!GoOn(Darwin!LoopOf(pc) + 1, snap, asked, known')
                            ELSE pc' = pc /\ todo' = todo \ {x}
           /\ UNCHANGED answer
  <2>1. pc' \in DarwinLoops /\ Addable(pc', todo')
    <3>1. CASE todo = {x}
      <4>1. pc' \in DarwinLoops /\ todo' = Darwin!Work(pc', snap, asked, known')
        BY <1>1, <1>8, <3>1, DarwinGoesOn
      <4>q. QED  BY <1>4, <4>1, DarwinWorkType
    <3>2. CASE todo # {x}
      BY <1>1, <1>4, <1>8, <3>2 DEF Addable
    <3>q. QED  BY <3>1, <3>2
  <2>2. DarwinTypeOK'
    BY <1>3, <1>4, <1>5, <1>6, <2>1 DEF DarwinTypeOK, Addable
  <2>3. DarwinScoped'
    BY <1>3, <1>4, <1>6, <2>1, DarwinStages DEF DarwinScoped, Darwin!hasExitRoutes
  <2>4. Seen
    BY <1>1, <1>3, <1>8, <2>1, DarwinPhaseOf DEF Seen
  <2>q. QED  BY <2>2, <2>3, <2>4 DEF DarwinInv
<1>q. QED  BY <1>2, <1>7, <1>8

LEMMA DarwinVerifies ==
    ASSUME DarwinInv, os = "darwin", Darwin!Verify
    PROVE  DarwinInv' /\ Seen
<1>1. /\ pc = "verify" /\ pc' = "idle" /\ todo' = {} /\ UNCHANGED <<kernel, snap, asked>>
      /\ kernel \in DarwinKernels /\ snap \in Plans /\ asked \in Askeds /\ known \in Memories
      /\ clean \in BOOLEAN /\ trusted \in BOOLEAN /\ pc \in DarwinLoops
      /\ Darwin!hasExitRoutes(asked.routes) <=> snap.want # {}
      /\ trusted => kernel.scoped \subseteq known.scoped
  BY DEF Darwin!Verify, DarwinInv, DarwinTypeOK, DarwinScoped, DarwinLoops
<1>2. CASE clean' = FALSE /\ answer' = "error" /\ UNCHANGED <<known, trusted>>
  <2>1. DarwinInv'
    BY <1>1, <1>2, DarwinStages DEF DarwinInv, DarwinTypeOK, DarwinScoped
  <2>2. Seen
    BY <1>1, <1>2, DarwinPhaseOf, PhaseOfNext DEF Seen
  <2>q. QED  BY <2>1, <2>2
<1>3. CASE /\ known' = Darwin!Installed(kernel) /\ trusted' = TRUE
           /\ answer' = IF Darwin!Verified(known', asked, snap.want) THEN "ok" ELSE "error"
           /\ UNCHANGED clean
  <2>1. known' \in Memories /\ known'.scoped = kernel.scoped
    BY <1>1, <1>3, InstalledType
  <2>2. DarwinInv'
    BY <1>1, <1>3, <2>1, DarwinStages DEF DarwinInv, DarwinTypeOK, DarwinScoped
  <2>3. answer' = "ok" => HostCarries
    BY <1>1, <1>3, DarwinVerified DEF HostCarries
  <2>4. Seen
    BY <1>1, <1>3, <2>3, DarwinPhaseOf, PhaseOfNext DEF Seen
  <2>q. QED  BY <2>2, <2>4
<1>q. QED  BY <1>2, <1>3 DEF Darwin!Verify

LEMMA DarwinCloses ==
    ASSUME DarwinInv, Darwin!Close
    PROVE  DarwinInv' /\ Seen
<1>1. /\ pc = "idle" /\ UNCHANGED <<kernel, snap, asked, known, answer, trusted>>
      /\ clean' = trusted /\ Darwin!CloseOn(1, known)
      /\ kernel \in DarwinKernels /\ snap \in Plans /\ asked \in Askeds /\ known \in Memories
      /\ trusted \in BOOLEAN /\ (trusted => kernel.scoped \subseteq known.scoped)
  BY DEF Darwin!Close, DarwinInv, DarwinTypeOK, DarwinScoped
<1>2. /\ pc' \in DarwinClosing
      /\ pc' = "close scoped" => todo' = known.scoped
      /\ pc' \notin {"close routes", "close scoped"} => known.scoped = {}
  <2>1. 1 \in 1 .. 4
    OBVIOUS
  <2>q. QED  BY <1>1, <2>1, DarwinCloseOn
<1>3. DarwinTypeOK'
  BY <1>1, <1>2, DarwinStages DEF DarwinTypeOK
<1>4. DarwinScoped'
  BY <1>1, <1>2, DarwinStages DEF DarwinScoped
<1>5. Seen
  BY <1>1, <1>2, PhaseOf, DarwinPhaseOf DEF Seen
<1>q. QED  BY <1>3, <1>4, <1>5 DEF DarwinInv

LEMMA DarwinCloseSteps ==
    ASSUME DarwinInv, Darwin!CloseStep
    PROVE  DarwinInv' /\ Seen
<1>1. pc \in DarwinClosing
  BY DarwinCloseAt DEF Darwin!CloseStep
<1>2. PICK x \in todo, outcome \in Darwin!Outcomes :
          /\ Darwin!CommandEnds(Darwin!CloseCommand(kernel, x), outcome)
          /\ IF pc = "close device"
                THEN pc' = "closed" /\ todo' = {} /\ known' = Darwin!Nothing
                ELSE /\ IF todo = {x}
                           THEN Darwin!CloseOn((CHOOSE i \in 1 .. Len(Darwin!CloseLoops) :
                                                    Darwin!CloseLoops[i] = pc) + 1, known)
                           ELSE pc' = pc /\ todo' = todo \ {x}
                     /\ UNCHANGED known
  BY DEF Darwin!CloseStep
<1>3. /\ UNCHANGED <<snap, asked, answer>>
      /\ kernel \in DarwinKernels /\ snap \in Plans /\ asked \in Askeds /\ known \in Memories
      /\ clean \in BOOLEAN /\ trusted \in BOOLEAN
      /\ pc = "close routes" /\ clean => kernel.scoped \subseteq known.scoped
      /\ pc = "close scoped" /\ clean => kernel.scoped \subseteq todo
      /\ pc \in {"close addrs", "close device"} /\ clean => kernel.scoped = {}
  BY <1>1 DEF Darwin!CloseStep, DarwinInv, DarwinTypeOK, DarwinScoped
<1>4. /\ clean' = (clean /\ ~(outcome # "done" /\ Darwin!CloseCommand(kernel, x) # {}))
      /\ trusted' \in BOOLEAN
      /\ IF outcome = "done" THEN kernel' \in Darwin!CloseCommand(kernel, x) ELSE UNCHANGED kernel
  BY <1>2, <1>3 DEF Darwin!CommandEnds
<1>5. kernel' \in DarwinKernels
      /\ IF pc = "close scoped" THEN clean' => kernel'.scoped \subseteq todo \ {x} ELSE kernel'.scoped = kernel.scoped
  <2>1. CASE pc = "close routes"
    <3>1. outcome = "done" => kernel' \in Darwin!routeDelete(kernel, x)
      BY <1>4, <2>1 DEF Darwin!CloseCommand
    <3>2. outcome = "done" => kernel' \in DarwinKernels /\ kernel'.scoped = kernel.scoped
      BY <1>3, <3>1, CommandType
    <3>3. kernel' \in DarwinKernels /\ kernel'.scoped = kernel.scoped
      BY <1>3, <1>4, <3>2
    <3>q. QED  BY <2>1, <3>3
  <2>2. CASE pc = "close scoped"
    <3>1. Darwin!CloseCommand(kernel, x) = Darwin!Delete(kernel, "scoped", x)
      BY <2>2 DEF Darwin!CloseCommand
    <3>2. CASE outcome = "done"
      <4>1. kernel' \in DarwinKernels /\ kernel'.scoped = kernel.scoped \ {x}
        <5>1. kernel' \in Darwin!Delete(kernel, "scoped", x)
          BY <1>4, <3>1, <3>2
        <5>q. QED  BY <1>3, <5>1, CommandType
      <4>q. QED  BY <1>3, <1>4, <2>2, <4>1
    <3>3. CASE outcome # "done"
      <4>1. x \in kernel.scoped => Darwin!CloseCommand(kernel, x) # {}
        BY <3>1 DEF Darwin!Delete
      <4>q. QED  BY <1>3, <1>4, <2>2, <3>3, <4>1
    <3>q. QED  BY <3>2, <3>3
  <2>3. CASE pc = "close addrs"
    <3>1. outcome = "done" => kernel' \in Darwin!Delete(kernel, "addrs", x)
      BY <1>4, <2>3 DEF Darwin!CloseCommand
    <3>2. outcome = "done" => kernel' \in DarwinKernels /\ kernel'.scoped = kernel.scoped
      BY <1>3, <3>1, CommandType
    <3>3. kernel' \in DarwinKernels /\ kernel'.scoped = kernel.scoped
      BY <1>3, <1>4, <3>2
    <3>q. QED  BY <2>3, <3>3
  <2>4. CASE pc = "close device"
    <3>1. Darwin!CloseCommand(kernel, x) = {[kernel EXCEPT !.addrs = {}, !.routes = {}]}
      BY <2>4 DEF Darwin!CloseCommand
    <3>2. [kernel EXCEPT !.addrs = {}, !.routes = {}] \in DarwinKernels
          /\ [kernel EXCEPT !.addrs = {}, !.routes = {}].scoped = kernel.scoped
      BY <1>3 DEF DarwinKernels
    <3>q. QED  BY <1>3, <1>4, <2>4, <3>1, <3>2
  <2>q. QED  BY <1>1, <2>1, <2>2, <2>3, <2>4 DEF DarwinClosing
<1>6. clean' \in BOOLEAN /\ (clean' => clean)
  BY <1>3, <1>4
<1>7. CASE pc = "close device"
  <2>1. pc' = "closed" /\ known' = Darwin!Nothing
    BY <1>2, <1>7
  <2>2. known' \in Memories
    BY <2>1 DEF Memories, Darwin!Nothing
  <2>3. clean' => kernel'.scoped = {}
    BY <1>3, <1>5, <1>6, <1>7
  <2>4. DarwinTypeOK'
    BY <1>3, <1>4, <1>5, <1>6, <2>1, <2>2, DarwinStages DEF DarwinTypeOK
  <2>5. DarwinScoped'
    BY <2>1, <2>3, DarwinStages DEF DarwinScoped
  <2>6. Seen
    BY <1>1, <1>3, <2>1, DarwinPhaseOf, PhaseOfNext DEF Seen
  <2>q. QED  BY <2>4, <2>5, <2>6 DEF DarwinInv
<1>8. CASE pc # "close device"
  <2>1. UNCHANGED known
    BY <1>2, <1>8
  <2>2. /\ pc' \in DarwinClosing
        /\ pc' = "close routes" /\ clean' => kernel'.scoped \subseteq known.scoped
        /\ pc' = "close scoped" /\ clean' => kernel'.scoped \subseteq todo'
        /\ pc' \in {"close addrs", "close device"} /\ clean' => kernel'.scoped = {}
    <3>1. CASE todo = {x}
      <4>1. PICK at \in 1 .. 4 :
               /\ at = (CHOOSE i \in 1 .. Len(Darwin!CloseLoops) : Darwin!CloseLoops[i] = pc) + 1
               /\ at # 1
               /\ pc = "close routes" => at = 2
               /\ pc = "close scoped" => at = 3
        BY <1>8, DarwinCloseAt DEF Darwin!CloseStep
      <4>2. Darwin!CloseOn(at, known)
        BY <1>2, <1>8, <3>1, <4>1
      <4>3. /\ pc' \in DarwinClosing /\ pc' # "close routes"
            /\ at = 3 => pc' # "close scoped"
            /\ pc' = "close scoped" => todo' = known.scoped
            /\ at = 2 /\ pc' # "close scoped" => known.scoped = {}
        BY <4>1, <4>2, DarwinCloseOn
      <4>4. CASE pc = "close routes"
        BY <1>3, <1>5, <1>6, <4>1, <4>3, <4>4
      <4>5. CASE pc = "close scoped"
        BY <1>5, <3>1, <4>1, <4>3, <4>5
      <4>6. CASE pc = "close addrs"
        BY <1>3, <1>5, <1>6, <4>3, <4>6
      <4>q. QED  BY <1>1, <1>8, <4>4, <4>5, <4>6 DEF DarwinClosing
    <3>2. CASE todo # {x}
      <4>1. pc' = pc /\ todo' = todo \ {x}
        BY <1>2, <1>8, <3>2
      <4>q. QED  BY <1>1, <1>3, <1>5, <1>6, <4>1
    <3>q. QED  BY <3>1, <3>2
  <2>3. DarwinTypeOK'
    BY <1>3, <1>4, <1>5, <1>6, <2>1, <2>2, DarwinStages DEF DarwinTypeOK
  <2>4. DarwinScoped'
    BY <2>1, <2>2, DarwinStages DEF DarwinScoped
  <2>5. Seen
    BY <1>1, <1>3, <2>2, DarwinPhaseOf DEF Seen
  <2>q. QED  BY <2>3, <2>4, <2>5 DEF DarwinInv
<1>q. QED  BY <1>7, <1>8

LEMMA DarwinMeddledType ==
    ASSUME NEW k \in DarwinKernels, NEW k2 \in Darwin!Meddled(k)
    PROVE  k2 \in DarwinKernels
<1> DEFINE A == {[k EXCEPT !.routes = {q \in @ : q.dst # r.dst} \cup {r}] :
                    r \in {r \in Darwin!KernelRoutes : Masked[r.dst] = r.dst}}
           B == {[k EXCEPT !.routes = @ \ {r}] : r \in k.routes}
           C == {[k EXCEPT !.scoped = @ \cup {s}] : s \in Darwin!Scoped}
           D == {[k EXCEPT !.scoped = @ \ {s}] : s \in k.scoped}
           E == {[k EXCEPT !.addrs = @ \cup {a}] : a \in Addrs}
           F == {[k EXCEPT !.addrs = @ \ {a}] : a \in k.addrs}
<1>1. k2 \in A \cup B \cup C \cup D \cup E \cup F
  BY DEF Darwin!Meddled
<1>2. A \subseteq DarwinKernels
  BY DEF DarwinKernels
<1>3. B \subseteq DarwinKernels /\ C \subseteq DarwinKernels /\ D \subseteq DarwinKernels
  BY DEF DarwinKernels
<1>4. E \subseteq DarwinKernels /\ F \subseteq DarwinKernels
  BY DEF DarwinKernels
<1> HIDE DEF A, B, C, D, E, F
<1>q. QED  BY <1>1, <1>2, <1>3, <1>4, SixParts

LEMMA DarwinOthers ==
    ASSUME DarwinInv, Darwin!Meddle \/ Darwin!Roam \/ Darwin!Crash
    PROVE  DarwinInv' /\ Seen
<1>t. /\ kernel \in DarwinKernels /\ snap \in Plans /\ asked \in Askeds /\ known \in Memories
  BY DEF DarwinInv, DarwinTypeOK
<1>1. CASE Darwin!Meddle
  <2>1. /\ kernel' \in Darwin!Meddled(kernel) /\ pc # "closed"
        /\ clean' = FALSE /\ trusted' = FALSE /\ UNCHANGED <<pc, todo, snap, asked, known, answer>>
    BY <1>1 DEF Darwin!Meddle
  <2>2. kernel' \in DarwinKernels
    BY <1>t, <2>1, DarwinMeddledType
  <2>3. DarwinInv'
    BY <2>1, <2>2 DEF DarwinInv, DarwinTypeOK, DarwinScoped
  <2>4. Seen
    BY <2>1, PhaseOfNext DEF Seen
  <2>q. QED  BY <2>3, <2>4
<1>2. CASE Darwin!Roam
  <2>1. PICK f \in Families, gw \in Gateways \cup {NoGateway} : kernel' = [kernel EXCEPT !.underlay[f] = gw]
    BY <1>2 DEF Darwin!Roam, Families, Darwin!Families
  <2>2. kernel' \in DarwinKernels /\ kernel'.scoped = kernel.scoped
    BY <1>t, <2>1 DEF DarwinKernels
  <2>3. UNCHANGED <<pc, todo, snap, asked, known, answer, clean, trusted>>
    BY <1>2 DEF Darwin!Roam
  <2>4. DarwinInv'
    BY <2>2, <2>3 DEF DarwinInv, DarwinTypeOK, DarwinScoped
  <2>5. Seen
    BY <2>3, PhaseOfNext DEF Seen
  <2>q. QED  BY <2>4, <2>5
<1>3. CASE Darwin!Crash
  <2>1. /\ kernel' = [kernel EXCEPT !.addrs = {}, !.routes = {}] /\ snap' = Darwin!Planned(Darwin!Nothing, {})
        /\ pc' = "idle" /\ known' = Darwin!Nothing /\ answer' = "none"
        /\ clean' = FALSE /\ trusted' = FALSE /\ UNCHANGED asked
    BY <1>3 DEF Darwin!Crash
  <2>2. kernel' \in DarwinKernels
    BY <1>t, <2>1 DEF DarwinKernels
  <2>3. snap' \in Plans /\ known' \in Memories
    BY <2>1 DEF Darwin!Planned, Darwin!Nothing, Plans, Memories
  <2>4. DarwinInv'
    BY <1>t, <2>1, <2>2, <2>3, DarwinStages DEF DarwinInv, DarwinTypeOK, DarwinScoped
  <2>5. Seen
    BY <2>1, PhaseOfNext DEF Seen
  <2>q. QED  BY <2>4, <2>5
<1>q. QED  BY <1>1, <1>2, <1>3

LEMMA DarwinStutters ==
    ASSUME DarwinInv, UNCHANGED vars
    PROVE  DarwinInv'
<1>1. UNCHANGED <<kernel, pc, todo, snap, asked, known, clean, trusted>>
  BY DEF vars
<1>q. QED  BY <1>1 DEF DarwinInv, DarwinTypeOK, DarwinScoped

LEMMA DarwinStarts ==
    ASSUME Darwin!Init
    PROVE  DarwinInv
<1>1. snap \in Plans /\ asked \in Askeds /\ known \in Memories
  BY DEF Darwin!Init, Darwin!Nothing, Darwin!Planned, Plans, Askeds, Memories
<1>2. pc = "idle" /\ clean = FALSE /\ trusted = TRUE /\ kernel.scoped = {} /\ known.scoped = {}
  BY DEF Darwin!Init, Darwin!Nothing
<1>3. kernel \in DarwinKernels
  <2>1. PICK gw \in Gateways : kernel = [addrs |-> {}, routes |-> {}, scoped |-> {},
            underlay |-> [f \in Darwin!Families |-> IF f = 4 THEN gw ELSE NoGateway]]
    BY DEF Darwin!Init
  <2>2. [f \in Darwin!Families |-> IF f = 4 THEN gw ELSE NoGateway] \in [Families -> Gateways \cup {NoGateway}]
    BY DEF Families, Darwin!Families
  <2>q. QED  BY <2>1, <2>2 DEF DarwinKernels
<1>q. QED  BY <1>1, <1>2, <1>3, DarwinStages DEF DarwinInv, DarwinTypeOK, DarwinScoped

LEMMA DarwinSteps ==
    ASSUME DarwinInv, os = "darwin", Darwin!Next
    PROVE  DarwinInv' /\ Seen
  BY DarwinConfigures, DarwinRefuses, DarwinConfigureSteps, DarwinVerifies, DarwinCloses, DarwinCloseSteps,
     DarwinOthers DEF Darwin!Next
----------------------------------------------------------------------------
(* Linux: no gap.  What the loops have still to do, and what a request     *)
(* does to a route that traffic takes.                                     *)

LinuxRank(l) ==
    CASE l = "rules out" -> 1 [] l = "addrs in" -> 2 [] l = "main out" -> 3 [] l = "main in" -> 4
      [] l = "table out" -> 5 [] l = "table in" -> 6 [] l = "rules in" -> 7 [] l = "addrs out" -> 8
      [] OTHER -> 9

\* What a loop has still to do: all of it, the rest of it, or nothing.
LinuxLeft(l) ==
    IF pc = l THEN todo
    ELSE IF LinuxRank(pc) < LinuxRank(l) THEN Linux!Work(l, snap, asked) ELSE {}

LEMMA LinuxRanks ==
    /\ \A l \in LinuxLoops : LinuxRank(l) \in 1 .. 9 /\ Linux!Loops[LinuxRank(l)] = l
    /\ \A j \in 1 .. 9 : LinuxRank(Linux!Loops[j]) = j
<1>1. ASSUME NEW l \in LinuxLoops PROVE LinuxRank(l) \in 1 .. 9 /\ Linux!Loops[LinuxRank(l)] = l
  <2>1. /\ LinuxRank("rules out") = 1 /\ LinuxRank("addrs in") = 2 /\ LinuxRank("main out") = 3
        /\ LinuxRank("main in") = 4 /\ LinuxRank("table out") = 5 /\ LinuxRank("table in") = 6
        /\ LinuxRank("rules in") = 7 /\ LinuxRank("addrs out") = 8 /\ LinuxRank("verify") = 9
    BY DEF LinuxRank
  <2>2. /\ 1 \in 1 .. 9 /\ 2 \in 1 .. 9 /\ 3 \in 1 .. 9 /\ 4 \in 1 .. 9 /\ 5 \in 1 .. 9
        /\ 6 \in 1 .. 9 /\ 7 \in 1 .. 9 /\ 8 \in 1 .. 9 /\ 9 \in 1 .. 9
    OBVIOUS
  <2>3. \/ l = "rules out" \/ l = "addrs in" \/ l = "main out" \/ l = "main in" \/ l = "table out"
        \/ l = "table in" \/ l = "rules in" \/ l = "addrs out" \/ l = "verify"
    BY DEF LinuxLoops
  <2>q. QED  BY <2>1, <2>2, <2>3, LinuxTuple, Zenon
<1>2. ASSUME NEW j \in 1 .. 9 PROVE LinuxRank(Linux!Loops[j]) = j
  <2>1. j = 1 \/ j = 2 \/ j = 3 \/ j = 4 \/ j = 5 \/ j = 6 \/ j = 7 \/ j = 8 \/ j = 9
    BY ToNine
  <2>q. QED  BY <2>1, LinuxTuple DEF LinuxRank
<1>q. QED  BY <1>1, <1>2

LEMMA Between ==
    \A i \in 1 .. 9 : \A j \in i .. 9 : \A n \in 1 .. 9 :
        /\ n < i => ~(j < n) /\ n # j
        /\ ~(n < i) => n \in i .. (j - 1) \/ n = j \/ j < n
        /\ n \in i .. (j - 1) => ~(j < n) /\ n # j
        /\ j < n => n # j
  BY SMT

\* The loops passed over have nothing to do.
LEMMA LinuxLeftAfter ==
    ASSUME NEW i \in 1 .. 9, Linux!GoOn(i, snap', asked'), NEW l \in LinuxLoops
    PROVE  LinuxLeft(l)' = IF LinuxRank(l) < i THEN {} ELSE Linux!Work(l, snap', asked')
<1> DEFINE W == Linux!Work(l, snap', asked')
           n == LinuxRank(l)
<1>1. PICK j \in i .. 9 :
          /\ pc' = Linux!Loops[j]
          /\ todo' = Linux!Work(Linux!Loops[j], snap', asked')
          /\ \A m \in i .. (j - 1) : Linux!Work(Linux!Loops[m], snap', asked') = {}
  BY LinuxGoOn
<1>2. n \in 1 .. 9 /\ Linux!Loops[n] = l /\ j \in 1 .. 9
  BY LinuxRanks
<1>3. LinuxRank(pc') = j
  BY <1>1, <1>2, LinuxRanks
<1>4. LinuxLeft(l)' = IF pc' = l THEN todo' ELSE IF LinuxRank(pc') < n THEN W ELSE {}
  BY DEF LinuxLeft
<1>5. pc' = l <=> n = j
  BY <1>1, <1>2, <1>3
<1> HIDE DEF n
<1>6. CASE n < i
  <2>1. ~(j < n) /\ n # j
    BY <1>2, <1>6, Between, Zenon
  <2>q. QED  BY <1>3, <1>4, <1>5, <1>6, <2>1 DEF n
<1>7. CASE ~(n < i)
  <2>1. CASE n \in i .. (j - 1)
    <3>1. W = {}
      BY <1>1, <1>2, <2>1
    <3>2. ~(j < n) /\ n # j
      BY <1>2, <2>1, Between, Zenon
    <3>q. QED  BY <1>3, <1>4, <1>5, <1>7, <3>1, <3>2 DEF n
  <2>2. CASE n = j
    BY <1>1, <1>2, <1>4, <1>5, <1>7, <2>2 DEF n
  <2>3. CASE j < n
    <3>1. n # j
      BY <1>2, <2>3, Between, Zenon
    <3>q. QED  BY <1>3, <1>4, <1>5, <1>7, <2>3, <3>1 DEF n
  <2>q. QED  BY <1>2, <1>7, <2>1, <2>2, <2>3, Between, Zenon
<1>q. QED  BY <1>6, <1>7

LEMMA NextRank ==
    \A c \in 1 .. 8 : \A n \in 1 .. 9 :
        /\ (n < c + 1 <=> n = c \/ n < c) /\ (~(n < c + 1) <=> c < n) /\ (n < c => ~(c < n) /\ n # c)
        /\ (c < n => n # c)
  BY SMT

LEMMA RankAfter ==
    \A c \in 1 .. 8 : c + 1 \in 1 .. 9 /\ c \in 1 .. 9
  BY SMT

\* A round takes its entry from the loop that runs and leaves the others alone.
LEMMA LinuxLeftNext ==
    ASSUME pc \in {Linux!Loops[i] : i \in 1 .. Len(Linux!Loops) - 1}, UNCHANGED <<snap, asked>>, NEW x \in todo,
           IF todo = {x} THEN Linux!GoOn(Linux!LoopOf(pc) + 1, snap, asked) ELSE pc' = pc /\ todo' = todo \ {x},
           NEW l \in LinuxLoops
    PROVE  LinuxLeft(l)' = IF l = pc THEN todo \ {x} ELSE LinuxLeft(l)
<1>1. CASE todo = {x}
  <2> DEFINE c == Linux!LoopOf(pc)
             n == LinuxRank(l)
  <2>1. c \in 1 .. 8 /\ Linux!Loops[c] = pc /\ Linux!GoOn(c + 1, snap', asked')
    BY <1>1, LinuxLoopOf
  <2> HIDE DEF c
  <2>2. c + 1 \in 1 .. 9 /\ c \in 1 .. 9
    BY <2>1, RankAfter, Zenon
  <2>3. LinuxRank(pc) = c /\ n \in 1 .. 9 /\ Linux!Loops[n] = l
    BY <2>1, <2>2, LinuxRanks
  <2>4. LinuxLeft(l)' = IF n < c + 1 THEN {} ELSE Linux!Work(l, snap, asked)
    BY <2>1, <2>2, LinuxLeftAfter
  <2>5. LinuxLeft(l) = IF pc = l THEN todo ELSE IF c < n THEN Linux!Work(l, snap, asked) ELSE {}
    BY <2>3 DEF LinuxLeft
  <2>6. pc = l <=> n = c
    BY <2>1, <2>3
  <2> HIDE DEF n
  <2>7. (n < c + 1 <=> n = c \/ n < c) /\ (~(n < c + 1) <=> c < n) /\ (n < c => ~(c < n) /\ n # c) /\ (c < n => n # c)
    BY <2>1, <2>3, NextRank, Zenon
  <2>q. QED  BY <1>1, <2>4, <2>5, <2>6, <2>7
<1>2. CASE todo # {x}
  BY <1>2 DEF LinuxLeft
<1>q. QED  BY <1>1, <1>2

\* Rules and routes that carry the traffic to a wanted destination.
Ruled(k, d) == [fam |-> FamilyOf[d], kind |-> "exit"] \in k.rules
Reaches(k, routes, d) == \E q \in routes : q.dst = d /\ q.src \in k.addrs

Held(k, r) ==
    /\ r.exit => Ruled(k, r.dst) /\ Reaches(k, k.table, r.dst)
    /\ ~r.exit => /\ Reaches(k, k.main, r.dst)
                  /\ Ruled(k, r.dst) /\ (\E q \in k.table : q.dst = r.dst) => Reaches(k, k.table, r.dst)

LEMMA RuleDelFields ==
    ASSUME NEW k \in Kernels, NEW x, NEW k2 \in Linux!ruleDel(k, x)
    PROVE  k2.rules = k.rules \ {x} /\ k2.addrs = k.addrs /\ k2.main = k.main /\ k2.table = k.table
  BY DEF Kernels, Linux!ruleDel

LEMMA RuleAddFields ==
    ASSUME NEW k \in Kernels, NEW x, NEW k2 \in Linux!ruleAdd(k, x)
    PROVE  k2.rules = k.rules \cup {x} /\ k2.addrs = k.addrs /\ k2.main = k.main /\ k2.table = k.table
  BY DEF Kernels, Linux!ruleAdd

LEMMA AddrReplaceFields ==
    ASSUME NEW k \in Kernels, NEW x, NEW k2 \in Linux!addrReplace(k, x)
    PROVE  k2.rules = k.rules /\ k2.addrs = k.addrs \cup {x} /\ k2.main = k.main /\ k2.table = k.table
  BY DEF Kernels, Linux!addrReplace

LEMMA MainDelFields ==
    ASSUME NEW k \in Kernels, NEW d, NEW k2 \in Linux!routeDel(k, "main", d)
    PROVE  /\ k2.rules = k.rules /\ k2.addrs = k.addrs /\ k2.table = k.table
           /\ k2.main \subseteq k.main /\ \A q \in k.main : q.dst # d => q \in k2.main
  BY DEF Kernels, Linux!routeDel

LEMMA MainReplaceFields ==
    ASSUME NEW k \in Kernels, NEW x, NEW k2 \in Linux!routeReplace(k, "main", x)
    PROVE  /\ k2.rules = k.rules /\ k2.addrs = k.addrs /\ k2.table = k.table
           /\ OurRoute(x) \in k2.main /\ k2.main \subseteq k.main \cup {OurRoute(x)}
           /\ \A q \in k.main : q.dst # x.dst => q \in k2.main
  BY DEF Kernels, Linux!routeReplace, OurRoute

LEMMA TableDelFields ==
    ASSUME NEW k \in Kernels, NEW d, NEW k2 \in Linux!routeDel(k, "table", d)
    PROVE  /\ k2.rules = k.rules /\ k2.addrs = k.addrs /\ k2.main = k.main
           /\ k2.table \subseteq k.table /\ \A q \in k.table : q.dst # d => q \in k2.table
  BY DEF Kernels, Linux!routeDel

LEMMA TableReplaceFields ==
    ASSUME NEW k \in Kernels, NEW x, NEW k2 \in Linux!routeReplace(k, "table", x)
    PROVE  /\ k2.rules = k.rules /\ k2.addrs = k.addrs /\ k2.main = k.main
           /\ OurRoute(x) \in k2.table /\ k2.table \subseteq k.table \cup {OurRoute(x)}
           /\ \A q \in k.table : q.dst # x.dst => q \in k2.table
  BY DEF Kernels, Linux!routeReplace, OurRoute

\* Each request, where Configure makes it, leaves a wanted route in place.
LEMMA HeldThroughRules ==
    ASSUME NEW k \in Kernels, NEW r \in Routes, Held(k, r), NEW k2, NEW gone,
           k2.rules = k.rules \ gone, k2.addrs = k.addrs, k2.main = k.main, k2.table = k.table,
           r.exit => [fam |-> FamilyOf[r.dst], kind |-> "exit"] \notin gone
    PROVE  Held(k2, r)
  BY DEF Held, Ruled, Reaches

LEMMA HeldThroughNewAddr ==
    ASSUME NEW k \in Kernels, NEW r \in Routes, Held(k, r), NEW k2, NEW x, k2 \in Linux!addrReplace(k, x)
    PROVE  Held(k2, r)
<1>1. k2.rules = k.rules /\ k2.addrs = k.addrs \cup {x} /\ k2.main = k.main /\ k2.table = k.table
  BY AddrReplaceFields
<1>q. QED  BY <1>1 DEF Held, Ruled, Reaches

LEMMA HeldThroughMain ==
    ASSUME NEW k \in Kernels, NEW r \in Routes, Held(k, r), NEW k2, NEW x,
           \/ k2 \in Linux!routeDel(k, "main", x) /\ (r.exit \/ r.dst # x)
           \/ k2 \in Linux!routeReplace(k, "main", x) /\ x.src \in k.addrs
    PROVE  Held(k2, r)
<1>1. CASE k2 \in Linux!routeDel(k, "main", x) /\ (r.exit \/ r.dst # x)
  <2>1. /\ k2.rules = k.rules /\ k2.addrs = k.addrs /\ k2.table = k.table
        /\ k2.main \subseteq k.main /\ \A q \in k.main : q.dst # x => q \in k2.main
    BY <1>1, MainDelFields
  <2>q. QED  BY <1>1, <2>1 DEF Held, Ruled, Reaches
<1>2. CASE k2 \in Linux!routeReplace(k, "main", x) /\ x.src \in k.addrs
  <2>1. /\ k2.rules = k.rules /\ k2.addrs = k.addrs /\ k2.table = k.table
        /\ OurRoute(x) \in k2.main /\ k2.main \subseteq k.main \cup {OurRoute(x)}
        /\ \A q \in k.main : q.dst # x.dst => q \in k2.main
    BY <1>2, MainReplaceFields
  <2>2. Reaches(k, k.main, r.dst) => Reaches(k2, k2.main, r.dst)
    <3>1. OurRoute(x).dst = x.dst /\ OurRoute(x).src = x.src
      BY DEF OurRoute
    <3>q. QED  BY <1>2, <2>1, <3>1 DEF Reaches
  <2>q. QED  BY <2>1, <2>2 DEF Held, Ruled, Reaches
<1>q. QED  BY <1>1, <1>2

LEMMA HeldThroughTable ==
    ASSUME NEW k \in Kernels, NEW r \in Routes, Held(k, r), NEW k2, NEW x,
           \/ k2 \in Linux!routeDel(k, "table", x) /\ (r.dst # x \/ (~r.exit /\ k.rules = {}))
           \/ k2 \in Linux!routeReplace(k, "table", x) /\ x.src \in k.addrs
    PROVE  Held(k2, r)
<1>1. CASE k2 \in Linux!routeDel(k, "table", x) /\ (r.dst # x \/ (~r.exit /\ k.rules = {}))
  <2>1. /\ k2.rules = k.rules /\ k2.addrs = k.addrs /\ k2.main = k.main
        /\ k2.table \subseteq k.table /\ \A q \in k.table : q.dst # x => q \in k2.table
    BY <1>1, TableDelFields
  <2>2. CASE r.dst # x
    <3>1. Reaches(k, k.table, r.dst) => Reaches(k2, k2.table, r.dst)
      BY <2>1, <2>2 DEF Reaches
    <3>q. QED  BY <2>1, <3>1 DEF Held, Ruled, Reaches
  <2>3. CASE ~r.exit /\ k.rules = {}
    BY <2>1, <2>3 DEF Held, Ruled, Reaches
  <2>q. QED  BY <1>1, <2>2, <2>3
<1>2. CASE k2 \in Linux!routeReplace(k, "table", x) /\ x.src \in k.addrs
  <2>1. /\ k2.rules = k.rules /\ k2.addrs = k.addrs /\ k2.main = k.main
        /\ OurRoute(x) \in k2.table /\ k2.table \subseteq k.table \cup {OurRoute(x)}
        /\ \A q \in k.table : q.dst # x.dst => q \in k2.table
    BY <1>2, TableReplaceFields
  <2>2. OurRoute(x).dst = x.dst /\ OurRoute(x).src = x.src
    BY DEF OurRoute
  <2>3. r.dst = x.dst => Reaches(k2, k2.table, r.dst)
    BY <1>2, <2>1, <2>2 DEF Reaches
  <2>4. r.dst # x.dst => /\ Reaches(k, k.table, r.dst) => Reaches(k2, k2.table, r.dst)
                         /\ (\E q \in k2.table : q.dst = r.dst) => \E q \in k.table : q.dst = r.dst
    BY <2>1, <2>2 DEF Reaches
  <2>5. Reaches(k2, k2.main, r.dst) = Reaches(k, k.main, r.dst) /\ Ruled(k2, r.dst) = Ruled(k, r.dst)
    BY <2>1 DEF Reaches, Ruled
  <2>q. QED  BY <2>3, <2>4, <2>5 DEF Held
<1>q. QED  BY <1>1, <1>2

LEMMA HeldThroughNewRule ==
    ASSUME NEW k \in Kernels, NEW r \in Routes, Held(k, r), NEW k2, NEW x, k2 \in Linux!ruleAdd(k, x),
           OurRoute(r) \in k.table, r.src \in k.addrs
    PROVE  Held(k2, r)
<1>1. k2.rules = k.rules \cup {x} /\ k2.addrs = k.addrs /\ k2.main = k.main /\ k2.table = k.table
  BY RuleAddFields
<1>2. OurRoute(r).dst = r.dst /\ OurRoute(r).src = r.src
  BY DEF OurRoute
<1>q. QED  BY <1>1, <1>2 DEF Held, Ruled, Reaches

LEMMA HeldThroughOldAddr ==
    ASSUME NEW k \in Kernels, NEW r \in Routes, Held(k, r), NEW k2, NEW x, k2 \in Linux!addrDel(k, x),
           r.src # x, r.src \in k.addrs,
           ~r.exit => OurRoute(r) \in k.main,
           (~r.exit /\ k.rules = {}) \/ OurRoute(r) \in k.table
    PROVE  Held(k2, r)
<1>1. /\ k2.rules = k.rules /\ k2.addrs = k.addrs \ {x}
      /\ k2.main \subseteq k.main /\ \A q \in k.main : q.src # x => q \in k2.main
      /\ k2.table \subseteq k.table /\ \A q \in k.table : q.src # x => q \in k2.table
  BY AddrDelFacts
<1>2. OurRoute(r).dst = r.dst /\ OurRoute(r).src = r.src
  BY DEF OurRoute
<1>3. ~r.exit => Reaches(k2, k2.main, r.dst)
  BY <1>1, <1>2 DEF Reaches
<1>4. OurRoute(r) \in k.table => Reaches(k2, k2.table, r.dst)
  BY <1>1, <1>2 DEF Reaches
<1>5. Ruled(k2, r.dst) = Ruled(k, r.dst) /\ (k.rules = {} => ~Ruled(k2, r.dst))
  BY <1>1 DEF Ruled
<1>q. QED  BY <1>3, <1>4, <1>5 DEF Held

\* What Configure has achieved so far, if no request was lost and nobody meddled.
LinuxProgress ==
    /\ asked.addrs \ kernel.addrs \subseteq LinuxLeft("addrs in")
    /\ \A r \in asked.routes : ~r.opt /\ ~r.exit => OurRoute(r) \in kernel.main \/ r \in LinuxLeft("main in")
    /\ \A r \in asked.routes : ~r.opt /\ Linux!hasExitRoutes(asked.routes) =>
          OurRoute(r) \in kernel.table \/ r \in LinuxLeft("table in")
    /\ ~Linux!hasExitRoutes(asked.routes) => kernel.rules \subseteq LinuxLeft("rules out")
    /\ \A r \in asked.routes : r.exit /\ r.dst \in kept =>
          [fam |-> FamilyOf[r.dst], kind |-> "exit"] \in snap.rules

AskedSound(cfg) ==
    \A r \in cfg.routes : r.src \in cfg.addrs /\ \A q \in cfg.routes : q.dst = r.dst => q = r

LinuxPath ==
    /\ AskedSound(asked)
    /\ \A d \in kept : \E r \in asked.routes : r.dst = d /\ ~r.opt
    /\ \A r \in asked.routes : r.dst \in kept => Held(kernel, r)
    /\ pc \in LinuxLoops /\ kept # {} => LinuxProgress

LEMMA WorkItems ==
    ASSUME NEW st, NEW cfg, NEW x
    PROVE  /\ x \in Linux!Work("rules out", st, cfg) <=> x \in st.rules \ Linux!desiredLinuxRules(cfg.routes)
           /\ x \in Linux!Work("addrs in", st, cfg) <=> x \in cfg.addrs \ st.addrs
           /\ x \in Linux!Work("main out", st, cfg) => \A r \in cfg.routes : ~r.exit => r.dst # x.dst
           /\ x \in Linux!Work("main in", st, cfg) <=>
                 x \in cfg.routes /\ ~x.exit /\ {q \in st.main : q.dst = x.dst} # {OurRoute(x)}
           /\ x \in Linux!Work("table out", st, cfg) /\ Linux!hasExitRoutes(cfg.routes) =>
                 \A r \in cfg.routes : r.dst # x.dst
           /\ Linux!hasExitRoutes(cfg.routes) =>
                 (x \in Linux!Work("table in", st, cfg) <=>
                  x \in cfg.routes /\ {q \in st.table : q.dst = x.dst} # {OurRoute(x)})
           /\ x \in Linux!Work("table in", st, cfg) => x \in cfg.routes
           /\ x \in Linux!Work("rules in", st, cfg) <=> x \in Linux!desiredLinuxRules(cfg.routes) \ st.rules
           /\ x \in Linux!Work("addrs out", st, cfg) <=> x \in st.addrs \ cfg.addrs
<1>1. /\ Linux!desiredLinuxRoutes(cfg.routes).main = {r \in cfg.routes : ~r.exit}
      /\ Linux!desiredLinuxRoutes(cfg.routes).table = IF Linux!hasExitRoutes(cfg.routes) THEN cfg.routes ELSE {}
  BY DEF Linux!desiredLinuxRoutes
<1>2. /\ Linux!Work("rules out", st, cfg) = st.rules \ Linux!desiredLinuxRules(cfg.routes)
      /\ Linux!Work("addrs in", st, cfg) = cfg.addrs \ st.addrs
      /\ Linux!Work("rules in", st, cfg) = Linux!desiredLinuxRules(cfg.routes) \ st.rules
      /\ Linux!Work("addrs out", st, cfg) = st.addrs \ cfg.addrs
  BY DEF Linux!Work
<1>3. /\ Linux!Work("main out", st, cfg) = Linux!StaleRoutes(st.main, Linux!desiredLinuxRoutes(cfg.routes).main)
      /\ Linux!Work("main in", st, cfg) = Linux!WrongRoutes(st.main, Linux!desiredLinuxRoutes(cfg.routes).main)
      /\ Linux!Work("table out", st, cfg) = Linux!StaleRoutes(st.table, Linux!desiredLinuxRoutes(cfg.routes).table)
      /\ Linux!Work("table in", st, cfg) = Linux!WrongRoutes(st.table, Linux!desiredLinuxRoutes(cfg.routes).table)
  BY DEF Linux!Work
<1>4. ASSUME NEW have, NEW want
      PROVE  /\ x \in Linux!StaleRoutes(have, want) => \A r \in want : r.dst # x.dst
             /\ x \in Linux!WrongRoutes(have, want) <=>
                   x \in want /\ {q \in have : q.dst = x.dst} # {OurRoute(x)}
  BY DEF Linux!StaleRoutes, Linux!WrongRoutes, Linux!Destinations, OurRoute
<1> DEFINE main == Linux!desiredLinuxRoutes(cfg.routes).main
           table == Linux!desiredLinuxRoutes(cfg.routes).table
<1>5. /\ x \in Linux!Work("main out", st, cfg) => \A r \in main : r.dst # x.dst
      /\ x \in Linux!Work("main in", st, cfg) <=> x \in main /\ {q \in st.main : q.dst = x.dst} # {OurRoute(x)}
      /\ x \in Linux!Work("table out", st, cfg) => \A r \in table : r.dst # x.dst
      /\ x \in Linux!Work("table in", st, cfg) <=> x \in table /\ {q \in st.table : q.dst = x.dst} # {OurRoute(x)}
  <2> HIDE DEF main, table
  <2>1. /\ Linux!Work("main out", st, cfg) = Linux!StaleRoutes(st.main, main)
        /\ Linux!Work("main in", st, cfg) = Linux!WrongRoutes(st.main, main)
        /\ Linux!Work("table out", st, cfg) = Linux!StaleRoutes(st.table, table)
        /\ Linux!Work("table in", st, cfg) = Linux!WrongRoutes(st.table, table)
    BY <1>3 DEF main, table
  <2>2. /\ x \in Linux!StaleRoutes(st.main, main) => \A r \in main : r.dst # x.dst
        /\ x \in Linux!WrongRoutes(st.main, main) <=> x \in main /\ {q \in st.main : q.dst = x.dst} # {OurRoute(x)}
    BY <1>4
  <2>3. /\ x \in Linux!StaleRoutes(st.table, table) => \A r \in table : r.dst # x.dst
        /\ x \in Linux!WrongRoutes(st.table, table) <=> x \in table /\ {q \in st.table : q.dst = x.dst} # {OurRoute(x)}
    BY <1>4
  <2>q. QED  BY <2>1, <2>2, <2>3
<1>6. /\ \A r \in cfg.routes : ~r.exit <=> r \in main
      /\ main \subseteq cfg.routes /\ table \subseteq cfg.routes
      /\ Linux!hasExitRoutes(cfg.routes) => table = cfg.routes
  BY <1>1
<1> HIDE DEF main, table
<1>7. x \in Linux!Work("main in", st, cfg) <=>
          x \in cfg.routes /\ ~x.exit /\ {q \in st.main : q.dst = x.dst} # {OurRoute(x)}
  BY <1>5, <1>6, Zenon
<1>8. Linux!hasExitRoutes(cfg.routes) =>
          (x \in Linux!Work("table in", st, cfg) <=>
           x \in cfg.routes /\ {q \in st.table : q.dst = x.dst} # {OurRoute(x)})
  BY <1>5, <1>6, Zenon
<1>9. /\ x \in Linux!Work("main out", st, cfg) => \A r \in cfg.routes : ~r.exit => r.dst # x.dst
      /\ x \in Linux!Work("table out", st, cfg) /\ Linux!hasExitRoutes(cfg.routes) => \A r \in cfg.routes : r.dst # x.dst
      /\ x \in Linux!Work("table in", st, cfg) => x \in cfg.routes
  BY <1>5, <1>6, Zenon
<1>q. QED  BY <1>2, <1>7, <1>8, <1>9

LEMMA LateRanks ==
    /\ \A n \in {3, 4, 5, 6, 7, 8} : ~(n < 1) /\ ~(n < 2)
    /\ \A n \in {7, 8} : ~(n < 4) /\ ~(n < 6)
  BY SMT

\* The loops before the one that runs are through.
LEMMA LinuxOrder ==
    /\ pc \in {"main out", "main in", "table out", "table in", "rules in", "addrs out"} =>
          LinuxLeft("addrs in") = {} /\ LinuxLeft("rules out") = {}
    /\ pc \in {"rules in", "addrs out"} => LinuxLeft("main in") = {} /\ LinuxLeft("table in") = {}
    /\ \A l : pc = l => LinuxLeft(l) = todo
<1>1. /\ LinuxRank("rules out") = 1 /\ LinuxRank("addrs in") = 2 /\ LinuxRank("main out") = 3
      /\ LinuxRank("main in") = 4 /\ LinuxRank("table out") = 5 /\ LinuxRank("table in") = 6
      /\ LinuxRank("rules in") = 7 /\ LinuxRank("addrs out") = 8
  BY DEF LinuxRank
<1>2. \A l : pc = l => LinuxLeft(l) = todo
  BY DEF LinuxLeft
<1>3. pc \in {"main out", "main in", "table out", "table in", "rules in", "addrs out"} =>
          LinuxLeft("addrs in") = {} /\ LinuxLeft("rules out") = {}
  <2> SUFFICES ASSUME pc \in {"main out", "main in", "table out", "table in", "rules in", "addrs out"}
               PROVE  LinuxLeft("addrs in") = {} /\ LinuxLeft("rules out") = {}
    OBVIOUS
  <2>1. LinuxRank(pc) \in {3, 4, 5, 6, 7, 8}
    BY <1>1, Zenon
  <2>q. QED  BY <1>1, <2>1, LateRanks, Zenon DEF LinuxLeft
<1>4. pc \in {"rules in", "addrs out"} => LinuxLeft("main in") = {} /\ LinuxLeft("table in") = {}
  <2> SUFFICES ASSUME pc \in {"rules in", "addrs out"}
               PROVE  LinuxLeft("main in") = {} /\ LinuxLeft("table in") = {}
    OBVIOUS
  <2>1. LinuxRank(pc) \in {7, 8}
    BY <1>1, Zenon
  <2>q. QED  BY <1>1, <2>1, LateRanks, Zenon DEF LinuxLeft
<1>q. QED  BY <1>2, <1>3, <1>4

\* A round of Configure that handles x, with traffic to keep.
Round(x) ==
    /\ LinuxInv /\ LinuxPath /\ kept # {}
    /\ pc \in LinuxLoops \ {"verify"} /\ x \in todo
    /\ UNCHANGED <<snap, asked, kept>>
    /\ \A l \in LinuxLoops : LinuxLeft(l)' = IF l = pc THEN todo \ {x} ELSE LinuxLeft(l)

KeepsPath == LinuxProgress' /\ \A r \in asked.routes : r.dst \in kept => Held(kernel', r)

LEMMA RoundFacts ==
    ASSUME NEW x, Round(x)
    PROVE  /\ kernel \in Kernels /\ snap \in Kernels /\ asked \in Askeds /\ AskedSound(asked) /\ LinuxProgress
           /\ \A r \in asked.routes : r \in Routes /\ (r.dst \in kept => Held(kernel, r) /\ ~r.opt)
           /\ x \in Linux!Work(pc, snap, asked)
           /\ UNCHANGED <<snap, asked, kept>>
           /\ LinuxLeft("rules out")' = IF pc = "rules out" THEN todo \ {x} ELSE LinuxLeft("rules out")
           /\ LinuxLeft("addrs in")' = IF pc = "addrs in" THEN todo \ {x} ELSE LinuxLeft("addrs in")
           /\ LinuxLeft("main in")' = IF pc = "main in" THEN todo \ {x} ELSE LinuxLeft("main in")
           /\ LinuxLeft("table in")' = IF pc = "table in" THEN todo \ {x} ELSE LinuxLeft("table in")
<1>1. /\ kernel \in Kernels /\ snap \in Kernels /\ asked \in Askeds /\ x \in Linux!Work(pc, snap, asked)
  BY DEF Round, LinuxInv, LinuxTypeOK
<1>2. AskedSound(asked) /\ LinuxProgress /\ \A r \in asked.routes : r.dst \in kept => Held(kernel, r)
  BY DEF Round, LinuxPath
<1>3. ASSUME NEW r \in asked.routes PROVE r \in Routes /\ (r.dst \in kept => ~r.opt)
  <2>1. r \in Routes
    BY <1>1 DEF Askeds
  <2>2. ASSUME r.dst \in kept PROVE ~r.opt
    <3>1. PICK q \in asked.routes : q.dst = r.dst /\ ~q.opt
      BY <2>2 DEF Round, LinuxPath
    <3>q. QED  BY <1>2, <3>1 DEF AskedSound
  <2>q. QED  BY <2>1, <2>2
<1>4. {"rules out", "addrs in", "main in", "table in"} \subseteq LinuxLoops
  BY DEF LinuxLoops
<1>5. \A l \in LinuxLoops : LinuxLeft(l)' = IF l = pc THEN todo \ {x} ELSE LinuxLeft(l)
  BY DEF Round
<1>6. /\ LinuxLeft("rules out")' = IF "rules out" = pc THEN todo \ {x} ELSE LinuxLeft("rules out")
      /\ LinuxLeft("addrs in")' = IF "addrs in" = pc THEN todo \ {x} ELSE LinuxLeft("addrs in")
      /\ LinuxLeft("main in")' = IF "main in" = pc THEN todo \ {x} ELSE LinuxLeft("main in")
      /\ LinuxLeft("table in")' = IF "table in" = pc THEN todo \ {x} ELSE LinuxLeft("table in")
  BY <1>4, <1>5
<1>7. UNCHANGED <<snap, asked, kept>>
  BY DEF Round
<1>q. QED  BY <1>1, <1>2, <1>3, <1>6, <1>7

LEMMA RulesOutRound ==
    ASSUME NEW x, Round(x), pc = "rules out", kernel' \in Linux!ruleDel(kernel, x)
    PROVE  KeepsPath
<1>1. /\ kernel'.rules = kernel.rules \ {x} /\ kernel'.addrs = kernel.addrs
      /\ kernel'.main = kernel.main /\ kernel'.table = kernel.table
  <2>1. kernel \in Kernels
    BY RoundFacts
  <2>q. QED  BY <2>1, RuleDelFields
<1>2. x \notin Linux!desiredLinuxRules(asked.routes)
  BY RoundFacts, WorkItems
<1>3. ASSUME NEW r \in asked.routes, r.exit PROVE [fam |-> FamilyOf[r.dst], kind |-> "exit"] # x
  <2>1. FamilyOf[r.dst] \in Families
    BY RoundFacts, HostConfigAssumption DEF Routes
  <2>q. QED  BY <1>2, <1>3, <2>1 DEF Linux!desiredLinuxRules, Linux!hasExitRoutes, Families, Linux!Families
<1>4. \A r \in asked.routes : r.dst \in kept => Held(kernel', r)
  <2> SUFFICES ASSUME NEW r \in asked.routes, r.dst \in kept PROVE Held(kernel', r)
    OBVIOUS
  <2>1. r.exit => [fam |-> FamilyOf[r.dst], kind |-> "exit"] \notin {x}
    BY <1>3
  <2>q. QED  BY <1>1, <2>1, RoundFacts, HeldThroughRules
<1>5. LinuxLeft("rules out") = todo
  BY LinuxOrder
<1>6. LinuxProgress'
  BY <1>1, <1>5, RoundFacts DEF LinuxProgress
<1>q. QED  BY <1>4, <1>6 DEF KeepsPath

LEMMA AddrsInRound ==
    ASSUME NEW x, Round(x), pc = "addrs in", kernel' \in Linux!addrReplace(kernel, x)
    PROVE  KeepsPath
<1>1. /\ kernel'.rules = kernel.rules /\ kernel'.addrs = kernel.addrs \cup {x}
      /\ kernel'.main = kernel.main /\ kernel'.table = kernel.table
  <2>1. kernel \in Kernels
    BY RoundFacts
  <2>q. QED  BY <2>1, AddrReplaceFields
<1>2. \A r \in asked.routes : r.dst \in kept => Held(kernel', r)
  BY RoundFacts, HeldThroughNewAddr
<1>3. LinuxLeft("addrs in") = todo
  BY LinuxOrder
<1>4. LinuxProgress'
  BY <1>1, <1>3, RoundFacts DEF LinuxProgress
<1>q. QED  BY <1>2, <1>4 DEF KeepsPath

LEMMA MainOutRound ==
    ASSUME NEW x, Round(x), pc = "main out", kernel' \in Linux!routeDel(kernel, "main", x.dst)
    PROVE  KeepsPath
<1>1. /\ kernel'.rules = kernel.rules /\ kernel'.addrs = kernel.addrs /\ kernel'.table = kernel.table
      /\ \A q \in kernel.main : q.dst # x.dst => q \in kernel'.main
  <2>1. kernel \in Kernels
    BY RoundFacts
  <2>q. QED  BY <2>1, MainDelFields
<1>2. \A r \in asked.routes : ~r.exit => r.dst # x.dst
  BY RoundFacts, WorkItems
<1>3. \A r \in asked.routes : r.dst \in kept => Held(kernel', r)
  <2> SUFFICES ASSUME NEW r \in asked.routes, r.dst \in kept PROVE Held(kernel', r)
    OBVIOUS
  <2>q. QED  BY <1>2, RoundFacts, HeldThroughMain
<1>4. \A r \in asked.routes : ~r.exit /\ OurRoute(r) \in kernel.main => OurRoute(r) \in kernel'.main
  BY <1>1, <1>2 DEF OurRoute
<1>5. LinuxProgress'
  BY <1>1, <1>4, RoundFacts DEF LinuxProgress
<1>q. QED  BY <1>3, <1>5 DEF KeepsPath

LEMMA MainInRound ==
    ASSUME NEW x, Round(x), pc = "main in", kernel' \in Linux!routeReplace(kernel, "main", x)
    PROVE  KeepsPath
<1>1. /\ kernel'.rules = kernel.rules /\ kernel'.addrs = kernel.addrs /\ kernel'.table = kernel.table
      /\ OurRoute(x) \in kernel'.main
      /\ \A q \in kernel.main : q.dst # x.dst => q \in kernel'.main
  <2>1. kernel \in Kernels
    BY RoundFacts
  <2>q. QED  BY <2>1, MainReplaceFields
<1>2. x \in asked.routes
  BY RoundFacts, WorkItems
<1>3. x.src \in kernel.addrs
  <2>1. LinuxLeft("addrs in") = {}
    BY LinuxOrder
  <2>2. asked.addrs \subseteq kernel.addrs
    BY <2>1, RoundFacts DEF LinuxProgress
  <2>q. QED  BY <1>2, <2>2, RoundFacts DEF AskedSound
<1>4. \A r \in asked.routes : r.dst \in kept => Held(kernel', r)
  <2> SUFFICES ASSUME NEW r \in asked.routes, r.dst \in kept PROVE Held(kernel', r)
    OBVIOUS
  <2>q. QED  BY <1>3, RoundFacts, HeldThroughMain
<1>5. \A r \in asked.routes : OurRoute(r) \in kernel.main \/ r = x => OurRoute(r) \in kernel'.main
  <2> SUFFICES ASSUME NEW r \in asked.routes, OurRoute(r) \in kernel.main, r # x PROVE OurRoute(r) \in kernel'.main
    BY <1>1
  <2>1. r.dst # x.dst
    BY <1>2, RoundFacts DEF AskedSound
  <2>q. QED  BY <1>1, <2>1 DEF OurRoute
<1>6. LinuxLeft("main in") = todo /\ LinuxLeft("main in")' = todo \ {x}
  BY LinuxOrder, RoundFacts
<1>7. LinuxProgress'
  <2>1. \A r \in asked.routes : OurRoute(r) \in kernel.main \/ r \in LinuxLeft("main in") =>
            OurRoute(r) \in kernel'.main \/ r \in LinuxLeft("main in")'
    BY <1>5, <1>6
  <2>q. QED  BY <1>1, <2>1, RoundFacts DEF LinuxProgress
<1>q. QED  BY <1>4, <1>7 DEF KeepsPath

LEMMA TableOutRound ==
    ASSUME NEW x, Round(x), pc = "table out", kernel' \in Linux!routeDel(kernel, "table", x.dst)
    PROVE  KeepsPath
<1>1. /\ kernel'.rules = kernel.rules /\ kernel'.addrs = kernel.addrs /\ kernel'.main = kernel.main
      /\ \A q \in kernel.table : q.dst # x.dst => q \in kernel'.table
  <2>1. kernel \in Kernels
    BY RoundFacts
  <2>q. QED  BY <2>1, TableDelFields
<1>2. Linux!hasExitRoutes(asked.routes) => \A r \in asked.routes : r.dst # x.dst
  BY RoundFacts, WorkItems
<1>3. ~Linux!hasExitRoutes(asked.routes) => kernel.rules = {} /\ \A r \in asked.routes : ~r.exit
  <2>1. LinuxLeft("rules out") = {}
    BY LinuxOrder
  <2>2. ~Linux!hasExitRoutes(asked.routes) => kernel.rules = {}
    BY <2>1, RoundFacts DEF LinuxProgress
  <2>q. QED  BY <2>2 DEF Linux!hasExitRoutes
<1>4. \A r \in asked.routes : r.dst \in kept => Held(kernel', r)
  <2> SUFFICES ASSUME NEW r \in asked.routes, r.dst \in kept PROVE Held(kernel', r)
    OBVIOUS
  <2>1. r.dst # x.dst \/ (~r.exit /\ kernel.rules = {})
    BY <1>2, <1>3
  <2>q. QED  BY <2>1, RoundFacts, HeldThroughTable
<1>5. \A r \in asked.routes : Linux!hasExitRoutes(asked.routes) /\ OurRoute(r) \in kernel.table =>
          OurRoute(r) \in kernel'.table
  BY <1>1, <1>2 DEF OurRoute
<1>6. LinuxProgress'
  BY <1>1, <1>5, RoundFacts DEF LinuxProgress
<1>q. QED  BY <1>4, <1>6 DEF KeepsPath

LEMMA TableInRound ==
    ASSUME NEW x, Round(x), pc = "table in", kernel' \in Linux!routeReplace(kernel, "table", x)
    PROVE  KeepsPath
<1>1. /\ kernel'.rules = kernel.rules /\ kernel'.addrs = kernel.addrs /\ kernel'.main = kernel.main
      /\ OurRoute(x) \in kernel'.table
      /\ \A q \in kernel.table : q.dst # x.dst => q \in kernel'.table
  <2>1. kernel \in Kernels
    BY RoundFacts
  <2>q. QED  BY <2>1, TableReplaceFields
<1>2. x \in asked.routes
  BY RoundFacts, WorkItems
<1>3. x.src \in kernel.addrs
  <2>1. LinuxLeft("addrs in") = {}
    BY LinuxOrder
  <2>2. asked.addrs \subseteq kernel.addrs
    BY <2>1, RoundFacts DEF LinuxProgress
  <2>q. QED  BY <1>2, <2>2, RoundFacts DEF AskedSound
<1>4. \A r \in asked.routes : r.dst \in kept => Held(kernel', r)
  <2> SUFFICES ASSUME NEW r \in asked.routes, r.dst \in kept PROVE Held(kernel', r)
    OBVIOUS
  <2>q. QED  BY <1>3, RoundFacts, HeldThroughTable
<1>5. \A r \in asked.routes : OurRoute(r) \in kernel.table \/ r = x => OurRoute(r) \in kernel'.table
  <2> SUFFICES ASSUME NEW r \in asked.routes, OurRoute(r) \in kernel.table, r # x PROVE OurRoute(r) \in kernel'.table
    BY <1>1
  <2>1. r.dst # x.dst
    BY <1>2, RoundFacts DEF AskedSound
  <2>q. QED  BY <1>1, <2>1 DEF OurRoute
<1>6. LinuxLeft("table in") = todo /\ LinuxLeft("table in")' = todo \ {x}
  BY LinuxOrder, RoundFacts
<1>7. LinuxProgress'
  <2>1. \A r \in asked.routes : OurRoute(r) \in kernel.table \/ r \in LinuxLeft("table in") =>
            OurRoute(r) \in kernel'.table \/ r \in LinuxLeft("table in")'
    BY <1>5, <1>6
  <2>q. QED  BY <1>1, <2>1, RoundFacts DEF LinuxProgress
<1>q. QED  BY <1>4, <1>7 DEF KeepsPath

LEMMA RulesInRound ==
    ASSUME NEW x, Round(x), pc = "rules in", kernel' \in Linux!ruleAdd(kernel, x)
    PROVE  KeepsPath
<1>1. /\ kernel'.rules = kernel.rules \cup {x} /\ kernel'.addrs = kernel.addrs
      /\ kernel'.main = kernel.main /\ kernel'.table = kernel.table
  <2>1. kernel \in Kernels
    BY RoundFacts
  <2>q. QED  BY <2>1, RuleAddFields
<1>2. Linux!hasExitRoutes(asked.routes)
  <2>1. x \in Linux!desiredLinuxRules(asked.routes)
    <3>1. x \in Linux!Work("rules in", snap, asked)
      BY RoundFacts
    <3>q. QED  BY <3>1, WorkItems
  <2>q. QED  BY <2>1 DEF Linux!desiredLinuxRules
<1>3. LinuxLeft("addrs in") = {} /\ LinuxLeft("table in") = {}
  BY LinuxOrder
<1>4. \A r \in asked.routes : r.dst \in kept => Held(kernel', r)
  <2> SUFFICES ASSUME NEW r \in asked.routes, r.dst \in kept PROVE Held(kernel', r)
    OBVIOUS
  <2>1. OurRoute(r) \in kernel.table
    BY <1>2, <1>3, RoundFacts DEF LinuxProgress
  <2>2. r.src \in kernel.addrs
    BY <1>3, RoundFacts DEF LinuxProgress, AskedSound
  <2>q. QED  BY <2>1, <2>2, RoundFacts, HeldThroughNewRule
<1>5. LinuxProgress'
  BY <1>1, <1>2, RoundFacts DEF LinuxProgress
<1>q. QED  BY <1>4, <1>5 DEF KeepsPath

LEMMA AddrsOutRound ==
    ASSUME NEW x, Round(x), pc = "addrs out", kernel' \in Linux!addrDel(kernel, x)
    PROVE  KeepsPath
<1>1. /\ kernel'.rules = kernel.rules /\ kernel'.addrs = kernel.addrs \ {x}
      /\ \A q \in kernel.main : q.src # x => q \in kernel'.main
      /\ \A q \in kernel.table : q.src # x => q \in kernel'.table
  BY RoundFacts, AddrDelFacts
<1>2. x \notin asked.addrs
  BY RoundFacts, WorkItems
<1>3. /\ LinuxLeft("addrs in") = {} /\ LinuxLeft("table in") = {} /\ LinuxLeft("main in") = {}
      /\ LinuxLeft("rules out") = {}
  BY LinuxOrder
<1>4. /\ asked.addrs \subseteq kernel.addrs
      /\ \A r \in asked.routes : ~r.opt /\ ~r.exit => OurRoute(r) \in kernel.main
      /\ \A r \in asked.routes : ~r.opt /\ Linux!hasExitRoutes(asked.routes) => OurRoute(r) \in kernel.table
      /\ ~Linux!hasExitRoutes(asked.routes) => kernel.rules = {}
  BY <1>3, RoundFacts DEF LinuxProgress
<1>5. \A r \in asked.routes : r.src # x /\ r.src \in kernel.addrs
  BY <1>2, <1>4, RoundFacts DEF AskedSound
<1>6. \A r \in asked.routes : r.dst \in kept => Held(kernel', r)
  <2> SUFFICES ASSUME NEW r \in asked.routes, r.dst \in kept PROVE Held(kernel', r)
    OBVIOUS
  <2>1. ~r.exit => OurRoute(r) \in kernel.main
    BY <1>4, RoundFacts
  <2>2. (~r.exit /\ kernel.rules = {}) \/ OurRoute(r) \in kernel.table
    BY <1>4, RoundFacts DEF Linux!hasExitRoutes
  <2>q. QED  BY <1>5, <2>1, <2>2, RoundFacts, HeldThroughOldAddr
<1>7. \A r \in asked.routes : /\ OurRoute(r) \in kernel.main => OurRoute(r) \in kernel'.main
                              /\ OurRoute(r) \in kernel.table => OurRoute(r) \in kernel'.table
  BY <1>1, <1>5 DEF OurRoute
<1>8. asked.addrs \subseteq kernel'.addrs
  BY <1>1, <1>2, <1>4
<1>9. LinuxProgress'
  BY <1>1, <1>3, <1>4, <1>7, <1>8, RoundFacts DEF LinuxProgress
<1>q. QED  BY <1>6, <1>9 DEF KeepsPath

\* An optional route that could not be written.
LEMMA ToleratedRound ==
    ASSUME NEW x, Round(x), Linux!Tolerated(x), UNCHANGED kernel
    PROVE  KeepsPath
<1>1. \A r \in asked.routes : ~r.opt => r # x
  BY DEF Linux!Tolerated
<1>2. LinuxLeft("rules out")' = LinuxLeft("rules out") /\ LinuxLeft("addrs in")' = LinuxLeft("addrs in")
  BY RoundFacts DEF Linux!Tolerated
<1>3. \A r : r # x => /\ r \in LinuxLeft("main in") => r \in LinuxLeft("main in")'
                      /\ r \in LinuxLeft("table in") => r \in LinuxLeft("table in")'
  <2>1. (pc = "main in" => LinuxLeft("main in") = todo) /\ (pc = "table in" => LinuxLeft("table in") = todo)
    BY DEF LinuxLeft
  <2>2. /\ LinuxLeft("main in")' = IF pc = "main in" THEN todo \ {x} ELSE LinuxLeft("main in")
        /\ LinuxLeft("table in")' = IF pc = "table in" THEN todo \ {x} ELSE LinuxLeft("table in")
    BY RoundFacts
  <2>q. QED  BY <2>1, <2>2
<1>4. LinuxProgress'
  BY <1>1, <1>2, <1>3, RoundFacts DEF LinuxProgress
<1>q. QED  BY <1>4, RoundFacts DEF KeepsPath

LEMMA DoneRound ==
    ASSUME NEW x, Round(x), kernel' \in Linux!Request(kernel, pc, x)
    PROVE  KeepsPath
<1>1. pc \in LinuxLoops \ {"verify"}
  BY DEF Round
<1>2. CASE pc = "rules out"
  BY <1>2, RulesOutRound DEF Linux!Request
<1>3. CASE pc = "addrs in"
  BY <1>3, AddrsInRound DEF Linux!Request
<1>4. CASE pc = "main out"
  BY <1>4, MainOutRound DEF Linux!Request
<1>5. CASE pc = "main in"
  BY <1>5, MainInRound DEF Linux!Request
<1>6. CASE pc = "table out"
  BY <1>6, TableOutRound DEF Linux!Request
<1>7. CASE pc = "table in"
  BY <1>7, TableInRound DEF Linux!Request
<1>8. CASE pc = "rules in"
  BY <1>8, RulesInRound DEF Linux!Request
<1>9. CASE pc = "addrs out"
  BY <1>9, AddrsOutRound DEF Linux!Request
<1>q. QED  BY <1>1, <1>2, <1>3, <1>4, <1>5, <1>6, <1>7, <1>8, <1>9 DEF LinuxLoops

\* Taking back the rules this call added leaves those it found.
LEMMA UndoneKeeps ==
    ASSUME LinuxInv, LinuxPath, kept # {}, pc \in LinuxLoops, kernel' \in Linux!Undone, NEW r \in asked.routes, r.dst \in kept
    PROVE  Held(kernel', r)
<1>1. kernel \in Kernels /\ snap \in Kernels /\ r \in Routes /\ Held(kernel, r) /\ LinuxProgress
  BY DEF LinuxInv, LinuxTypeOK, LinuxPath, Askeds
<1>2. CASE kernel' = kernel
  BY <1>1, <1>2
<1>3. ASSUME NEW gone \in SUBSET (Linux!Work("rules in", snap, asked) \ todo), kernel' = [kernel EXCEPT !.rules = @ \ gone]
      PROVE  Held(kernel', r)
  <2>1. kernel'.rules = kernel.rules \ gone /\ kernel'.addrs = kernel.addrs /\ kernel'.main = kernel.main
        /\ kernel'.table = kernel.table
    BY <1>1, <1>3 DEF Kernels
  <2>2. r.exit => [fam |-> FamilyOf[r.dst], kind |-> "exit"] \in snap.rules
    BY <1>1 DEF LinuxProgress
  <2>3. \A x \in gone : x \notin snap.rules
    BY WorkItems
  <2>q. QED  BY <1>1, <2>1, <2>2, <2>3, HeldThroughRules
<1>q. QED  BY <1>2, <1>3 DEF Linux!Undone

LEMMA LinuxPathRound ==
    ASSUME LinuxInv, LinuxPath, Linux!ConfigureStep
    PROVE  LinuxPath'
<1>1. pc \in LinuxLoops \ {"verify"}
  BY LinuxLoopOf DEF Linux!ConfigureStep
<1>2. PICK x \in todo, outcome \in Linux!Outcomes :
          /\ IF outcome = "failed" /\ ~Linux!Tolerated(x)
                THEN /\ kernel' \in Linux!Undone
                     /\ Linux!GiveUp
                ELSE /\ IF outcome = "done" THEN kernel' \in Linux!Request(kernel, pc, x)
                                            ELSE UNCHANGED kernel
                     /\ IF todo = {x} THEN Linux!GoOn(Linux!LoopOf(pc) + 1, snap, asked)
                                      ELSE pc' = pc /\ todo' = todo \ {x}
          /\ kept' = IF outcome = "lost" THEN {} ELSE kept
  BY DEF Linux!ConfigureStep
<1>3. UNCHANGED <<snap, asked>> /\ AskedSound(asked)
  BY DEF Linux!ConfigureStep, LinuxPath
<1>4. CASE kept' = {}
  BY <1>3, <1>4 DEF LinuxPath, AskedSound
<1>5. CASE kept' # {}
  <2>1. kept' = kept /\ outcome # "lost" /\ kept # {}
    BY <1>2, <1>5
  <2>2. CASE outcome = "failed" /\ ~Linux!Tolerated(x)
    <3>1. pc' = "idle" /\ kernel' \in Linux!Undone
      BY <1>2, <2>2 DEF Linux!GiveUp
    <3>2. \A r \in asked.routes : r.dst \in kept => Held(kernel', r)
      BY <1>1, <2>1, <3>1, UndoneKeeps
    <3>q. QED  BY <1>3, <2>1, <3>1, <3>2, LinuxStages DEF LinuxPath, AskedSound, Held, Ruled, Reaches
  <2>3. CASE ~(outcome = "failed" /\ ~Linux!Tolerated(x))
    <3>1. Round(x)
      <4>1. IF todo = {x} THEN Linux!GoOn(Linux!LoopOf(pc) + 1, snap, asked) ELSE pc' = pc /\ todo' = todo \ {x}
        BY <1>2, <2>3
      <4>2. pc \in {Linux!Loops[i] : i \in 1 .. Len(Linux!Loops) - 1}
        BY DEF Linux!ConfigureStep
      <4>3. \A l \in LinuxLoops : LinuxLeft(l)' = IF l = pc THEN todo \ {x} ELSE LinuxLeft(l)
        BY <1>3, <4>1, <4>2, LinuxLeftNext
      <4>q. QED  BY <1>1, <1>3, <2>1, <4>3 DEF Round
    <3>2. KeepsPath
      <4>1. CASE outcome = "done"
        BY <1>2, <2>3, <3>1, <4>1, DoneRound
      <4>2. CASE outcome = "failed" /\ Linux!Tolerated(x)
        BY <1>2, <3>1, <4>2, ToleratedRound
      <4>q. QED  BY <2>1, <2>3, <4>1, <4>2 DEF Linux!Outcomes
    <3>q. QED  BY <1>3, <2>1, <3>2 DEF LinuxPath, KeepsPath, AskedSound, Held, Ruled, Reaches
  <2>q. QED  BY <2>2, <2>3
<1>q. QED  BY <1>4, <1>5

LEMMA AcceptableSound ==
    ASSUME NEW cfg, Linux!Acceptable(cfg)
    PROVE  AskedSound(Linux!Normalized(cfg))
<1>1. Linux!Normalized(cfg).addrs = cfg.addrs
  BY DEF Linux!Normalized
<1>q. QED  BY <1>1 DEF AskedSound, Linux!Acceptable

\* What is wanted and not written yet is what the loops will write.
LEMMA LinuxPathConfigure ==
    ASSUME LinuxInv, LinuxPath, NEW cfg \in Configs, Linux!Configure(cfg)
    PROVE  LinuxPath'
<1>1. pc = "idle" /\ UNCHANGED kernel /\ Linux!Acceptable(cfg)
  BY DEF Linux!Configure
<1>2. CASE UNCHANGED <<pc, todo, snap, asked, kept>>
  BY <1>1, <1>2, LinuxStages DEF LinuxPath, AskedSound, Held, Ruled, Reaches
<1>3. CASE /\ asked' = Linux!Normalized(cfg)
           /\ kept' = kept \cap Linux!Destinations({r \in Linux!Required(asked'.routes) : Linux!SameRole(r)})
           /\ snap' = Linux!readInstalledState(kernel, asked'.routes)
           /\ Linux!GoOn(1, snap', asked')
  <2>1. asked' \in Askeds /\ AskedSound(asked')
    BY <1>1, <1>3, NormalizedType, AcceptableSound
  <2>2. kernel \in Kernels /\ asked \in Askeds
    BY DEF LinuxInv, LinuxTypeOK
  <2>3. \A d \in kept' : /\ d \in kept
                         /\ \E r \in asked'.routes : r.dst = d /\ ~r.opt /\ \E q \in asked.routes : q.dst = d /\ q.exit = r.exit
    BY <1>3 DEF Linux!Destinations, Linux!Required, Linux!SameRole
  <2>4. ASSUME NEW r \in asked'.routes, r.dst \in kept' PROVE Held(kernel, r)
    <3>1. PICK s \in asked'.routes : s.dst = r.dst /\ \E q \in asked.routes : q.dst = r.dst /\ q.exit = s.exit
      BY <2>3, <2>4
    <3>2. s = r
      BY <2>1, <3>1 DEF AskedSound
    <3>3. PICK q \in asked.routes : q.dst = r.dst /\ q.exit = r.exit
      BY <3>1, <3>2
    <3>4. Held(kernel, q)
      BY <2>3, <2>4, <3>3 DEF LinuxPath
    <3>q. QED  BY <3>3, <3>4 DEF Held
  <2>5. /\ snap'.addrs = kernel.addrs /\ snap'.rules = kernel.rules
        /\ snap'.main \subseteq kernel.main /\ snap'.table \subseteq kernel.table
    BY <1>3, <2>2, ReadType
  <2>6. \A l \in {"rules out", "addrs in", "main in", "table in"} : LinuxLeft(l)' = Linux!Work(l, snap', asked')
    <3>1. 1 \in 1 .. 9
      OBVIOUS
    <3>2. \A n \in 1 .. 9 : ~(n < 1)
      OBVIOUS
    <3>3. {"rules out", "addrs in", "main in", "table in"} \subseteq LinuxLoops
      BY DEF LinuxLoops
    <3>4. ASSUME NEW l \in LinuxLoops PROVE LinuxLeft(l)' = Linux!Work(l, snap', asked')
      <4>1. LinuxLeft(l)' = IF LinuxRank(l) < 1 THEN {} ELSE Linux!Work(l, snap', asked')
        BY <1>3, <3>1, LinuxLeftAfter
      <4>2. ~(LinuxRank(l) < 1)
        BY <3>2, LinuxRanks, Zenon
      <4>q. QED  BY <4>1, <4>2
    <3>q. QED  BY <3>3, <3>4
  <2>7. LinuxProgress'
    <3>1. asked'.addrs \ kernel.addrs \subseteq LinuxLeft("addrs in")'
      <4>1. Linux!Work("addrs in", snap', asked') = asked'.addrs \ snap'.addrs
        BY DEF Linux!Work
      <4>q. QED  BY <2>5, <2>6, <4>1
    <3>2. ASSUME NEW r \in asked'.routes, ~r.exit PROVE OurRoute(r) \in kernel.main \/ r \in LinuxLeft("main in")'
      <4>1. r \in Linux!Work("main in", snap', asked') \/ {q \in snap'.main : q.dst = r.dst} = {OurRoute(r)}
        BY <3>2, WorkItems
      <4>q. QED  BY <2>5, <2>6, <4>1
    <3>3. ASSUME NEW r \in asked'.routes, Linux!hasExitRoutes(asked'.routes)
          PROVE  OurRoute(r) \in kernel.table \/ r \in LinuxLeft("table in")'
      <4>1. r \in Linux!Work("table in", snap', asked') \/ {q \in snap'.table : q.dst = r.dst} = {OurRoute(r)}
        BY <3>3, WorkItems
      <4>q. QED  BY <2>5, <2>6, <4>1
    <3>4. ~Linux!hasExitRoutes(asked'.routes) => kernel.rules \subseteq LinuxLeft("rules out")'
      <4>1. Linux!Work("rules out", snap', asked') = snap'.rules \ Linux!desiredLinuxRules(asked'.routes)
        BY DEF Linux!Work
      <4>q. QED  BY <2>5, <2>6, <4>1 DEF Linux!desiredLinuxRules
    <3>5. \A r \in asked'.routes : r.exit /\ r.dst \in kept' => [fam |-> FamilyOf[r.dst], kind |-> "exit"] \in snap'.rules
      BY <2>4, <2>5 DEF Held, Ruled
    <3>q. QED  BY <1>1, <3>1, <3>2, <3>3, <3>4, <3>5 DEF LinuxProgress
  <2>q. QED  BY <1>1, <2>1, <2>3, <2>4, <2>7 DEF LinuxPath
<1>q. QED  BY <1>2, <1>3 DEF Linux!Configure

\* What was verified is held.
LEMMA LinuxPathVerify ==
    ASSUME LinuxInv, LinuxPath, Linux!Verify
    PROVE  LinuxPath'
<1>1. pc' = "idle" /\ UNCHANGED <<kernel, asked>> /\ kernel \in Kernels /\ asked \in Askeds /\ AskedSound(asked)
  BY DEF Linux!Verify, LinuxInv, LinuxTypeOK, LinuxPath
<1>2. CASE UNCHANGED kept
  BY <1>1, <1>2, LinuxStages DEF LinuxPath, Held, Ruled, Reaches
<1>3. CASE /\ Linux!verifyLinuxState(asked, Linux!readInstalledState(kernel, asked.routes))
           /\ kept' = Linux!Destinations(Linux!Required(asked.routes))
  <2>1. \A d \in kept' : \E r \in asked.routes : r.dst = d /\ ~r.opt
    BY <1>3 DEF Linux!Destinations, Linux!Required
  <2>2. ASSUME NEW r \in asked.routes, r.dst \in kept' PROVE Held(kernel, r)
    <3>1. ~r.opt /\ r.src \in kernel.addrs
      <4>1. ~r.opt
        BY <1>1, <2>1, <2>2 DEF AskedSound
      <4>q. QED  BY <1>1, <1>3, <4>1, VerifiedFacts DEF AskedSound
    <3>2. OurRoute(r).dst = r.dst /\ OurRoute(r).src = r.src
      BY DEF OurRoute
    <3>3. Linux!hasExitRoutes(asked.routes) => Reaches(kernel, kernel.table, r.dst)
      <4> SUFFICES ASSUME Linux!hasExitRoutes(asked.routes) PROVE Reaches(kernel, kernel.table, r.dst)
        OBVIOUS
      <4>1. {q \in kernel.table : q.dst = r.dst} = {OurRoute(r)}
        BY <1>1, <1>3, <3>1, VerifiedFacts
      <4>q. QED  BY <3>1, <3>2, <4>1 DEF Reaches
    <3>4. kernel.rules = Linux!desiredLinuxRules(asked.routes)
      BY <1>1, <1>3, VerifiedFacts
    <3>5. Ruled(kernel, r.dst) <=> Linux!hasExitRoutes(asked.routes)
      <4>1. FamilyOf[r.dst] \in Families
        BY <1>1, HostConfigAssumption DEF Askeds, Routes
      <4>q. QED  BY <3>4, <4>1 DEF Ruled, Linux!desiredLinuxRules, Families, Linux!Families
    <3>6. ~r.exit => Reaches(kernel, kernel.main, r.dst)
      <4> SUFFICES ASSUME ~r.exit PROVE Reaches(kernel, kernel.main, r.dst)
        OBVIOUS
      <4>1. {q \in kernel.main : q.dst = r.dst} = {OurRoute(r)}
        BY <1>1, <1>3, <3>1, VerifiedFacts
      <4>q. QED  BY <3>1, <3>2, <4>1 DEF Reaches
    <3>7. r.exit => Linux!hasExitRoutes(asked.routes)
      BY DEF Linux!hasExitRoutes
    <3>q. QED  BY <3>3, <3>5, <3>6, <3>7 DEF Held
  <2>q. QED  BY <1>1, <2>1, <2>2, LinuxStages DEF LinuxPath
<1>q. QED  BY <1>1, <1>2, <1>3 DEF Linux!Verify

LEMMA LinuxPathSteps ==
    ASSUME LinuxInv, LinuxPath, Linux!Next \/ UNCHANGED vars
    PROVE  LinuxPath'
<1>1. ASSUME UNCHANGED <<kernel, asked, kept>>, pc' \notin LinuxLoops PROVE LinuxPath'
  BY <1>1 DEF LinuxPath, AskedSound, Held, Ruled, Reaches
<1>2. ASSUME UNCHANGED asked, kept' = {} PROVE LinuxPath'
  BY <1>2 DEF LinuxPath, AskedSound
<1>3. ASSUME NEW cfg \in Configs, Linux!Refuse(cfg) PROVE LinuxPath'
  BY <1>1, <1>3, LinuxStages DEF Linux!Refuse
<1>4. CASE Linux!Close
  <2>1. Linux!CloseOn(1, snap') /\ UNCHANGED <<kernel, asked, kept>>
    BY <1>4 DEF Linux!Close
  <2>2. pc' \in LinuxClosing
    BY <2>1, LinuxCloseStarts
  <2>q. QED  BY <1>1, <2>1, <2>2, LinuxStages
<1>5. CASE Linux!CloseStep \/ Linux!Meddle \/ Linux!Crash
  BY <1>2, <1>5 DEF Linux!CloseStep, Linux!Meddle, Linux!Crash
<1>6. CASE UNCHANGED vars
  <2>1. UNCHANGED <<kernel, pc, todo, snap, asked, kept>>
    BY <1>6 DEF vars
  <2>2. LinuxProgress' = LinuxProgress
    BY <2>1 DEF LinuxProgress, LinuxLeft
  <2>q. QED  BY <2>1, <2>2 DEF LinuxPath, AskedSound, Held, Ruled, Reaches
<1>q. QED
  BY <1>3, <1>4, <1>5, <1>6, LinuxPathConfigure, LinuxPathRound, LinuxPathVerify DEF Linux!Next

LEMMA LinuxPathStarts ==
    ASSUME Linux!Init
    PROVE  LinuxPath
  BY LinuxStages DEF Linux!Init, LinuxPath, AskedSound

LEMMA LinuxPathIsKept ==
    ASSUME LinuxPath
    PROVE  Linux!NoGap
<1> SUFFICES ASSUME NEW d \in kept PROVE \E r \in Linux!Lookup(kernel, d) : r.src \in kernel.addrs
  BY DEF Linux!NoGap
<1>1. PICK r \in asked.routes : r.dst = d /\ Held(kernel, r)
  BY DEF LinuxPath
<1>q. QED  BY <1>1 DEF Held, Ruled, Reaches, Linux!Lookup
----------------------------------------------------------------------------
(* macOS: exit routes rest on their scoped defaults.                       *)

\* What the first loop and the loop that adds scoped defaults have still to do.
RoutesLeft == IF pc = "routes out" THEN todo ELSE {}

ScopedLeft ==
    IF pc = "scoped in" THEN todo
    ELSE IF pc \in {"routes in", "verify"} THEN {} ELSE snap.want \ snap.scoped

ExitRoute(q) == q.dst \in Darwin!ExitDestinations
Resting(k, on) == (\E q \in k.routes : ExitRoute(q)) => on \subseteq k.scoped
OnePerDestination(k) == \A q, r \in k.routes : q.dst = r.dst => q = r

DarwinProgress ==
    /\ pc = "scoped out" => todo \subseteq snap.scoped \ snap.want
    /\ pc = "routes in" => todo \subseteq asked.routes
    /\ kept # {} /\ snap.scoped # snap.want /\ pc \notin {"routes in", "verify"} =>
          \A q \in kernel.routes : ExitRoute(q) => \E x \in RoutesLeft : x.dst = q.dst
    /\ trusted => snap.want \subseteq kernel.scoped \cup ScopedLeft

\* Whatever is asked for under the destination of an exit route is a required exit route.
DarwinAsked == \A r \in asked.routes : ExitRoute(r) => r.exit /\ ~r.opt

DarwinPath ==
    /\ DarwinAsked
    /\ ~trusted => kept = {}
    /\ OnePerDestination(kernel)
    /\ Resting(kernel, kept)
    /\ pc \in DarwinLoops => DarwinProgress

LEMMA NormalizedAsked ==
    ASSUME NEW cfg \in Configs, NEW r \in Darwin!Normalized(cfg).routes, ExitRoute(r)
    PROVE  r.exit /\ ~r.opt
<1> DEFINE asks == UNION {Darwin!Normalized(c).routes : c \in Configs}
<1>1. r \in asks
  OBVIOUS
<1>2. Darwin!ExitDestinations
          = Darwin!Destinations({q \in asks : q.exit}) \ Darwin!Destinations({q \in asks : ~q.exit})
  BY DEF Darwin!ExitDestinations
<1> HIDE DEF asks
<1>3. r.exit
  BY <1>1, <1>2 DEF ExitRoute, Darwin!Destinations
<1>4. ~(r.exit /\ r.opt)
  <2>1. Darwin!Normalized(cfg) = Linux!Normalized(cfg)
    BY DEF Linux!Normalized, Darwin!Normalized
  <2>q. QED  BY <2>1, NormalizedType
<1>q. QED  BY <1>3, <1>4

\* A round takes its entry from the loop that runs and leaves the others alone.
LEMMA DarwinLeftNext ==
    ASSUME pc \in {Darwin!Loops[i] : i \in 1 .. Len(Darwin!Loops) - 1}, UNCHANGED <<snap, asked>>, NEW x \in todo,
           IF todo = {x} THEN Darwin!GoOn(Darwin!LoopOf(pc) + 1, snap, asked, known') ELSE pc' = pc /\ todo' = todo \ {x},
           DarwinProgress
    PROVE  /\ pc' \in DarwinLoops
           /\ pc \in {"scoped in", "routes in"} => pc' \in {pc, "routes in", "verify"}
           /\ RoutesLeft' = RoutesLeft \ {x}
           /\ ScopedLeft' = IF pc = "scoped in" THEN ScopedLeft \ {x} ELSE ScopedLeft
           /\ pc' = "scoped out" => todo' \subseteq snap.scoped \ snap.want
           /\ pc' = "routes in" => todo' \subseteq asked.routes
<1>0. pc \in DarwinLoops \ {"verify"}
  BY DarwinLoopOf
<1>1. CASE todo = {x}
  <2> DEFINE i == Darwin!LoopOf(pc) + 1
  <2>1. i \in 1 .. 7 /\ i # 1 /\ (i < 6 <=> pc \notin {"scoped in", "routes in"}) /\ Darwin!GoOn(i, snap, asked, known')
    BY <1>1, DarwinLoopOf
  <2> HIDE DEF i
  <2>2. /\ pc' \in DarwinLoops /\ todo' = Darwin!Work(pc', snap, asked, known') /\ pc' # "routes out"
        /\ i < 6 /\ pc' \in {"routes in", "verify"} => Darwin!Work("scoped in", snap, asked, known') = {}
        /\ ~(i < 6) => pc' \in {"routes in", "verify"}
    BY <2>1, DarwinGoesOn
  <2>3. /\ Darwin!Work("scoped in", snap, asked, known') = snap.want \ snap.scoped
        /\ Darwin!Work("scoped out", snap, asked, known') = snap.scoped \ snap.want
        /\ Darwin!Work("routes in", snap, asked, known') \subseteq asked.routes
    BY DEF Darwin!Work
  <2>4. RoutesLeft' = {} /\ RoutesLeft \ {x} = {}
    BY <1>1, <2>2 DEF RoutesLeft
  <2>5. ScopedLeft' = IF pc = "scoped in" THEN ScopedLeft \ {x} ELSE ScopedLeft
    <3>1. CASE pc \in {"scoped in", "routes in"}
      BY <1>1, <2>1, <2>2, <3>1 DEF ScopedLeft
    <3>2. CASE pc \notin {"scoped in", "routes in"}
      BY <1>0, <2>1, <2>2, <2>3, <3>2 DEF ScopedLeft
    <3>q. QED  BY <3>1, <3>2
  <2>q. QED  BY <2>1, <2>2, <2>3, <2>4, <2>5
<1>2. CASE todo # {x}
  <2>1. pc' = pc /\ todo' = todo \ {x}
    BY <1>2
  <2>q. QED  BY <1>0, <2>1 DEF RoutesLeft, ScopedLeft, DarwinProgress
<1>q. QED  BY <1>1, <1>2

\* What a command does to the routes.
LEMMA RoutesAfter ==
    ASSUME NEW k \in DarwinKernels, NEW x, NEW k2
    PROVE  /\ k2 \in Darwin!routeDelete(k, x) => \E q \in k.routes : q.dst = x.dst /\ k2.routes = k.routes \ {q}
           /\ k2 \in Darwin!routeAdd(k, x) => /\ x.dst \notin Darwin!Destinations(k.routes)
                                              /\ k2.routes = k.routes \cup {[dst |-> x.dst, src |-> x.src]}
           /\ k2 \in Darwin!Delete(k, "scoped", x) => k2.routes = k.routes
           /\ k2 \in Darwin!Delete(k, "addrs", x) => k2.routes = k.routes
           /\ k2 \in Darwin!Add(k, "scoped", x) => k2.routes = k.routes
           /\ k2 \in Darwin!Add(k, "addrs", x) => k2.routes = k.routes
<1>1. k2 \in Darwin!routeDelete(k, x) => \E q \in k.routes : q.dst = x.dst /\ k2.routes = k.routes \ {q}
  BY DEF DarwinKernels, Darwin!routeDelete
<1>2. k2 \in Darwin!routeAdd(k, x) => /\ x.dst \notin Darwin!Destinations(k.routes)
                                      /\ k2.routes = k.routes \cup {[dst |-> x.dst, src |-> x.src]}
  BY DEF DarwinKernels, Darwin!routeAdd
<1>3. /\ k2 \in Darwin!Delete(k, "scoped", x) => k2.routes = k.routes
      /\ k2 \in Darwin!Delete(k, "addrs", x) => k2.routes = k.routes
  BY DEF DarwinKernels, Darwin!Delete
<1>4. /\ k2 \in Darwin!Add(k, "scoped", x) => k2.routes = k.routes
      /\ k2 \in Darwin!Add(k, "addrs", x) => k2.routes = k.routes
  BY DEF DarwinKernels, Darwin!Add
<1>q. QED  BY <1>1, <1>2, <1>3, <1>4

\* A round of Configure that goes on to the next, no command having lied.
DarwinRound(x) ==
    /\ DarwinInv /\ DarwinPath /\ pc \in DarwinLoops \ {"verify"} /\ x \in todo
    /\ UNCHANGED <<snap, asked, trusted>>
    /\ pc' \in DarwinLoops
    /\ pc \in {"scoped in", "routes in"} => pc' \in {pc, "routes in", "verify"}
    /\ RoutesLeft' = RoutesLeft \ {x}
    /\ ScopedLeft' = IF pc = "scoped in" THEN ScopedLeft \ {x} ELSE ScopedLeft
    /\ pc' = "scoped out" => todo' \subseteq snap.scoped \ snap.want
    /\ pc' = "routes in" => todo' \subseteq asked.routes

LEMMA DarwinRoundFacts ==
    ASSUME NEW x, DarwinRound(x)
    PROVE  /\ kernel \in DarwinKernels /\ Addable(pc, todo) /\ DarwinAsked
           /\ OnePerDestination(kernel) /\ Resting(kernel, kept) /\ DarwinProgress /\ (~trusted => kept = {})
           /\ DarwinAsked' /\ UNCHANGED <<snap, asked, trusted>>
           /\ UNCHANGED kept => (~trusted' => kept' = {})
<1>1. /\ kernel \in DarwinKernels /\ Addable(pc, todo) /\ DarwinAsked
      /\ OnePerDestination(kernel) /\ Resting(kernel, kept) /\ DarwinProgress
      /\ DarwinAsked' /\ UNCHANGED <<snap, asked, trusted>>
  BY DEF DarwinRound, DarwinPath, DarwinInv, DarwinTypeOK, DarwinAsked, ExitRoute
<1>2. (~trusted => kept = {}) /\ trusted' = trusted
  BY Zenon DEF DarwinRound, DarwinPath
<1>3. UNCHANGED kept => (~trusted' => kept' = {})
  BY <1>2, Zenon
<1>q. QED  BY <1>1, <1>2, <1>3

LEMMA RoutesOutRound ==
    ASSUME NEW x, DarwinRound(x), pc = "routes out", kernel' \in Darwin!routeDelete(kernel, x), UNCHANGED kept
    PROVE  DarwinPath'
<1>0. kernel \in DarwinKernels
  BY DarwinRoundFacts
<1>1. PICK q \in kernel.routes : q.dst = x.dst /\ kernel'.routes = kernel.routes \ {q}
  BY <1>0 DEF DarwinKernels, Darwin!routeDelete
<1>2. kernel'.scoped = kernel.scoped
  BY <1>0 DEF DarwinKernels, Darwin!routeDelete
<1>3. OnePerDestination(kernel)' /\ Resting(kernel, kept)'
  BY <1>1, <1>2, DarwinRoundFacts DEF OnePerDestination, Resting, ExitRoute
<1>4. \A p \in kernel'.routes : p.dst # x.dst
  BY <1>1, DarwinRoundFacts DEF OnePerDestination
<1>5. DarwinProgress'
  <2>1. trusted => snap.want \subseteq kernel'.scoped \cup ScopedLeft'
    BY <1>2, DarwinRoundFacts DEF DarwinRound, DarwinProgress
  <2>2. ASSUME kept # {}, snap.scoped # snap.want, NEW p \in kernel'.routes, ExitRoute(p)
        PROVE  \E y \in RoutesLeft' : y.dst = p.dst
    <3>1. PICK y \in RoutesLeft : y.dst = p.dst
      BY <1>1, <2>2, DarwinRoundFacts DEF DarwinProgress
    <3>q. QED  BY <1>4, <3>1 DEF DarwinRound
  <2>q. QED  BY <2>1, <2>2, DarwinRoundFacts DEF DarwinProgress, DarwinRound, ExitRoute
<1>q. QED  BY <1>3, <1>5, DarwinRoundFacts, Zenon DEF DarwinPath

LEMMA ScopedOutRound ==
    ASSUME NEW x, DarwinRound(x), pc = "scoped out", kernel' \in Darwin!Delete(kernel, "scoped", x), UNCHANGED kept
    PROVE  DarwinPath'
<1>1. kernel'.routes = kernel.routes /\ kernel'.scoped = kernel.scoped \ {x}
  <2>1. kernel \in DarwinKernels
    BY DarwinRoundFacts
  <2>q. QED  BY <2>1 DEF DarwinKernels, Darwin!Delete
<1>2. x \in snap.scoped \ snap.want
  BY DarwinRoundFacts DEF DarwinProgress, DarwinRound
<1>3. kept # {} => \A q \in kernel.routes : ~ExitRoute(q)
  BY <1>2, DarwinRoundFacts DEF DarwinProgress, RoutesLeft
<1>4. OnePerDestination(kernel)' /\ Resting(kernel, kept)'
  BY <1>1, <1>3, DarwinRoundFacts DEF OnePerDestination, Resting, ExitRoute
<1>5. DarwinProgress'
  <2>1. trusted => snap.want \subseteq kernel'.scoped \cup ScopedLeft'
    BY <1>1, <1>2, DarwinRoundFacts DEF DarwinRound, DarwinProgress
  <2>q. QED  BY <1>1, <1>3, <2>1, DarwinRoundFacts DEF DarwinProgress, DarwinRound, ExitRoute
<1>q. QED  BY <1>4, <1>5, DarwinRoundFacts, Zenon DEF DarwinPath

\* The loops that change addresses, and an optional route that was left alone.
LEMMA OtherRound ==
    ASSUME NEW x, DarwinRound(x), pc # "scoped in", kernel'.routes = kernel.routes, kernel'.scoped = kernel.scoped,
           pc = "routes out" => \A q \in kernel.routes : q.dst = x.dst => ~ExitRoute(q),
           UNCHANGED kept
    PROVE  DarwinPath'
<1>1. OnePerDestination(kernel)' /\ Resting(kernel, kept)'
  BY DarwinRoundFacts DEF OnePerDestination, Resting, ExitRoute
<1>2. DarwinProgress'
  <2>1. trusted => snap.want \subseteq kernel'.scoped \cup ScopedLeft'
    BY DarwinRoundFacts DEF DarwinRound, DarwinProgress
  <2>2. ASSUME kept # {}, snap.scoped # snap.want, pc' \notin {"routes in", "verify"},
               NEW p \in kernel.routes, ExitRoute(p)
        PROVE  \E y \in RoutesLeft' : y.dst = p.dst
    <3>1. pc \notin {"routes in", "verify"}
      BY <2>2 DEF DarwinRound
    <3>2. PICK y \in RoutesLeft : y.dst = p.dst
      BY <2>2, <3>1, DarwinRoundFacts DEF DarwinProgress
    <3>3. y # x
      BY <2>2, <3>2 DEF RoutesLeft
    <3>q. QED  BY <3>2, <3>3 DEF DarwinRound
  <2>q. QED  BY <2>1, <2>2, DarwinRoundFacts DEF DarwinProgress, DarwinRound, ExitRoute
<1>q. QED  BY <1>1, <1>2, DarwinRoundFacts, Zenon DEF DarwinPath

LEMMA ScopedInRound ==
    ASSUME NEW x, DarwinRound(x), pc = "scoped in", kernel' \in Darwin!Add(kernel, "scoped", x), UNCHANGED kept
    PROVE  DarwinPath'
<1>1. kernel'.routes = kernel.routes /\ kernel'.scoped = kernel.scoped \cup {x}
  <2>1. kernel \in DarwinKernels
    BY DarwinRoundFacts
  <2>q. QED  BY <2>1 DEF DarwinKernels, Darwin!Add
<1>2. OnePerDestination(kernel)' /\ Resting(kernel, kept)'
  BY <1>1, DarwinRoundFacts DEF OnePerDestination, Resting, ExitRoute
<1>3. DarwinProgress'
  <2>1. trusted => snap.want \subseteq kernel'.scoped \cup ScopedLeft'
    BY <1>1, DarwinRoundFacts DEF DarwinRound, DarwinProgress
  <2>2. kept # {} /\ snap.scoped # snap.want => \A q \in kernel.routes : ~ExitRoute(q)
    BY DarwinRoundFacts DEF DarwinProgress, RoutesLeft
  <2>q. QED  BY <1>1, <2>1, <2>2, DarwinRoundFacts DEF DarwinProgress, DarwinRound, ExitRoute
<1>q. QED  BY <1>2, <1>3, DarwinRoundFacts, Zenon DEF DarwinPath

\* An exit route goes in over the scoped defaults that are all installed by then.
LEMMA RoutesInRound ==
    ASSUME NEW x, DarwinRound(x), pc = "routes in", kernel' \in Darwin!routeAdd(kernel, x),
           kept' = IF x.exit /\ trusted THEN snap.want ELSE kept
    PROVE  DarwinPath'
<1>1. x \in asked.routes /\ x \in Routes
  BY DarwinRoundFacts DEF DarwinProgress, DarwinRound, Addable
<1>2. /\ x.dst \notin Darwin!Destinations(kernel.routes)
      /\ kernel'.routes = kernel.routes \cup {[dst |-> x.dst, src |-> x.src]}
      /\ kernel'.scoped = kernel.scoped
  <2>1. kernel \in DarwinKernels
    BY DarwinRoundFacts
  <2>2. kernel'.scoped = kernel.scoped
    BY <1>1, <2>1, CommandType, Zenon
  <2>q. QED  BY <2>1, <2>2, RoutesAfter, Zenon
<1>n. [dst |-> x.dst, src |-> x.src].dst = x.dst
  OBVIOUS
<1>3. OnePerDestination(kernel)'
  <2>1. \A q \in kernel.routes : q.dst # x.dst
    BY <1>2 DEF Darwin!Destinations
  <2>2. \A q, r \in kernel.routes : q.dst = r.dst => q = r
    BY DarwinRoundFacts DEF OnePerDestination
  <2>3. \A q, r \in kernel'.routes : q.dst = r.dst => q = r
    BY <1>2, <1>n, <2>1, <2>2
  <2>q. QED  BY <2>3 DEF OnePerDestination
<1>4. trusted => snap.want \subseteq kernel.scoped
  BY DarwinRoundFacts DEF DarwinProgress, ScopedLeft
<1>5. Resting(kernel, kept)'
  <2>1. CASE x.exit /\ trusted
    BY <1>2, <1>4, <2>1 DEF Resting
  <2>2. CASE ~trusted
    <3>1. kept' = {}
      BY <2>2, DarwinRoundFacts
    <3>q. QED  BY <3>1 DEF Resting
  <2>3. CASE ~x.exit
    <3>1. ~ExitRoute(x)
      BY <1>1, <2>3, DarwinRoundFacts DEF DarwinAsked
    <3>2. \A q \in kernel'.routes : ExitRoute(q) => q \in kernel.routes
      BY <1>2, <1>n, <3>1 DEF ExitRoute
    <3>3. kept' = kept
      BY <2>3
    <3>q. QED  BY <1>2, <3>2, <3>3, DarwinRoundFacts DEF Resting, ExitRoute
  <2>q. QED  BY <2>1, <2>2, <2>3
<1>6. DarwinProgress'
  <2>1. pc' \in {"routes in", "verify"}
    BY DEF DarwinRound
  <2>q. QED  BY <1>2, <1>4, <2>1, DarwinRoundFacts DEF DarwinProgress, DarwinRound
<1>7. ~trusted' => kept' = {}
  <2>1. (~trusted => kept = {}) /\ trusted' = trusted
    BY DarwinRoundFacts
  <2>q. QED  BY <2>1, Zenon
<1>q. QED  BY <1>3, <1>5, <1>6, <1>7, DarwinRoundFacts, Zenon DEF DarwinPath

LEMMA DarwinDoneRound ==
    ASSUME NEW x, DarwinRound(x), kernel' \in Darwin!Command(kernel, pc, x),
           kept' = IF pc = "routes in" /\ x.exit /\ trusted THEN snap.want ELSE kept
    PROVE  DarwinPath'
<1>0. pc \in DarwinLoops \ {"verify"} /\ kernel \in DarwinKernels /\ x \in todo /\ Addable(pc, todo)
  BY DarwinRoundFacts DEF DarwinRound
<1>1. CASE pc = "routes out"
  BY <1>1, RoutesOutRound DEF Darwin!Command
<1>2. CASE pc = "scoped out"
  BY <1>2, ScopedOutRound DEF Darwin!Command
<1>3. CASE pc = "addrs out"
  <2>1. kernel' \in Darwin!Delete(kernel, "addrs", x)
    BY <1>3 DEF Darwin!Command
  <2>2. kernel'.routes = kernel.routes
    BY <1>0, <2>1, RoutesAfter
  <2>3. kernel'.scoped = kernel.scoped
    BY <1>0, <2>1, CommandType
  <2>q. QED  BY <1>3, <2>2, <2>3, OtherRound
<1>4. CASE pc = "addrs in"
  <2>1. kernel' \in Darwin!Add(kernel, "addrs", x) /\ x \in Addrs
    BY <1>0, <1>4 DEF Darwin!Command, Addable
  <2>2. kernel'.routes = kernel.routes
    BY <1>0, <2>1, RoutesAfter
  <2>3. kernel'.scoped = kernel.scoped
    BY <1>0, <2>1, CommandType
  <2>q. QED  BY <1>4, <2>2, <2>3, OtherRound
<1>5. CASE pc = "scoped in"
  BY <1>5, ScopedInRound DEF Darwin!Command
<1>6. CASE pc = "routes in"
  BY <1>6, RoutesInRound DEF Darwin!Command
<1>q. QED  BY <1>0, <1>1, <1>2, <1>3, <1>4, <1>5, <1>6 DEF DarwinLoops

\* A route that may stay although it should go is an optional one, not an exit route.
LEMMA DarwinToleratedRound ==
    ASSUME NEW x, DarwinRound(x), Darwin!Tolerated(x), UNCHANGED <<kernel, kept>>
    PROVE  DarwinPath'
<1>1. pc # "scoped in"
  BY DEF Darwin!Tolerated
<1>2. ASSUME pc = "routes out", NEW q \in kernel.routes, q.dst = x.dst PROVE ~ExitRoute(q)
  <2>1. PICK r \in asked.routes : r.dst = x.dst /\ r.opt
    BY <1>2 DEF Darwin!Tolerated
  <2>2. ~ExitRoute(r)
    BY <2>1, DarwinRoundFacts DEF DarwinAsked
  <2>q. QED  BY <1>2, <2>1, <2>2 DEF ExitRoute
<1>q. QED  BY <1>1, <1>2, OtherRound

LEMMA DarwinPathRound ==
    ASSUME DarwinInv, DarwinPath, Darwin!ConfigureStep
    PROVE  DarwinPath'
<1>1. pc \in {Darwin!Loops[i] : i \in 1 .. Len(Darwin!Loops) - 1} /\ pc \in DarwinLoops \ {"verify"}
      /\ UNCHANGED <<snap, asked>>
  BY DarwinLoopOf DEF Darwin!ConfigureStep
<1>2. PICK x \in todo, outcome \in Darwin!Outcomes :
          /\ Darwin!CommandEnds(Darwin!Command(kernel, pc, x), outcome)
          /\ IF outcome = "failed" /\ ~Darwin!Tolerated(x)
                THEN pc' = "idle" /\ todo' = {} /\ answer' = "error"
                ELSE /\ IF todo = {x} THEN Darwin!GoOn(Darwin!LoopOf(pc) + 1, snap, asked, known')
                                      ELSE pc' = pc /\ todo' = todo \ {x}
                     /\ UNCHANGED answer
          /\ kept' = CASE outcome = "lost" -> {}
                       [] outcome = "done" /\ pc = "routes in" /\ x.exit /\ trusted -> snap.want
                       [] OTHER -> kept
  BY DEF Darwin!ConfigureStep
<1>3. /\ trusted' = (trusted /\ outcome # "lost")
      /\ IF outcome = "done" THEN kernel' \in Darwin!Command(kernel, pc, x) ELSE UNCHANGED kernel
  BY <1>2 DEF Darwin!CommandEnds
<1>4. trusted \in BOOLEAN /\ DarwinProgress /\ DarwinAsked /\ DarwinAsked'
  BY <1>1 DEF DarwinInv, DarwinTypeOK, DarwinPath, DarwinAsked, ExitRoute
<1>5. CASE outcome = "lost"
  <2>1. kept' = {} /\ UNCHANGED kernel /\ ~trusted'
    BY <1>2, <1>3, <1>5
  <2>2. OnePerDestination(kernel)' /\ Resting(kernel, kept)'
    BY <2>1 DEF DarwinPath, OnePerDestination, Resting
  <2>3. IF todo = {x} THEN Darwin!GoOn(Darwin!LoopOf(pc) + 1, snap, asked, known') ELSE pc' = pc /\ todo' = todo \ {x}
    BY <1>2, <1>5
  <2>4. DarwinProgress'
    <3>1. /\ pc' = "scoped out" => todo' \subseteq snap.scoped \ snap.want
          /\ pc' = "routes in" => todo' \subseteq asked.routes
      BY <1>1, <1>4, <2>3, DarwinLeftNext
    <3>q. QED  BY <1>1, <2>1, <3>1 DEF DarwinProgress
  <2>q. QED  BY <1>4, <2>1, <2>2, <2>4 DEF DarwinPath
<1>6. CASE outcome # "lost"
  <2>1. trusted' = trusted
    BY <1>3, <1>4, <1>6
  <2>2. CASE outcome = "failed" /\ ~Darwin!Tolerated(x)
    <3>1. pc' = "idle" /\ kept' = kept /\ UNCHANGED kernel
      BY <1>2, <1>3, <2>2
    <3>2. OnePerDestination(kernel)' /\ Resting(kernel, kept)'
      BY <3>1 DEF DarwinPath, OnePerDestination, Resting, ExitRoute
    <3>3. ~trusted' => kept' = {}
      BY <2>1, <3>1, Zenon DEF DarwinPath
    <3>q. QED  BY <1>4, <3>1, <3>2, <3>3, DarwinStages DEF DarwinPath
  <2>3. CASE ~(outcome = "failed" /\ ~Darwin!Tolerated(x))
    <3>1. DarwinRound(x)
      <4>1. IF todo = {x} THEN Darwin!GoOn(Darwin!LoopOf(pc) + 1, snap, asked, known') ELSE pc' = pc /\ todo' = todo \ {x}
        BY <1>2, <2>3
      <4>2. /\ pc' \in DarwinLoops
            /\ pc \in {"scoped in", "routes in"} => pc' \in {pc, "routes in", "verify"}
            /\ RoutesLeft' = RoutesLeft \ {x}
            /\ ScopedLeft' = IF pc = "scoped in" THEN ScopedLeft \ {x} ELSE ScopedLeft
            /\ pc' = "scoped out" => todo' \subseteq snap.scoped \ snap.want
            /\ pc' = "routes in" => todo' \subseteq asked.routes
        BY <1>1, <1>4, <4>1, DarwinLeftNext
      <4>q. QED  BY <1>1, <2>1, <4>2 DEF DarwinRound
    <3>2. CASE outcome = "done"
      BY <1>2, <1>3, <3>1, <3>2, DarwinDoneRound
    <3>3. CASE outcome = "failed" /\ Darwin!Tolerated(x)
      BY <1>2, <1>3, <3>1, <3>3, DarwinToleratedRound
    <3>q. QED  BY <1>6, <2>3, <3>2, <3>3 DEF Darwin!Outcomes
  <2>q. QED  BY <2>2, <2>3
<1>q. QED  BY <1>5, <1>6

\* Exit routes whose scoped defaults will change are taken down first.
LEMMA DarwinPathConfigure ==
    ASSUME DarwinInv, DarwinPath, NEW cfg \in Configs, Darwin!Configure(cfg)
    PROVE  DarwinPath'
<1>1. pc = "idle" /\ UNCHANGED <<kernel, kept>> /\ kernel \in DarwinKernels
  BY DEF Darwin!Configure, DarwinInv, DarwinTypeOK
<1>2. OnePerDestination(kernel)' /\ Resting(kernel, kept)'
  BY <1>1 DEF DarwinPath, OnePerDestination, Resting, ExitRoute
<1>3. CASE UNCHANGED <<pc, asked>> /\ (UNCHANGED trusted \/ trusted' = TRUE)
  <2>1. ~trusted' => kept' = {}
    BY <1>1, <1>3, Zenon DEF DarwinPath
  <2>2. DarwinAsked'
    BY <1>3 DEF DarwinPath, DarwinAsked, ExitRoute
  <2>q. QED  BY <1>1, <1>2, <1>3, <2>1, <2>2, DarwinStages DEF DarwinPath
<1>4. CASE /\ asked' = Darwin!Normalized(cfg)
           /\ snap' = Darwin!Planned(kernel, Darwin!desiredScopedDefaults(Darwin!Normalized(cfg).routes, kernel.underlay))
           /\ Darwin!GoOn(1, snap', asked', known')
           /\ trusted' = TRUE
  <2>1. DarwinAsked'
    BY <1>4, NormalizedAsked DEF DarwinAsked, ExitRoute
  <2>2. snap'.routes = kernel.routes /\ snap'.scoped = kernel.scoped
    BY <1>4 DEF Darwin!Planned
  <2>3. 1 \in 1 .. 7 /\ 1 < 6
    OBVIOUS
  <2>4. /\ pc' \in DarwinLoops /\ todo' = Darwin!Work(pc', snap', asked', known')
        /\ pc' # "routes out" => Darwin!Work("routes out", snap', asked', known') = {}
        /\ pc' \in {"routes in", "verify"} => Darwin!Work("scoped in", snap', asked', known') = {}
    BY <1>4, <2>3, DarwinGoesOn
  <2>5. /\ Darwin!Work("scoped in", snap', asked', known') = snap'.want \ snap'.scoped
        /\ Darwin!Work("scoped out", snap', asked', known') = snap'.scoped \ snap'.want
        /\ Darwin!Work("routes in", snap', asked', known') \subseteq asked'.routes
        /\ Darwin!Work("routes out", snap', asked', known') = {q \in snap'.routes : ~Darwin!Stays(q, snap', asked')}
    BY DEF Darwin!Work
  <2>6. ASSUME snap'.scoped # snap'.want, NEW q \in kernel.routes, ExitRoute(q)
        PROVE  \E x \in RoutesLeft' : x.dst = q.dst
    <3>1. ~Darwin!Stays(q, snap', asked')
      <4> SUFFICES ASSUME NEW r \in asked'.routes, r.dst = q.dst, ~(r.exit /\ snap'.scoped # snap'.want) PROVE FALSE
        BY DEF Darwin!Stays
      <4>1. ExitRoute(r)
        BY <2>6 DEF ExitRoute
      <4>2. r.exit
        BY <1>4, <4>1, NormalizedAsked
      <4>q. QED  BY <2>6, <4>2
    <3>2. q \in Darwin!Work("routes out", snap', asked', known')
      BY <2>2, <2>5, <3>1
    <3>3. pc' = "routes out" /\ q \in todo'
      BY <2>4, <3>2
    <3>q. QED  BY <3>3 DEF RoutesLeft
  <2>7. snap'.want \subseteq kernel.scoped \cup ScopedLeft'
    <3>1. ScopedLeft' = snap'.want \ snap'.scoped
      BY <2>4, <2>5 DEF ScopedLeft
    <3>q. QED  BY <2>2, <3>1
  <2>8. DarwinProgress'
    BY <1>1, <2>4, <2>5, <2>6, <2>7 DEF DarwinProgress, ExitRoute
  <2>q. QED  BY <1>2, <1>4, <2>1, <2>8 DEF DarwinPath
<1>q. QED  BY <1>3, <1>4 DEF Darwin!Configure

LEMMA MeddledRoutes ==
    ASSUME NEW k \in DarwinKernels, OnePerDestination(k), NEW k2 \in Darwin!Meddled(k)
    PROVE  OnePerDestination(k2)
<1>1. ASSUME NEW r \in Darwin!KernelRoutes, k2 = [k EXCEPT !.routes = {q \in @ : q.dst # r.dst} \cup {r}]
      PROVE  OnePerDestination(k2)
  <2>1. k2.routes = {q \in k.routes : q.dst # r.dst} \cup {r}
    BY <1>1 DEF DarwinKernels
  <2>q. QED  BY <2>1 DEF OnePerDestination
<1>2. ASSUME NEW r, k2 = [k EXCEPT !.routes = @ \ {r}] PROVE OnePerDestination(k2)
  BY <1>2 DEF DarwinKernels, OnePerDestination
<1>3. ASSUME NEW new, k2 = [k EXCEPT !.scoped = new] \/ k2 = [k EXCEPT !.addrs = new] PROVE OnePerDestination(k2)
  BY <1>3 DEF DarwinKernels, OnePerDestination
<1>q. QED  BY <1>1, <1>2, <1>3 DEF Darwin!Meddled

LEMMA DarwinPathSteps ==
    ASSUME DarwinInv, DarwinPath, Darwin!Next \/ UNCHANGED vars
    PROVE  DarwinPath'
<1>k. kernel \in DarwinKernels
  BY DEF DarwinInv, DarwinTypeOK
<1>1. ASSUME UNCHANGED <<kernel, asked, kept>>, pc' \notin DarwinLoops, trusted' = trusted \/ trusted' = TRUE
      PROVE  DarwinPath'
  <2>1. OnePerDestination(kernel)' /\ Resting(kernel, kept)' /\ DarwinAsked'
    BY <1>1 DEF DarwinPath, OnePerDestination, Resting, ExitRoute, DarwinAsked
  <2>2. (~trusted => kept = {}) /\ kept' = kept
    BY <1>1 DEF DarwinPath
  <2>3. CASE trusted' = trusted
    <3>1. ~trusted' => kept' = {}
      BY <2>2, <2>3, Zenon
    <3>q. QED  BY <1>1, <2>1, <3>1 DEF DarwinPath
  <2>4. CASE trusted' = TRUE
    BY <1>1, <2>1, <2>4 DEF DarwinPath
  <2>q. QED  BY <1>1, <2>3, <2>4
<1>2. ASSUME NEW cfg \in Configs, Darwin!Refuse(cfg) PROVE DarwinPath'
  BY <1>1, <1>2, DarwinStages DEF Darwin!Refuse
<1>3. CASE Darwin!Verify
  BY <1>1, <1>3, DarwinStages DEF Darwin!Verify
<1>4. CASE Darwin!Close
  <2>1. Darwin!CloseOn(1, known) /\ UNCHANGED <<kernel, asked, kept, trusted>>
    BY <1>4 DEF Darwin!Close
  <2>2. pc' \in DarwinClosing
    <3>1. 1 \in 1 .. 4
      OBVIOUS
    <3>q. QED  BY <2>1, <3>1, DarwinCloseOn
  <2>q. QED  BY <1>1, <2>1, <2>2, DarwinStages
<1>5. ASSUME UNCHANGED asked, kept' = {}, OnePerDestination(kernel'), pc' \in DarwinLoops => DarwinProgress'
      PROVE  DarwinPath'
  BY <1>5 DEF DarwinPath, OnePerDestination, Resting, DarwinAsked, ExitRoute
<1>6. CASE Darwin!CloseStep
  <2>1. UNCHANGED asked /\ kept' = {}
    BY <1>6 DEF Darwin!CloseStep
  <2>2. pc' \notin DarwinLoops
    <3>1. pc \in DarwinClosing
      BY <1>6, DarwinCloseAt DEF Darwin!CloseStep
    <3>2. PICK x \in todo :
              \/ pc' = "closed"
              \/ pc' = pc
              \/ /\ pc # "close device"
                 /\ Darwin!CloseOn((CHOOSE i \in 1 .. Len(Darwin!CloseLoops) : Darwin!CloseLoops[i] = pc) + 1, known)
      BY <1>6 DEF Darwin!CloseStep
    <3>3. pc' \in DarwinClosing \cup {"closed"}
      <4>1. CASE /\ pc # "close device"
                 /\ Darwin!CloseOn((CHOOSE i \in 1 .. Len(Darwin!CloseLoops) : Darwin!CloseLoops[i] = pc) + 1, known)
        <5>1. PICK at \in 1 .. 4 : Darwin!CloseOn(at, known)
          BY <1>6, <4>1, DarwinCloseAt DEF Darwin!CloseStep
        <5>q. QED  BY <5>1, DarwinCloseOn
      <4>q. QED  BY <3>1, <3>2, <4>1
    <3>q. QED  BY <3>3, DarwinStages
  <2>3. OnePerDestination(kernel')
    <3>1. PICK x \in todo : UNCHANGED kernel \/ kernel' \in Darwin!CloseCommand(kernel, x)
      BY <1>6 DEF Darwin!CloseStep, Darwin!CommandEnds
    <3>2. kernel'.routes \subseteq kernel.routes
      <4>1. CASE UNCHANGED kernel
        BY <4>1
      <4>2. CASE kernel' \in Darwin!routeDelete(kernel, x)
        BY <1>k, <4>2, RoutesAfter
      <4>3. CASE kernel' \in Darwin!Delete(kernel, "scoped", x) \/ kernel' \in Darwin!Delete(kernel, "addrs", x)
        BY <1>k, <4>3, RoutesAfter
      <4>4. CASE kernel' = [kernel EXCEPT !.addrs = {}, !.routes = {}]
        BY <1>k, <4>4 DEF DarwinKernels
      <4>q. QED  BY <3>1, <4>1, <4>2, <4>3, <4>4 DEF Darwin!CloseCommand
    <3>q. QED  BY <3>2 DEF DarwinPath, OnePerDestination
  <2>q. QED  BY <1>5, <2>1, <2>2, <2>3
<1>7. CASE Darwin!Meddle
  <2>1. /\ UNCHANGED <<pc, todo, snap, asked>> /\ kept' = {} /\ trusted' = FALSE
        /\ kernel' \in Darwin!Meddled(kernel)
    BY <1>7 DEF Darwin!Meddle
  <2>2. OnePerDestination(kernel')
    BY <1>k, <2>1, MeddledRoutes DEF DarwinPath
  <2>3. pc' \in DarwinLoops => DarwinProgress'
    BY <2>1 DEF DarwinPath, DarwinProgress
  <2>q. QED  BY <1>5, <2>1, <2>2, <2>3
<1>8. CASE Darwin!Crash
  <2>1. /\ pc' = "idle" /\ kept' = {} /\ UNCHANGED asked
        /\ kernel' = [kernel EXCEPT !.addrs = {}, !.routes = {}]
    BY <1>8 DEF Darwin!Crash
  <2>2. OnePerDestination(kernel')
    BY <1>k, <2>1 DEF OnePerDestination, DarwinKernels
  <2>q. QED  BY <1>5, <2>1, <2>2, DarwinStages
<1>9. CASE Darwin!Roam \/ UNCHANGED vars
  <2>1. UNCHANGED <<pc, todo, snap, asked, trusted, kept>>
    BY <1>9 DEF Darwin!Roam, vars
  <2>2. kernel'.routes = kernel.routes /\ kernel'.scoped = kernel.scoped
    <3>1. CASE UNCHANGED vars
      BY <3>1 DEF vars
    <3>2. ASSUME NEW f, NEW gw, kernel' = [kernel EXCEPT !.underlay[f] = gw]
          PROVE  kernel'.routes = kernel.routes /\ kernel'.scoped = kernel.scoped
      BY <1>k, <3>2 DEF DarwinKernels
    <3>q. QED  BY <1>9, <3>1, <3>2 DEF Darwin!Roam
  <2>3. OnePerDestination(kernel)' /\ Resting(kernel, kept)' /\ DarwinAsked'
    BY <2>1, <2>2 DEF DarwinPath, OnePerDestination, Resting, ExitRoute, DarwinAsked
  <2>4. ~trusted' => kept' = {}
    BY <2>1, Zenon DEF DarwinPath
  <2>5. pc' \in DarwinLoops => DarwinProgress'
    BY <2>1, <2>2 DEF DarwinPath, DarwinProgress, RoutesLeft, ScopedLeft, ExitRoute
  <2>q. QED  BY <2>3, <2>4, <2>5 DEF DarwinPath
<1>q. QED
  BY <1>2, <1>3, <1>4, <1>6, <1>7, <1>8, <1>9, DarwinPathConfigure, DarwinPathRound DEF Darwin!Next

LEMMA DarwinPathStarts ==
    ASSUME Darwin!Init
    PROVE  DarwinPath
<1>1. pc = "idle" /\ asked.routes = {} /\ trusted = TRUE /\ kept = {} /\ kernel.routes = {}
  BY DEF Darwin!Init
<1>q. QED
  BY <1>1, DarwinStages DEF DarwinPath, DarwinAsked, OnePerDestination, Resting
----------------------------------------------------------------------------
(* Linux: an undisturbed Configure succeeds.  One table: what the loops    *)
(* have still to take out of it and to write into it.                      *)

RoutesTo(routes, d) == {q \in routes : q.dst = d}

\* Nothing but routes of another metric, and the kernel's own, beside a written route.
Written(routes, r) ==
    /\ OurRoute(r) \in routes
    /\ \A q \in routes : q.dst = r.dst => q = OurRoute(r) \/ q.kind \in {"metric", "kernel"}

\* A removal takes any route of its destination, not the one that was read: what agrees
\* with the reading is how many there are.
SameNumber(routes, out, d) == Cardinality(RoutesTo(routes, d)) = Cardinality(RoutesTo(out, d))

\* The table routes on its way to want: out and in are left to do, and the
\* destinations in gone are to be emptied.
Settling(routes, want, out, in, gone) ==
    /\ IsFiniteSet(routes) /\ IsFiniteSet(out)
    /\ \A r \in want : r \in in \/ Written(routes, r)
    /\ \A d \in gone : SameNumber(routes, out, d)

\* Only the routes to a destination count for it.
LEMMA SameRoutesTo ==
    ASSUME NEW A, NEW B, NEW d, \A q : q.dst = d => (q \in A <=> q \in B)
    PROVE  RoutesTo(A, d) = RoutesTo(B, d)
  BY DEF RoutesTo

\* A finite table has finitely many routes to a destination.
LEMMA RoutesToFinite ==
    ASSUME NEW A, IsFiniteSet(A), NEW d
    PROVE  IsFiniteSet(RoutesTo(A, d))
<1>1. RoutesTo(A, d) \in SUBSET A
  BY DEF RoutesTo
<1>q. QED  BY <1>1, FS_Subset

\* Two sets of one size that lose an element each are of one size again.
LEMMA BothShrink ==
    ASSUME NEW A, NEW B, NEW x, x \in B, IsFiniteSet(A), IsFiniteSet(B), Cardinality(A) = Cardinality(B), NEW q \in A
    PROVE  Cardinality(A \ {q}) = Cardinality(B \ {x})
<1>1. Cardinality(B \ {x}) = Cardinality(B) - 1
  BY FS_RemoveElement
<1>2. Cardinality(A \ {q}) = Cardinality(A) - 1
  BY FS_RemoveElement
<1>q. QED  BY <1>1, <1>2

\* Of two sets of one size, both are empty or neither is.
LEMMA BothFilled ==
    ASSUME NEW A, NEW B, B # {}, IsFiniteSet(A), IsFiniteSet(B), Cardinality(A) = Cardinality(B)
    PROVE  A # {}
<1>1. Cardinality(B) # 0
  BY FS_EmptySet
<1>q. QED  BY <1>1, FS_EmptySet

\* A route goes for every entry that was read.
LEMMA SettlesByRemoval ==
    ASSUME NEW routes, NEW want, NEW out, NEW in, NEW gone, Settling(routes, want, out, in, gone),
           NEW x \in out, \A r \in want : r.dst # x.dst,
           NEW after, IF RoutesTo(routes, x.dst) = {} THEN after = routes
                      ELSE \E q \in RoutesTo(routes, x.dst) : after = routes \ {q}
    PROVE  Settling(after, want, out \ {x}, in, gone)
<1>1. IsFiniteSet(routes) /\ IsFiniteSet(out)
  BY DEF Settling
<1>2. after \in SUBSET routes /\ \A q \in routes : q.dst # x.dst => q \in after
  BY DEF RoutesTo
<1>3. IsFiniteSet(after) /\ IsFiniteSet(out \ {x})
  BY <1>1, <1>2, FS_Subset, FS_RemoveElement
<1>4. ASSUME NEW r \in want, r \notin in PROVE Written(after, r)
  <2>1. Written(routes, r) /\ r.dst # x.dst
    BY <1>4 DEF Settling
  <2>2. OurRoute(r).dst = r.dst
    BY DEF OurRoute
  <2>q. QED  BY <1>2, <2>1, <2>2 DEF Written
<1>5. ASSUME NEW d \in gone PROVE SameNumber(after, out \ {x}, d)
  <2>1. Cardinality(RoutesTo(routes, d)) = Cardinality(RoutesTo(out, d))
    BY DEF Settling, SameNumber
  <2>2. CASE d # x.dst
    <3>1. RoutesTo(after, d) = RoutesTo(routes, d)
      BY <1>2, <2>2, SameRoutesTo
    <3>2. RoutesTo(out \ {x}, d) = RoutesTo(out, d)
      BY <2>2 DEF RoutesTo
    <3>q. QED  BY <2>1, <3>1, <3>2 DEF SameNumber
  <2>3. CASE d = x.dst
    <3>1. x \in RoutesTo(out, d) /\ RoutesTo(out \ {x}, d) = RoutesTo(out, d) \ {x}
      BY <2>3 DEF RoutesTo
    <3>2. IsFiniteSet(RoutesTo(routes, d)) /\ IsFiniteSet(RoutesTo(out, d))
      BY <1>1, RoutesToFinite
    <3>3. RoutesTo(routes, d) # {}
      BY <2>1, <3>1, <3>2, BothFilled
    <3>4. PICK q \in RoutesTo(routes, d) : after = routes \ {q}
      BY <2>3, <3>3
    <3>5. RoutesTo(after, d) = RoutesTo(routes, d) \ {q}
      BY <3>4 DEF RoutesTo
    <3>6. Cardinality(RoutesTo(routes, d) \ {q}) = Cardinality(RoutesTo(out, d) \ {x})
      BY <2>1, <3>1, <3>2, BothShrink
    <3>q. QED  BY <3>1, <3>5, <3>6 DEF SameNumber
  <2>q. QED  BY <2>2, <2>3
<1>q. QED  BY <1>3, <1>4, <1>5 DEF Settling

\* A wanted route is written.
LEMMA SettlesByReplacement ==
    ASSUME NEW routes, NEW want, NEW out, NEW in, NEW gone, Settling(routes, want, out, in, gone),
           NEW x \in want, \A r \in want : r.dst = x.dst => r = x, x.dst \notin gone,
           NEW after, after = {q \in routes : q.dst # x.dst \/ q.kind \in {"metric", "kernel"}} \cup {OurRoute(x)}
    PROVE  Settling(after, want, out, in \ {x}, gone)
<1>1. IsFiniteSet(routes) /\ IsFiniteSet(out)
  BY DEF Settling
<1> DEFINE stay == {q \in routes : q.dst # x.dst \/ q.kind \in {"metric", "kernel"}}
<1>2. IsFiniteSet(after)
  <2>1. stay \in SUBSET routes
    OBVIOUS
  <2>2. IsFiniteSet(stay)
    BY <1>1, <2>1, FS_Subset
  <2> HIDE DEF stay
  <2>3. IsFiniteSet(stay \cup {OurRoute(x)})
    BY <2>2, FS_AddElement
  <2>q. QED  BY <2>3 DEF stay
<1>3. \A r : OurRoute(r).dst = r.dst
  BY DEF OurRoute
<1>4. \A q : q.dst # x.dst => (q \in after <=> q \in routes)
  BY <1>3
<1>5. ASSUME NEW r \in want, r \notin in \ {x} PROVE Written(after, r)
  <2>1. CASE r = x
    BY <1>3, <2>1 DEF Written
  <2>2. CASE r # x
    <3>1. Written(routes, r) /\ r.dst # x.dst
      BY <1>5, <2>2 DEF Settling
    <3>q. QED  BY <1>3, <1>4, <3>1 DEF Written
  <2>q. QED  BY <2>1, <2>2
<1>6. ASSUME NEW d \in gone PROVE SameNumber(after, out, d)
  <2>1. RoutesTo(after, d) = RoutesTo(routes, d)
    BY <1>4, SameRoutesTo
  <2>q. QED  BY <2>1 DEF Settling, SameNumber
<1>q. QED  BY <1>1, <1>2, <1>5, <1>6 DEF Settling

\* Once nothing is left to take out, routes may go as long as the written ones stay.
LEMMA SettlesByLosing ==
    ASSUME NEW routes, NEW want, NEW in, NEW gone, Settling(routes, want, {}, in, gone),
           NEW after \in SUBSET routes, \A r \in want : OurRoute(r) \in routes => OurRoute(r) \in after
    PROVE  Settling(after, want, {}, in, gone)
<1>1. IsFiniteSet(routes) /\ IsFiniteSet({})
  BY FS_EmptySet DEF Settling
<1>2. IsFiniteSet(after)
  BY <1>1, FS_Subset
<1>3. \A r \in want : r \in in \/ Written(after, r)
  BY DEF Settling, Written
<1>4. ASSUME NEW d \in gone PROVE SameNumber(after, {}, d)
  <2>1. RoutesTo({}, d) = {}
    BY DEF RoutesTo
  <2>2. Cardinality(RoutesTo(routes, d)) = 0
    BY <2>1, FS_EmptySet DEF Settling, SameNumber
  <2>3. RoutesTo(routes, d) = {}
    BY <1>1, <2>2, RoutesToFinite, FS_EmptySet
  <2>4. RoutesTo(after, d) = {}
    BY <2>3 DEF RoutesTo
  <2>q. QED  BY <2>1, <2>4 DEF SameNumber
<1>q. QED  BY <1>1, <1>2, <1>3, <1>4 DEF Settling

\* Nothing left to do: the table is what is wanted, but for what it may not touch.
LEMMA Settled ==
    ASSUME NEW routes, NEW want, NEW gone, Settling(routes, want, {}, {}, gone)
    PROVE  /\ \A r \in want : Written(routes, r)
           /\ \A d \in gone : RoutesTo(routes, d) = {}
<1>1. IsFiniteSet(routes)
  BY DEF Settling
<1>2. ASSUME NEW d \in gone PROVE RoutesTo(routes, d) = {}
  <2>1. RoutesTo({}, d) = {}
    BY DEF RoutesTo
  <2>2. Cardinality(RoutesTo(routes, d)) = 0
    BY <2>1, FS_EmptySet DEF Settling, SameNumber
  <2>q. QED  BY <1>1, <2>2, RoutesToFinite, FS_EmptySet
<1>q. QED  BY <1>2 DEF Settling
----------------------------------------------------------------------------
(* Linux: the whole host on its way to what is asked for.                  *)

MainWant == {r \in asked.routes : ~r.exit}
TableWant == IF Linux!hasExitRoutes(asked.routes) THEN asked.routes ELSE {}

\* The kernel may keep a route of its own to an address of the TUN that nobody asked
\* for; every other unwanted destination of the main table is to be emptied.
Spared == {PrefixOf[a] : a \in HostAddrs} \ Linux!Destinations(asked.routes)
MainGone == {d \in Dsts : d \notin Linux!Destinations(MainWant) /\ d \notin Spared}
TableGone == {d \in Dsts : d \notin Linux!Destinations(TableWant)}

\* What is not as asked for is left to a loop that will set it right.
LinuxSettles ==
    /\ kernel.rules \subseteq Linux!desiredLinuxRules(asked.routes) \cup LinuxLeft("rules out")
    /\ Linux!desiredLinuxRules(asked.routes) \subseteq kernel.rules \cup LinuxLeft("rules in")
    /\ kernel.addrs \subseteq asked.addrs \cup LinuxLeft("addrs out")
    /\ asked.addrs \subseteq kernel.addrs \cup LinuxLeft("addrs in")
    /\ Settling(kernel.main, MainWant, LinuxLeft("main out"), LinuxLeft("main in"), MainGone)
    /\ Settling(kernel.table, TableWant, LinuxLeft("table out"), LinuxLeft("table in"), TableGone)

\* The wants of a call do not change while it runs.
LEMMA SameWants ==
    ASSUME UNCHANGED asked
    PROVE  MainWant' = MainWant /\ TableWant' = TableWant /\ MainGone' = MainGone /\ TableGone' = TableGone
  BY DEF MainWant, TableWant, MainGone, TableGone, Spared

\* The parts of LinuxSettles after a step that keeps the configuration.
LEMMA SettlesNext ==
    ASSUME UNCHANGED asked,
           kernel'.rules \subseteq Linux!desiredLinuxRules(asked.routes) \cup LinuxLeft("rules out")',
           Linux!desiredLinuxRules(asked.routes) \subseteq kernel'.rules \cup LinuxLeft("rules in")',
           kernel'.addrs \subseteq asked.addrs \cup LinuxLeft("addrs out")',
           asked.addrs \subseteq kernel'.addrs \cup LinuxLeft("addrs in")',
           Settling(kernel'.main, MainWant, LinuxLeft("main out")', LinuxLeft("main in")', MainGone),
           Settling(kernel'.table, TableWant, LinuxLeft("table out")', LinuxLeft("table in")', TableGone)
    PROVE  LinuxSettles'
<1>1. Settling(kernel.main, MainWant, LinuxLeft("main out"), LinuxLeft("main in"), MainGone)'
  BY SameWants DEF Settling, Written, SameNumber
<1>2. Settling(kernel.table, TableWant, LinuxLeft("table out"), LinuxLeft("table in"), TableGone)'
  BY SameWants DEF Settling, Written, SameNumber
<1>q. QED  BY <1>1, <1>2 DEF LinuxSettles

\* A round of an undisturbed Configure that handles x.
CleanRound(x) ==
    /\ LinuxInv /\ AskedSound(asked) /\ LinuxSettles
    /\ pc \in LinuxLoops \ {"verify"} /\ x \in todo
    /\ UNCHANGED <<snap, asked>>
    /\ \A l \in LinuxLoops : LinuxLeft(l)' = IF l = pc THEN todo \ {x} ELSE LinuxLeft(l)

\* What a round starts from, and what it leaves to its own loop and to the others.
LEMMA CleanRoundFacts ==
    ASSUME NEW x, CleanRound(x)
    PROVE  /\ kernel \in Kernels /\ asked \in Askeds /\ AskedSound(asked) /\ UNCHANGED asked
           /\ x \in Linux!Work(pc, snap, asked)
           /\ \A l \in LinuxLoops : pc = l => x \in LinuxLeft(l) /\ LinuxLeft(l)' = LinuxLeft(l) \ {x}
           /\ \A l \in LinuxLoops : pc # l => LinuxLeft(l)' = LinuxLeft(l)
<1>1. /\ kernel \in Kernels /\ asked \in Askeds /\ AskedSound(asked) /\ UNCHANGED asked
      /\ x \in Linux!Work(pc, snap, asked)
  BY DEF CleanRound, LinuxInv, LinuxTypeOK
<1>2. x \in todo /\ \A l \in LinuxLoops : LinuxLeft(l)' = IF l = pc THEN todo \ {x} ELSE LinuxLeft(l)
  BY DEF CleanRound
<1>3. \A l : pc = l => LinuxLeft(l) = todo
  BY DEF LinuxLeft
<1>q. QED  BY <1>1, <1>2, <1>3

\* The loops of the Linux Configure before the verification.
LEMMA AllLoops ==
    {"rules out", "addrs in", "main out", "main in", "table out", "table in", "rules in", "addrs out"} \subseteq LinuxLoops
  BY DEF LinuxLoops

\* What the loops other than the running one have still to do.
LEMMA OtherLefts ==
    ASSUME NEW x, CleanRound(x)
    PROVE  /\ pc # "rules out" => LinuxLeft("rules out")' = LinuxLeft("rules out")
           /\ pc # "addrs in" => LinuxLeft("addrs in")' = LinuxLeft("addrs in")
           /\ pc # "main out" => LinuxLeft("main out")' = LinuxLeft("main out")
           /\ pc # "main in" => LinuxLeft("main in")' = LinuxLeft("main in")
           /\ pc # "table out" => LinuxLeft("table out")' = LinuxLeft("table out")
           /\ pc # "table in" => LinuxLeft("table in")' = LinuxLeft("table in")
           /\ pc # "rules in" => LinuxLeft("rules in")' = LinuxLeft("rules in")
           /\ pc # "addrs out" => LinuxLeft("addrs out")' = LinuxLeft("addrs out")
  BY CleanRoundFacts, AllLoops

\* The parts of LinuxSettles before a round.
LEMMA SettlesFacts ==
    ASSUME NEW x, CleanRound(x)
    PROVE  /\ kernel.rules \subseteq Linux!desiredLinuxRules(asked.routes) \cup LinuxLeft("rules out")
           /\ Linux!desiredLinuxRules(asked.routes) \subseteq kernel.rules \cup LinuxLeft("rules in")
           /\ kernel.addrs \subseteq asked.addrs \cup LinuxLeft("addrs out")
           /\ asked.addrs \subseteq kernel.addrs \cup LinuxLeft("addrs in")
           /\ Settling(kernel.main, MainWant, LinuxLeft("main out"), LinuxLeft("main in"), MainGone)
           /\ Settling(kernel.table, TableWant, LinuxLeft("table out"), LinuxLeft("table in"), TableGone)
  BY DEF CleanRound, LinuxSettles

\* The rounds, one loop each: a rule that is not wanted goes.
LEMMA RulesOutSettles ==
    ASSUME NEW x, CleanRound(x), pc = "rules out", kernel' \in Linux!ruleDel(kernel, x)
    PROVE  LinuxSettles'
<1>1. /\ kernel'.rules = kernel.rules \ {x} /\ kernel'.addrs = kernel.addrs
      /\ kernel'.main = kernel.main /\ kernel'.table = kernel.table
  <2>1. kernel \in Kernels
    BY CleanRoundFacts
  <2>q. QED  BY <2>1, RuleDelFields
<1>2. x \notin Linux!desiredLinuxRules(asked.routes)
  BY CleanRoundFacts, WorkItems
<1>3. LinuxLeft("rules out")' = LinuxLeft("rules out") \ {x}
  BY CleanRoundFacts, AllLoops
<1>q. QED  BY <1>1, <1>2, <1>3, CleanRoundFacts, OtherLefts, SettlesFacts, SettlesNext

\* A wanted address comes.
LEMMA AddrsInSettles ==
    ASSUME NEW x, CleanRound(x), pc = "addrs in", kernel' \in Linux!addrReplace(kernel, x)
    PROVE  LinuxSettles'
<1>1. /\ kernel'.rules = kernel.rules /\ kernel'.addrs = kernel.addrs \cup {x}
      /\ kernel'.main = kernel.main /\ kernel'.table = kernel.table
  <2>1. kernel \in Kernels
    BY CleanRoundFacts
  <2>q. QED  BY <2>1, AddrReplaceFields
<1>2. x \in asked.addrs
  BY CleanRoundFacts, WorkItems
<1>3. LinuxLeft("addrs in")' = LinuxLeft("addrs in") \ {x}
  BY CleanRoundFacts, AllLoops
<1>q. QED  BY <1>1, <1>2, <1>3, CleanRoundFacts, OtherLefts, SettlesFacts, SettlesNext

\* A wanted rule comes.
LEMMA RulesInSettles ==
    ASSUME NEW x, CleanRound(x), pc = "rules in", kernel' \in Linux!ruleAdd(kernel, x)
    PROVE  LinuxSettles'
<1>1. /\ kernel'.rules = kernel.rules \cup {x} /\ kernel'.addrs = kernel.addrs
      /\ kernel'.main = kernel.main /\ kernel'.table = kernel.table
  <2>1. kernel \in Kernels
    BY CleanRoundFacts
  <2>q. QED  BY <2>1, RuleAddFields
<1>2. x \in Linux!desiredLinuxRules(asked.routes)
  <2>1. x \in Linux!Work("rules in", snap, asked)
    BY CleanRoundFacts
  <2>q. QED  BY <2>1, WorkItems
<1>3. LinuxLeft("rules in")' = LinuxLeft("rules in") \ {x}
  BY CleanRoundFacts, AllLoops
<1>q. QED  BY <1>1, <1>2, <1>3, CleanRoundFacts, OtherLefts, SettlesFacts, SettlesNext

\* A route of the main table goes, whichever of its destination the kernel picks.
LEMMA MainOutSettles ==
    ASSUME NEW x, CleanRound(x), pc = "main out", kernel' \in Linux!routeDel(kernel, "main", x.dst)
    PROVE  LinuxSettles'
<1>0. kernel \in Kernels
  BY CleanRoundFacts
<1>1. kernel'.rules = kernel.rules /\ kernel'.addrs = kernel.addrs /\ kernel'.table = kernel.table
  BY <1>0, MainDelFields
<1>2. IF RoutesTo(kernel.main, x.dst) = {} THEN kernel'.main = kernel.main
      ELSE \E q \in RoutesTo(kernel.main, x.dst) : kernel'.main = kernel.main \ {q}
  BY <1>0 DEF Kernels, Linux!routeDel, RoutesTo
<1>3. \A r \in MainWant : r.dst # x.dst
  <2>1. x \in Linux!Work("main out", snap, asked)
    BY CleanRoundFacts
  <2>2. \A r \in asked.routes : ~r.exit => r.dst # x.dst
    BY <2>1, WorkItems
  <2>q. QED  BY <2>2 DEF MainWant
<1>4. x \in LinuxLeft("main out") /\ LinuxLeft("main out")' = LinuxLeft("main out") \ {x}
  BY CleanRoundFacts, AllLoops
<1>5. Settling(kernel'.main, MainWant, LinuxLeft("main out") \ {x}, LinuxLeft("main in"), MainGone)
  <2>1. Settling(kernel.main, MainWant, LinuxLeft("main out"), LinuxLeft("main in"), MainGone)
    BY SettlesFacts
  <2>q. QED  BY <1>2, <1>3, <1>4, <2>1, SettlesByRemoval
<1>q. QED  BY <1>1, <1>4, <1>5, CleanRoundFacts, OtherLefts, SettlesFacts, SettlesNext

\* A route of the exit table goes, whichever of its destination the kernel picks.
LEMMA TableOutSettles ==
    ASSUME NEW x, CleanRound(x), pc = "table out", kernel' \in Linux!routeDel(kernel, "table", x.dst)
    PROVE  LinuxSettles'
<1>0. kernel \in Kernels
  BY CleanRoundFacts
<1>1. kernel'.rules = kernel.rules /\ kernel'.addrs = kernel.addrs /\ kernel'.main = kernel.main
  BY <1>0, TableDelFields
<1>2. IF RoutesTo(kernel.table, x.dst) = {} THEN kernel'.table = kernel.table
      ELSE \E q \in RoutesTo(kernel.table, x.dst) : kernel'.table = kernel.table \ {q}
  BY <1>0 DEF Kernels, Linux!routeDel, RoutesTo
<1>3. \A r \in TableWant : r.dst # x.dst
  BY CleanRoundFacts, WorkItems DEF TableWant
<1>4. x \in LinuxLeft("table out") /\ LinuxLeft("table out")' = LinuxLeft("table out") \ {x}
  BY CleanRoundFacts, AllLoops
<1>5. Settling(kernel'.table, TableWant, LinuxLeft("table out") \ {x}, LinuxLeft("table in"), TableGone)
  <2>1. Settling(kernel.table, TableWant, LinuxLeft("table out"), LinuxLeft("table in"), TableGone)
    BY SettlesFacts
  <2>q. QED  BY <1>2, <1>3, <1>4, <2>1, SettlesByRemoval
<1>q. QED  BY <1>1, <1>4, <1>5, CleanRoundFacts, OtherLefts, SettlesFacts, SettlesNext

\* A wanted route is written into the main table.
LEMMA MainInSettles ==
    ASSUME NEW x, CleanRound(x), pc = "main in", kernel' \in Linux!routeReplace(kernel, "main", x)
    PROVE  LinuxSettles'
<1>0. kernel \in Kernels
  BY CleanRoundFacts
<1>1. kernel'.rules = kernel.rules /\ kernel'.addrs = kernel.addrs /\ kernel'.table = kernel.table
  BY <1>0, MainReplaceFields
<1>2. kernel'.main = {q \in kernel.main : q.dst # x.dst \/ q.kind \in {"metric", "kernel"}} \cup {OurRoute(x)}
  BY <1>0 DEF Kernels, Linux!routeReplace, OurRoute
<1>3. x \in MainWant /\ \A r \in MainWant : r.dst = x.dst => r = x
  BY CleanRoundFacts, WorkItems DEF MainWant, AskedSound
<1>4. x.dst \notin MainGone
  BY <1>3 DEF MainGone, Linux!Destinations
<1>5. LinuxLeft("main in")' = LinuxLeft("main in") \ {x}
  BY CleanRoundFacts, AllLoops
<1>6. Settling(kernel'.main, MainWant, LinuxLeft("main out"), LinuxLeft("main in") \ {x}, MainGone)
  <2>1. Settling(kernel.main, MainWant, LinuxLeft("main out"), LinuxLeft("main in"), MainGone)
    BY SettlesFacts
  <2>q. QED  BY <1>2, <1>3, <1>4, <2>1, SettlesByReplacement
<1>q. QED  BY <1>1, <1>5, <1>6, CleanRoundFacts, OtherLefts, SettlesFacts, SettlesNext

\* A wanted route is written into the exit table.
LEMMA TableInSettles ==
    ASSUME NEW x, CleanRound(x), pc = "table in", kernel' \in Linux!routeReplace(kernel, "table", x)
    PROVE  LinuxSettles'
<1>0. kernel \in Kernels
  BY CleanRoundFacts
<1>1. kernel'.rules = kernel.rules /\ kernel'.addrs = kernel.addrs /\ kernel'.main = kernel.main
  BY <1>0, TableReplaceFields
<1>2. kernel'.table = {q \in kernel.table : q.dst # x.dst \/ q.kind \in {"metric", "kernel"}} \cup {OurRoute(x)}
  BY <1>0 DEF Kernels, Linux!routeReplace, OurRoute
<1>3. x \in TableWant /\ \A r \in TableWant : r.dst = x.dst => r = x
  <2>1. x \in TableWant
    <3>1. Linux!desiredLinuxRoutes(asked.routes).table = TableWant
      BY DEF Linux!desiredLinuxRoutes, TableWant
    <3>2. Linux!Work("table in", snap, asked) \subseteq Linux!desiredLinuxRoutes(asked.routes).table
      BY DEF Linux!Work, Linux!WrongRoutes
    <3>q. QED  BY <3>1, <3>2, CleanRoundFacts
  <2>2. TableWant \subseteq asked.routes
    BY DEF TableWant
  <2>q. QED  BY <2>1, <2>2, CleanRoundFacts DEF AskedSound
<1>4. x.dst \notin TableGone
  BY <1>3 DEF TableGone, Linux!Destinations
<1>5. LinuxLeft("table in")' = LinuxLeft("table in") \ {x}
  BY CleanRoundFacts, AllLoops
<1>6. Settling(kernel'.table, TableWant, LinuxLeft("table out"), LinuxLeft("table in") \ {x}, TableGone)
  <2>1. Settling(kernel.table, TableWant, LinuxLeft("table out"), LinuxLeft("table in"), TableGone)
    BY SettlesFacts
  <2>q. QED  BY <1>2, <1>3, <1>4, <2>1, SettlesByReplacement
<1>q. QED  BY <1>1, <1>5, <1>6, CleanRoundFacts, OtherLefts, SettlesFacts, SettlesNext

\* When addresses go, no route is left to remove; at the verification nothing is left.
LEMMA AddrsOutOrder ==
    /\ pc = "addrs out" => LinuxLeft("main out") = {} /\ LinuxLeft("table out") = {}
    /\ pc = "verify" => \A l \in LinuxLoops \ {"verify"} : LinuxLeft(l) = {}
<1>1. /\ LinuxRank("rules out") = 1 /\ LinuxRank("addrs in") = 2 /\ LinuxRank("main out") = 3
      /\ LinuxRank("main in") = 4 /\ LinuxRank("table out") = 5 /\ LinuxRank("table in") = 6
      /\ LinuxRank("rules in") = 7 /\ LinuxRank("addrs out") = 8 /\ LinuxRank("verify") = 9
  BY DEF LinuxRank
<1>2. ~(8 < 3) /\ ~(8 < 5) /\ \A n \in 1 .. 9 : ~(9 < n)
  BY SMT
<1>3. pc = "addrs out" => LinuxLeft("main out") = {} /\ LinuxLeft("table out") = {}
  BY <1>1, <1>2, Zenon DEF LinuxLeft
<1>4. ASSUME pc = "verify", NEW l \in LinuxLoops \ {"verify"} PROVE LinuxLeft(l) = {}
  <2>1. LinuxRank(l) \in 1 .. 9 /\ LinuxRank(pc) = 9 /\ pc # l
    BY <1>1, <1>4, LinuxRanks
  <2>2. ~(LinuxRank(pc) < LinuxRank(l))
    BY <1>2, <2>1
  <2>q. QED  BY <2>1, <2>2 DEF LinuxLeft
<1>q. QED  BY <1>3, <1>4

\* An address that is not wanted goes, and the kernel drops the routes from it: none of
\* them is wanted, because a wanted route has a wanted source.
LEMMA AddrsOutSettles ==
    ASSUME NEW x, CleanRound(x), pc = "addrs out", kernel' \in Linux!addrDel(kernel, x)
    PROVE  LinuxSettles'
<1>1. /\ kernel'.rules = kernel.rules /\ kernel'.addrs = kernel.addrs \ {x}
      /\ kernel'.main \in SUBSET kernel.main /\ \A r \in kernel.main : r.src # x => r \in kernel'.main
      /\ kernel'.table \in SUBSET kernel.table /\ \A r \in kernel.table : r.src # x => r \in kernel'.table
  BY CleanRoundFacts, AddrDelFacts
<1>2. x \notin asked.addrs
  BY CleanRoundFacts, WorkItems
<1>3. \A r \in asked.routes : OurRoute(r).src # x
  BY <1>2, CleanRoundFacts DEF AskedSound, OurRoute
<1>4. MainWant \subseteq asked.routes /\ TableWant \subseteq asked.routes
  BY DEF MainWant, TableWant
<1>5. LinuxLeft("main out") = {} /\ LinuxLeft("table out") = {}
  BY AddrsOutOrder
<1>6. LinuxLeft("addrs out")' = LinuxLeft("addrs out") \ {x}
  BY CleanRoundFacts, AllLoops
<1>7. Settling(kernel'.main, MainWant, {}, LinuxLeft("main in"), MainGone)
  <2>1. Settling(kernel.main, MainWant, {}, LinuxLeft("main in"), MainGone)
    BY <1>5, SettlesFacts
  <2>2. \A r \in MainWant : OurRoute(r) \in kernel.main => OurRoute(r) \in kernel'.main
    BY <1>1, <1>3, <1>4
  <2>q. QED  BY <1>1, <2>1, <2>2, SettlesByLosing
<1>8. Settling(kernel'.table, TableWant, {}, LinuxLeft("table in"), TableGone)
  <2>1. Settling(kernel.table, TableWant, {}, LinuxLeft("table in"), TableGone)
    BY <1>5, SettlesFacts
  <2>2. \A r \in TableWant : OurRoute(r) \in kernel.table => OurRoute(r) \in kernel'.table
    BY <1>1, <1>3, <1>4
  <2>q. QED  BY <1>1, <2>1, <2>2, SettlesByLosing
<1>9. /\ LinuxLeft("main out")' = {} /\ LinuxLeft("table out")' = {}
      /\ LinuxLeft("main in")' = LinuxLeft("main in") /\ LinuxLeft("table in")' = LinuxLeft("table in")
  BY <1>5, OtherLefts
<1>10. /\ kernel'.rules \subseteq Linux!desiredLinuxRules(asked.routes) \cup LinuxLeft("rules out")'
       /\ Linux!desiredLinuxRules(asked.routes) \subseteq kernel'.rules \cup LinuxLeft("rules in")'
  BY <1>1, OtherLefts, SettlesFacts
<1>11. /\ kernel'.addrs \subseteq asked.addrs \cup LinuxLeft("addrs out")'
       /\ asked.addrs \subseteq kernel'.addrs \cup LinuxLeft("addrs in")'
  BY <1>1, <1>2, <1>6, OtherLefts, SettlesFacts
<1>q. QED  BY <1>7, <1>8, <1>9, <1>10, <1>11, CleanRoundFacts, SettlesNext
----------------------------------------------------------------------------
(* Linux: the first reading, and the verification.                         *)

\* What is true of the tables of any host.
Plain(k) ==
    /\ IsFiniteSet(k.main) /\ IsFiniteSet(k.table)
    /\ \A q \in k.table : q.kind # "kernel"

\* A wanted destination, and one that no address of the TUN has, is read in full.
LEMMA NotHidden ==
    ASSUME NEW k, NEW routes, NEW q, Linux!AddressRoute(k, q, routes)
    PROVE  /\ q.kind = "kernel" /\ q.dst \notin Linux!Destinations(routes)
           /\ \E a \in HostAddrs : q.dst = PrefixOf[a]
  BY DEF Linux!AddressRoute

\* The loops are given what stands between the host and the configuration.
LEMMA MainReading ==
    ASSUME NEW k \in Kernels, Plain(k), NEW cfg \in Askeds, NEW st, st = Linux!readInstalledState(k, cfg.routes),
           NEW want, want = {r \in cfg.routes : ~r.exit}, NEW gone,
           \A d \in gone : /\ d \notin Linux!Destinations(want)
                           /\ d \notin {PrefixOf[a] : a \in HostAddrs} \ Linux!Destinations(cfg.routes)
    PROVE  Settling(k.main, want, Linux!Work("main out", st, cfg), Linux!Work("main in", st, cfg), gone)
<1>1. st.main = {r \in k.main : ~Linux!AddressRoute(k, r, cfg.routes)}
  BY ReadType
<1>2. Linux!Work("main out", st, cfg) = {q \in st.main : q.dst \notin Linux!Destinations(want)}
  <2>1. Linux!desiredLinuxRoutes(cfg.routes).main = want
    BY DEF Linux!desiredLinuxRoutes
  <2>q. QED  BY <2>1 DEF Linux!Work, Linux!StaleRoutes
<1>3. IsFiniteSet(k.main) /\ IsFiniteSet(Linux!Work("main out", st, cfg))
  <2>1. IsFiniteSet(k.main) /\ Linux!Work("main out", st, cfg) \in SUBSET k.main
    BY <1>1, <1>2 DEF Plain
  <2>q. QED  BY <2>1, FS_Subset
<1>4. ASSUME NEW r \in want, r \notin Linux!Work("main in", st, cfg) PROVE Written(k.main, r)
  <2>1. {q \in st.main : q.dst = r.dst} = {OurRoute(r)}
    BY <1>4, WorkItems
  <2>2. r.dst \in Linux!Destinations(cfg.routes)
    BY DEF Linux!Destinations
  <2>3. \A q \in k.main : q.dst = r.dst => q \in st.main
    BY <1>1, <2>2, NotHidden
  <2>q. QED  BY <1>1, <2>1, <2>3 DEF Written
<1>5. ASSUME NEW d \in gone PROVE SameNumber(k.main, Linux!Work("main out", st, cfg), d)
  <2>1. ASSUME NEW q \in k.main, q.dst = d PROVE q \in st.main
    <3>1. CASE Linux!AddressRoute(k, q, cfg.routes)
      <4>1. d \notin Linux!Destinations(cfg.routes) /\ \E a \in HostAddrs : d = PrefixOf[a]
        BY <2>1, <3>1, NotHidden
      <4>2. d \in {PrefixOf[a] : a \in HostAddrs} \ Linux!Destinations(cfg.routes)
        BY <4>1
      <4>q. QED  BY <4>2
    <3>q. QED  BY <1>1, <3>1
  <2>2. RoutesTo(k.main, d) = RoutesTo(Linux!Work("main out", st, cfg), d)
    BY <1>1, <1>2, <2>1 DEF RoutesTo
  <2>q. QED  BY <2>2 DEF SameNumber
<1>q. QED  BY <1>3, <1>4, <1>5 DEF Settling

\* The same for the exit table.
LEMMA TableReading ==
    ASSUME NEW k \in Kernels, Plain(k), NEW cfg \in Askeds, NEW st, st = Linux!readInstalledState(k, cfg.routes),
           NEW want, want = IF Linux!hasExitRoutes(cfg.routes) THEN cfg.routes ELSE {}, NEW gone,
           \A d \in gone : d \notin Linux!Destinations(want)
    PROVE  Settling(k.table, want, Linux!Work("table out", st, cfg), Linux!Work("table in", st, cfg), gone)
<1>1. st.table = k.table
  <2>1. st.table = {r \in k.table : ~Linux!AddressRoute(k, r, cfg.routes)}
    BY ReadType
  <2>q. QED  BY <2>1, NotHidden DEF Plain
<1>2. Linux!Work("table out", st, cfg) = {q \in st.table : q.dst \notin Linux!Destinations(want)}
  <2>1. Linux!desiredLinuxRoutes(cfg.routes).table = want
    BY DEF Linux!desiredLinuxRoutes
  <2>q. QED  BY <2>1 DEF Linux!Work, Linux!StaleRoutes
<1>3. IsFiniteSet(k.table) /\ IsFiniteSet(Linux!Work("table out", st, cfg))
  <2>1. IsFiniteSet(k.table) /\ Linux!Work("table out", st, cfg) \in SUBSET k.table
    BY <1>1, <1>2 DEF Plain
  <2>q. QED  BY <2>1, FS_Subset
<1>4. ASSUME NEW r \in want, r \notin Linux!Work("table in", st, cfg) PROVE Written(k.table, r)
  <2>1. {q \in st.table : q.dst = r.dst} = {OurRoute(r)}
    BY <1>4, WorkItems
  <2>q. QED  BY <1>1, <2>1 DEF Written
<1>5. ASSUME NEW d \in gone PROVE SameNumber(k.table, Linux!Work("table out", st, cfg), d)
  <2>1. RoutesTo(k.table, d) = RoutesTo(Linux!Work("table out", st, cfg), d)
    BY <1>1, <1>2 DEF RoutesTo
  <2>q. QED  BY <2>1 DEF SameNumber
<1>q. QED  BY <1>3, <1>4, <1>5 DEF Settling

\* Configure starts from what it read, and the loops share out the difference.
LEMMA ConfigureSettles ==
    ASSUME LinuxInv, Plain(kernel), UNCHANGED kernel, asked' \in Askeds,
           snap' = Linux!readInstalledState(kernel, asked'.routes), Linux!GoOn(1, snap', asked')
    PROVE  LinuxSettles'
<1>1. kernel \in Kernels
  BY DEF LinuxInv, LinuxTypeOK
<1>2. \A l \in LinuxLoops : LinuxLeft(l)' = Linux!Work(l, snap', asked')
  <2>1. 1 \in 1 .. 9
    OBVIOUS
  <2>2. \A n \in 1 .. 9 : ~(n < 1)
    OBVIOUS
  <2>3. ASSUME NEW l \in LinuxLoops PROVE LinuxLeft(l)' = Linux!Work(l, snap', asked')
    <3>1. LinuxLeft(l)' = IF LinuxRank(l) < 1 THEN {} ELSE Linux!Work(l, snap', asked')
      BY <2>1, LinuxLeftAfter
    <3>2. ~(LinuxRank(l) < 1)
      BY <2>2, LinuxRanks, Zenon
    <3>q. QED  BY <3>1, <3>2
  <2>q. QED  BY <2>3
<1>3. /\ LinuxLeft("rules out")' = Linux!Work("rules out", snap', asked')
      /\ LinuxLeft("rules in")' = Linux!Work("rules in", snap', asked')
      /\ LinuxLeft("addrs out")' = Linux!Work("addrs out", snap', asked')
      /\ LinuxLeft("addrs in")' = Linux!Work("addrs in", snap', asked')
      /\ LinuxLeft("main out")' = Linux!Work("main out", snap', asked')
      /\ LinuxLeft("main in")' = Linux!Work("main in", snap', asked')
      /\ LinuxLeft("table out")' = Linux!Work("table out", snap', asked')
      /\ LinuxLeft("table in")' = Linux!Work("table in", snap', asked')
  BY <1>2, AllLoops
<1>4. snap'.rules = kernel.rules /\ snap'.addrs = kernel.addrs
  BY <1>1, ReadType
<1>5. /\ Linux!Work("rules out", snap', asked') = snap'.rules \ Linux!desiredLinuxRules(asked'.routes)
      /\ Linux!Work("rules in", snap', asked') = Linux!desiredLinuxRules(asked'.routes) \ snap'.rules
      /\ Linux!Work("addrs out", snap', asked') = snap'.addrs \ asked'.addrs
      /\ Linux!Work("addrs in", snap', asked') = asked'.addrs \ snap'.addrs
  BY DEF Linux!Work
<1>6. Settling(kernel.main, MainWant', LinuxLeft("main out")', LinuxLeft("main in")', MainGone')
  <2>1. MainWant' = {r \in asked'.routes : ~r.exit}
    BY DEF MainWant
  <2>2. \A d \in MainGone' : /\ d \notin Linux!Destinations(MainWant')
                             /\ d \notin {PrefixOf[a] : a \in HostAddrs} \ Linux!Destinations(asked'.routes)
    BY DEF MainGone, Spared
  <2>q. QED  BY <1>1, <1>3, <2>1, <2>2, MainReading
<1>7. Settling(kernel.table, TableWant', LinuxLeft("table out")', LinuxLeft("table in")', TableGone')
  <2>1. TableWant' = IF Linux!hasExitRoutes(asked'.routes) THEN asked'.routes ELSE {}
    BY DEF TableWant
  <2>2. \A d \in TableGone' : d \notin Linux!Destinations(TableWant')
    BY DEF TableGone
  <2>q. QED  BY <1>1, <1>3, <2>1, <2>2, TableReading
<1>8. /\ Settling(kernel.main, MainWant, LinuxLeft("main out"), LinuxLeft("main in"), MainGone)'
      /\ Settling(kernel.table, TableWant, LinuxLeft("table out"), LinuxLeft("table in"), TableGone)'
  BY <1>6, <1>7 DEF Settling, Written, SameNumber
<1>9. /\ kernel'.rules \subseteq Linux!desiredLinuxRules(asked'.routes) \cup LinuxLeft("rules out")'
      /\ Linux!desiredLinuxRules(asked'.routes) \subseteq kernel'.rules \cup LinuxLeft("rules in")'
      /\ kernel'.addrs \subseteq asked'.addrs \cup LinuxLeft("addrs out")'
      /\ asked'.addrs \subseteq kernel'.addrs \cup LinuxLeft("addrs in")'
  <2> DEFINE rules == Linux!desiredLinuxRules(asked'.routes)
  <2>1. LinuxLeft("rules out")' = kernel.rules \ rules /\ LinuxLeft("rules in")' = rules \ kernel.rules
    BY <1>3, <1>4, <1>5
  <2>2. LinuxLeft("addrs out")' = kernel.addrs \ asked'.addrs /\ LinuxLeft("addrs in")' = asked'.addrs \ kernel.addrs
    BY <1>3, <1>4, <1>5
  <2> HIDE DEF rules
  <2>3. kernel'.rules \subseteq rules \cup LinuxLeft("rules out")' /\ rules \subseteq kernel'.rules \cup LinuxLeft("rules in")'
    BY <2>1
  <2>4. /\ kernel'.addrs \subseteq asked'.addrs \cup LinuxLeft("addrs out")'
        /\ asked'.addrs \subseteq kernel'.addrs \cup LinuxLeft("addrs in")'
    BY <2>2
  <2>q. QED  BY <2>3, <2>4 DEF rules
<1>q. QED  BY <1>8, <1>9 DEF LinuxSettles

\* A table is verified when every wanted destination has its route and, if it is a
\* required one, no other beside it, and no other destination is read.
LEMMA TableVerifies ==
    ASSUME NEW routes, NEW st, NEW want, \A r \in want : Written(routes, r),
           \A r \in want : \A q : q.dst = r.dst => (q \in st <=> q \in routes),
           \A q \in st : q.dst \in Linux!Destinations(want),
           \A r \in want, q \in routes : ~r.opt /\ q.dst = r.dst => q.kind \notin {"metric", "kernel"}
    PROVE  Linux!verifyLinuxTable(st, want)
<1>1. Linux!StaleRoutes(st, want) = {}
  BY DEF Linux!StaleRoutes
<1>2. ASSUME NEW r \in want, ~r.opt PROVE {q \in st : q.dst = r.dst} = {[dst |-> r.dst, src |-> r.src, kind |-> "ours"]}
  <2>1. OurRoute(r).dst = r.dst
    BY DEF OurRoute
  <2>2. OurRoute(r) \in routes /\ \A q \in routes : q.dst = r.dst => q = OurRoute(r)
    BY <1>2 DEF Written
  <2>3. {q \in st : q.dst = r.dst} = {OurRoute(r)}
    BY <2>1, <2>2
  <2>q. QED  BY <2>3 DEF OurRoute
<1>3. Linux!WrongRoutes(st, Linux!Required(want)) = {}
  BY <1>2 DEF Linux!WrongRoutes, Linux!Required
<1>q. QED  BY <1>1, <1>3 DEF Linux!verifyLinuxTable

\* What may stand in the way of an undisturbed call.
Excused ==
    \/ \E r \in Linux!Required(asked.routes), q \in kernel.main \cup kernel.table :
          q.dst = r.dst /\ q.kind \in {"metric", "kernel"}
    \/ \E q \in kernel.main, a \in HostAddrs :
          q.dst = PrefixOf[a] /\ q.dst \notin Linux!Destinations(asked.routes)

\* With nothing left to do the verification finds what is asked for, unless something
\* that Configure may not touch stands in the way.
LEMMA SettledVerifies ==
    ASSUME LinuxInv, Plain(kernel), LinuxSettles, pc = "verify", ~Excused
    PROVE  Linux!verifyLinuxState(asked, Linux!readInstalledState(kernel, asked.routes))
<1> DEFINE st == Linux!readInstalledState(kernel, asked.routes)
<1>1. kernel \in Kernels /\ asked \in Askeds
  BY DEF LinuxInv, LinuxTypeOK
<1>2. /\ LinuxLeft("rules out") = {} /\ LinuxLeft("rules in") = {} /\ LinuxLeft("addrs out") = {}
      /\ LinuxLeft("addrs in") = {} /\ LinuxLeft("main out") = {} /\ LinuxLeft("main in") = {}
      /\ LinuxLeft("table out") = {} /\ LinuxLeft("table in") = {}
  <2>1. {"rules out", "addrs in", "main out", "main in", "table out", "table in", "rules in", "addrs out"}
           \subseteq LinuxLoops \ {"verify"}
    BY DEF LinuxLoops
  <2>q. QED  BY <2>1, AddrsOutOrder
<1>3. st.addrs = kernel.addrs /\ st.rules = kernel.rules /\ st.main \subseteq kernel.main
      /\ \A q \in kernel.main : q \in st.main \/ Linux!AddressRoute(kernel, q, asked.routes)
  BY <1>1, ReadType
<1>4. st.table = kernel.table
  <2>1. st.table = {r \in kernel.table : ~Linux!AddressRoute(kernel, r, asked.routes)}
    BY <1>1, ReadType
  <2>q. QED  BY <2>1, NotHidden DEF Plain
<1> HIDE DEF st
<1>5. st.addrs = asked.addrs /\ st.rules = Linux!desiredLinuxRules(asked.routes)
  BY <1>2, <1>3 DEF LinuxSettles
<1>6. \A q \in kernel.main \cup kernel.table : q.dst \in Dsts
  BY <1>1 DEF Kernels, Linux!KernelRoutes
<1>7. \A r \in asked.routes, q \in kernel.main \cup kernel.table :
          ~r.opt /\ q.dst = r.dst => q.kind \notin {"metric", "kernel"}
  BY DEF Excused, Linux!Required
<1>8. Linux!verifyLinuxTable(st.main, MainWant)
  <2>1. Settling(kernel.main, MainWant, {}, {}, MainGone)
    BY <1>2 DEF LinuxSettles
  <2>2. (\A r \in MainWant : Written(kernel.main, r)) /\ \A d \in MainGone : RoutesTo(kernel.main, d) = {}
    BY <2>1, Settled
  <2>3. MainWant \subseteq asked.routes
    BY DEF MainWant
  <2>4. ASSUME NEW r \in MainWant, NEW q, q.dst = r.dst PROVE q \in st.main <=> q \in kernel.main
    <3>1. q.dst \in Linux!Destinations(asked.routes)
      BY <2>3, <2>4 DEF Linux!Destinations
    <3>q. QED  BY <1>3, <3>1, NotHidden
  <2>5. ASSUME NEW q \in st.main PROVE q.dst \in Linux!Destinations(MainWant)
    <3>1. q \in kernel.main /\ q.dst \in Dsts
      BY <1>3, <1>6
    <3>2. q.dst \notin Spared
      BY <3>1 DEF Excused, Spared
    <3>3. q.dst \notin MainGone
      BY <2>2, <3>1 DEF RoutesTo
    <3>q. QED  BY <3>1, <3>2, <3>3 DEF MainGone
  <2>6. \A r \in MainWant, q \in kernel.main : ~r.opt /\ q.dst = r.dst => q.kind \notin {"metric", "kernel"}
    BY <1>7, <2>3
  <2>q. QED  BY <2>2, <2>4, <2>5, <2>6, TableVerifies
<1>9. Linux!verifyLinuxTable(st.table, TableWant)
  <2>1. Settling(kernel.table, TableWant, {}, {}, TableGone)
    BY <1>2 DEF LinuxSettles
  <2>2. (\A r \in TableWant : Written(kernel.table, r)) /\ \A d \in TableGone : RoutesTo(kernel.table, d) = {}
    BY <2>1, Settled
  <2>3. TableWant \subseteq asked.routes
    BY DEF TableWant
  <2>4. \A r \in TableWant : \A q : q.dst = r.dst => (q \in st.table <=> q \in kernel.table)
    BY <1>4
  <2>5. ASSUME NEW q \in st.table PROVE q.dst \in Linux!Destinations(TableWant)
    <3>1. q \in kernel.table /\ q.dst \in Dsts
      BY <1>4, <1>6
    <3>2. q.dst \notin TableGone
      BY <2>2, <3>1 DEF RoutesTo
    <3>q. QED  BY <3>1, <3>2 DEF TableGone
  <2>6. \A r \in TableWant, q \in kernel.table : ~r.opt /\ q.dst = r.dst => q.kind \notin {"metric", "kernel"}
    BY <1>7, <2>3
  <2>q. QED  BY <2>2, <2>4, <2>5, <2>6, TableVerifies
<1>10. /\ Linux!desiredLinuxRoutes(asked.routes).main = MainWant
       /\ Linux!desiredLinuxRoutes(asked.routes).table = TableWant
  BY DEF Linux!desiredLinuxRoutes, MainWant, TableWant
<1>11. Linux!verifyLinuxState(asked, st)
  BY <1>5, <1>8, <1>9, <1>10 DEF Linux!verifyLinuxState
<1>q. QED  BY <1>11 DEF st
----------------------------------------------------------------------------
(* Linux: every step.                                                      *)

\* A table that loses routes, or gets one that is not the kernel's, stays plain.
LEMMA PlainGrows ==
    ASSUME NEW k, Plain(k), NEW k2, NEW y, NEW z, z.kind # "kernel",
           k2.main \in SUBSET (k.main \cup {y}), k2.table \in SUBSET (k.table \cup {z})
    PROVE  Plain(k2)
<1>1. IsFiniteSet(k.main \cup {y}) /\ IsFiniteSet(k.table \cup {z})
  BY FS_AddElement DEF Plain
<1>2. IsFiniteSet(k2.main) /\ IsFiniteSet(k2.table)
  BY <1>1, FS_Subset
<1>q. QED  BY <1>2 DEF Plain

\* A table that only loses routes stays plain.
LEMMA PlainShrinks ==
    ASSUME NEW k, Plain(k), NEW k2, k2.main \in SUBSET k.main, k2.table \in SUBSET k.table
    PROVE  Plain(k2)
<1>1. IsFiniteSet(k2.main) /\ IsFiniteSet(k2.table)
  BY FS_Subset DEF Plain
<1>q. QED  BY <1>1 DEF Plain

\* Every request leaves the tables plain.
LEMMA RequestsPlain ==
    ASSUME NEW k \in Kernels, Plain(k), NEW x, NEW k2
    PROVE  /\ k2 \in Linux!ruleDel(k, x) => Plain(k2)
           /\ k2 \in Linux!ruleAdd(k, x) => Plain(k2)
           /\ k2 \in Linux!addrReplace(k, x) => Plain(k2)
           /\ k2 \in Linux!addrDel(k, x) => Plain(k2)
           /\ k2 \in Linux!routeDel(k, "main", x.dst) => Plain(k2)
           /\ k2 \in Linux!routeDel(k, "table", x.dst) => Plain(k2)
           /\ k2 \in Linux!routeReplace(k, "main", x) => Plain(k2)
           /\ k2 \in Linux!routeReplace(k, "table", x) => Plain(k2)
<1>1. ASSUME k2 \in Linux!ruleDel(k, x) PROVE Plain(k2)
  <2>1. k2.main = k.main /\ k2.table = k.table
    BY <1>1, RuleDelFields
  <2>q. QED  BY <2>1, PlainShrinks
<1>2. ASSUME k2 \in Linux!ruleAdd(k, x) PROVE Plain(k2)
  <2>1. k2.main = k.main /\ k2.table = k.table
    BY <1>2, RuleAddFields
  <2>q. QED  BY <2>1, PlainShrinks
<1>3. ASSUME k2 \in Linux!addrReplace(k, x) PROVE Plain(k2)
  <2>1. k2.main = k.main /\ k2.table = k.table
    BY <1>3, AddrReplaceFields
  <2>q. QED  BY <2>1, PlainShrinks
<1>4. ASSUME k2 \in Linux!addrDel(k, x) PROVE Plain(k2)
  <2>1. k2.main \in SUBSET k.main /\ k2.table \in SUBSET k.table
    BY <1>4, AddrDelFacts
  <2>q. QED  BY <2>1, PlainShrinks
<1>5. ASSUME k2 \in Linux!routeDel(k, "main", x.dst) PROVE Plain(k2)
  <2>1. k2.main \in SUBSET k.main /\ k2.table = k.table
    BY <1>5, MainDelFields
  <2>q. QED  BY <2>1, PlainShrinks
<1>6. ASSUME k2 \in Linux!routeDel(k, "table", x.dst) PROVE Plain(k2)
  <2>1. k2.main = k.main /\ k2.table \in SUBSET k.table
    BY <1>6, TableDelFields
  <2>q. QED  BY <2>1, PlainShrinks
<1>7. OurRoute(x).kind # "kernel"
  BY DEF OurRoute
<1>8. ASSUME k2 \in Linux!routeReplace(k, "main", x) PROVE Plain(k2)
  <2>1. k2.main \in SUBSET (k.main \cup {OurRoute(x)}) /\ k2.table \in SUBSET (k.table \cup {OurRoute(x)})
    BY <1>8, MainReplaceFields
  <2>q. QED  BY <1>7, <2>1, PlainGrows
<1>9. ASSUME k2 \in Linux!routeReplace(k, "table", x) PROVE Plain(k2)
  <2>1. k2.main \in SUBSET (k.main \cup {OurRoute(x)}) /\ k2.table \in SUBSET (k.table \cup {OurRoute(x)})
    BY <1>9, TableReplaceFields
  <2>q. QED  BY <1>7, <2>1, PlainGrows
<1>q. QED  BY <1>1, <1>2, <1>3, <1>4, <1>5, <1>6, <1>8, <1>9

\* Others add a kernel route to the main table only.
LEMMA MeddledPlain ==
    ASSUME NEW k \in Kernels, Plain(k), NEW k2 \in Linux!Meddled(k)
    PROVE  Plain(k2)
<1> DEFINE New(tab) == {q \in Linux!KernelRoutes :
                        /\ q.dst = Masked[q.dst]
                        /\ q.kind = "kernel" => tab = "main" /\ q.src \in k.addrs /\ q.dst = PrefixOf[q.src]
                        /\ q.kind \in {"ours", "gateway"} =>
                              \A p \in k[tab] : p.dst = q.dst => p.kind \notin {"ours", "gateway"}}
<1>1. ASSUME NEW new, k2 = [k EXCEPT !.rules = new] \/ k2 = [k EXCEPT !.addrs = new] PROVE Plain(k2)
  <2>1. k2.main = k.main /\ k2.table = k.table
    BY <1>1 DEF Kernels
  <2>q. QED  BY <2>1, PlainShrinks
<1>2. ASSUME NEW a, k2 \in Linux!addrDel(k, a) PROVE Plain(k2)
  BY <1>2, RequestsPlain
<1>3. ASSUME NEW r, k2 = [k EXCEPT !["main"] = @ \ {r}] \/ k2 = [k EXCEPT !["table"] = @ \ {r}] PROVE Plain(k2)
  <2>1. k2.main \in SUBSET k.main /\ k2.table \in SUBSET k.table
    BY <1>3 DEF Kernels
  <2>q. QED  BY <2>1, PlainShrinks
<1>4. ASSUME NEW r, k2 = [k EXCEPT !["main"] = @ \cup {r}] PROVE Plain(k2)
  <2>1. k2.main = k.main \cup {r} /\ k2.table = k.table
    BY <1>4 DEF Kernels
  <2>2. IsFiniteSet(k2.main)
    BY <2>1, FS_AddElement DEF Plain
  <2>q. QED  BY <2>1, <2>2 DEF Plain
<1>5. ASSUME NEW r, r.kind # "kernel", k2 = [k EXCEPT !["table"] = @ \cup {r}] PROVE Plain(k2)
  <2>1. k2.main = k.main /\ k2.table = k.table \cup {r}
    BY <1>5 DEF Kernels
  <2>2. IsFiniteSet(k2.table)
    BY <2>1, FS_AddElement DEF Plain
  <2>q. QED  BY <1>5, <2>1, <2>2 DEF Plain
<1>6. \A r \in New("table") : r.kind # "kernel"
  OBVIOUS
<1>7. \/ \E r : k2 = [k EXCEPT !.rules = @ \cup {r}] \/ k2 = [k EXCEPT !.rules = @ \ {r}]
      \/ \E a : k2 = [k EXCEPT !.addrs = @ \cup {a}]
      \/ \E a : k2 \in Linux!addrDel(k, a)
      \/ \E tab \in {"main", "table"} : \E r : k2 = [k EXCEPT ![tab] = @ \ {r}]
      \/ \E tab \in {"main", "table"} : \E r \in New(tab) : k2 = [k EXCEPT ![tab] = @ \cup {r}]
  <2> DEFINE A == {[k EXCEPT !.rules = @ \cup {r}] : r \in Linux!Rules}
             B == {[k EXCEPT !.rules = @ \ {r}] : r \in Linux!Rules}
             C == {[k EXCEPT !.addrs = @ \cup {a}] : a \in Addrs}
             D == UNION {Linux!addrDel(k, a) : a \in k.addrs}
             Out(tab) == {[k EXCEPT ![tab] = @ \ {r}] : r \in k[tab]}
             E == UNION {Out(tab) : tab \in {"main", "table"}}
             In(tab) == {[k EXCEPT ![tab] = @ \cup {r}] : r \in New(tab)}
             F == UNION {In(tab) : tab \in {"main", "table"}}
  <2>1. k2 \in A \cup B \cup C \cup D \cup E \cup F
    BY DEF Linux!Meddled
  <2> HIDE DEF New
  <2>2. k2 \in D => \E a : k2 \in Linux!addrDel(k, a)
    OBVIOUS
  <2>3. (k2 \in E => \E tab \in {"main", "table"} : k2 \in Out(tab)) /\ (k2 \in F => \E tab \in {"main", "table"} : k2 \in In(tab))
    <3> HIDE DEF Out, In
    <3>q. QED  OBVIOUS
  <2>q. QED  BY <2>1, <2>2, <2>3
<1> HIDE DEF New
<1>8. ASSUME NEW tab \in {"main", "table"}, NEW r \in New(tab), k2 = [k EXCEPT ![tab] = @ \cup {r}] PROVE Plain(k2)
  BY <1>4, <1>5, <1>6, <1>8
<1>9. ASSUME NEW tab \in {"main", "table"}, NEW r, k2 = [k EXCEPT ![tab] = @ \ {r}] PROVE Plain(k2)
  BY <1>3, <1>9
<1>q. QED  BY <1>1, <1>2, <1>7, <1>8, <1>9

\* The inductive invariant: an undisturbed Configure is on its way to what is asked for.
LinuxClean ==
    /\ Plain(kernel)
    /\ pc \in LinuxLoops /\ clean => LinuxSettles
    /\ clean /\ answer = "error" /\ pc = "idle" => Excused

\* One request: undisturbed, it takes effect.
LEMMA CleanConfigureStep ==
    ASSUME LinuxInv, AskedSound(asked), LinuxClean, Linux!ConfigureStep
    PROVE  LinuxClean'
<1>1. pc \in LinuxLoops \ {"verify"} /\ kernel \in Kernels /\ UNCHANGED <<snap, asked>> /\ clean \in BOOLEAN
  BY LinuxLoopOf DEF Linux!ConfigureStep, LinuxInv, LinuxTypeOK
<1>2. PICK x \in todo, outcome \in Linux!Outcomes :
          /\ Linux!Ends(outcome)
          /\ IF outcome = "failed" /\ ~Linux!Tolerated(x)
                THEN /\ kernel' \in Linux!Undone
                     /\ Linux!GiveUp
                ELSE /\ IF outcome = "done" THEN kernel' \in Linux!Request(kernel, pc, x)
                                            ELSE UNCHANGED kernel
                     /\ IF todo = {x} THEN Linux!GoOn(Linux!LoopOf(pc) + 1, snap, asked)
                                      ELSE pc' = pc /\ todo' = todo \ {x}
  BY DEF Linux!ConfigureStep
<1>3. clean' = (clean /\ outcome = "done")
  BY <1>2 DEF Linux!Ends
<1>4. pc \in {"rules out", "addrs in", "main out", "main in", "table out", "table in", "rules in", "addrs out"}
  BY <1>1 DEF LinuxLoops
<1>5. CASE outcome # "done"
  <2>1. ~clean'
    BY <1>1, <1>3, <1>5
  <2>2. Plain(kernel')
    <3>1. kernel'.main = kernel.main /\ kernel'.table = kernel.table
      <4>1. CASE kernel' = kernel
        BY <4>1
      <4>2. ASSUME NEW gone, kernel' = [kernel EXCEPT !.rules = @ \ gone]
            PROVE  kernel'.main = kernel.main /\ kernel'.table = kernel.table
        BY <1>1, <4>2 DEF Kernels
      <4>q. QED  BY <1>2, <1>5, <4>1, <4>2 DEF Linux!Undone
    <3>q. QED  BY <3>1, PlainShrinks DEF LinuxClean
  <2>q. QED  BY <2>1, <2>2 DEF LinuxClean, Plain
<1>6. CASE outcome = "done"
  <2>1. kernel' \in Linux!Request(kernel, pc, x)
        /\ IF todo = {x} THEN Linux!GoOn(Linux!LoopOf(pc) + 1, snap, asked) ELSE pc' = pc /\ todo' = todo \ {x}
    BY <1>2, <1>6
  <2>2. Plain(kernel')
    <3>1. \/ kernel' \in Linux!ruleDel(kernel, x) \/ kernel' \in Linux!ruleAdd(kernel, x)
          \/ kernel' \in Linux!addrReplace(kernel, x) \/ kernel' \in Linux!addrDel(kernel, x)
          \/ kernel' \in Linux!routeDel(kernel, "main", x.dst) \/ kernel' \in Linux!routeDel(kernel, "table", x.dst)
          \/ kernel' \in Linux!routeReplace(kernel, "main", x) \/ kernel' \in Linux!routeReplace(kernel, "table", x)
      BY <1>4, <2>1 DEF Linux!Request
    <3>2. Plain(kernel)
      BY DEF LinuxClean
    <3>q. QED  BY <1>1, <3>1, <3>2, RequestsPlain
  <2>3. pc' \in LinuxLoops
    <3>1. CASE todo = {x}
      <4>1. Linux!LoopOf(pc) \in 1 .. 8
        BY LinuxLoopOf DEF Linux!ConfigureStep
      <4>2. Linux!LoopOf(pc) + 1 \in 1 .. 9
        BY <4>1
      <4>q. QED  BY <2>1, <3>1, <4>2, LoopsNext
    <3>q. QED  BY <1>1, <2>1, <3>1
  <2>4. ASSUME clean PROVE LinuxSettles'
    <3>1. \A l \in LinuxLoops : LinuxLeft(l)' = IF l = pc THEN todo \ {x} ELSE LinuxLeft(l)
      <4>1. pc \in {Linux!Loops[i] : i \in 1 .. Len(Linux!Loops) - 1}
        BY DEF Linux!ConfigureStep
      <4>q. QED  BY <1>1, <2>1, <4>1, LinuxLeftNext
    <3>2. CleanRound(x)
      BY <1>1, <2>4, <3>1 DEF CleanRound, LinuxClean
    <3>3. CASE pc = "rules out"
      BY <2>1, <3>2, <3>3, RulesOutSettles DEF Linux!Request
    <3>4. CASE pc = "addrs in"
      BY <2>1, <3>2, <3>4, AddrsInSettles DEF Linux!Request
    <3>5. CASE pc = "main out"
      BY <2>1, <3>2, <3>5, MainOutSettles DEF Linux!Request
    <3>6. CASE pc = "main in"
      BY <2>1, <3>2, <3>6, MainInSettles DEF Linux!Request
    <3>7. CASE pc = "table out"
      BY <2>1, <3>2, <3>7, TableOutSettles DEF Linux!Request
    <3>8. CASE pc = "table in"
      BY <2>1, <3>2, <3>8, TableInSettles DEF Linux!Request
    <3>9. CASE pc = "rules in"
      BY <2>1, <3>2, <3>9, RulesInSettles DEF Linux!Request
    <3>10. CASE pc = "addrs out"
      BY <2>1, <3>2, <3>10, AddrsOutSettles DEF Linux!Request
    <3>q. QED  BY <1>4, <3>3, <3>4, <3>5, <3>6, <3>7, <3>8, <3>9, <3>10
  <2>5. pc' # "idle" /\ (clean' => clean)
    BY <1>1, <1>3, <2>3, LinuxStages
  <2>q. QED  BY <2>2, <2>4, <2>5 DEF LinuxClean, Plain
<1>q. QED  BY <1>5, <1>6

\* The verification of an undisturbed call.
LEMMA CleanVerify ==
    ASSUME LinuxInv, LinuxClean, Linux!Verify
    PROVE  LinuxClean'
<1>1. pc = "verify" /\ pc' = "idle" /\ UNCHANGED <<kernel, asked>> /\ pc \in LinuxLoops
  BY DEF Linux!Verify, LinuxLoops
<1>2. Plain(kernel)' /\ Excused' = Excused /\ pc' \notin LinuxLoops
  BY <1>1, LinuxStages DEF LinuxClean, Plain, Excused
<1>3. CASE clean' = FALSE
  BY <1>2, <1>3 DEF LinuxClean
<1>4. CASE /\ answer' = IF Linux!verifyLinuxState(asked, Linux!readInstalledState(kernel, asked.routes)) THEN "ok" ELSE "error"
           /\ UNCHANGED clean
  <2>1. clean /\ ~Excused => answer' = "ok"
    BY <1>1, <1>4, SettledVerifies DEF LinuxClean
  <2>q. QED  BY <1>2, <1>4, <2>1 DEF LinuxClean
<1>q. QED  BY <1>3, <1>4 DEF Linux!Verify

\* An accepted call.
LEMMA CleanConfigure ==
    ASSUME LinuxInv, LinuxClean, NEW cfg \in Configs, Linux!Configure(cfg)
    PROVE  LinuxClean'
<1>1. pc = "idle" /\ UNCHANGED kernel /\ Plain(kernel)
  BY DEF Linux!Configure, LinuxClean
<1>2. CASE clean' = FALSE
  BY <1>1, <1>2 DEF LinuxClean, Plain
<1>3. CASE /\ asked' = Linux!Normalized(cfg)
           /\ snap' = Linux!readInstalledState(kernel, asked'.routes)
           /\ Linux!GoOn(1, snap', asked')
  <2>1. asked' \in Askeds
    BY <1>3, NormalizedType
  <2>2. LinuxSettles'
    BY <1>1, <1>3, <2>1, ConfigureSettles
  <2>3. pc' \in LinuxLoops
    <3>1. 1 \in 1 .. 9
      OBVIOUS
    <3>q. QED  BY <1>3, <3>1, LoopsNext
  <2>q. QED  BY <1>1, <2>2, <2>3, LinuxStages DEF LinuxClean, Plain
<1>q. QED  BY <1>2, <1>3 DEF Linux!Configure

\* Close does not answer for a Configure.
LEMMA CleanCloseStep ==
    ASSUME LinuxInv, LinuxClean, Linux!CloseStep
    PROVE  LinuxClean'
<1>1. pc \in LinuxClosing
  <2>1. PICK i \in 1 .. 5 : pc = Linux!CloseLoops[i]
    BY LinuxCloseTuple DEF Linux!CloseStep
  <2>2. i = 1 \/ i = 2 \/ i = 3 \/ i = 4 \/ i = 5
    OBVIOUS
  <2>q. QED  BY <2>1, <2>2, LinuxCloseTuple DEF LinuxClosing
<1>2. PICK x \in todo :
          /\ \/ UNCHANGED kernel
             \/ kernel' \in CASE pc = "close rules" -> Linux!ruleDel(kernel, x)
                              [] pc = "close table" -> Linux!routeDel(kernel, "table", x.dst)
                              [] pc = "close routes" -> Linux!routeDel(kernel, "main", x.dst)
                              [] pc = "close addrs" -> Linux!addrDel(kernel, x)
                              [] OTHER -> {[Linux!Nothing EXCEPT !.rules = kernel.rules]}
          /\ \/ pc' = "closed"
             \/ pc' = pc
             \/ /\ pc # "close device"
                /\ Linux!CloseOn((CHOOSE i \in 1 .. Len(Linux!CloseLoops) : Linux!CloseLoops[i] = pc) + 1, snap)
  BY DEF Linux!CloseStep
<1>3. pc' \notin LinuxLoops /\ pc' # "idle"
  <2>1. CASE pc' = "closed" \/ pc' = pc
    BY <1>1, <2>1, LinuxStages
  <2>2. CASE /\ pc # "close device"
             /\ Linux!CloseOn((CHOOSE i \in 1 .. Len(Linux!CloseLoops) : Linux!CloseLoops[i] = pc) + 1, snap)
    <3>1. pc' \in LinuxClosing
      BY <2>2, LinuxCloseContinues DEF Linux!CloseStep
    <3>q. QED  BY <3>1, LinuxStages
  <2>q. QED  BY <1>2, <2>1, <2>2
<1>4. kernel \in Kernels /\ Plain(kernel)
  BY DEF LinuxInv, LinuxTypeOK, LinuxClean
<1>5. Plain(kernel')
  <2>1. CASE UNCHANGED kernel
    BY <1>4, <2>1
  <2>2. CASE kernel' \in Linux!ruleDel(kernel, x) \/ kernel' \in Linux!routeDel(kernel, "table", x.dst)
             \/ kernel' \in Linux!routeDel(kernel, "main", x.dst) \/ kernel' \in Linux!addrDel(kernel, x)
    BY <1>4, <2>2, RequestsPlain
  <2>3. CASE kernel' = [Linux!Nothing EXCEPT !.rules = kernel.rules]
    <3>1. kernel'.main = {} /\ kernel'.table = {}
      BY <2>3 DEF Linux!Nothing
    <3>q. QED  BY <1>4, <3>1, PlainShrinks
  <2>q. QED  BY <1>1, <1>2, <2>1, <2>2, <2>3 DEF LinuxClosing
<1>q. QED  BY <1>3, <1>5 DEF LinuxClean, Plain

\* Every step on Linux.
LEMMA LinuxCleanSteps ==
    ASSUME LinuxInv, AskedSound(asked), LinuxClean, Linux!Next \/ UNCHANGED vars
    PROVE  LinuxClean'
<1>1. kernel \in Kernels /\ Plain(kernel)
  BY DEF LinuxInv, LinuxTypeOK, LinuxClean
<1>2. ASSUME Plain(kernel'), clean' = FALSE PROVE LinuxClean'
  BY <1>2 DEF LinuxClean, Plain
<1>3. ASSUME NEW cfg \in Configs, Linux!Refuse(cfg) PROVE LinuxClean'
  <2>1. UNCHANGED <<kernel, pc>> /\ pc \in {"idle", "closed"} /\ answer' \in {"closed", "rejected"}
    BY <1>3 DEF Linux!Refuse
  <2>q. QED  BY <1>1, <2>1, LinuxStages DEF LinuxClean, Plain
<1>4. CASE Linux!Close
  <2>1. Linux!CloseOn(1, snap') /\ UNCHANGED kernel
    BY <1>4 DEF Linux!Close
  <2>2. pc' \in LinuxClosing
    BY <2>1, LinuxCloseStarts
  <2>q. QED  BY <1>1, <2>1, <2>2, LinuxStages DEF LinuxClean, Plain
<1>5. CASE Linux!Meddle
  <2>1. kernel' \in Linux!Meddled(kernel) /\ clean' = FALSE
    BY <1>5 DEF Linux!Meddle
  <2>q. QED  BY <1>1, <1>2, <2>1, MeddledPlain
<1>6. CASE Linux!Crash
  <2>1. kernel' = [Linux!Nothing EXCEPT !.rules = kernel.rules] /\ clean' = FALSE
    BY <1>6 DEF Linux!Crash
  <2>2. kernel'.main = {} /\ kernel'.table = {}
    BY <2>1 DEF Linux!Nothing
  <2>3. Plain(kernel')
    BY <1>1, <2>2, PlainShrinks
  <2>q. QED  BY <1>2, <2>1, <2>3
<1>7. CASE UNCHANGED vars
  <2>1. UNCHANGED <<kernel, pc, todo, snap, asked, clean, answer>>
    BY <1>7 DEF vars
  <2>2. LinuxSettles' = LinuxSettles
    BY <2>1 DEF LinuxSettles, LinuxLeft, MainWant, TableWant, MainGone, TableGone, Spared, Settling, Written, SameNumber
  <2>q. QED  BY <2>1, <2>2 DEF LinuxClean, Plain, Excused
<1>q. QED
  BY <1>3, <1>4, <1>5, <1>6, <1>7, CleanConfigure, CleanConfigureStep, CleanVerify, CleanCloseStep DEF Linux!Next

\* The start on Linux.
LEMMA LinuxCleanStarts ==
    ASSUME Linux!Init
    PROVE  LinuxClean
<1>1. kernel.main = {} /\ kernel.table = {} /\ clean = FALSE
  BY DEF Linux!Init, Linux!Nothing
<1>q. QED  BY <1>1, FS_EmptySet DEF LinuxClean, Plain
----------------------------------------------------------------------------
(* macOS: an undisturbed Configure succeeds.                               *)

DarwinRank(l) ==
    CASE l = "routes out" -> 1 [] l = "scoped out" -> 2 [] l = "addrs out" -> 3 [] l = "addrs in" -> 4
      [] l = "scoped in" -> 5 [] l = "routes in" -> 6 [] OTHER -> 7

\* What a loop has still to do.
DarwinLeft(l) ==
    IF pc = l THEN todo
    ELSE IF DarwinRank(pc) < DarwinRank(l) THEN Darwin!Work(l, snap, asked, known) ELSE {}

\* The loops of the macOS Configure are numbered in the order they run.
LEMMA DarwinRanks ==
    /\ \A l \in DarwinLoops : DarwinRank(l) \in 1 .. 7 /\ Darwin!Loops[DarwinRank(l)] = l
    /\ \A j \in 1 .. 7 : DarwinRank(Darwin!Loops[j]) = j
<1>1. ASSUME NEW l \in DarwinLoops PROVE DarwinRank(l) \in 1 .. 7 /\ Darwin!Loops[DarwinRank(l)] = l
  <2>1. /\ DarwinRank("routes out") = 1 /\ DarwinRank("scoped out") = 2 /\ DarwinRank("addrs out") = 3
        /\ DarwinRank("addrs in") = 4 /\ DarwinRank("scoped in") = 5 /\ DarwinRank("routes in") = 6
        /\ DarwinRank("verify") = 7
    BY DEF DarwinRank
  <2>2. /\ 1 \in 1 .. 7 /\ 2 \in 1 .. 7 /\ 3 \in 1 .. 7 /\ 4 \in 1 .. 7 /\ 5 \in 1 .. 7
        /\ 6 \in 1 .. 7 /\ 7 \in 1 .. 7
    OBVIOUS
  <2>3. \/ l = "routes out" \/ l = "scoped out" \/ l = "addrs out" \/ l = "addrs in" \/ l = "scoped in"
        \/ l = "routes in" \/ l = "verify"
    BY DEF DarwinLoops
  <2>q. QED  BY <2>1, <2>2, <2>3, DarwinTuple, Zenon
<1>2. ASSUME NEW j \in 1 .. 7 PROVE DarwinRank(Darwin!Loops[j]) = j
  <2>1. j = 1 \/ j = 2 \/ j = 3 \/ j = 4 \/ j = 5 \/ j = 6 \/ j = 7
    BY InSeven, Zenon
  <2>q. QED  BY <2>1, DarwinTuple DEF DarwinRank
<1>q. QED  BY <1>1, <1>2

\* Arithmetic on the numbers of the loops.
LEMMA BetweenSeven ==
    \A i \in 1 .. 7 : \A j \in i .. 7 : \A n \in 1 .. 7 :
        /\ n < i => ~(j < n) /\ n # j
        /\ ~(n < i) => n \in i .. (j - 1) \/ n = j \/ j < n
        /\ n \in i .. (j - 1) => ~(j < n) /\ n # j
        /\ j < n => n # j
  BY SMT

\* Only the last loop that adds looks at what is remembered.
LEMMA WorkWithoutMemory ==
    ASSUME NEW l, l # "routes in", NEW st, NEW cfg, NEW mem, NEW mem2
    PROVE  Darwin!Work(l, st, cfg, mem) = Darwin!Work(l, st, cfg, mem2)
  BY DEF Darwin!Work

\* Going on from loop i leaves every later loop its work and the earlier ones nothing.
LEMMA DarwinLeftAfter ==
    ASSUME NEW i \in 1 .. 7, Darwin!GoOn(i, snap', asked', known'), NEW l \in DarwinLoops
    PROVE  DarwinLeft(l)' = IF DarwinRank(l) < i THEN {} ELSE Darwin!Work(l, snap', asked', known')
<1> DEFINE W == Darwin!Work(l, snap', asked', known')
           n == DarwinRank(l)
<1>1. PICK j \in i .. 7 :
          /\ pc' = Darwin!Loops[j]
          /\ todo' = Darwin!Work(Darwin!Loops[j], snap', asked', known')
          /\ \A m \in i .. (j - 1) : Darwin!Work(Darwin!Loops[m], snap', asked', known') = {}
  BY DarwinGoOn
<1>2. n \in 1 .. 7 /\ Darwin!Loops[n] = l /\ j \in 1 .. 7
  BY DarwinRanks
<1>3. DarwinRank(pc') = j
  BY <1>1, <1>2, DarwinRanks
<1>4. DarwinLeft(l)' = IF pc' = l THEN todo' ELSE IF DarwinRank(pc') < n THEN W ELSE {}
  BY DEF DarwinLeft
<1>5. pc' = l <=> n = j
  BY <1>1, <1>2, <1>3
<1> HIDE DEF n
<1>6. CASE n < i
  <2>1. ~(j < n) /\ n # j
    BY <1>2, <1>6, BetweenSeven, Zenon
  <2>q. QED  BY <1>3, <1>4, <1>5, <1>6, <2>1 DEF n
<1>7. CASE ~(n < i)
  <2>1. CASE n \in i .. (j - 1)
    <3>1. W = {}
      BY <1>1, <1>2, <2>1
    <3>2. ~(j < n) /\ n # j
      BY <1>2, <2>1, BetweenSeven, Zenon
    <3>q. QED  BY <1>3, <1>4, <1>5, <1>7, <3>1, <3>2 DEF n
  <2>2. CASE n = j
    BY <1>1, <1>2, <1>4, <1>5, <1>7, <2>2 DEF n
  <2>3. CASE j < n
    <3>1. n # j
      BY <1>2, <2>3, BetweenSeven, Zenon
    <3>q. QED  BY <1>3, <1>4, <1>5, <1>7, <2>3, <3>1 DEF n
  <2>q. QED  BY <1>2, <1>7, <2>1, <2>2, <2>3, BetweenSeven, Zenon
<1>q. QED  BY <1>6, <1>7

\* Arithmetic on the number of the loop that follows.
LEMMA NextOfSeven ==
    \A c \in 1 .. 6 : \A n \in 1 .. 7 :
        /\ (n < c + 1 <=> n = c \/ n < c) /\ (~(n < c + 1) <=> c < n) /\ (n < c => ~(c < n) /\ n # c)
        /\ (c < n => n # c)
  BY SMT

\* LoopOf finds the place of a loop.
LEMMA DarwinLoopRank ==
    ASSUME NEW loop \in {Darwin!Loops[i] : i \in 1 .. Len(Darwin!Loops) - 1}
    PROVE  Darwin!LoopOf(loop) \in 1 .. 6 /\ Darwin!Loops[Darwin!LoopOf(loop)] = loop
<1>1. PICK i \in 1 .. 6 : loop = Darwin!Loops[i]
  <2>1. Len(Darwin!Loops) - 1 = 6
    BY InSeven, DarwinTuple, Zenon
  <2>q. QED  BY <2>1
<1>2. i \in 1 .. 7
  BY InSeven, Zenon
<1>3. Darwin!LoopOf(loop) = CHOOSE n \in 1 .. 7 : Darwin!Loops[n] = loop
  BY DarwinTuple DEF Darwin!LoopOf
<1>4. Darwin!LoopOf(loop) \in 1 .. 7 /\ Darwin!Loops[Darwin!LoopOf(loop)] = loop
  BY <1>1, <1>2, <1>3
<1> DEFINE c == Darwin!LoopOf(loop)
<1> HIDE DEF c
<1>5. c \in 1 .. 7 /\ c = i
  <2>1. DarwinRank(Darwin!Loops[c]) = c /\ DarwinRank(Darwin!Loops[i]) = i
    BY <1>2, <1>4, DarwinRanks DEF c
  <2>q. QED  BY <1>1, <1>4, <2>1 DEF c
<1>q. QED  BY <1>4, <1>5 DEF c

\* A round takes its entry from the loop that runs; the loop that adds routes is
\* given what is not remembered as installed when it starts.
LEMMA DarwinRoundLefts ==
    ASSUME pc \in {Darwin!Loops[i] : i \in 1 .. Len(Darwin!Loops) - 1}, UNCHANGED <<snap, asked>>, NEW x \in todo,
           IF todo = {x} THEN Darwin!GoOn(Darwin!LoopOf(pc) + 1, snap, asked, known') ELSE pc' = pc /\ todo' = todo \ {x},
           NEW l \in DarwinLoops
    PROVE  /\ l # "routes in" => DarwinLeft(l)' = IF l = pc THEN todo \ {x} ELSE DarwinLeft(l)
           /\ pc = "routes in" => DarwinLeft("routes in")' = todo \ {x}
           /\ pc # "routes in" => DarwinLeft("routes in")' = Darwin!Work("routes in", snap, asked, known')
<1> DEFINE c == Darwin!LoopOf(pc)
           n == DarwinRank(l)
<1>1. c \in 1 .. 6 /\ Darwin!Loops[c] = pc
  BY DarwinLoopRank
<1> HIDE DEF c
<1>2. c + 1 \in 1 .. 7 /\ c \in 1 .. 7
  BY <1>1, InSeven, Zenon
<1>3. DarwinRank(pc) = c /\ n \in 1 .. 7 /\ Darwin!Loops[n] = l
  BY <1>1, <1>2, DarwinRanks
<1>4. pc = l <=> n = c
  BY <1>1, <1>3
<1>5. DarwinRank("routes in") = 6 /\ "routes in" \in DarwinLoops /\ Darwin!Loops[6] = "routes in" /\ 6 \in 1 .. 7
  <2>1. DarwinRank("routes in") = 6
    BY DEF DarwinRank
  <2>2. "routes in" \in DarwinLoops
    BY DEF DarwinLoops
  <2>3. 6 \in 1 .. 7
    OBVIOUS
  <2>q. QED  BY <2>1, <2>2, <2>3, DarwinTuple
<1> HIDE DEF n
<1>6. (n < c + 1 <=> n = c \/ n < c) /\ (~(n < c + 1) <=> c < n) /\ (n < c => ~(c < n) /\ n # c) /\ (c < n => n # c)
  BY <1>1, <1>3, NextOfSeven, Zenon
<1>7. pc = "routes in" <=> c = 6
  BY <1>1, <1>3, <1>5
<1>8. c # 6 => c < 6 /\ ~(6 < c + 1)
  BY <1>1
<1>9. c = 6 => 6 < c + 1
  BY <1>1
<1>10. CASE todo = {x}
  <2>1. Darwin!GoOn(c + 1, snap', asked', known')
    BY <1>10 DEF c
  <2>2. DarwinLeft(l)' = IF n < c + 1 THEN {} ELSE Darwin!Work(l, snap, asked, known')
    BY <1>2, <2>1, DarwinLeftAfter DEF n
  <2>3. DarwinLeft("routes in")' = IF 6 < c + 1 THEN {} ELSE Darwin!Work("routes in", snap, asked, known')
    BY <1>2, <1>5, <2>1, DarwinLeftAfter
  <2>4. DarwinLeft(l) = IF pc = l THEN todo ELSE IF c < n THEN Darwin!Work(l, snap, asked, known) ELSE {}
    BY <1>3 DEF DarwinLeft, n
  <2>5. ASSUME l # "routes in" PROVE DarwinLeft(l)' = IF l = pc THEN todo \ {x} ELSE DarwinLeft(l)
    <3>1. Darwin!Work(l, snap, asked, known') = Darwin!Work(l, snap, asked, known)
      BY <2>5, WorkWithoutMemory
    <3>q. QED  BY <1>4, <1>6, <1>10, <2>2, <2>4, <3>1
  <2>6. pc = "routes in" => DarwinLeft("routes in")' = todo \ {x}
    BY <1>7, <1>9, <1>10, <2>3
  <2>7. pc # "routes in" => DarwinLeft("routes in")' = Darwin!Work("routes in", snap, asked, known')
    BY <1>7, <1>8, <2>3
  <2>q. QED  BY <2>5, <2>6, <2>7
<1>11. CASE todo # {x}
  <2>1. pc' = pc /\ todo' = todo \ {x}
    BY <1>11
  <2>2. ASSUME l # "routes in" PROVE DarwinLeft(l)' = IF l = pc THEN todo \ {x} ELSE DarwinLeft(l)
    <3>1. Darwin!Work(l, snap, asked, known') = Darwin!Work(l, snap, asked, known)
      BY <2>2, WorkWithoutMemory
    <3>q. QED  BY <2>1, <3>1 DEF DarwinLeft
  <2>3. pc = "routes in" => DarwinLeft("routes in")' = todo \ {x}
    BY <2>1 DEF DarwinLeft
  <2>4. pc # "routes in" => DarwinLeft("routes in")' = Darwin!Work("routes in", snap, asked, known')
    BY <1>3, <1>5, <1>7, <1>8, <2>1 DEF DarwinLeft
  <2>q. QED  BY <2>2, <2>3, <2>4
<1>q. QED  BY <1>10, <1>11

InstalledRoute(r) == [dst |-> r.dst, src |-> r.src]

\* The host on its way to what is asked for: what a loop will remove is there, what
\* is wanted is there or will be added, and nothing else is.
DarwinSettles ==
    /\ known.routes = kernel.routes
    /\ DarwinLeft("routes out") \subseteq kernel.routes
    /\ \A q \in kernel.routes : q \in DarwinLeft("routes out") \/ \E r \in asked.routes : q = InstalledRoute(r)
    /\ DarwinLeft("routes in") = {r \in asked.routes : InstalledRoute(r) \notin kernel.routes}
    /\ DarwinLeft("scoped out") \subseteq kernel.scoped \ snap.want
    /\ kernel.scoped \subseteq snap.want \cup DarwinLeft("scoped out")
    /\ snap.want \subseteq kernel.scoped \cup DarwinLeft("scoped in") /\ DarwinLeft("scoped in") \subseteq snap.want
    /\ DarwinLeft("addrs out") \subseteq kernel.addrs \ asked.addrs
    /\ kernel.addrs \subseteq asked.addrs \cup DarwinLeft("addrs out")
    /\ asked.addrs \subseteq kernel.addrs \cup DarwinLeft("addrs in") /\ DarwinLeft("addrs in") \subseteq asked.addrs

\* A round of an undisturbed Configure that handles x.
DarwinCleanRound(x) ==
    /\ DarwinInv /\ OnePerDestination(kernel) /\ AskedSound(asked) /\ DarwinSettles
    /\ pc \in DarwinLoops \ {"verify"} /\ x \in todo
    /\ UNCHANGED <<snap, asked>>
    /\ known' = Darwin!Remember(known, pc, x)
    /\ \A l \in DarwinLoops \ {"routes in"} : DarwinLeft(l)' = IF l = pc THEN todo \ {x} ELSE DarwinLeft(l)
    /\ pc = "routes in" => DarwinLeft("routes in")' = todo \ {x}
    /\ pc # "routes in" => DarwinLeft("routes in")' = Darwin!Work("routes in", snap, asked, known')

\* What a round starts from, and what it leaves to its own loop and to the others.
LEMMA DarwinCleanFacts ==
    ASSUME NEW x, DarwinCleanRound(x)
    PROVE  /\ kernel \in DarwinKernels /\ known \in Memories /\ asked \in Askeds /\ DarwinSettles
           /\ OnePerDestination(kernel) /\ AskedSound(asked) /\ UNCHANGED <<snap, asked>>
           /\ known' = Darwin!Remember(known, pc, x)
           /\ \A l : pc = l => x \in DarwinLeft(l)
           /\ DarwinLeft("routes out")' = IF pc = "routes out" THEN DarwinLeft("routes out") \ {x} ELSE DarwinLeft("routes out")
           /\ DarwinLeft("scoped out")' = IF pc = "scoped out" THEN DarwinLeft("scoped out") \ {x} ELSE DarwinLeft("scoped out")
           /\ DarwinLeft("addrs out")' = IF pc = "addrs out" THEN DarwinLeft("addrs out") \ {x} ELSE DarwinLeft("addrs out")
           /\ DarwinLeft("addrs in")' = IF pc = "addrs in" THEN DarwinLeft("addrs in") \ {x} ELSE DarwinLeft("addrs in")
           /\ DarwinLeft("scoped in")' = IF pc = "scoped in" THEN DarwinLeft("scoped in") \ {x} ELSE DarwinLeft("scoped in")
           /\ pc = "routes in" => DarwinLeft("routes in")' = DarwinLeft("routes in") \ {x}
           /\ pc # "routes in" => DarwinLeft("routes in")' = {r \in asked.routes : InstalledRoute(r) \notin known'.routes}
<1>1. /\ kernel \in DarwinKernels /\ known \in Memories /\ asked \in Askeds /\ DarwinSettles
      /\ OnePerDestination(kernel) /\ AskedSound(asked) /\ UNCHANGED <<snap, asked>>
      /\ known' = Darwin!Remember(known, pc, x) /\ x \in todo
  BY DEF DarwinCleanRound, DarwinInv, DarwinTypeOK
<1>2. \A l : pc = l => DarwinLeft(l) = todo
  BY DEF DarwinLeft
<1>3. {"routes out", "scoped out", "addrs out", "addrs in", "scoped in"} \subseteq DarwinLoops \ {"routes in"}
  BY DEF DarwinLoops
<1>4. \A l \in DarwinLoops \ {"routes in"} : DarwinLeft(l)' = IF l = pc THEN todo \ {x} ELSE DarwinLeft(l)
  BY DEF DarwinCleanRound
<1>5. \A l \in DarwinLoops \ {"routes in"} : DarwinLeft(l)' = IF pc = l THEN DarwinLeft(l) \ {x} ELSE DarwinLeft(l)
  BY <1>2, <1>4
<1>6. /\ DarwinLeft("routes out")' = IF pc = "routes out" THEN DarwinLeft("routes out") \ {x} ELSE DarwinLeft("routes out")
      /\ DarwinLeft("scoped out")' = IF pc = "scoped out" THEN DarwinLeft("scoped out") \ {x} ELSE DarwinLeft("scoped out")
      /\ DarwinLeft("addrs out")' = IF pc = "addrs out" THEN DarwinLeft("addrs out") \ {x} ELSE DarwinLeft("addrs out")
      /\ DarwinLeft("addrs in")' = IF pc = "addrs in" THEN DarwinLeft("addrs in") \ {x} ELSE DarwinLeft("addrs in")
      /\ DarwinLeft("scoped in")' = IF pc = "scoped in" THEN DarwinLeft("scoped in") \ {x} ELSE DarwinLeft("scoped in")
  BY <1>3, <1>5
<1>7. pc = "routes in" => DarwinLeft("routes in")' = DarwinLeft("routes in") \ {x}
  BY <1>2 DEF DarwinCleanRound
<1>8. Darwin!Work("routes in", snap, asked, known') = {r \in asked.routes : InstalledRoute(r) \notin known'.routes}
  BY DEF Darwin!Work, InstalledRoute
<1>9. pc # "routes in" => DarwinLeft("routes in")' = {r \in asked.routes : InstalledRoute(r) \notin known'.routes}
  BY <1>8 DEF DarwinCleanRound
<1>q. QED  BY <1>1, <1>2, <1>6, <1>7, <1>9

\* What the commands leave alone.
LEMMA DarwinFields ==
    ASSUME NEW k \in DarwinKernels, NEW x, NEW k2
    PROVE  /\ k2 \in Darwin!Delete(k, "addrs", x) =>
                 k2.addrs = k.addrs \ {x} /\ k2.scoped = k.scoped /\ k2.routes = k.routes
           /\ k2 \in Darwin!Delete(k, "scoped", x) =>
                 k2.addrs = k.addrs /\ k2.scoped = k.scoped \ {x} /\ k2.routes = k.routes
           /\ k2 \in Darwin!Add(k, "addrs", x) =>
                 k2.addrs = k.addrs \cup {x} /\ k2.scoped = k.scoped /\ k2.routes = k.routes
           /\ k2 \in Darwin!Add(k, "scoped", x) =>
                 k2.addrs = k.addrs /\ k2.scoped = k.scoped \cup {x} /\ k2.routes = k.routes
           /\ k2 \in Darwin!routeAdd(k, x) =>
                 k2.addrs = k.addrs /\ k2.scoped = k.scoped /\ k2.routes = k.routes \cup {InstalledRoute(x)}
           /\ k2 \in Darwin!routeDelete(k, x) =>
                 k2.addrs = k.addrs /\ k2.scoped = k.scoped /\ \E q \in k.routes : q.dst = x.dst /\ k2.routes = k.routes \ {q}
<1>1. /\ k2 \in Darwin!Delete(k, "addrs", x) =>
            k2.addrs = k.addrs \ {x} /\ k2.scoped = k.scoped /\ k2.routes = k.routes
      /\ k2 \in Darwin!Delete(k, "scoped", x) =>
            k2.addrs = k.addrs /\ k2.scoped = k.scoped \ {x} /\ k2.routes = k.routes
  BY DEF DarwinKernels, Darwin!Delete
<1>2. /\ k2 \in Darwin!Add(k, "addrs", x) =>
            k2.addrs = k.addrs \cup {x} /\ k2.scoped = k.scoped /\ k2.routes = k.routes
      /\ k2 \in Darwin!Add(k, "scoped", x) =>
            k2.addrs = k.addrs /\ k2.scoped = k.scoped \cup {x} /\ k2.routes = k.routes
  BY DEF DarwinKernels, Darwin!Add
<1>3. k2 \in Darwin!routeAdd(k, x) =>
          k2.addrs = k.addrs /\ k2.scoped = k.scoped /\ k2.routes = k.routes \cup {InstalledRoute(x)}
  BY DEF DarwinKernels, Darwin!routeAdd, InstalledRoute
<1>4. k2 \in Darwin!routeDelete(k, x) =>
          k2.addrs = k.addrs /\ k2.scoped = k.scoped /\ \E q \in k.routes : q.dst = x.dst /\ k2.routes = k.routes \ {q}
  BY DEF DarwinKernels, Darwin!routeDelete
<1>q. QED  BY <1>1, <1>2, <1>3, <1>4

\* What is remembered of the routes.
LEMMA RememberRoutes ==
    ASSUME NEW mem \in Memories, NEW x
    PROVE  /\ Darwin!Remember(mem, "routes out", x).routes = {q \in mem.routes : q.dst # x.dst}
           /\ Darwin!Remember(mem, "scoped out", x).routes = mem.routes
           /\ Darwin!Remember(mem, "addrs out", x).routes = mem.routes
           /\ Darwin!Remember(mem, "addrs in", x).routes = mem.routes
           /\ Darwin!Remember(mem, "scoped in", x).routes = mem.routes
           /\ Darwin!Remember(mem, "routes in", x).routes = mem.routes \cup {InstalledRoute(x)}
<1>1. Darwin!Remember(mem, "routes out", x).routes = {q \in mem.routes : q.dst # x.dst}
  BY DEF Darwin!Remember, Memories
<1>2. Darwin!Remember(mem, "scoped out", x).routes = mem.routes
  BY DEF Darwin!Remember, Memories
<1>3. Darwin!Remember(mem, "addrs out", x).routes = mem.routes
  BY DEF Darwin!Remember, Memories
<1>4. Darwin!Remember(mem, "addrs in", x).routes = mem.routes
  BY DEF Darwin!Remember, Memories
<1>5. Darwin!Remember(mem, "scoped in", x).routes = mem.routes
  BY DEF Darwin!Remember, Memories
<1>6. Darwin!Remember(mem, "routes in", x).routes = mem.routes \cup {InstalledRoute(x)}
  BY DEF Darwin!Remember, Memories, InstalledRoute
<1>q. QED  BY <1>1, <1>2, <1>3, <1>4, <1>5, <1>6

\* Routes are added when none is left to remove; at the verification nothing is left.
LEMMA DarwinOrder ==
    /\ pc = "routes in" => DarwinLeft("routes out") = {}
    /\ pc = "verify" => \A l \in DarwinLoops \ {"verify"} : DarwinLeft(l) = {}
<1>1. DarwinRank("routes out") = 1 /\ DarwinRank("routes in") = 6 /\ DarwinRank("verify") = 7
  BY DEF DarwinRank
<1>2. ~(6 < 1) /\ \A n \in 1 .. 7 : ~(7 < n)
  BY SMT
<1>3. pc = "routes in" => DarwinLeft("routes out") = {}
  BY <1>1, <1>2, Zenon DEF DarwinLeft
<1>4. ASSUME pc = "verify", NEW l \in DarwinLoops \ {"verify"} PROVE DarwinLeft(l) = {}
  <2>1. DarwinRank(l) \in 1 .. 7 /\ DarwinRank(pc) = 7 /\ pc # l
    BY <1>1, <1>4, DarwinRanks
  <2>2. ~(DarwinRank(pc) < DarwinRank(l))
    BY <1>2, <2>1
  <2>q. QED  BY <2>1, <2>2 DEF DarwinLeft
<1>q. QED  BY <1>3, <1>4

\* In an undisturbed call no command meets what would make it fail.
LEMMA CommandPossible ==
    ASSUME DarwinInv, OnePerDestination(kernel), AskedSound(asked), DarwinSettles,
           pc \in DarwinLoops \ {"verify"}, NEW x \in todo
    PROVE  Darwin!Command(kernel, pc, x) # {}
<1>1. \A l : pc = l => x \in DarwinLeft(l)
  BY DEF DarwinLeft
<1>2. CASE pc = "routes out"
  <2>1. x \in kernel.routes
    BY <1>1, <1>2 DEF DarwinSettles
  <2>2. [kernel EXCEPT !.routes = @ \ {x}] \in Darwin!routeDelete(kernel, x)
    BY <2>1 DEF Darwin!routeDelete
  <2>q. QED  BY <1>2, <2>2 DEF Darwin!Command
<1>3. CASE pc = "scoped out"
  <2>1. x \in kernel["scoped"] \cap {x}
    BY <1>1, <1>3 DEF DarwinSettles
  <2>2. [kernel EXCEPT !["scoped"] = @ \ {x}] \in Darwin!Delete(kernel, "scoped", x)
    BY <2>1 DEF Darwin!Delete
  <2>q. QED  BY <1>3, <2>2 DEF Darwin!Command
<1>4. CASE pc = "addrs out"
  <2>1. x \in kernel["addrs"] \cap {x}
    BY <1>1, <1>4 DEF DarwinSettles
  <2>2. [kernel EXCEPT !["addrs"] = @ \ {x}] \in Darwin!Delete(kernel, "addrs", x)
    BY <2>1 DEF Darwin!Delete
  <2>q. QED  BY <1>4, <2>2 DEF Darwin!Command
<1>5. CASE pc = "addrs in" \/ pc = "scoped in"
  BY <1>5 DEF Darwin!Command, Darwin!Add
<1>6. CASE pc = "routes in"
  <2>1. x \in asked.routes /\ InstalledRoute(x) \notin kernel.routes
    BY <1>1, <1>6 DEF DarwinSettles
  <2>2. ASSUME NEW q \in kernel.routes, q.dst = x.dst PROVE FALSE
    <3>1. PICK r \in asked.routes : q = InstalledRoute(r)
      BY <1>6, DarwinOrder DEF DarwinSettles
    <3>2. r.dst = x.dst
      BY <2>2, <3>1 DEF InstalledRoute
    <3>q. QED  BY <2>1, <2>2, <3>1, <3>2 DEF AskedSound
  <2>3. x.dst \in {x.dst} \ Darwin!Destinations(kernel.routes)
    BY <2>2 DEF Darwin!Destinations
  <2>4. Darwin!routeAdd(kernel, x) # {}
    BY <2>3 DEF Darwin!routeAdd
  <2>q. QED  BY <1>6, <2>4 DEF Darwin!Command
<1>q. QED  BY <1>2, <1>3, <1>4, <1>5, <1>6 DEF DarwinLoops

\* A command that takes effect brings the host nearer to what is asked for.
LEMMA DarwinSettlesRound ==
    ASSUME NEW x, DarwinCleanRound(x), kernel' \in Darwin!Command(kernel, pc, x)
    PROVE  DarwinSettles'
<1>0. /\ kernel \in DarwinKernels /\ known \in Memories /\ DarwinSettles
      /\ known' = Darwin!Remember(known, pc, x) /\ UNCHANGED <<snap, asked>>
  BY DarwinCleanFacts
<1>1. CASE pc = "routes out"
  <2>1. kernel' \in Darwin!routeDelete(kernel, x)
    BY <1>1 DEF Darwin!Command
  <2>2. /\ kernel'.addrs = kernel.addrs /\ kernel'.scoped = kernel.scoped
        /\ \E q \in kernel.routes : q.dst = x.dst /\ kernel'.routes = kernel.routes \ {q}
    BY <1>0, <2>1, DarwinFields
  <2>3. x \in DarwinLeft("routes out") /\ x \in kernel.routes
    BY <1>1, DarwinCleanFacts DEF DarwinSettles
  <2>4. kernel'.routes = kernel.routes \ {x} /\ \A q \in kernel.routes : q.dst = x.dst => q = x
    BY <2>2, <2>3, DarwinCleanFacts DEF OnePerDestination
  <2>5. known'.routes = kernel'.routes
    <3>1. known'.routes = {q \in known.routes : q.dst # x.dst}
      BY <1>0, <1>1, RememberRoutes
    <3>q. QED  BY <1>0, <2>4, <3>1 DEF DarwinSettles
  <2>6. /\ DarwinLeft("routes out")' = DarwinLeft("routes out") \ {x}
        /\ DarwinLeft("routes in")' = {r \in asked.routes : InstalledRoute(r) \notin known'.routes}
        /\ DarwinLeft("scoped out")' = DarwinLeft("scoped out") /\ DarwinLeft("scoped in")' = DarwinLeft("scoped in")
        /\ DarwinLeft("addrs out")' = DarwinLeft("addrs out") /\ DarwinLeft("addrs in")' = DarwinLeft("addrs in")
    BY <1>1, DarwinCleanFacts
  <2>q. QED  BY <1>0, <2>2, <2>4, <2>5, <2>6 DEF DarwinSettles
<1>2. ASSUME pc \in {"scoped out", "addrs out", "addrs in", "scoped in"}, kernel'.routes = kernel.routes
      PROVE  /\ known'.routes = kernel'.routes
             /\ DarwinLeft("routes out")' = DarwinLeft("routes out")
             /\ DarwinLeft("routes in")' = {r \in asked.routes : InstalledRoute(r) \notin kernel'.routes}
  <2>1. known'.routes = known.routes
    BY <1>0, <1>2, RememberRoutes
  <2>q. QED  BY <1>0, <1>2, <2>1, DarwinCleanFacts DEF DarwinSettles
<1>3. CASE pc = "scoped out"
  <2>1. kernel'.addrs = kernel.addrs /\ kernel'.scoped = kernel.scoped \ {x} /\ kernel'.routes = kernel.routes
    <3>1. kernel' \in Darwin!Delete(kernel, "scoped", x)
      BY <1>3 DEF Darwin!Command
    <3>q. QED  BY <1>0, <3>1, DarwinFields
  <2>2. x \notin snap.want
    BY <1>3, DarwinCleanFacts DEF DarwinSettles
  <2>3. /\ DarwinLeft("scoped out")' = DarwinLeft("scoped out") \ {x} /\ DarwinLeft("scoped in")' = DarwinLeft("scoped in")
        /\ DarwinLeft("addrs out")' = DarwinLeft("addrs out") /\ DarwinLeft("addrs in")' = DarwinLeft("addrs in")
    BY <1>3, DarwinCleanFacts
  <2>q. QED  BY <1>0, <1>2, <1>3, <2>1, <2>2, <2>3 DEF DarwinSettles
<1>4. CASE pc = "addrs out"
  <2>1. kernel'.addrs = kernel.addrs \ {x} /\ kernel'.scoped = kernel.scoped /\ kernel'.routes = kernel.routes
    <3>1. kernel' \in Darwin!Delete(kernel, "addrs", x)
      BY <1>4 DEF Darwin!Command
    <3>q. QED  BY <1>0, <3>1, DarwinFields
  <2>2. x \notin asked.addrs
    BY <1>4, DarwinCleanFacts DEF DarwinSettles
  <2>3. /\ DarwinLeft("scoped out")' = DarwinLeft("scoped out") /\ DarwinLeft("scoped in")' = DarwinLeft("scoped in")
        /\ DarwinLeft("addrs out")' = DarwinLeft("addrs out") \ {x} /\ DarwinLeft("addrs in")' = DarwinLeft("addrs in")
    BY <1>4, DarwinCleanFacts
  <2>q. QED  BY <1>0, <1>2, <1>4, <2>1, <2>2, <2>3 DEF DarwinSettles
<1>5. CASE pc = "addrs in"
  <2>1. kernel'.addrs = kernel.addrs \cup {x} /\ kernel'.scoped = kernel.scoped /\ kernel'.routes = kernel.routes
    <3>1. kernel' \in Darwin!Add(kernel, "addrs", x)
      BY <1>5 DEF Darwin!Command
    <3>q. QED  BY <1>0, <3>1, DarwinFields
  <2>2. x \in asked.addrs
    BY <1>5, DarwinCleanFacts DEF DarwinSettles
  <2>3. /\ DarwinLeft("scoped out")' = DarwinLeft("scoped out") /\ DarwinLeft("scoped in")' = DarwinLeft("scoped in")
        /\ DarwinLeft("addrs out")' = DarwinLeft("addrs out") /\ DarwinLeft("addrs in")' = DarwinLeft("addrs in") \ {x}
    BY <1>5, DarwinCleanFacts
  <2>q. QED  BY <1>0, <1>2, <1>5, <2>1, <2>2, <2>3 DEF DarwinSettles
<1>6. CASE pc = "scoped in"
  <2>1. kernel'.addrs = kernel.addrs /\ kernel'.scoped = kernel.scoped \cup {x} /\ kernel'.routes = kernel.routes
    <3>1. kernel' \in Darwin!Add(kernel, "scoped", x)
      BY <1>6 DEF Darwin!Command
    <3>q. QED  BY <1>0, <3>1, DarwinFields
  <2>2. x \in snap.want
    BY <1>6, DarwinCleanFacts DEF DarwinSettles
  <2>3. /\ DarwinLeft("scoped out")' = DarwinLeft("scoped out") /\ DarwinLeft("scoped in")' = DarwinLeft("scoped in") \ {x}
        /\ DarwinLeft("addrs out")' = DarwinLeft("addrs out") /\ DarwinLeft("addrs in")' = DarwinLeft("addrs in")
    BY <1>6, DarwinCleanFacts
  <2>q. QED  BY <1>0, <1>2, <1>6, <2>1, <2>2, <2>3 DEF DarwinSettles
<1>7. CASE pc = "routes in"
  <2>1. kernel'.addrs = kernel.addrs /\ kernel'.scoped = kernel.scoped
        /\ kernel'.routes = kernel.routes \cup {InstalledRoute(x)}
    <3>1. kernel' \in Darwin!routeAdd(kernel, x)
      BY <1>7 DEF Darwin!Command
    <3>q. QED  BY <1>0, <3>1, DarwinFields
  <2>2. known'.routes = kernel'.routes
    <3>1. known'.routes = known.routes \cup {InstalledRoute(x)}
      BY <1>0, <1>7, RememberRoutes
    <3>q. QED  BY <1>0, <2>1, <3>1 DEF DarwinSettles
  <2>3. x \in asked.routes
    BY <1>7, DarwinCleanFacts DEF DarwinSettles
  <2>4. \A r \in asked.routes : InstalledRoute(r) = InstalledRoute(x) <=> r = x
    BY <2>3, DarwinCleanFacts DEF InstalledRoute, AskedSound
  <2>5. /\ DarwinLeft("routes in")' = DarwinLeft("routes in") \ {x} /\ DarwinLeft("routes out")' = DarwinLeft("routes out")
        /\ DarwinLeft("scoped out")' = DarwinLeft("scoped out") /\ DarwinLeft("scoped in")' = DarwinLeft("scoped in")
        /\ DarwinLeft("addrs out")' = DarwinLeft("addrs out") /\ DarwinLeft("addrs in")' = DarwinLeft("addrs in")
    BY <1>7, DarwinCleanFacts
  <2>6. DarwinLeft("routes in")' = {r \in asked.routes : InstalledRoute(r) \notin kernel'.routes}
    BY <1>0, <2>1, <2>4, <2>5 DEF DarwinSettles
  <2>7. \A q \in kernel'.routes : q \in DarwinLeft("routes out")' \/ \E r \in asked.routes : q = InstalledRoute(r)
    <3>1. \A q \in kernel.routes : q \in DarwinLeft("routes out") \/ \E r \in asked.routes : q = InstalledRoute(r)
      BY <1>0 DEF DarwinSettles
    <3>2. ASSUME NEW q \in kernel'.routes
          PROVE  q \in DarwinLeft("routes out")' \/ \E r \in asked.routes : q = InstalledRoute(r)
      <4>1. CASE q = InstalledRoute(x)
        BY <2>3, <4>1
      <4>2. CASE q \in kernel.routes
        BY <2>5, <3>1, <4>2
      <4>q. QED  BY <2>1, <3>2, <4>1, <4>2
    <3>q. QED  BY <3>2
  <2>8. DarwinLeft("routes out")' \subseteq kernel'.routes
    BY <1>0, <2>1, <2>5 DEF DarwinSettles
  <2>q. QED  BY <1>0, <2>1, <2>2, <2>5, <2>6, <2>7, <2>8 DEF DarwinSettles
<1>q. QED  BY <1>1, <1>3, <1>4, <1>5, <1>6, <1>7 DEF DarwinCleanRound, DarwinLoops

\* The inductive invariant: an undisturbed Configure is on its way to what is asked for.
DarwinClean ==
    /\ AskedSound(asked)
    /\ pc \in DarwinLoops /\ clean => DarwinSettles
    /\ ~(clean /\ answer = "error" /\ pc = "idle")

\* Configure starts from what it read, and the loops share out the difference.
LEMMA DarwinSettlesFirst ==
    ASSUME DarwinInv, NEW want, NEW cfg, asked' = cfg,
           known' = Darwin!Installed(kernel), snap' = Darwin!Planned(kernel, want), UNCHANGED kernel,
           Darwin!GoOn(1, snap', asked', known')
    PROVE  DarwinSettles'
<1>1. /\ snap'.addrs = kernel.addrs /\ snap'.routes = kernel.routes /\ snap'.scoped = kernel.scoped
      /\ snap'.want = want /\ known'.routes = kernel.routes
  BY DEF Darwin!Planned, Darwin!Installed
<1>2. ASSUME NEW l \in DarwinLoops PROVE DarwinLeft(l)' = Darwin!Work(l, snap', asked', known')
  <2>1. 1 \in 1 .. 7 /\ \A n \in 1 .. 7 : ~(n < 1)
    OBVIOUS
  <2>2. DarwinRank(l) \in 1 .. 7
    BY DarwinRanks
  <2>3. DarwinLeft(l)' = IF DarwinRank(l) < 1 THEN {} ELSE Darwin!Work(l, snap', asked', known')
    BY <2>1, DarwinLeftAfter
  <2>q. QED  BY <2>1, <2>2, <2>3
<1>3. {"routes out", "scoped out", "addrs out", "addrs in", "scoped in", "routes in"} \subseteq DarwinLoops
  BY DEF DarwinLoops
<1>4. /\ Darwin!Work("routes out", snap', asked', known') = {q \in snap'.routes : ~Darwin!Stays(q, snap', asked')}
      /\ Darwin!Work("scoped out", snap', asked', known') = snap'.scoped \ snap'.want
      /\ Darwin!Work("addrs out", snap', asked', known') = snap'.addrs \ asked'.addrs
      /\ Darwin!Work("addrs in", snap', asked', known') = asked'.addrs \ snap'.addrs
      /\ Darwin!Work("scoped in", snap', asked', known') = snap'.want \ snap'.scoped
      /\ Darwin!Work("routes in", snap', asked', known') = {r \in asked'.routes : InstalledRoute(r) \notin known'.routes}
  BY DEF Darwin!Work, InstalledRoute
<1>5. /\ DarwinLeft("routes out")' = {q \in kernel.routes : ~Darwin!Stays(q, snap', asked')}
      /\ DarwinLeft("scoped out")' = kernel.scoped \ snap'.want
      /\ DarwinLeft("addrs out")' = kernel.addrs \ asked'.addrs
      /\ DarwinLeft("addrs in")' = asked'.addrs \ kernel.addrs
      /\ DarwinLeft("scoped in")' = snap'.want \ kernel.scoped
      /\ DarwinLeft("routes in")' = {r \in asked'.routes : InstalledRoute(r) \notin kernel.routes}
  BY <1>1, <1>2, <1>3, <1>4
<1>6. ASSUME NEW q \in kernel.routes, Darwin!Stays(q, snap', asked')
      PROVE  \E r \in asked'.routes : q = InstalledRoute(r)
  <2>1. PICK r \in asked'.routes : r.dst = q.dst /\ r.src = q.src
    BY <1>6 DEF Darwin!Stays
  <2>2. q \in [dst : Dsts, src : Addrs]
    BY DEF DarwinInv, DarwinTypeOK, DarwinKernels, Darwin!KernelRoutes
  <2>3. q = InstalledRoute(r)
    BY <2>1, <2>2 DEF InstalledRoute
  <2>q. QED  BY <2>3
<1>7. \A q \in kernel.routes : q \in DarwinLeft("routes out")' \/ \E r \in asked'.routes : q = InstalledRoute(r)
  BY <1>5, <1>6
<1>q. QED  BY <1>1, <1>5, <1>7 DEF DarwinSettles

\* Configure: whatever the host looks like, nothing in it makes the call fail later.
LEMMA DarwinCleanConfigure ==
    ASSUME DarwinInv, DarwinClean, NEW cfg \in Configs, Darwin!Configure(cfg)
    PROVE  DarwinClean'
<1>1. CASE clean' = FALSE /\ UNCHANGED asked
  BY <1>1 DEF DarwinClean, AskedSound
<1>2. CASE /\ asked' = Darwin!Normalized(cfg) /\ known' = Darwin!Installed(kernel)
           /\ snap' = Darwin!Planned(kernel, Darwin!desiredScopedDefaults(Darwin!Normalized(cfg).routes, kernel.underlay))
           /\ Darwin!GoOn(1, snap', asked', known')
  <2>1. AskedSound(asked')
    <3>1. Linux!Normalized(cfg) = Darwin!Normalized(cfg)
      BY DEF Linux!Normalized, Darwin!Normalized
    <3>2. Linux!Acceptable(cfg)
      BY <3>1 DEF Darwin!Configure, Darwin!Acceptable, Linux!Acceptable
    <3>q. QED  BY <1>2, <3>1, <3>2, AcceptableSound
  <2>2. UNCHANGED kernel
    BY DEF Darwin!Configure
  <2>3. DarwinSettles'
    BY <1>2, <2>2, DarwinSettlesFirst
  <2>4. pc' \in DarwinLoops
    <3>1. 1 \in 1 .. 7
      OBVIOUS
    <3>q. QED  BY <1>2, <3>1, DarwinGoesOn
  <2>q. QED  BY <2>1, <2>3, <2>4, DarwinStages DEF DarwinClean, AskedSound
<1>q. QED  BY <1>1, <1>2 DEF Darwin!Configure

\* One command: undisturbed, it takes effect.
LEMMA DarwinCleanStep ==
    ASSUME DarwinInv, OnePerDestination(kernel), DarwinClean, Darwin!ConfigureStep
    PROVE  DarwinClean'
<1>1. pc \in {Darwin!Loops[i] : i \in 1 .. Len(Darwin!Loops) - 1} /\ pc \in DarwinLoops \ {"verify"}
      /\ UNCHANGED <<snap, asked>>
  BY DarwinLoopOf DEF Darwin!ConfigureStep
<1>2. PICK x \in todo, outcome \in Darwin!Outcomes :
          /\ Darwin!CommandEnds(Darwin!Command(kernel, pc, x), outcome)
          /\ known' = IF outcome = "failed" THEN known ELSE Darwin!Remember(known, pc, x)
          /\ IF outcome = "failed" /\ ~Darwin!Tolerated(x)
                THEN pc' = "idle" /\ todo' = {} /\ answer' = "error"
                ELSE /\ IF todo = {x} THEN Darwin!GoOn(Darwin!LoopOf(pc) + 1, snap, asked, known')
                                      ELSE pc' = pc /\ todo' = todo \ {x}
                     /\ UNCHANGED answer
  BY DEF Darwin!ConfigureStep
<1>3. AskedSound(asked) /\ AskedSound(asked')
  BY <1>1 DEF DarwinClean, AskedSound
<1>4. /\ clean' = (clean /\ ~(outcome # "done" /\ Darwin!Command(kernel, pc, x) # {}))
      /\ outcome = "done" => kernel' \in Darwin!Command(kernel, pc, x)
  BY <1>2 DEF Darwin!CommandEnds
<1>5. CASE ~clean'
  BY <1>3, <1>5 DEF DarwinClean, AskedSound
<1>6. CASE clean'
  <2>1. clean /\ DarwinSettles
    BY <1>1, <1>4, <1>6 DEF DarwinClean
  <2>2. Darwin!Command(kernel, pc, x) # {}
    BY <1>1, <1>3, <2>1, CommandPossible
  <2>3. outcome = "done"
    BY <1>4, <1>6, <2>2
  <2>4. /\ known' = Darwin!Remember(known, pc, x)
        /\ IF todo = {x} THEN Darwin!GoOn(Darwin!LoopOf(pc) + 1, snap, asked, known')
                         ELSE pc' = pc /\ todo' = todo \ {x}
    BY <1>2, <2>3
  <2>5. /\ \A l \in DarwinLoops \ {"routes in"} : DarwinLeft(l)' = IF l = pc THEN todo \ {x} ELSE DarwinLeft(l)
        /\ pc = "routes in" => DarwinLeft("routes in")' = todo \ {x}
        /\ pc # "routes in" => DarwinLeft("routes in")' = Darwin!Work("routes in", snap, asked, known')
    <3>1. ASSUME NEW l \in DarwinLoops
          PROVE  /\ l # "routes in" => DarwinLeft(l)' = IF l = pc THEN todo \ {x} ELSE DarwinLeft(l)
                 /\ pc = "routes in" => DarwinLeft("routes in")' = todo \ {x}
                 /\ pc # "routes in" => DarwinLeft("routes in")' = Darwin!Work("routes in", snap, asked, known')
      BY <1>1, <2>4, DarwinRoundLefts
    <3>q. QED  BY <1>1, <3>1
  <2>6. DarwinCleanRound(x)
    BY <1>1, <1>3, <2>1, <2>4, <2>5 DEF DarwinCleanRound
  <2>7. DarwinSettles'
    BY <1>4, <2>3, <2>6, DarwinSettlesRound
  <2>8. pc' \in DarwinLoops
    <3>1. CASE todo = {x}
      <4>1. Darwin!LoopOf(pc) + 1 \in 1 .. 7
        BY <1>1, DarwinLoopOf
      <4>q. QED  BY <2>4, <3>1, <4>1, DarwinGoesOn
    <3>2. CASE todo # {x}
      BY <1>1, <2>4, <3>2
    <3>q. QED  BY <3>1, <3>2
  <2>q. QED  BY <1>3, <2>7, <2>8, DarwinStages DEF DarwinClean, AskedSound
<1>q. QED  BY <1>5, <1>6

\* The check at the end: with nothing left to do, the host carries what is asked for.
LEMMA DarwinSettledVerifies ==
    ASSUME DarwinInv, AskedSound(asked), DarwinSettles, pc = "verify"
    PROVE  Darwin!Verified(Darwin!Installed(kernel), asked, snap.want)
<1>1. /\ DarwinLeft("routes out") = {} /\ DarwinLeft("scoped out") = {} /\ DarwinLeft("addrs out") = {}
      /\ DarwinLeft("addrs in") = {} /\ DarwinLeft("scoped in") = {} /\ DarwinLeft("routes in") = {}
  BY DarwinOrder DEF DarwinLoops
<1>2. kernel.addrs = asked.addrs /\ kernel.scoped = snap.want
  BY <1>1 DEF DarwinSettles
<1>3. /\ \A q \in kernel.routes : \E r \in asked.routes : q = InstalledRoute(r)
      /\ \A r \in asked.routes : InstalledRoute(r) \in kernel.routes
  BY <1>1 DEF DarwinSettles
<1>4. Darwin!Destinations(kernel.routes) \subseteq Darwin!Destinations(asked.routes)
  <2> SUFFICES ASSUME NEW q \in kernel.routes PROVE \E r \in asked.routes : q.dst = r.dst
    BY DEF Darwin!Destinations
  <2>1. PICK r \in asked.routes : q = InstalledRoute(r)
    BY <1>3
  <2>q. QED  BY <2>1 DEF InstalledRoute
<1>5. ASSUME NEW r \in asked.routes PROVE {q \in kernel.routes : q.dst = r.dst} = {InstalledRoute(r)}
  <2>1. InstalledRoute(r) \in kernel.routes /\ InstalledRoute(r).dst = r.dst
    BY <1>3 DEF InstalledRoute
  <2>2. ASSUME NEW q \in kernel.routes, q.dst = r.dst PROVE q = InstalledRoute(r)
    <3>1. PICK p \in asked.routes : q = InstalledRoute(p)
      BY <1>3
    <3>2. p.dst = r.dst
      BY <2>2, <3>1 DEF InstalledRoute
    <3>q. QED  BY <3>1, <3>2 DEF AskedSound
  <2>q. QED  BY <2>1, <2>2
<1>6. /\ Darwin!Installed(kernel).addrs = kernel.addrs /\ Darwin!Installed(kernel).routes = kernel.routes
      /\ Darwin!Installed(kernel).scoped = kernel.scoped
  BY DEF Darwin!Installed
<1>7. \A r \in Darwin!Required(asked.routes) :
          {q \in Darwin!Installed(kernel).routes : q.dst = r.dst} = {[dst |-> r.dst, src |-> r.src]}
  BY <1>5, <1>6 DEF Darwin!Required, InstalledRoute
<1>q. QED  BY <1>2, <1>4, <1>6, <1>7 DEF Darwin!Verified

\* The verification of an undisturbed call.
LEMMA DarwinCleanVerify ==
    ASSUME DarwinInv, DarwinClean, Darwin!Verify
    PROVE  DarwinClean'
<1>1. pc = "verify" /\ pc' = "idle" /\ UNCHANGED <<snap, asked>> /\ pc \in DarwinLoops /\ AskedSound(asked)
  BY DEF Darwin!Verify, DarwinLoops, DarwinClean
<1>2. \/ clean' = FALSE
      \/ /\ UNCHANGED clean
         /\ answer' = IF Darwin!Verified(Darwin!Installed(kernel), asked, snap.want) THEN "ok" ELSE "error"
  BY DEF Darwin!Verify
<1>3. clean => DarwinSettles
  BY <1>1 DEF DarwinClean
<1>4. ~(clean' /\ answer' = "error")
  BY <1>1, <1>2, <1>3, DarwinSettledVerifies
<1>q. QED  BY <1>1, <1>4, DarwinStages DEF DarwinClean, AskedSound

\* Every step on macOS.
LEMMA DarwinCleanSteps ==
    ASSUME DarwinInv, OnePerDestination(kernel), DarwinClean, Darwin!Next \/ UNCHANGED vars
    PROVE  DarwinClean'
<1>1. ASSUME UNCHANGED asked, clean' = FALSE \/ pc' \in DarwinClosing \cup {"closed"} PROVE DarwinClean'
  BY <1>1, DarwinStages DEF DarwinClean, AskedSound
<1>2. ASSUME NEW cfg \in Configs, Darwin!Refuse(cfg) PROVE DarwinClean'
  <2>1. UNCHANGED <<pc, asked>> /\ pc \in {"idle", "closed"} /\ answer' \in {"closed", "rejected"}
    BY <1>2 DEF Darwin!Refuse
  <2>q. QED  BY <2>1, DarwinStages DEF DarwinClean, AskedSound
<1>3. CASE Darwin!Close
  <2>1. Darwin!CloseOn(1, known) /\ UNCHANGED asked
    BY <1>3 DEF Darwin!Close
  <2>2. 1 \in 1 .. 4
    OBVIOUS
  <2>q. QED  BY <1>1, <2>1, <2>2, DarwinCloseOn
<1>4. CASE Darwin!CloseStep
  <2>1. pc \in DarwinClosing /\ UNCHANGED asked
    BY <1>4, DarwinCloseAt DEF Darwin!CloseStep
  <2>2. \/ pc' = "closed"
        \/ pc' = pc
        \/ /\ pc # "close device"
           /\ Darwin!CloseOn((CHOOSE i \in 1 .. Len(Darwin!CloseLoops) : Darwin!CloseLoops[i] = pc) + 1, known)
    BY <1>4 DEF Darwin!CloseStep
  <2>3. CASE /\ pc # "close device"
             /\ Darwin!CloseOn((CHOOSE i \in 1 .. Len(Darwin!CloseLoops) : Darwin!CloseLoops[i] = pc) + 1, known)
    <3>1. PICK at \in 1 .. 4 : Darwin!CloseOn(at, known)
      BY <1>4, <2>3, DarwinCloseAt DEF Darwin!CloseStep
    <3>q. QED  BY <1>1, <2>1, <3>1, DarwinCloseOn
  <2>q. QED  BY <1>1, <2>1, <2>2, <2>3
<1>5. CASE Darwin!Meddle \/ Darwin!Crash
  BY <1>1, <1>5 DEF Darwin!Meddle, Darwin!Crash
<1>6. CASE Darwin!Roam \/ UNCHANGED vars
  <2>1. UNCHANGED <<pc, todo, snap, asked, known, answer, clean>>
    BY <1>6 DEF Darwin!Roam, vars
  <2>2. kernel'.routes = kernel.routes /\ kernel'.scoped = kernel.scoped /\ kernel'.addrs = kernel.addrs
    <3>1. CASE UNCHANGED vars
      BY <3>1 DEF vars
    <3>2. ASSUME NEW f, NEW gw, kernel' = [kernel EXCEPT !.underlay[f] = gw]
          PROVE  kernel'.routes = kernel.routes /\ kernel'.scoped = kernel.scoped /\ kernel'.addrs = kernel.addrs
      BY <3>2 DEF DarwinInv, DarwinTypeOK, DarwinKernels
    <3>q. QED  BY <1>6, <3>1, <3>2 DEF Darwin!Roam
  <2>3. \A l : DarwinLeft(l)' = DarwinLeft(l)
    BY <2>1 DEF DarwinLeft
  <2>4. DarwinSettles => DarwinSettles'
    BY <2>1, <2>2, <2>3 DEF DarwinSettles
  <2>q. QED  BY <2>1, <2>4 DEF DarwinClean, AskedSound
<1>q. QED
  BY <1>2, <1>3, <1>4, <1>5, <1>6, DarwinCleanConfigure, DarwinCleanStep, DarwinCleanVerify DEF Darwin!Next

\* The start on macOS.
LEMMA DarwinCleanStarts ==
    ASSUME Darwin!Init
    PROVE  DarwinClean
<1>1. asked.routes = {} /\ clean = FALSE
  BY DEF Darwin!Init
<1>q. QED  BY <1>1 DEF DarwinClean, AskedSound
----------------------------------------------------------------------------
(* Both systems.                                                           *)

HostInv ==
    \/ os = "linux" /\ LinuxInv
    \/ os = "darwin" /\ DarwinInv

\* The inductive invariant of the two systems holds throughout, and whatever a step
\* of either does is seen through the interface as one of its steps.
THEOREM HostInvariance == HostSpec => [](HostInv)
<1>1. HostInit => HostInv
  BY LinuxStarts, DarwinStarts DEF HostInit, HostInv
<1>2. HostInv /\ [HostNext]_<<vars, os>> => HostInv'
  <2> SUFFICES ASSUME HostInv, [HostNext]_<<vars, os>> PROVE HostInv'
    OBVIOUS
  <2>1. CASE UNCHANGED <<vars, os>>
    BY <2>1, LinuxStutters, DarwinStutters DEF HostInv
  <2>2. CASE HostNext
    <3>1. ASSUME os = "linux" PROVE HostInv'
      <4>1. LinuxInv /\ Linux!Next /\ os' = os
        BY <2>2, <3>1 DEF HostNext, HostInv
      <4>q. QED  BY <3>1, <4>1, LinuxSteps DEF HostInv
    <3>2. ASSUME os = "darwin" PROVE HostInv'
      <4>1. DarwinInv /\ Darwin!Next /\ os' = os
        BY <2>2, <3>2 DEF HostNext, HostInv
      <4>q. QED  BY <3>2, <4>1, DarwinSteps DEF HostInv
    <3>q. QED  BY <3>1, <3>2 DEF HostInv
  <2>q. QED  BY <2>1, <2>2
<1>q. QED  BY <1>1, <1>2, PTL DEF HostSpec

\* Close leaves nothing behind that outlives the interface: no policy rule on Linux,
\* no scoped default on macOS, also when it can only rely on what the calls before it
\* remembered (closeLocked, clearLocked).
THEOREM ClosesCleanly == HostSpec => []NothingLeft
<1>1. HostInv => NothingLeft
  <2>1. LinuxInv => Linux!NothingLeft
    BY DEF LinuxInv, LinuxRules, Linux!NothingLeft
  <2>2. DarwinInv => Darwin!NothingLeft
    BY DEF DarwinInv, DarwinScoped, Darwin!NothingLeft
  <2>q. QED  BY <2>1, <2>2 DEF HostInv, NothingLeft
<1>q. QED  BY <1>1, HostInvariance, PTL

\* Both systems implement the Host interface of hosttun.go: Configure answers "ok"
\* only while the host carries the configuration that was asked for and nothing else,
\* a refused call touches nothing, and a closed host stays closed, whatever fails and
\* whoever else changes the host.
THEOREM HostRefines == HostSpec => ImplementsHost
<1>1. HostInit => Interface!HostInit
  <2> SUFFICES ASSUME HostInit PROVE Interface!HostInit
    OBVIOUS
  <2>1. pc = "idle" /\ asked = [addrs |-> {}, routes |-> {}] /\ answer = "none"
    BY DEF HostInit, Linux!Init, Darwin!Init
  <2>q. QED  BY <2>1, PhaseOf, CarriesBoolean DEF Interface!HostInit, HostCarries
<1>2. HostInv /\ [HostNext]_<<vars, os>> => [Interface!HostNext]_Interface!hostVars
  <2> SUFFICES ASSUME HostInv, [HostNext]_<<vars, os>> PROVE [Interface!HostNext]_Interface!hostVars
    OBVIOUS
  <2>1. CASE UNCHANGED <<vars, os>>
    <3>1. UNCHANGED <<kernel, pc, asked, answer, os>>
      BY <2>1 DEF vars
    <3>2. Phase' = Phase /\ HostCarries' = HostCarries
      BY <3>1, PhaseOfNext, CarriesOfKernel
    <3>3. UNCHANGED Interface!hostVars
      BY <3>1, <3>2 DEF Interface!hostVars, HostCarries
    <3>q. QED  BY <3>3
  <2>2. CASE HostNext
    <3>1. UNCHANGED os
      BY <2>2 DEF HostNext
    <3>2. Seen
      BY <2>2, LinuxSteps, DarwinSteps DEF HostNext, HostInv
    <3>q. QED  BY <3>1, <3>2, SeenIsAllowed
  <2>q. QED  BY <2>1, <2>2
<1>q. QED  BY <1>1, <1>2, HostInvariance, PTL DEF HostSpec, ImplementsHost, Interface!HostSpec

HostPath ==
    \/ os = "linux" /\ LinuxPath
    \/ os = "darwin" /\ DarwinPath

\* What the loops have still to do is what the path of traffic depends on, throughout.
THEOREM PathInvariance == HostSpec => [](HostPath)
<1>1. HostInit => HostPath
  BY LinuxPathStarts, DarwinPathStarts DEF HostInit, HostPath
<1>2. HostInv /\ HostPath /\ [HostNext]_<<vars, os>> => HostPath'
  <2> SUFFICES ASSUME HostInv, HostPath, [HostNext]_<<vars, os>> PROVE HostPath'
    OBVIOUS
  <2>1. os' = os
    BY DEF HostNext
  <2>2. CASE os = "linux"
    <3>1. LinuxInv /\ LinuxPath /\ (Linux!Next \/ UNCHANGED vars)
      BY <2>2 DEF HostInv, HostPath, HostNext
    <3>q. QED  BY <2>1, <2>2, <3>1, LinuxPathSteps DEF HostPath
  <2>3. CASE os = "darwin"
    <3>1. DarwinInv /\ DarwinPath /\ (Darwin!Next \/ UNCHANGED vars)
      BY <2>3 DEF HostInv, HostPath, HostNext
    <3>q. QED  BY <2>1, <2>3, <3>1, DarwinPathSteps DEF HostPath
  <2>q. QED  BY <2>2, <2>3 DEF HostPath
<1>q. QED  BY <1>1, <1>2, HostInvariance, PTL DEF HostSpec

\* Traffic keeps its path through every reconfiguration: on Linux a destination that
\* stays wanted in the same role is reachable through the TUN after every single request
\* of Configure, whichever of them fail; on macOS no exit route is ever installed
\* without the scoped defaults it was installed over (the order of Configure's loops).
THEOREM PathIsKept == HostSpec => []TrafficKeepsItsPath
<1>1. HostPath => TrafficKeepsItsPath
  <2>1. DarwinPath => Darwin!ExitKeepsUnderlay
    BY DEF DarwinPath, Resting, ExitRoute, Darwin!ExitKeepsUnderlay
  <2>q. QED  BY <2>1, LinuxPathIsKept DEF HostPath, TrafficKeepsItsPath
<1>q. QED  BY <1>1, PathInvariance, PTL

HostClean ==
    \/ os = "linux" /\ LinuxClean
    \/ os = "darwin" /\ DarwinClean

\* A Configure that nothing disturbs succeeds, whatever failed calls, crashes and others
\* left behind: on Linux unless a required route's destination carries a route of another
\* metric or of the kernel, or the main table has a route to an address of the TUN that
\* nobody asked for (readInstalledState, verifyLinuxState); on macOS always, because no
\* command of the call meets what would make it fail (Configure of hosttun_darwin.go).
THEOREM CleanConfiguresSucceed == HostSpec => []CleanSucceeds
<1>1. HostInit => HostClean
  BY LinuxCleanStarts, DarwinCleanStarts DEF HostInit, HostClean
<1>2. HostInv /\ HostPath /\ HostClean /\ [HostNext]_<<vars, os>> => HostClean'
  <2> SUFFICES ASSUME HostInv, HostPath, HostClean, [HostNext]_<<vars, os>> PROVE HostClean'
    OBVIOUS
  <2>1. os' = os
    BY DEF HostNext
  <2>2. CASE os = "linux"
    <3>1. LinuxInv /\ AskedSound(asked) /\ LinuxClean /\ (Linux!Next \/ UNCHANGED vars)
      BY <2>2 DEF HostInv, HostPath, LinuxPath, HostClean, HostNext
    <3>q. QED  BY <2>1, <2>2, <3>1, LinuxCleanSteps DEF HostClean
  <2>3. CASE os = "darwin"
    <3>1. DarwinInv /\ OnePerDestination(kernel) /\ DarwinClean /\ (Darwin!Next \/ UNCHANGED vars)
      BY <2>3 DEF HostInv, HostPath, DarwinPath, HostClean, HostNext
    <3>q. QED  BY <2>1, <2>3, <3>1, DarwinCleanSteps DEF HostClean
  <2>q. QED  BY <2>2, <2>3 DEF HostClean
<1>3. HostClean => CleanSucceeds
  <2>1. LinuxClean => Linux!CleanSucceeds
    BY DEF LinuxClean, Excused, Linux!CleanSucceeds
  <2>2. DarwinClean => Darwin!CleanSucceeds
    BY DEF DarwinClean, Darwin!CleanSucceeds
  <2>q. QED  BY <2>1, <2>2 DEF HostClean, CleanSucceeds
<1>q. QED  BY <1>1, <1>2, <1>3, HostInvariance, PathInvariance, PTL DEF HostSpec
=============================================================================
