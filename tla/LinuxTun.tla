------------------------------ MODULE LinuxTun -------------------------------
(***************************************************************************)
(* src/hosttun/hosttun_linux.go: the host TUN on Linux.  Configure reads   *)
(* what is installed, takes down policy rules it does not want, adds       *)
(* addresses, reconciles the main table and the exit table 527, puts the   *)
(* policy rules up, removes stale addresses, and reads everything again to *)
(* verify it.  Every netlink request may fail, others may change the host  *)
(* between any two requests, and a crash takes the interface with its      *)
(* addresses and routes away but leaves the policy rules behind.           *)
(*                                                                         *)
(* kernel is [addrs, main, table, rules].  A kernel route has a kind:      *)
(* "ours" is what replaceRouteInTable writes; "gateway" differs from it in *)
(* an attribute that a replace overwrites; "metric" is a route of another  *)
(* priority, which a replace leaves beside it; "kernel" is the route the   *)
(* kernel adds for a local address.  known is [addrs, routes].             *)
(***************************************************************************)
EXTENDS HostConfig, Sequences

RouteKinds == {"ours", "gateway", "metric", "kernel"}
KernelRoutes == [dst : Dsts, src : Addrs, kind : RouteKinds]
Rules == [fam : Families, kind : {"exit", "other"}]   \* at priority 5300
Nothing == [addrs |-> {}, main |-> {}, table |-> {}, rules |-> {}]

----------------------------------------------------------------------------
(* What netlink does (external).                                           *)

addrReplace(k, a) == {[k EXCEPT !.addrs = @ \cup {a}]}

\* The kernel's own route goes with an address; the other routes that prefer it
\* as their source may go too, depending on the kernel and the table.
addrDel(k, a) ==
    LET Without(routes) == {r \in routes : r.src # a}
        WithoutOwn(routes) == {r \in routes : r.src # a \/ r.kind # "kernel"}
    IN {[k EXCEPT !.addrs = @ \ {a}, !.main = m, !.table = t] :
           m \in {WithoutOwn(k.main), Without(k.main)}, t \in {k.table, Without(k.table)}}

routeReplace(k, tab, r) ==
    {[k EXCEPT ![tab] =
        {q \in @ : q.dst # r.dst \/ q.kind \in {"metric", "kernel"}}
            \cup {[dst |-> r.dst, src |-> r.src, kind |-> "ours"]}]}

\* One route of the destination goes; deleting what is not there is no error.
routeDel(k, tab, dst) ==
    LET Matching == {q \in k[tab] : q.dst = dst} IN
    IF Matching = {} THEN {k} ELSE {[k EXCEPT ![tab] = @ \ {q}] : q \in Matching}

ruleAdd(k, rule) == {[k EXCEPT !.rules = @ \cup {rule}]}
ruleDel(k, rule) == {[k EXCEPT !.rules = @ \ {rule}]}

----------------------------------------------------------------------------
(* Reading and planning.                                                   *)

\* linuxAddressRoute: a kernel route to an address of the TUN is not ours to
\* manage, unless the configuration asks for that destination.
AddressRoute(k, r, routes) ==
    /\ r.kind = "kernel"
    /\ r.dst \in {PrefixOf[a] : a \in k.addrs \cap HostAddrs}
    /\ r.dst \notin Destinations(routes)

readInstalledState(k, routes) ==
    [k EXCEPT !.main = {r \in @ : ~AddressRoute(k, r, routes)},
              !.table = {r \in @ : ~AddressRoute(k, r, routes)}]

\* desiredLinuxRoutes: exit routes never enter the main table, and the exit
\* table holds every route as soon as one of them is an exit route.
desiredLinuxRoutes(routes) ==
    [main |-> {r \in routes : ~r.exit},
     table |-> IF hasExitRoutes(routes) THEN routes ELSE {}]

desiredLinuxRules(routes) ==
    IF hasExitRoutes(routes) THEN {[fam |-> f, kind |-> "exit"] : f \in Families} ELSE {}

\* logicalLinuxRoutes: the wanted destinations that are installed, as they are
\* remembered for Close.
logicalLinuxRoutes(st, routes) ==
    {r \in routes : r.dst \in Destinations(IF r.exit THEN st.table ELSE st.main)}

\* reconcileRouteTable: what is installed for no wanted destination goes, and
\* what is wanted and not installed as wanted is written.
StaleRoutes(installed, want) == {q \in installed : q.dst \notin Destinations(want)}

WrongRoutes(installed, want) ==
    {r \in want :
        {q \in installed : q.dst = r.dst} # {[dst |-> r.dst, src |-> r.src, kind |-> "ours"]}}

\* verifyLinuxState: addresses, both tables and the rules, optional routes aside.
\* Mutant: routes nobody wants are not looked for.
VerifyWanted(got, want) == WrongRoutes(got, Required(want)) = {}

verifyLinuxTable(got, want) ==
    /\ StaleRoutes(got, want) = {}
    /\ WrongRoutes(got, Required(want)) = {}

verifyLinuxState(cfg, st) ==
    LET want == desiredLinuxRoutes(cfg.routes) IN
    /\ st.addrs = cfg.addrs
    /\ verifyLinuxTable(st.main, want.main)
    /\ verifyLinuxTable(st.table, want.table)
    /\ st.rules = desiredLinuxRules(cfg.routes)

----------------------------------------------------------------------------
(* Configure: the loops in their order, what each of them has to handle,   *)
(* and the request each of its rounds makes.                               *)

\* Mutant: stale addresses go before the tables that still name them change.
AddressesFirst == <<"rules out", "addrs in", "addrs out", "main out", "main in", "table out",
                    "table in", "rules in", "verify">>

Loops == <<"rules out", "addrs in", "main out", "main in", "table out", "table in",
           "rules in", "addrs out", "verify">>

Work(loop, st, cfg) ==
    LET want == desiredLinuxRoutes(cfg.routes)
        wantRules == desiredLinuxRules(cfg.routes)
    IN CASE loop = "rules out" -> st.rules \ wantRules
         [] loop = "addrs in" -> cfg.addrs \ st.addrs
         [] loop = "main out" -> StaleRoutes(st.main, want.main)
         [] loop = "main in" -> WrongRoutes(st.main, want.main)
         [] loop = "table out" -> StaleRoutes(st.table, want.table)
         [] loop = "table in" -> WrongRoutes(st.table, want.table)
         [] loop = "rules in" -> wantRules \ st.rules
         [] loop = "addrs out" -> st.addrs \ cfg.addrs
         [] OTHER -> {"read"}

Request(k, loop, x) ==
    CASE loop = "rules out" -> ruleDel(k, x)
      [] loop = "addrs in" -> addrReplace(k, x)
      [] loop = "main out" -> routeDel(k, "main", x.dst)
      [] loop = "main in" -> routeReplace(k, "main", x)
      [] loop = "table out" -> routeDel(k, "table", x.dst)
      [] loop = "table in" -> routeReplace(k, "table", x)
      [] loop = "rules in" -> ruleAdd(k, x)
      [] loop = "addrs out" -> addrDel(k, x)

\* The next loop that has anything to do; verification always has.
GoOn(i, st, cfg) ==
    LET j == CHOOSE j \in i .. Len(Loops) :
                /\ Work(Loops[j], st, cfg) # {}
                /\ \A n \in i .. (j - 1) : Work(Loops[n], st, cfg) = {}
    IN pc' = Loops[j] /\ todo' = Work(Loops[j], st, cfg)

LoopOf(loop) == CHOOSE i \in 1 .. Len(Loops) : Loops[i] = loop

\* Asked for as before: as an exit route, or as one of the main table.
SameRole(r) == \E q \in asked.routes : q.dst = r.dst /\ q.exit = r.exit

\* Configure(cfg), from the call to the first loop with anything to do.  What
\* was read is remembered for Close before anything is changed.
Configure(cfg) ==
    /\ pc = "idle"
    /\ Acceptable(cfg)
    /\ \/ \* installedState fails
          /\ faults > 0
          /\ faults' = faults - 1
          /\ clean' = FALSE
          /\ answer' = "error"
          /\ UNCHANGED <<pc, todo, snap, asked, known, trusted, kept>>
       \/ /\ asked' = Normalized(cfg)
          /\ kept' = kept \cap Destinations({r \in Required(asked'.routes) : SameRole(r)})
          /\ snap' = readInstalledState(kernel, asked'.routes)
          /\ known' = [addrs |-> snap'.addrs,
                       routes |-> logicalLinuxRoutes(snap', asked'.routes)]
          /\ GoOn(1, snap', asked')
          /\ clean' = TRUE
          /\ trusted' = FALSE
          /\ answer' = "none"
          /\ UNCHANGED faults
    /\ UNCHANGED <<kernel, meddles>>

\* An error ends the call.  A rule that could not be added takes the rules this
\* call did add down again, as far as that succeeds; one that was there already
\* (EEXIST) stays.
GiveUp ==
    /\ pc' = "idle"
    /\ todo' = {}
    /\ answer' = "error"

Undone ==
    LET added == Work("rules in", snap, asked) \ todo IN
    IF pc = "rules in" THEN {[kernel EXCEPT !.rules = @ \ gone] : gone \in SUBSET added}
                       ELSE {kernel}

\* A request that failed is fatal unless it was for an optional route.
Tolerated(x) == pc \in {"main in", "table in"} /\ x.opt

\* One round of the running loop.
ConfigureStep ==
    /\ pc \in {Loops[i] : i \in 1 .. Len(Loops) - 1}
    /\ \E x \in todo, outcome \in Outcomes :
          /\ Ends(outcome)
          /\ IF outcome = "failed" /\ ~Tolerated(x)
                THEN /\ kernel' \in Undone
                     /\ GiveUp
                ELSE /\ IF outcome = "done" THEN kernel' \in Request(kernel, pc, x)
                                            ELSE UNCHANGED kernel
                     /\ IF todo = {x} THEN GoOn(LoopOf(pc) + 1, snap, asked)
                                      ELSE pc' = pc /\ todo' = todo \ {x}
                     /\ UNCHANGED answer
          /\ kept' = IF outcome = "lost" THEN {} ELSE kept
    /\ UNCHANGED <<snap, asked, known, meddles, trusted>>

\* The second reading, the verification, and the answer.
Verify ==
    /\ pc = "verify"
    /\ pc' = "idle"
    /\ todo' = {}
    /\ \/ /\ faults > 0
          /\ faults' = faults - 1
          /\ clean' = FALSE
          /\ answer' = "error"
          /\ UNCHANGED <<snap, known, trusted, kept>>
       \/ /\ snap' = readInstalledState(kernel, asked.routes)
          /\ known' = [addrs |-> snap'.addrs,
                       routes |-> logicalLinuxRoutes(snap', asked.routes)]
          /\ answer' = IF verifyLinuxState(asked, snap') THEN "ok" ELSE "error"
          /\ trusted' = (answer' = "ok")
          /\ kept' = IF answer' = "ok" THEN Destinations(Required(asked.routes)) ELSE kept
          /\ UNCHANGED <<faults, clean>>
    /\ UNCHANGED <<kernel, asked, meddles>>

----------------------------------------------------------------------------
(* Close: reads what is installed, or takes what was remembered when it    *)
(* cannot, and removes rules, exit table, main table and addresses over    *)
(* any error; closing the device takes the interface away.                 *)

\* Mutant: only addresses and routes are remembered.
RememberedWithoutRules ==
    LET want == desiredLinuxRoutes(known.routes)
        AsInstalled(routes) == {[dst |-> r.dst, src |-> r.src, kind |-> "ours"] : r \in routes}
    IN [addrs |-> known.addrs, main |-> AsInstalled(want.main),
        table |-> AsInstalled(want.table), rules |-> {}]

Remembered ==
    LET want == desiredLinuxRoutes(known.routes)
        AsInstalled(routes) == {[dst |-> r.dst, src |-> r.src, kind |-> "ours"] : r \in routes}
    IN [addrs |-> known.addrs, main |-> AsInstalled(want.main),
        table |-> AsInstalled(want.table), rules |-> desiredLinuxRules(known.routes)]

CloseLoops == <<"close rules", "close table", "close routes", "close addrs", "close device">>

CloseWork(loop, st) ==
    CASE loop = "close rules" -> st.rules
      [] loop = "close table" -> st.table
      [] loop = "close routes" -> st.main
      [] loop = "close addrs" -> st.addrs
      [] OTHER -> {"device"}

CloseOn(i, st) ==
    LET j == CHOOSE j \in i .. Len(CloseLoops) :
                /\ CloseWork(CloseLoops[j], st) # {}
                /\ \A n \in i .. (j - 1) : CloseWork(CloseLoops[n], st) = {}
    IN pc' = CloseLoops[j] /\ todo' = CloseWork(CloseLoops[j], st)

Close ==
    /\ pc = "idle"
    /\ \/ /\ snap' = readInstalledState(kernel, known.routes)
          /\ clean' = TRUE
          /\ UNCHANGED faults
       \/ /\ faults > 0
          /\ faults' = faults - 1
          /\ snap' = Remembered
          /\ clean' = trusted
    /\ CloseOn(1, snap')
    /\ UNCHANGED <<kernel, asked, known, answer, meddles, trusted, kept>>

CloseStep ==
    /\ pc \in {CloseLoops[i] : i \in 1 .. Len(CloseLoops)}
    /\ \E x \in todo, outcome \in Outcomes :
          /\ Ends(outcome)
          /\ IF outcome # "done" THEN UNCHANGED kernel
             ELSE kernel' \in CASE pc = "close rules" -> ruleDel(kernel, x)
                                [] pc = "close table" -> routeDel(kernel, "table", x.dst)
                                [] pc = "close routes" -> routeDel(kernel, "main", x.dst)
                                [] pc = "close addrs" -> addrDel(kernel, x)
                                [] OTHER -> {[Nothing EXCEPT !.rules = kernel.rules]}
          /\ IF pc = "close device"
                THEN pc' = "closed" /\ todo' = {} /\ known' = [addrs |-> {}, routes |-> {}]
                ELSE /\ IF todo = {x}
                           THEN CloseOn((CHOOSE i \in 1 .. Len(CloseLoops) : CloseLoops[i] = pc) + 1, snap)
                           ELSE pc' = pc /\ todo' = todo \ {x}
                     /\ UNCHANGED known
    /\ kept' = {}
    /\ UNCHANGED <<snap, asked, answer, meddles, trusted>>

----------------------------------------------------------------------------
(* The others on the host (external): an administrator, another program,   *)
(* the kernel's own address routes, and the death of the daemon.           *)

Meddled(k) ==
    {[k EXCEPT !.rules = @ \cup {r}] : r \in Rules}
        \cup {[k EXCEPT !.rules = @ \ {r}] : r \in Rules}
        \cup {[k EXCEPT !.addrs = @ \cup {a}] : a \in Addrs}
        \cup (UNION {addrDel(k, a) : a \in k.addrs})
        \cup (UNION {{[k EXCEPT ![tab] = @ \ {r}] : r \in k[tab]} : tab \in {"main", "table"}})
        \cup (UNION {{[k EXCEPT ![tab] = @ \cup {r}] :
                r \in {q \in KernelRoutes :
                        /\ q.dst = Masked[q.dst]
                        /\ q.kind = "kernel" => tab = "main" /\ q.src \in k.addrs /\ q.dst = PrefixOf[q.src]
                        /\ q.kind \in {"ours", "gateway"} =>
                              \A p \in k[tab] : p.dst = q.dst => p.kind \notin {"ours", "gateway"}}} :
                tab \in {"main", "table"}})

Meddle ==
    /\ pc # "closed"
    /\ meddles > 0
    /\ meddles' = meddles - 1
    /\ kernel' \in Meddled(kernel) \ {kernel}
    /\ clean' = FALSE
    /\ trusted' = FALSE
    /\ kept' = {}
    /\ UNCHANGED <<pc, todo, snap, asked, known, answer, faults>>

\* The interface goes with the process; the policy rules do not.  The next
\* process starts with a fresh interface and remembers nothing.
Crash ==
    /\ meddles > 0
    /\ meddles' = meddles - 1
    /\ kernel' = [Nothing EXCEPT !.rules = kernel.rules]
    /\ pc' = "idle"
    /\ todo' = {}
    /\ snap' = Nothing
    /\ known' = [addrs |-> {}, routes |-> {}]
    /\ answer' = "none"
    /\ clean' = FALSE
    /\ trusted' = FALSE
    /\ kept' = {}
    /\ UNCHANGED <<asked, faults>>

----------------------------------------------------------------------------
Init ==
    /\ kernel = Nothing
    /\ pc = "idle"
    /\ todo = {}
    /\ snap = Nothing
    /\ asked = [addrs |-> {}, routes |-> {}]
    /\ known = [addrs |-> {}, routes |-> {}]
    /\ answer = "none"
    /\ faults = MaxFaults
    /\ meddles = MaxMeddles
    /\ clean = FALSE
    /\ trusted = TRUE
    /\ kept = {}

Next ==
    \/ \E cfg \in Configs : Configure(cfg) \/ Refuse(cfg)
    \/ ConfigureStep
    \/ Verify
    \/ Close
    \/ CloseStep
    \/ Meddle
    \/ Crash

Spec == Init /\ [][Next]_vars

----------------------------------------------------------------------------
(* Properties.                                                             *)

\* Where a packet to d goes: the exit rule of its family sends it to table 527
\* first, and to the main table when that has no route.
Lookup(k, d) ==
    LET at(routes) == {r \in routes : r.dst = d}
        exits == [fam |-> FamilyOf[d], kind |-> "exit"] \in k.rules
    IN IF exits /\ at(k.table) # {} THEN at(k.table) ELSE at(k.main)

\* The host carries a configuration: its addresses, a route of the wanted source
\* for every required destination, and no route anywhere else.
Carries ==
    /\ kernel.addrs = asked.addrs
    /\ \A r \in Required(asked.routes) :
          Lookup(kernel, r.dst) = {[dst |-> r.dst, src |-> r.src, kind |-> "ours"]}
    /\ \A d \in Dsts \ Destinations(asked.routes) :
          \A q \in Lookup(kernel, d) : AddressRoute(kernel, q, asked.routes)

\* A destination wanted by the last successful Configure and, in the same role, by
\* every call since is reachable through the TUN at every moment, with a source that is an
\* address of the TUN: reconfiguring never opens a gap through which its packets
\* would take another way, whichever requests fail.
NoGap == \A d \in kept : \E r \in Lookup(kernel, d) : r.src \in kernel.addrs

\* A Configure that no fault and nobody else disturbed succeeds, whatever state
\* failures, crashes and others left the host in.  Only two things stand in its
\* way: a route of another metric beside a wanted one, and an unwanted route to an
\* address of the TUN, beside the kernel's own, which the removal may take instead.
CleanSucceeds ==
    clean /\ answer = "error" /\ pc = "idle" =>
        \/ \E r \in Required(asked.routes), q \in kernel.main \cup kernel.table :
              q.dst = r.dst /\ q.kind \in {"metric", "kernel"}
        \/ \E q \in kernel.main, a \in HostAddrs :
              q.dst = PrefixOf[a] /\ q.dst \notin Destinations(asked.routes)

\* Close leaves no policy rule behind, also when it must rely on what the last
\* successful Configure remembered.
NothingLeft == pc = "closed" /\ clean => kernel.rules = {}
=============================================================================
