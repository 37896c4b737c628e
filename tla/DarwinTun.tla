------------------------------ MODULE DarwinTun ------------------------------
(***************************************************************************)
(* src/hosttun/hosttun_darwin.go and installed_darwin.go: the host TUN on  *)
(* macOS, configured with ifconfig and route.  With an exit node the       *)
(* split defaults would also capture the daemon's own sockets, so Configure *)
(* installs one scoped default per family through the physical gateway,    *)
(* takes the exit routes down before it changes a scoped default and puts  *)
(* them up after.  A scoped default outlives the interface and the process. *)
(*                                                                         *)
(* kernel is [addrs, routes, scoped, underlay]; underlay is the physical   *)
(* default gateway of each family as DefaultRoute finds it, or NoGateway.  *)
(* kept is the set of scoped defaults the installed exit routes rest on.   *)
(***************************************************************************)
EXTENDS HostConfig, Sequences

CONSTANTS Gateways, NoGateway

KernelRoutes == [dst : Dsts, src : Addrs]
Scoped == [fam : Families, gw : Gateways]
Nothing == [addrs |-> {}, routes |-> {}, scoped |-> {}]

----------------------------------------------------------------------------
(* What the commands do (external).  No result means that the command fails: *)
(* a route to a destination that has one, or the removal of what is absent. *)

Add(k, field, x) == {[k EXCEPT ![field] = @ \cup {x}]}
Delete(k, field, x) == {[k EXCEPT ![field] = @ \ {x}] : y \in k[field] \cap {x}}

routeAdd(k, r) ==
    {[k EXCEPT !.routes = @ \cup {[dst |-> r.dst, src |-> r.src]}] :
        d \in {r.dst} \ Destinations(k.routes)}
routeDelete(k, r) ==
    {[k EXCEPT !.routes = @ \ {q}] : q \in {q \in k.routes : q.dst = r.dst}}

----------------------------------------------------------------------------
(* Configure.                                                              *)

\* desiredScopedDefaults: one per family that has a physical default route.
desiredScopedDefaults(routes, underlay) ==
    IF hasExitRoutes(routes)
       THEN {[fam |-> f, gw |-> underlay[f]] : f \in {f \in Families : underlay[f] # NoGateway}}
       ELSE {}

\* A wanted route that is installed stays, except an exit route when the scoped
\* defaults beneath it change.  Mutant: it stays whatever its source.
StaysByDestination(q, st, cfg) ==
    \E r \in cfg.routes : r.dst = q.dst /\ ~(r.exit /\ st.scoped # st.want)

Stays(q, st, cfg) ==
    \E r \in cfg.routes :
        /\ r.dst = q.dst
        /\ r.src = q.src
        /\ ~(r.exit /\ st.scoped # st.want)

Loops == <<"routes out", "scoped out", "addrs out", "addrs in", "scoped in", "routes in", "verify">>

Work(loop, st, cfg, mem) ==
    CASE loop = "routes out" -> {q \in st.routes : ~Stays(q, st, cfg)}
      [] loop = "scoped out" -> st.scoped \ st.want
      [] loop = "addrs out" -> st.addrs \ cfg.addrs
      [] loop = "addrs in" -> cfg.addrs \ st.addrs
      [] loop = "scoped in" -> st.want \ st.scoped
      [] loop = "routes in" -> {r \in cfg.routes : [dst |-> r.dst, src |-> r.src] \notin mem.routes}
      [] OTHER -> {"read"}

Command(k, loop, x) ==
    CASE loop = "routes out" -> routeDelete(k, x)
      [] loop = "scoped out" -> Delete(k, "scoped", x)
      [] loop = "addrs out" -> Delete(k, "addrs", x)
      [] loop = "addrs in" -> Add(k, "addrs", x)
      [] loop = "scoped in" -> Add(k, "scoped", x)
      [] loop = "routes in" -> routeAdd(k, x)

\* What a command that reported success does to the remembered state.
Remember(mem, loop, x) ==
    CASE loop = "routes out" -> [mem EXCEPT !.routes = {q \in @ : q.dst # x.dst}]
      [] loop = "scoped out" -> [mem EXCEPT !.scoped = @ \ {x}]
      [] loop = "addrs out" -> [mem EXCEPT !.addrs = @ \ {x}]
      [] loop = "addrs in" -> [mem EXCEPT !.addrs = @ \cup {x}]
      [] loop = "scoped in" -> [mem EXCEPT !.scoped = @ \cup {x}]
      [] loop = "routes in" -> [mem EXCEPT !.routes = @ \cup {[dst |-> x.dst, src |-> x.src]}]

GoOn(i, st, cfg, mem) ==
    LET j == CHOOSE j \in i .. Len(Loops) :
                /\ Work(Loops[j], st, cfg, mem) # {}
                /\ \A n \in i .. (j - 1) : Work(Loops[n], st, cfg, mem) = {}
    IN pc' = Loops[j] /\ todo' = Work(Loops[j], st, cfg, mem)

LoopOf(loop) == CHOOSE i \in 1 .. Len(Loops) : Loops[i] = loop

Installed(k) == [addrs |-> k.addrs, routes |-> k.routes, scoped |-> k.scoped]

\* What was read, and the scoped defaults that are wanted.
Planned(k, want) == [addrs |-> k.addrs, routes |-> k.routes, scoped |-> k.scoped, want |-> want]

\* Configure(cfg), to the first loop with anything to do.
Configure(cfg) ==
    /\ pc = "idle"
    /\ Acceptable(cfg)
    /\ LET want == desiredScopedDefaults(Normalized(cfg).routes, kernel.underlay) IN
       \/ \* installedState fails
          /\ faults > 0
          /\ faults' = faults - 1
          /\ clean' = FALSE
          /\ answer' = "error"
          /\ UNCHANGED <<pc, todo, snap, asked, known, trusted>>
       \/ \* no physical default route to put beneath an exit route
          /\ hasExitRoutes(Normalized(cfg).routes)
          /\ want = {}
          /\ known' = Installed(kernel)
          /\ trusted' = TRUE
          /\ clean' = FALSE
          /\ answer' = "error"
          /\ UNCHANGED <<pc, todo, snap, asked, faults>>
       \/ /\ hasExitRoutes(Normalized(cfg).routes) => want # {}
          /\ asked' = Normalized(cfg)
          /\ known' = Installed(kernel)
          /\ snap' = Planned(kernel, want)
          /\ GoOn(1, snap', asked', known')
          /\ trusted' = TRUE
          /\ clean' = TRUE
          /\ answer' = "none"
          /\ UNCHANGED faults
    /\ UNCHANGED <<kernel, meddles, kept>>

\* How a command ends: one that cannot take effect fails, any other may.
CommandEnds(results, outcome) ==
    LET fault == outcome # "done" /\ results # {} IN
    /\ outcome = "done" => results # {}
    /\ outcome = "lost" => results # {}
    /\ fault => faults > 0
    /\ faults' = IF fault THEN faults - 1 ELSE faults
    /\ clean' = (clean /\ ~fault)
    /\ trusted' = (trusted /\ outcome # "lost")
    /\ IF outcome = "done" THEN kernel' \in results ELSE UNCHANGED kernel

\* A failed command is fatal unless it was for an optional route.
Tolerated(x) ==
    \/ pc = "routes in" /\ x.opt
    \/ pc = "routes out" /\ \E r \in asked.routes : r.dst = x.dst /\ r.opt

ConfigureStep ==
    /\ pc \in {Loops[i] : i \in 1 .. Len(Loops) - 1}
    /\ \E x \in todo, outcome \in Outcomes :
          /\ CommandEnds(Command(kernel, pc, x), outcome)
          /\ known' = IF outcome = "failed" THEN known ELSE Remember(known, pc, x)
          /\ IF outcome = "failed" /\ ~Tolerated(x)
                THEN pc' = "idle" /\ todo' = {} /\ answer' = "error"
                ELSE /\ IF todo = {x} THEN GoOn(LoopOf(pc) + 1, snap, asked, known')
                                      ELSE pc' = pc /\ todo' = todo \ {x}
                     /\ UNCHANGED answer
          /\ kept' = CASE outcome = "lost" -> {}
                       [] outcome = "done" /\ pc = "routes in" /\ x.exit /\ trusted -> snap.want
                       [] OTHER -> kept
    /\ UNCHANGED <<snap, asked, meddles>>

\* verifyHostConfig and verifyDarwinScopedDefaults.
Verified(st, cfg, want) ==
    /\ st.addrs = cfg.addrs
    /\ Destinations(st.routes) \subseteq Destinations(cfg.routes)
    /\ \A r \in Required(cfg.routes) : {q \in st.routes : q.dst = r.dst} = {[dst |-> r.dst, src |-> r.src]}
    /\ st.scoped = want

Verify ==
    /\ pc = "verify"
    /\ pc' = "idle"
    /\ todo' = {}
    /\ \/ /\ faults > 0
          /\ faults' = faults - 1
          /\ clean' = FALSE
          /\ answer' = "error"
          /\ UNCHANGED <<known, trusted>>
       \/ /\ known' = Installed(kernel)
          /\ trusted' = TRUE
          /\ answer' = IF Verified(known', asked, snap.want) THEN "ok" ELSE "error"
          /\ UNCHANGED <<faults, clean>>
    /\ UNCHANGED <<kernel, snap, asked, meddles, kept>>

----------------------------------------------------------------------------
(* Close: clearLocked removes what is remembered, over any error.          *)

CloseLoops == <<"close routes", "close scoped", "close addrs", "close device">>

CloseWork(loop, mem) ==
    CASE loop = "close routes" -> mem.routes
      [] loop = "close scoped" -> mem.scoped
      [] loop = "close addrs" -> mem.addrs
      [] OTHER -> {"device"}

CloseOn(i, mem) ==
    LET j == CHOOSE j \in i .. Len(CloseLoops) :
                /\ CloseWork(CloseLoops[j], mem) # {}
                /\ \A n \in i .. (j - 1) : CloseWork(CloseLoops[n], mem) = {}
    IN pc' = CloseLoops[j] /\ todo' = CloseWork(CloseLoops[j], mem)

Close ==
    /\ pc = "idle"
    /\ clean' = trusted
    /\ CloseOn(1, known)
    /\ UNCHANGED <<kernel, snap, asked, known, answer, faults, meddles, trusted, kept>>

CloseCommand(k, x) ==
    CASE pc = "close routes" -> routeDelete(k, x)
      [] pc = "close scoped" -> Delete(k, "scoped", x)
      [] pc = "close addrs" -> Delete(k, "addrs", x)
      [] OTHER -> {[k EXCEPT !.addrs = {}, !.routes = {}]}

CloseStep ==
    /\ pc \in {CloseLoops[i] : i \in 1 .. Len(CloseLoops)}
    /\ \E x \in todo, outcome \in Outcomes :
          /\ CommandEnds(CloseCommand(kernel, x), outcome)
          /\ IF pc = "close device"
                THEN pc' = "closed" /\ todo' = {} /\ known' = Nothing
                ELSE /\ IF todo = {x}
                           THEN CloseOn((CHOOSE i \in 1 .. Len(CloseLoops) : CloseLoops[i] = pc) + 1, known)
                           ELSE pc' = pc /\ todo' = todo \ {x}
                     /\ UNCHANGED known
    /\ kept' = {}
    /\ UNCHANGED <<snap, asked, answer, meddles>>

----------------------------------------------------------------------------
(* The others on the host (external).                                      *)

\* Somebody changes what is installed.
Meddled(k) ==
    {[k EXCEPT !.routes = {q \in @ : q.dst # r.dst} \cup {r}] : r \in {r \in KernelRoutes : Masked[r.dst] = r.dst}}
        \cup {[k EXCEPT !.routes = @ \ {r}] : r \in k.routes}
        \cup {[k EXCEPT !.scoped = @ \cup {s}] : s \in Scoped}
        \cup {[k EXCEPT !.scoped = @ \ {s}] : s \in k.scoped}
        \cup {[k EXCEPT !.addrs = @ \cup {a}] : a \in Addrs}
        \cup {[k EXCEPT !.addrs = @ \ {a}] : a \in k.addrs}

Meddle ==
    /\ pc # "closed"
    /\ meddles > 0
    /\ meddles' = meddles - 1
    /\ kernel' \in Meddled(kernel) \ {kernel}
    /\ clean' = FALSE
    /\ trusted' = FALSE
    /\ kept' = {}
    /\ UNCHANGED <<pc, todo, snap, asked, known, answer, faults>>

\* The machine moves to another network; nothing installed changes with it.
Roam ==
    /\ meddles > 0
    /\ meddles' = meddles - 1
    /\ \E f \in Families, gw \in Gateways \cup {NoGateway} :
          /\ gw # kernel.underlay[f]
          /\ kernel' = [kernel EXCEPT !.underlay[f] = gw]
    /\ UNCHANGED <<pc, todo, snap, asked, known, answer, faults, clean, trusted, kept>>

\* The process dies: the interface goes, the scoped defaults stay.
Crash ==
    /\ meddles > 0
    /\ meddles' = meddles - 1
    /\ kernel' = [kernel EXCEPT !.addrs = {}, !.routes = {}]
    /\ pc' = "idle"
    /\ todo' = {}
    /\ snap' = Planned(Nothing, {})
    /\ known' = Nothing
    /\ answer' = "none"
    /\ clean' = FALSE
    /\ trusted' = FALSE
    /\ kept' = {}
    /\ UNCHANGED <<asked, faults>>

----------------------------------------------------------------------------
Init ==
    /\ kernel \in {[addrs |-> {}, routes |-> {}, scoped |-> {},
                    underlay |-> [f \in Families |-> IF f = 4 THEN gw ELSE NoGateway]] : gw \in Gateways}
    /\ pc = "idle"
    /\ todo = {}
    /\ snap = Planned(Nothing, {})
    /\ asked = [addrs |-> {}, routes |-> {}]
    /\ known = Nothing
    /\ answer = "none"
    /\ faults = MaxFaults
    /\ meddles = MaxMeddles
    /\ clean = FALSE
    /\ trusted = TRUE
    /\ kept = {}

Next ==
    \/ \E cfg \in Configs : Configure(cfg) \/ Refuse(cfg)
    \/ ConfigureStep
    \/ Verify
    \/ Close
    \/ CloseStep
    \/ Meddle
    \/ Roam
    \/ Crash

Spec == Init /\ [][Next]_vars

----------------------------------------------------------------------------
(* Properties.                                                             *)

\* The host carries a configuration: its addresses, the required routes from
\* their sources and no others, and beneath an exit route a scoped default.
Carries ==
    /\ kernel.addrs = asked.addrs
    /\ \A q \in kernel.routes : \E r \in asked.routes : q.dst = r.dst /\ (q.src = r.src \/ r.opt)
    /\ \A r \in Required(asked.routes) : [dst |-> r.dst, src |-> r.src] \in kernel.routes
    /\ hasExitRoutes(asked.routes) <=> kernel.scoped # {}

\* What is asked for as an exit route and never as any other: the split defaults.
ExitDestinations ==
    LET asks == UNION {Normalized(cfg).routes : cfg \in Configs}
    IN Destinations({r \in asks : r.exit}) \ Destinations({r \in asks : ~r.exit})

\* While an exit route is installed, the scoped defaults it was installed over
\* are too, so that the daemon's own sockets keep their way to the physical
\* network through every change and every failed command.
ExitKeepsUnderlay ==
    (\E q \in kernel.routes : q.dst \in ExitDestinations) => kept \subseteq kernel.scoped

\* A Configure that nothing disturbed succeeds from whatever state the host is in.
CleanSucceeds == ~(clean /\ answer = "error" /\ pc = "idle")

\* Close leaves no scoped default behind, also after Configures that failed
\* halfway: what is remembered follows every command.
NothingLeft == pc = "closed" /\ clean => kernel.scoped = {}
=============================================================================
