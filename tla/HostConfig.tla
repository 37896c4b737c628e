------------------------------ MODULE HostConfig -----------------------------
(***************************************************************************)
(* What src/hosttun/hosttun.go gives both systems: the configuration the   *)
(* supervisor asks for and its normalisation, and the state of a host      *)
(* object between and during its calls (src/hosttun/hosttun_linux.go and   *)
(* hosttun_darwin.go keep the same fields).  One netlink request or one    *)
(* command is one step: it takes effect, it fails and reports it, or it    *)
(* reports success without an effect, which the tests call false success.  *)
(***************************************************************************)
EXTENDS Naturals

CONSTANTS Addrs,       \* TUN addresses, as prefixes
          HostAddrs,   \* the ones that are host prefixes
          Dsts,        \* route destinations, masked or not
          Masked,      \* each destination's masked form
          PrefixOf,    \* the destination that is an address's own prefix
          FamilyOf,    \* address family, 4 or 6, of addresses and destinations
          Configs,     \* the configurations the supervisor asks for
          MaxFaults,   \* bound on requests that fail or have no effect
          MaxMeddles   \* bound on changes by others, crashes included

Families == {4, 6}
Routes == [dst : Dsts, src : Addrs, exit : BOOLEAN, opt : BOOLEAN]

ASSUME HostConfigAssumption ==
    /\ HostAddrs \subseteq Addrs
    /\ Masked \in [Dsts -> Dsts]
    /\ \A d \in Dsts : Masked[Masked[d]] = Masked[d]
    /\ PrefixOf \in [Addrs -> Dsts]
    /\ FamilyOf \in [Addrs \cup Dsts -> Families]
    /\ \A d \in Dsts : FamilyOf[Masked[d]] = FamilyOf[d]
    /\ Configs \subseteq [addrs : SUBSET Addrs, routes : SUBSET Routes]
    /\ Configs # {}
    /\ \A cfg \in Configs : \A r \in cfg.routes : ~(r.exit /\ r.opt)
    /\ MaxFaults \in Nat
    /\ MaxMeddles \in Nat

VARIABLES kernel,    \* the host: what is really installed
          pc,        \* the loop of Configure or Close that is running
          todo,      \* the entries that loop has still to handle
          snap,      \* the installed state as Configure or Close read it
          asked,     \* the normalised configuration of the latest accepted call
          known,     \* the state remembered for Close (localAddrs, routes, ...)
          answer,    \* what the latest finished Configure returned
          faults,    \* bound: requests that may still go wrong
          meddles,   \* bound: changes others may still make
          clean,     \* history: this call saw no fault and no meddling
          trusted,   \* history: what is remembered for Close is all there is
          kept       \* history, see each system

vars == <<kernel, pc, todo, snap, asked, known, answer, faults, meddles, clean, trusted, kept>>

\* normalizeConfig: masks the destinations and refuses what cannot be installed.
Normalized(cfg) ==
    [addrs |-> cfg.addrs,
     routes |-> {[r EXCEPT !.dst = Masked[@]] : r \in cfg.routes}]

Acceptable(cfg) ==
    /\ cfg.addrs \subseteq HostAddrs
    /\ \A r \in Normalized(cfg).routes :
          /\ r.src \in cfg.addrs
          /\ FamilyOf[r.src] = FamilyOf[r.dst]
          /\ \A q \in Normalized(cfg).routes : q.dst = r.dst => q = r

hasExitRoutes(routes) == \E r \in routes : r.exit

Destinations(routes) == {r.dst : r \in routes}

Required(routes) == {r \in routes : ~r.opt}

\* A call that is refused before it reads anything: by normalizeConfig, or
\* because the host is closed.
Refuse(cfg) ==
    /\ pc \in {"idle", "closed"}
    /\ Acceptable(cfg) => pc = "closed"
    /\ answer' = IF Acceptable(cfg) THEN "closed" ELSE "rejected"
    /\ UNCHANGED <<kernel, pc, todo, snap, asked, known, faults, meddles, clean, trusted, kept>>

\* How one request ends; a bad end spends one of the faults.
Outcomes == {"done", "failed", "lost"}

Ends(outcome) ==
    /\ outcome # "done" => faults > 0
    /\ faults' = IF outcome = "done" THEN faults ELSE faults - 1
    /\ clean' = (clean /\ outcome = "done")

\* What the interface sees of the running call.
Phase ==
    CASE pc = "idle" -> "idle"
      [] pc = "closed" -> "closed"
      [] pc \in {"close rules", "close table", "close routes", "close scoped",
                 "close addrs", "close device"} -> "closing"
      [] OTHER -> "configuring"
=============================================================================
