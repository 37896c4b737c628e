--------------------------- MODULE EffectiveLeases ---------------------------
(***************************************************************************)
(* Effective-address leases of the tailmix daemon in TUN mode: the         *)
(* allocator (effectiveip/effectiveip.go), the activity tracker            *)
(* (effectiveip/activity.go), the host NAT and DNS addresses               *)
(* (ensureHostIPs, cmd/tailmixd/main.go) and the part of reconcileLocked   *)
(* (cmd/tailmixd/supervisor.go) that refreshes, assigns, publishes,        *)
(* commits and saves them, with every step that can fail, daemon crashes   *)
(* and host packets in between.                                            *)
(*                                                                         *)
(* One address family is modelled (IPv4, the one with a DNS address); a    *)
(* failure of the other one is one of the failures Publish allows.         *)
(* Time appears only as ages, capped at Retention.                         *)
(***************************************************************************)
EXTENDS Naturals

CONSTANTS
    Targets,     \* lease keys (profile, node, canonical IP), numbered in the order leaseTargets sorts them
    Profiles,    \* profile IDs
    ProfileOf,   \* the profile of each target
    Pools,       \* the pools the daemon may be started with, as [base, size]
    DnsOffset,   \* preferred offset of the DNS address in its pool (53)
    Retention,   \* LeaseRetention, in clock ticks
    NoAddr,      \* the invalid netip.Addr
    NoProfile

Addrs(p) == p.base .. (p.base + p.size - 1)

Addr == UNION {Addrs(p) : p \in Pools}

ASSUME ConstantsAssumption ==
    /\ Targets \subseteq Nat
    /\ ProfileOf \in [Targets -> Profiles]
    /\ Pools \subseteq [base : Nat, size : Nat \ {0}]
    /\ DnsOffset \in Nat \ {0}
    /\ Retention \in Nat \ {0}
    /\ NoAddr \notin Nat
    /\ NoProfile \notin Profiles

VARIABLES
    proc,         \* "down", "boot" (before the first reconciliation ends), "up", "exit"
    pc,           \* the point reconcileLocked has reached, "idle" outside it
    mem,          \* s.st
    disk,         \* state.json
    plan,         \* the state the running reconciliation is building (mem outside it)
    todo,         \* targets Assign has not handled yet
    active,       \* targets of the statuses the reconciliation uses
    removing,     \* the profile RemoveProfile(purge) is removing, or NoProfile
    tracker,      \* ActivityTracker.entries
    mapper,       \* the published packet table: destinations and fail-closed addresses
    answers,      \* the address MagicDNS answers for each target
    reconcileErr, \* s.reconcileErr # ""
    missed,       \* history: leased targets the last observation of their profile missed
    quiet         \* history: ticks since a missed target was first missed or last dialled

vars == <<proc, pc, mem, disk, plan, todo, active, removing, tracker, mapper,
          answers, reconcileErr, missed, quiet>>

State == [leases : [Targets -> Addr \cup {NoAddr}], nat : Addr \cup {NoAddr},
          dns : Addr \cup {NoAddr}, pool : Pools]

Entry == [addr : Addr, key : Targets, age : 0 .. Retention, present : BOOLEAN]

Table == [dest : [Targets -> Addr \cup {NoAddr}], closed : SUBSET Addr]

TypeOK ==
    /\ proc \in {"down", "boot", "up", "exit"}
    /\ pc \in {"idle", "plan", "assign", "host", "dns", "save", "purge"}
    /\ mem \in State
    /\ disk \in State
    /\ plan \in State
    /\ todo \subseteq Targets
    /\ active \subseteq Targets
    /\ removing \in Profiles \cup {NoProfile}
    /\ tracker \subseteq Entry
    /\ mapper \in Table
    /\ answers \in [Targets -> Addr \cup {NoAddr}]
    /\ reconcileErr \in BOOLEAN
    /\ quiet \in [Targets -> 0 .. Retention]
    /\ missed \subseteq Targets

------------------------------------------------------------------------------
(* Addresses *)

\* The first address of S in address order, as a set: empty when S is.
First(S) == {a \in S : \A b \in S : a <= b}

Leased(st) == {st.leases[t] : t \in Targets} \ {NoAddr}

\* validReservedIP: may the host keep using ip, given the addresses in use?
ValidReserved(ip, pool, used) ==
    ip \in Addrs(pool) /\ ip # pool.base /\ ip \notin used

\* firstFreePoolIP: the host's own addresses skip the base of the pool.
FirstFree(pool, used) == First(Addrs(pool) \ (used \cup {pool.base}))

\* Mutant of HostNAT: the host's own addresses count as used, so it moves each time.
HostNATMoves(st) == FirstFree(st.pool, Leased(st) \cup {st.nat, st.dns})

\* ensureHostIPs, host NAT address: the one it has if still valid, else the first free one.
HostNAT(st) ==
    IF ValidReserved(st.nat, st.pool, Leased(st)) THEN {st.nat}
    ELSE FirstFree(st.pool, Leased(st))

\* ensureHostIPs, DNS address, once the NAT address is nat.
HostDNS(st, nat) ==
    LET used == Leased(st) \cup {nat}
        preferred == st.pool.base + DnsOffset
    IN IF ValidReserved(st.dns, st.pool, used) THEN {st.dns}
       ELSE IF preferred \in Addrs(st.pool) \ used THEN {preferred}
       ELSE FirstFree(st.pool, used)

\* NewAllocator: does the allocator take over the existing lease of t?
Known(st, t) == st.leases[t] \in Addrs(st.pool) \ {st.nat, st.dns}

\* Mutant of Allocatable: only the leases of the statuses' own targets are reserved.
AllocatableOverRetained(st, t) ==
    Addrs(st.pool) \ ({st.nat, st.dns} \cup {st.leases[u] : u \in active \ {t}})

\* nextSynthetic: the addresses the allocator may hand to t, base included.
Allocatable(st, t) ==
    Addrs(st.pool) \ ({st.nat, st.dns} \cup {st.leases[u] : u \in {v \in Targets \ {t} : Known(st, v)}})

------------------------------------------------------------------------------
(* Activity tracker: one record per effective address, age is now - lastSeen *)

Fresh(t, a) == [addr |-> a, key |-> t, age |-> 0, present |-> TRUE]

Dormant(t, a) == [addr |-> a, key |-> t, age |-> 0, present |-> FALSE]

Holders(leases) == {t \in Targets : leases[t] # NoAddr}

\* The record an earlier call left for the lease of t, if any.
Records(t, leases) == {e \in tracker : e.key = t /\ e.addr = leases[t]}

\* SetLeases: an address that already tracks the same target keeps its record.
SetLeases(leases) ==
    {e \in tracker : leases[e.key] = e.addr}
    \cup {Fresh(t, leases[t]) : t \in {u \in Holders(leases) : Records(u, leases) = {}}}

\* Retain: the leases it drops when the targets in absent were missed.
Expired(absent) ==
    {t \in Holders(mem.leases) \cap absent :
        \E e \in Records(t, mem.leases) : ~e.present /\ e.age >= Retention}

\* Retain: the leases that survive, ...
Retained(absent) ==
    LET expired == Expired(absent)
    IN [t \in Targets |-> IF t \in expired THEN NoAddr ELSE mem.leases[t]]

\* ... and the records it leaves for them: present targets are fresh, targets
\* missed for the first time start their retention, the others keep counting.
Observed(absent) ==
    LET counting == {e \in tracker : ~e.present /\ mem.leases[e.key] = e.addr}
        lost == (Holders(mem.leases) \cap absent) \ {e.key : e \in counting}
        kept == absent \ Expired(absent)
    IN {Fresh(t, mem.leases[t]) : t \in Holders(mem.leases) \ absent}
       \cup {Dormant(t, mem.leases[t]) : t \in lost}
       \cup {e \in counting : e.key \in kept}

------------------------------------------------------------------------------
(* Daemon process *)

NoLeases == [t \in Targets |-> NoAddr]

\* packetmap.New(packetmap.Table{}): the mapper of a daemon that has published
\* nothing forwards nothing.
EmptyTable == [dest |-> NoLeases, closed |-> Addr]

Init ==
    /\ proc = "down"
    /\ pc = "idle"
    /\ \E p \in Pools : disk = [leases |-> NoLeases, nat |-> NoAddr, dns |-> NoAddr, pool |-> p]
    /\ mem = disk
    /\ plan = disk
    /\ todo = {}
    /\ active = {}
    /\ removing = NoProfile
    /\ tracker = {}
    /\ mapper = EmptyTable
    /\ answers = NoLeases
    /\ reconcileErr = FALSE
    /\ quiet = [t \in Targets |-> 0]
    /\ missed = {}

\* configureSyntheticPools: another pool discards the leases and host addresses.
WithPool(st, p) ==
    IF p = st.pool THEN st
    ELSE [leases |-> NoLeases, nat |-> NoAddr, dns |-> NoAddr, pool |-> p]

\* run and newSupervisor: load, choose the pool, ensure the host addresses,
\* save, and start with a fresh tracker. A failure leaves the daemon down.
Start(p) ==
    LET st == WithPool(disk, p)
    IN /\ proc = "down"
       /\ \E n \in HostNAT(st) : \E d \in HostDNS(st, n) :
             mem' = [st EXCEPT !.nat = n, !.dns = d]
       /\ disk' = mem'
       /\ plan' = mem'
       /\ proc' = "boot"
       /\ tracker' = {Fresh(t, st.leases[t]) : t \in Holders(st.leases)}
       /\ UNCHANGED <<pc, todo, active, removing, mapper, answers, reconcileErr,
                      missed, quiet>>

\* The process crashes, is stopped, or exits: nothing but state.json survives.
Stop ==
    /\ proc # "down"
    /\ proc' = "down"
    /\ pc' = "idle"
    /\ mem' = disk
    /\ plan' = disk
    /\ todo' = {}
    /\ active' = {}
    /\ removing' = NoProfile
    /\ tracker' = {}
    /\ mapper' = EmptyTable
    /\ answers' = NoLeases
    /\ reconcileErr' = FALSE
    /\ missed' = {}
    /\ quiet' = [t \in Targets |-> 0]
    /\ UNCHANGED disk

------------------------------------------------------------------------------
(* reconcileLocked *)

\* It returns an error. Run gives up if this was the first reconciliation,
\* unless the pool is exhausted.
Abort(exhausted) ==
    /\ pc' = "idle"
    /\ proc' = IF proc = "boot" /\ ~exhausted THEN "exit" ELSE "up"
    /\ reconcileErr' = TRUE
    /\ removing' = NoProfile
    /\ plan' = mem
    /\ todo' = {}
    /\ active' = {}

\* May a reconciliation begin? saved: an API call stored the state before it.
\* p: the call is RemoveProfile(purge) of profile p.
Begins(saved, p) ==
    /\ proc \in {"boot", "up"}
    /\ pc = "idle"
    /\ saved => proc = "up"
    /\ p # NoProfile => saved

\* What is on disk when the reconciliation looks at it.
Stored(saved) == IF saved THEN mem ELSE disk

\* setRoutePreferencesLocked or setExitNodePreferencesLocked fails for some profile.
PreferencesFail(saved) ==
    /\ Begins(saved, NoProfile)
    /\ Abort(FALSE)
    /\ disk' = Stored(saved)
    /\ UNCHANGED <<mem, tracker, mapper, answers, quiet, missed>>

\* History of the observation: a target seen now, or missed for the first time,
\* starts a new quiet period.
Note(absent) ==
    /\ missed' = absent \cap Holders(mem.leases)
    /\ quiet' = [t \in Targets |-> IF t \in missed' \cap missed THEN quiet[t] ELSE 0]

\* The statuses are read and refreshLeasesLocked runs. fresh: profiles whose
\* netmap was really observed; act: targets of all usable statuses, which
\* include cached ones of profiles outside fresh. The targets of a fresh profile
\* outside act are missed; a profile being removed has no status.
Observe(fresh, act, saved, p) ==
    LET absent == {t \in Targets : ProfileOf[t] \in fresh} \ act
        changed == Expired(absent) # {}
    IN /\ Begins(saved, p)
       /\ p \notin fresh
       /\ \A t \in act : ProfileOf[t] # p
       /\ tracker' = Observed(absent)
       /\ Note(absent)
       /\ \/ /\ mem' = [mem EXCEPT !.leases = Retained(absent)]
             /\ disk' = IF changed THEN mem' ELSE Stored(saved)
             /\ pc' = "plan"
             /\ active' = act
             /\ removing' = p
             /\ plan' = mem'
             /\ UNCHANGED <<proc, reconcileErr, todo>>
          \/ /\ changed                          \* store.Save fails
             /\ disk' = Stored(saved)
             /\ Abort(FALSE)
             /\ UNCHANGED mem
       /\ UNCHANGED <<mapper, answers>>

\* Whatever the engines report when a reconciliation begins.
RefreshLeases ==
    /\ pc = "idle"
    /\ \E fresh \in SUBSET Profiles, act \in SUBSET Targets, saved \in BOOLEAN,
          p \in Profiles \cup {NoProfile} : Observe(fresh, act, saved, p)

\* buildTUNPlan up to ensureHostIPs.
EnsureHostIPs ==
    /\ pc = "plan"
    /\ \/ /\ \E n \in HostNAT(mem) : \E d \in HostDNS(mem, n) :
                plan' = [mem EXCEPT !.nat = n, !.dns = d]
          /\ pc' = "assign"
          /\ todo' = active
          /\ UNCHANGED <<proc, reconcileErr, removing, active>>
       \/ /\ \A n \in HostNAT(mem) : HostDNS(mem, n) = {}
          /\ Abort(FALSE)
    /\ UNCHANGED <<mem, disk, tracker, mapper, answers, quiet, missed>>

\* One round of the loop of Allocator.Assign, in the order of leaseTargets.
Assign(t) ==
    /\ pc = "assign"
    /\ t \in First(todo)
    /\ \/ /\ Known(plan, t)
          /\ todo' = todo \ {t}
          /\ UNCHANGED <<plan, proc, pc, reconcileErr, removing, active>>
       \/ /\ ~Known(plan, t)
          /\ \E a \in First(Allocatable(plan, t)) : plan' = [plan EXCEPT !.leases[t] = a]
          /\ todo' = todo \ {t}
          /\ UNCHANGED <<proc, pc, reconcileErr, removing, active>>
       \/ /\ ~Known(plan, t)
          /\ Allocatable(plan, t) = {}           \* ErrPoolExhausted
          /\ Abort(TRUE)
    /\ UNCHANGED <<mem, disk, tracker, mapper, answers, quiet, missed>>

\* tunConfigWithPolicy: active targets become destinations, retained leases in
\* the pool become inactive exact routes.
TunConfig(st, act) ==
    [dest |-> [t \in Targets |-> IF t \in act THEN st.leases[t] ELSE NoAddr],
     closed |-> (Leased(st) \cap Addrs(st.pool)) \ {st.leases[t] : t \in act}]

\* The plan is complete: SetLeases and mux.SetMapper, or some part of the plan is rejected.
Publish ==
    /\ pc = "assign"
    /\ todo = {}
    /\ \/ /\ tracker' = SetLeases(plan.leases)
          /\ mapper' = TunConfig(plan, active)
          /\ pc' = "host"
          /\ UNCHANGED <<proc, reconcileErr, removing, plan, todo, active>>
       \/ /\ Abort(FALSE)
          /\ UNCHANGED <<tracker, mapper>>
    /\ UNCHANGED <<mem, disk, answers, quiet, missed>>

ConfigureHost ==
    /\ pc = "host"
    /\ \/ /\ pc' = "dns"
          /\ UNCHANGED <<proc, reconcileErr, removing, plan, todo, active>>
       \/ Abort(FALSE)
    /\ UNCHANGED <<mem, disk, tracker, mapper, answers, quiet, missed>>

\* Mutant of ConfigureDNS: the names of targets that are gone keep their answers.
ConfigureDNSMerging ==
    /\ pc = "dns"
    /\ \/ /\ answers' = [t \in Targets |-> IF mapper.dest[t] # NoAddr THEN mapper.dest[t] ELSE answers[t]]
          /\ mem' = plan
          /\ tracker' = SetLeases(plan.leases)
          /\ pc' = "save"
          /\ active' = {}
          /\ UNCHANGED <<proc, reconcileErr, removing, plan, todo>>
       \/ /\ answers' \in {answers, mapper.dest}
          /\ Abort(FALSE)
          /\ UNCHANGED <<mem, tracker>>
    /\ UNCHANGED <<disk, mapper, quiet, missed>>

\* configureDNSLocked, and on success the plan becomes s.st. A failure may leave
\* the answers of either configuration in the DNS manager.
ConfigureDNS ==
    /\ pc = "dns"
    /\ \/ /\ answers' = mapper.dest
          /\ mem' = plan
          /\ tracker' = SetLeases(plan.leases)
          /\ pc' = "save"
          /\ active' = {}
          /\ UNCHANGED <<proc, reconcileErr, removing, plan, todo>>
       \/ /\ answers' \in {answers, mapper.dest}
          /\ Abort(FALSE)
          /\ UNCHANGED <<mem, tracker>>
    /\ UNCHANGED <<disk, mapper, quiet, missed>>

Save ==
    /\ pc = "save"
    /\ \/ /\ disk' = mem
          /\ pc' = IF removing = NoProfile THEN "idle" ELSE "purge"
          /\ proc' = "up"
          /\ reconcileErr' = FALSE
          /\ UNCHANGED <<plan, todo, active, removing>>
       \/ /\ Abort(FALSE)
          /\ UNCHANGED disk
    /\ UNCHANGED <<mem, tracker, mapper, answers, quiet, missed>>

\* The end of RemoveProfile(purge): deleteProfileLeases and Save. Deleting the
\* profile's directory may be refused first, and Save may fail last.
Purge ==
    LET kept == [t \in Targets |-> IF ProfileOf[t] = removing THEN NoAddr ELSE mem.leases[t]]
    IN /\ pc = "purge"
       /\ \/ UNCHANGED <<mem, disk>>
          \/ /\ mem' = [mem EXCEPT !.leases = kept]
             /\ disk' \in {mem', disk}
       /\ plan' = mem'
       /\ pc' = "idle"
       /\ removing' = NoProfile
       /\ UNCHANGED <<proc, todo, active, tracker, mapper, answers,
                      reconcileErr, quiet, missed>>

------------------------------------------------------------------------------
(* Host packets and time *)

\* Mutant of ObserveOutbound: the packet does not refresh the dormant record.
ObserveOutboundIgnored(a) ==
    /\ proc \in {"boot", "up"}
    /\ quiet' = [t \in Targets |-> IF mem.leases[t] = a THEN 0 ELSE quiet[t]]
    /\ UNCHANGED <<proc, pc, mem, disk, plan, todo, active, removing, tracker, mapper, answers,
                   reconcileErr, missed>>

\* ObserveOutbound: a host packet or SOCKS dial to address a. Only a dormant
\* record is refreshed; a packet to an address without a record changes nothing.
ObserveOutbound(a) ==
    /\ proc \in {"boot", "up"}
    /\ a \in Leased(mem) \cup {e.addr : e \in tracker}
    /\ tracker' = {IF e.addr = a /\ ~e.present THEN [e EXCEPT !.age = 0] ELSE e : e \in tracker}
    /\ quiet' = [t \in Targets |-> IF mem.leases[t] = a THEN 0 ELSE quiet[t]]
    /\ UNCHANGED <<proc, pc, mem, disk, plan, todo, active, removing, mapper, answers,
                   reconcileErr, missed>>

\* One tick older; no age beyond the retention period is told apart.
Older(age) == IF age < Retention THEN age + 1 ELSE age

Tick ==
    /\ proc # "down"
    /\ tracker' = {IF e.present THEN e ELSE [e EXCEPT !.age = Older(e.age)] : e \in tracker}
    /\ quiet' = [t \in Targets |-> IF t \in missed THEN Older(quiet[t]) ELSE quiet[t]]
    /\ UNCHANGED <<proc, pc, mem, disk, plan, todo, active, removing, mapper, answers,
                   reconcileErr, missed>>

Next ==
    \/ \E p \in Pools : Start(p)
    \/ Stop
    \/ \E saved \in BOOLEAN : PreferencesFail(saved)
    \/ RefreshLeases
    \/ EnsureHostIPs
    \/ \E t \in Targets : Assign(t)
    \/ Publish
    \/ ConfigureHost
    \/ ConfigureDNS
    \/ Save
    \/ Purge
    \/ \E a \in Addr : ObserveOutbound(a)
    \/ Tick

Spec == Init /\ [][Next]_vars

------------------------------------------------------------------------------
(* Properties *)

Exclusive(st) ==
    /\ \A t, u \in Holders(st.leases) : t # u => st.leases[t] # st.leases[u]
    /\ Leased(st) \subseteq Addrs(st.pool) \ {st.nat, st.dns}

\* No effective address is leased to two targets, and none is the host's own NAT
\* or DNS address or lies outside the pool: in memory, in state.json and in the
\* plan being built, whatever fails and whenever the daemon restarts.
LeasesExclusive == Exclusive(mem) /\ Exclusive(disk) /\ Exclusive(plan)

\* Packets to address a are delivered to t or dropped: a belongs to no other
\* target and does not fall through to subnet routes or the exit node.
OnlyReaches(table, a, t) ==
    /\ \A u \in Targets \ {t} : table.dest[u] # a
    /\ table.dest[t] = a \/ a \in table.closed

\* A leased address is delivered to its own target or dropped: no partly applied
\* reconciliation hands it to another target or to a fallback route
\* (docs/architecture.md: "never forwarded through a fallback exit node").
LeasesHonoured ==
    \A t \in Holders(mem.leases) : OnlyReaches(mapper, mem.leases[t], t)

\* Unless the last reconciliation failed, a packet to an address MagicDNS still
\* answers for a target reaches that target or nobody, also between SetMapper
\* and the DNS update that follows it.
AnswersReachTheirTarget ==
    ~reconcileErr => \A t \in Holders(answers) : OnlyReaches(mapper, answers[t], t)

\* The packet table never takes an address that is leased or that DNS still answers
\* to anyone but the target it stands for (tunConfig, configureDNSLocked).
AddressesReachTheirTarget == LeasesHonoured /\ AnswersReachTheirTarget

MayLose(t) ==
    \/ quiet[t] = Retention /\ t \in missed /\ t \in missed'
    \/ pc = "purge" /\ ProfileOf[t] = removing
    \/ proc = "down" \/ proc' = "down"

\* Retain takes a lease away only when the target has been missed, and its
\* address unused, for the whole retention period of this process. Only purging
\* its profile or the end of the process takes a lease away otherwise.
ReclaimedOnlyWhenQuiet ==
    [][\A t \in Targets : mem.leases[t] # NoAddr /\ mem'.leases[t] # mem.leases[t] => MayLose(t)]_vars

\* The host NAT and DNS addresses never change while the pool stays the same,
\* across reconciliations, failed saves and restarts.
HostAddressesStable ==
    [][mem.nat # NoAddr /\ mem'.pool = mem.pool => mem'.nat = mem.nat /\ mem'.dns = mem.dns]_vars

------------------------------------------------------------------------------
(* The inductive invariant behind the properties above *)

Building == pc \in {"assign", "host", "dns"}

\* The plan only adds leases to s.st, and is s.st when none is being built.
PlanExtends ==
    /\ ~Building => plan = mem
    /\ plan.pool = mem.pool
    /\ \A t \in Holders(mem.leases) : plan.leases[t] = mem.leases[t]

\* A daemon that is down has published nothing; a published plan is the mapper.
MapperMatches ==
    /\ proc = "down" => /\ mem = disk
                        /\ pc = "idle"
                        /\ mapper = EmptyTable
                        /\ answers = NoLeases
    /\ pc \in {"host", "dns"} => mapper = TunConfig(plan, active)

HostValid(st) ==
    st.nat # NoAddr =>
        /\ ValidReserved(st.nat, st.pool, Leased(st))
        /\ ValidReserved(st.dns, st.pool, Leased(st) \cup {st.nat})

\* The host addresses a state holds are still free in it.
HostAddressesValid == HostValid(mem) /\ HostValid(disk) /\ HostValid(plan)

\* A dormant record of a leased address never counts more than the history does,
\* and while a plan is built no other dormant record exists.
DormantCounts ==
    \A e \in tracker : ~e.present =>
        /\ mem.leases[e.key] = e.addr => e.key \in missed /\ quiet[e.key] >= e.age
        /\ pc = "plan" \/ Building => mem.leases[e.key] = e.addr

\* Nothing that is being published, or that DNS answers after a successful
\* reconciliation, is on its way to being reclaimed or purged.
PublishedPresent ==
    /\ pc = "plan" \/ Building =>
          \A t \in active : /\ ProfileOf[t] # removing
                            /\ \A e \in tracker : e.key = t => e.present
    /\ ~reconcileErr \/ pc \in {"save", "purge"} =>
          \A t \in Holders(answers) : mem.leases[t] = answers[t]
    /\ (~reconcileErr /\ pc = "idle") \/ pc \in {"save", "purge"} =>
          \A t \in Holders(answers) :
              \A e \in tracker : e.key = t /\ e.addr = answers[t] => e.present
    /\ pc \in {"save", "purge"} =>
          \A t \in Holders(answers) : ProfileOf[t] # removing

\* What every step preserves.
IInv ==
    /\ TypeOK
    /\ LeasesExclusive
    /\ PlanExtends
    /\ MapperMatches
    /\ HostAddressesValid
    /\ LeasesHonoured
    /\ DormantCounts
    /\ PublishedPresent

SameHost(s, t) == s.nat = t.nat /\ s.dns = t.dns /\ s.pool = t.pool

\* A running daemon has its host addresses, and memory, state.json and the plan
\* agree on them.
HostFixed ==
    proc # "down" => mem.nat # NoAddr /\ SameHost(disk, mem) /\ SameHost(plan, mem)

=============================================================================
