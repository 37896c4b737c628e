------------------------ MODULE EffectiveLeasesProofs ------------------------
(* Proofs about EffectiveLeases, for every set of targets, profiles and pools. *)
EXTENDS EffectiveLeases, TLAPS

------------------------------------------------------------------------------
(* Addresses and states *)

\* Pool addresses are numbers, and the invalid address is none of them.
LEMMA AddrFacts ==
    /\ Addr \subseteq Nat
    /\ NoAddr \notin Addr
    /\ \A p \in Pools : Addrs(p) \subseteq Addr
BY ConstantsAssumption DEF Addr, Addrs

\* ensureHostIPs picks a NAT and a DNS address that no lease of the state uses.
LEMMA HostIPsValid ==
    ASSUME NEW st \in State, Exclusive(st),
           NEW n \in HostNAT(st), NEW d \in HostDNS(st, n)
    PROVE  LET new == [st EXCEPT !.nat = n, !.dns = d]
           IN new \in State /\ Exclusive(new) /\ HostValid(new)
<1> DEFINE new == [st EXCEPT !.nat = n, !.dns = d]
<1>1. ValidReserved(n, st.pool, Leased(st))
  BY DEF HostNAT, FirstFree, First, ValidReserved
<1>2. ValidReserved(d, st.pool, Leased(st) \cup {n})
  <2>1. CASE ValidReserved(st.dns, st.pool, Leased(st) \cup {n})
    BY <2>1 DEF HostDNS
  <2>2. CASE ~ValidReserved(st.dns, st.pool, Leased(st) \cup {n})
    <3>1. \/ d \in FirstFree(st.pool, Leased(st) \cup {n})
          \/ /\ d = st.pool.base + DnsOffset
             /\ d \in Addrs(st.pool) \ (Leased(st) \cup {n})
      BY <2>2 DEF HostDNS
    <3>2. st.pool.base \in Nat
      BY ConstantsAssumption DEF State
    <3>3. st.pool.base + DnsOffset # st.pool.base
      BY <3>2, ConstantsAssumption
    <3> QED
      BY <3>1, <3>3 DEF FirstFree, First, ValidReserved
  <2> QED  BY <2>1, <2>2
<1>3. n \in Addr /\ d \in Addr
  BY <1>1, <1>2, AddrFacts DEF ValidReserved, State
<1>4. new \in State /\ new.leases = st.leases /\ new.pool = st.pool /\ new.nat = n /\ new.dns = d
  BY <1>3 DEF State
<1>5. Leased(new) = Leased(st) /\ Holders(new.leases) = Holders(st.leases)
  BY <1>4 DEF Leased
<1>6. Exclusive(new)
  BY <1>1, <1>2, <1>4, <1>5 DEF Exclusive, ValidReserved
<1>7. HostValid(new)
  BY <1>1, <1>2, <1>4, <1>5 DEF HostValid
<1> QED  BY <1>4, <1>6, <1>7

\* ensureHostIPs keeps addresses that are still valid.
LEMMA HostIPsKept ==
    ASSUME NEW st \in State, HostValid(st), st.nat # NoAddr,
           NEW n \in HostNAT(st), NEW d \in HostDNS(st, n)
    PROVE  n = st.nat /\ d = st.dns
BY DEF HostValid, HostNAT, HostDNS

\* The packet table built from a state delivers each leased address to its
\* holder if that is active, and closes it otherwise.
LEMMA TunConfigHonours ==
    ASSUME NEW st \in State, Exclusive(st), NEW act \in SUBSET Targets
    PROVE  /\ TunConfig(st, act) \in Table
           /\ \A t \in Holders(st.leases) : OnlyReaches(TunConfig(st, act), st.leases[t], t)
<1> DEFINE tab == TunConfig(st, act)
<1>1. tab.dest = [t \in Targets |-> IF t \in act THEN st.leases[t] ELSE NoAddr]
  BY DEF TunConfig
<1>2. tab.closed = (Leased(st) \cap Addrs(st.pool)) \ {st.leases[t] : t \in act}
  BY DEF TunConfig
<1>3. Leased(st) \subseteq Addr
  BY DEF Leased, State
<1>4. tab \in Table
  BY <1>3 DEF TunConfig, Table, State
<1>5. ASSUME NEW t \in Holders(st.leases)
      PROVE  OnlyReaches(tab, st.leases[t], t)
  <2>1. t \in Targets /\ st.leases[t] # NoAddr /\ st.leases[t] \in Leased(st)
    BY DEF Holders, Leased
  <2>2. \A u \in Targets \ {t} : st.leases[u] # st.leases[t]
    BY <2>1 DEF Exclusive, Holders
  <2>3. \A u \in Targets \ {t} : tab.dest[u] # st.leases[t]
    BY <1>1, <2>1, <2>2
  <2>4. CASE t \in act
    BY <1>1, <2>1, <2>3, <2>4 DEF OnlyReaches
  <2>5. CASE t \notin act
    <3>1. st.leases[t] \in Addrs(st.pool)
      BY <2>1 DEF Exclusive
    <3>2. st.leases[t] \notin {st.leases[u] : u \in act}
      BY <2>2, <2>5
    <3> QED  BY <1>2, <2>1, <2>3, <3>1, <3>2 DEF OnlyReaches
  <2> QED  BY <2>4, <2>5
<1> QED  BY <1>4, <1>5

\* A state that only loses leases stays exclusive and keeps its host addresses.
LEMMA FewerLeases ==
    ASSUME NEW st \in State, NEW S \in SUBSET Targets, Exclusive(st), HostValid(st)
    PROVE  LET new == [st EXCEPT !.leases = [t \in Targets |-> IF t \in S THEN NoAddr ELSE st.leases[t]]]
           IN /\ new \in State
              /\ Exclusive(new)
              /\ HostValid(new)
              /\ new.pool = st.pool /\ new.nat = st.nat /\ new.dns = st.dns
              /\ new.leases = [t \in Targets |-> IF t \in S THEN NoAddr ELSE st.leases[t]]
<1> DEFINE new == [st EXCEPT !.leases = [t \in Targets |-> IF t \in S THEN NoAddr ELSE st.leases[t]]]
<1>1. /\ new \in State
      /\ new.pool = st.pool /\ new.nat = st.nat /\ new.dns = st.dns
      /\ new.leases = [t \in Targets |-> IF t \in S THEN NoAddr ELSE st.leases[t]]
  BY DEF State
<1>2. Leased(new) \subseteq Leased(st)
  BY <1>1 DEF Leased
<1>3. Exclusive(new)
  <2>1. \A t \in Holders(new.leases) : t \in Holders(st.leases) /\ new.leases[t] = st.leases[t]
    BY <1>1 DEF Holders
  <2>2. \A t, u \in Holders(new.leases) : t # u => new.leases[t] # new.leases[u]
    BY <2>1 DEF Exclusive
  <2>3. Leased(new) \subseteq Addrs(new.pool) \ {new.nat, new.dns}
    BY <1>1, <1>2 DEF Exclusive
  <2> QED  BY <2>2, <2>3 DEF Exclusive
<1>4. HostValid(new)
  BY <1>1, <1>2 DEF HostValid, ValidReserved
<1> QED  BY <1>1, <1>3, <1>4

\* One allocation keeps the plan exclusive and its host addresses free.
LEMMA OneMoreLease ==
    ASSUME NEW st \in State, NEW t \in Targets, NEW a \in Allocatable(st, t),
           Exclusive(st), HostValid(st)
    PROVE  LET new == [st EXCEPT !.leases[t] = a]
           IN /\ new \in State
              /\ Exclusive(new)
              /\ HostValid(new)
              /\ new.pool = st.pool
              /\ \A u \in Targets \ {t} : new.leases[u] = st.leases[u]
<1> DEFINE new == [st EXCEPT !.leases[t] = a]
<1>1. a \in Addrs(st.pool) /\ a # st.nat /\ a # st.dns /\ a \in Addr
  BY AddrFacts DEF Allocatable, State
<1>2. /\ new \in State
      /\ new.pool = st.pool /\ new.nat = st.nat /\ new.dns = st.dns
      /\ new.leases = [st.leases EXCEPT ![t] = a]
  BY <1>1 DEF State
<1>3. \A u \in Targets \ {t} : new.leases[u] = st.leases[u] /\ st.leases[u] # a
  <2> SUFFICES ASSUME NEW u \in Targets \ {t} PROVE new.leases[u] = st.leases[u] /\ st.leases[u] # a
    OBVIOUS
  <2>1. new.leases[u] = st.leases[u]
    BY <1>2 DEF State
  <2>2. CASE Known(st, u)
    BY <2>1, <2>2 DEF Allocatable
  <2>3. CASE ~Known(st, u)
    BY <1>1, <2>1, <2>3 DEF Known
  <2> QED  BY <2>2, <2>3
<1>4. new.leases[t] = a
  BY <1>2 DEF State
<1>5. Leased(new) \subseteq Leased(st) \cup {a}
  BY <1>3, <1>4 DEF Leased
<1>6. Exclusive(new)
  BY <1>1, <1>2, <1>3, <1>4, <1>5 DEF Exclusive, Holders
<1>7. HostValid(new)
  BY <1>1, <1>2, <1>5 DEF HostValid, ValidReserved
<1> QED  BY <1>2, <1>3, <1>6, <1>7

------------------------------------------------------------------------------
(* The tracker *)

\* SetLeases adds only present records.
LEMMA SetLeasesFacts ==
    ASSUME TypeOK, NEW leases \in [Targets -> Addr \cup {NoAddr}]
    PROVE  /\ SetLeases(leases) \subseteq Entry
           /\ \A e \in SetLeases(leases) : ~e.present => e \in tracker
           /\ \A e \in SetLeases(leases) : e \in tracker \/ e.present
<1>1. \A t \in Holders(leases) : Fresh(t, leases[t]) \in Entry /\ Fresh(t, leases[t]).present
  BY ConstantsAssumption DEF Holders, Fresh, Entry
<1> QED  BY <1>1 DEF SetLeases, TypeOK

\* Retain leaves a dormant record only for a lease it keeps and a target it
\* missed, and such a record either is new or was there before.
LEMMA ObservedFacts ==
    ASSUME TypeOK, NEW absent \in SUBSET Targets
    PROVE  /\ Observed(absent) \subseteq Entry
           /\ \A e \in Observed(absent) : ~e.present =>
                 /\ e.key \in absent \cap Holders(mem.leases)
                 /\ e.key \notin Expired(absent)
                 /\ mem.leases[e.key] = e.addr
                 /\ e.age = 0 \/ e \in tracker
<1> DEFINE counting == {e \in tracker : ~e.present /\ mem.leases[e.key] = e.addr}
           lost == (Holders(mem.leases) \cap absent) \ {e.key : e \in counting}
<1>1. mem.leases \in [Targets -> Addr \cup {NoAddr}] /\ tracker \subseteq Entry
  BY DEF TypeOK, State
<1>2. ASSUME NEW e \in Observed(absent)
      PROVE  \/ \E t \in Holders(mem.leases) : e = Fresh(t, mem.leases[t])
             \/ \E t \in lost : e = Dormant(t, mem.leases[t])
             \/ e \in counting /\ e.key \in absent \ Expired(absent)
  BY DEF Observed
<1>3. ASSUME NEW t \in Holders(mem.leases)
      PROVE  /\ Fresh(t, mem.leases[t]) \in Entry
             /\ Fresh(t, mem.leases[t]).present
             /\ Dormant(t, mem.leases[t]) \in Entry
             /\ Dormant(t, mem.leases[t]).key = t
             /\ Dormant(t, mem.leases[t]).addr = mem.leases[t]
             /\ Dormant(t, mem.leases[t]).age = 0
  BY <1>1, ConstantsAssumption DEF Holders, Fresh, Dormant, Entry
<1>4. \A t \in lost : t \in Holders(mem.leases) \cap absent /\ t \notin Expired(absent)
  <2>1. ASSUME NEW t \in Expired(absent) PROVE t \in {e.key : e \in counting}
    BY DEF Expired, Records
  <2> QED  BY <2>1
<1>5. ASSUME NEW e \in counting PROVE e \in Entry /\ e.key \in Holders(mem.leases)
  BY <1>1, AddrFacts DEF Entry, Holders
<1>6. Observed(absent) \subseteq Entry
  BY <1>2, <1>3, <1>4, <1>5
<1>7. ASSUME NEW e \in Observed(absent), ~e.present
      PROVE  /\ e.key \in absent \cap Holders(mem.leases)
             /\ e.key \notin Expired(absent)
             /\ mem.leases[e.key] = e.addr
             /\ e.age = 0 \/ e \in tracker
  <2>1. CASE \E t \in Holders(mem.leases) : e = Fresh(t, mem.leases[t])
    BY <1>3, <1>7, <2>1
  <2>2. CASE \E t \in lost : e = Dormant(t, mem.leases[t])
    BY <1>3, <1>4, <2>2
  <2>3. CASE e \in counting /\ e.key \in absent \ Expired(absent)
    BY <1>5, <2>3
  <2> QED  BY <1>2, <2>1, <2>2, <2>3
<1> QED  BY <1>6, <1>7

------------------------------------------------------------------------------
(* The invariant holds initially and every step preserves it *)

\* What a process that has not started, or has just ended, holds.
LEMMA EmptyFacts ==
    /\ NoLeases \in [Targets -> Addr \cup {NoAddr}]
    /\ Holders(NoLeases) = {}
    /\ EmptyTable \in Table
    /\ [t \in Targets |-> 0] \in [Targets -> 0 .. Retention]
    /\ \A t \in Targets, a \in Addr : OnlyReaches(EmptyTable, a, t)
<1>1. NoLeases \in [Targets -> Addr \cup {NoAddr}] /\ Holders(NoLeases) = {}
  BY DEF NoLeases, Holders
<1>2. EmptyTable \in Table
  BY <1>1 DEF EmptyTable, Table
<1>3. [t \in Targets |-> 0] \in [Targets -> 0 .. Retention]
  BY ConstantsAssumption
<1>4. \A t \in Targets, a \in Addr : OnlyReaches(EmptyTable, a, t)
  BY AddrFacts DEF OnlyReaches, EmptyTable, NoLeases
<1> QED  BY <1>1, <1>2, <1>3, <1>4

\* A daemon that was never started satisfies the invariant.
LEMMA InitIInv == Init => IInv
<1> SUFFICES ASSUME Init PROVE IInv
  OBVIOUS
<1>1. PICK p \in Pools : disk = [leases |-> NoLeases, nat |-> NoAddr, dns |-> NoAddr, pool |-> p]
  BY DEF Init
<1>2. NoLeases \in [Targets -> Addr \cup {NoAddr}] /\ Holders(NoLeases) = {}
  BY EmptyFacts
<1>3. disk \in State /\ Leased(disk) = {} /\ Holders(disk.leases) = {}
  BY <1>1, <1>2 DEF State, Leased, NoLeases
<1>4. Exclusive(disk) /\ HostValid(disk)
  BY <1>1, <1>3 DEF Exclusive, HostValid
<1>5. TypeOK
  BY <1>2, <1>3, EmptyFacts DEF Init, TypeOK
<1>6. PlanExtends /\ MapperMatches /\ LeasesHonoured
  BY <1>3 DEF Init, PlanExtends, Building, MapperMatches, LeasesHonoured
<1>7. DormantCounts /\ PublishedPresent
  BY <1>2 DEF Init, DormantCounts, PublishedPresent, Building
<1> QED  BY <1>4, <1>5, <1>6, <1>7 DEF Init, IInv, LeasesExclusive, HostAddressesValid

\* Start preserves it: the host addresses are chosen outside the leases of the pool it settles on.
LEMMA StartIInv ==
    ASSUME IInv, NEW p \in Pools, Start(p)
    PROVE  IInv'
<1> DEFINE st == WithPool(disk, p)
<1>1. NoLeases \in [Targets -> Addr \cup {NoAddr}] /\ Holders(NoLeases) = {}
  BY EmptyFacts
<1>2. st \in State /\ Exclusive(st)
  <2>1. CASE p = disk.pool
    BY <2>1 DEF WithPool, IInv, TypeOK, LeasesExclusive
  <2>2. CASE p # disk.pool
    <3>1. st = [leases |-> NoLeases, nat |-> NoAddr, dns |-> NoAddr, pool |-> p]
      BY <2>2 DEF WithPool
    <3>2. st \in State /\ Leased(st) = {} /\ Holders(st.leases) = {}
      BY <1>1, <3>1 DEF State, Leased, NoLeases
    <3> QED  BY <3>2 DEF Exclusive
  <2> QED  BY <2>1, <2>2
<1>n. PICK n \in HostNAT(st) : \E d \in HostDNS(st, n) : mem' = [st EXCEPT !.nat = n, !.dns = d]
  BY DEF Start
<1>3. PICK d \in HostDNS(st, n) : mem' = [st EXCEPT !.nat = n, !.dns = d]
  BY <1>n
<1>4. mem' \in State /\ Exclusive(mem') /\ HostValid(mem')
  BY <1>2, <1>3, HostIPsValid
<1>5. disk' = mem' /\ plan' = mem' /\ proc' = "boot" /\ pc' = "idle"
  BY DEF Start, IInv, MapperMatches
<1>6. mapper = EmptyTable /\ answers = NoLeases
  BY DEF Start, IInv, MapperMatches
<1>7. \A t \in Holders(st.leases) : Fresh(t, st.leases[t]) \in Entry /\ Fresh(t, st.leases[t]).present
  BY <1>2, ConstantsAssumption DEF Holders, State, Fresh, Entry
<1>8. tracker' \subseteq Entry /\ \A e \in tracker' : e.present
  BY <1>7 DEF Start
<1>9. TypeOK'
  BY <1>4, <1>5, <1>8 DEF Start, IInv, TypeOK
<1>10. LeasesHonoured'
  <2> SUFFICES ASSUME NEW t \in Holders(mem'.leases) PROVE OnlyReaches(mapper', mem'.leases[t], t)
    BY DEF LeasesHonoured, Holders, OnlyReaches
  <2>1. mapper' = EmptyTable
    BY <1>6 DEF Start
  <2>2. t \in Targets /\ mem'.leases[t] \in Addr /\ mem'.leases[t] # NoAddr
    BY <1>4 DEF Holders, State
  <2> QED  BY <2>1, <2>2, EmptyFacts
<1>11. PlanExtends' /\ MapperMatches'
  BY <1>5 DEF PlanExtends, Building, MapperMatches
<1>12. DormantCounts' /\ PublishedPresent'
  BY <1>1, <1>5, <1>6, <1>8 DEF Start, DormantCounts, PublishedPresent, Building, Holders
<1>13. LeasesExclusive' /\ HostAddressesValid'
  BY <1>4, <1>5 DEF LeasesExclusive, HostAddressesValid, Exclusive, HostValid, Leased, Holders
<1> QED  BY <1>9, <1>10, <1>11, <1>12, <1>13 DEF IInv

\* The end of the process preserves it: everything is taken from state.json.
LEMMA StopIInv ==
    ASSUME IInv, Stop
    PROVE  IInv'
<1>1. NoLeases \in [Targets -> Addr \cup {NoAddr}] /\ Holders(NoLeases) = {}
  BY EmptyFacts
<1>2. TypeOK'
  BY <1>1, EmptyFacts DEF Stop, IInv, TypeOK
<1>3. LeasesExclusive' /\ HostAddressesValid'
  BY DEF Stop, IInv, LeasesExclusive, HostAddressesValid, Exclusive, HostValid, Leased, Holders
<1>4. LeasesHonoured'
  <2> SUFFICES ASSUME NEW t \in Holders(mem'.leases) PROVE OnlyReaches(mapper', mem'.leases[t], t)
    BY DEF LeasesHonoured, Holders, OnlyReaches
  <2>1. mapper' = EmptyTable
    BY DEF Stop
  <2>2. t \in Targets /\ mem'.leases[t] \in Addr /\ mem'.leases[t] # NoAddr
    BY <1>2 DEF Holders, State, TypeOK
  <2> QED  BY <2>1, <2>2, EmptyFacts
<1>5. PlanExtends' /\ MapperMatches'
  BY DEF Stop, PlanExtends, Building, MapperMatches
<1>6. DormantCounts' /\ PublishedPresent'
  BY <1>1 DEF Stop, DormantCounts, PublishedPresent, Building, Holders
<1> QED  BY <1>2, <1>3, <1>4, <1>5, <1>6 DEF IInv

\* Whenever reconcileLocked gives up, what is left in memory and in the mapper
\* still satisfies the invariant, whatever DNS answers.
LEMMA AbortIInv ==
    ASSUME IInv, NEW b \in BOOLEAN, Abort(b),
           mem' = mem, mapper' = mapper, disk' \in {mem, disk},
           answers' \in [Targets -> Addr \cup {NoAddr}],
           tracker' \subseteq Entry,
           missed' \subseteq Targets, quiet' \in [Targets -> 0 .. Retention],
           \A e \in tracker' : ~e.present /\ mem.leases[e.key] = e.addr =>
               e.key \in missed' /\ quiet'[e.key] >= e.age
    PROVE  IInv'
<1>1. /\ pc' = "idle" /\ proc' \in {"up", "exit"} /\ reconcileErr' = TRUE
      /\ removing' = NoProfile /\ plan' = mem /\ todo' = {} /\ active' = {}
  BY DEF Abort
<1>2. TypeOK'
  BY <1>1 DEF IInv, TypeOK
<1>3. Exclusive(mem) /\ Exclusive(disk) /\ HostValid(mem) /\ HostValid(disk)
  BY DEF IInv, LeasesExclusive, HostAddressesValid
<1>4. Exclusive(mem') /\ Exclusive(disk') /\ Exclusive(plan')
  BY <1>1, <1>3
<1>5. HostValid(mem') /\ HostValid(disk') /\ HostValid(plan')
  BY <1>1, <1>3
<1>6. PlanExtends' /\ MapperMatches'
  BY <1>1 DEF PlanExtends, Building, MapperMatches
<1>7. LeasesHonoured'
  BY DEF IInv, LeasesHonoured, Holders, OnlyReaches
<1>8. DormantCounts' /\ PublishedPresent'
  BY <1>1 DEF DormantCounts, PublishedPresent, Building
<1> QED  BY <1>2, <1>4, <1>5, <1>6, <1>7, <1>8 DEF IInv, LeasesExclusive, HostAddressesValid

\* What a step that leaves the tracker and the history alone hands to AbortIInv.
LEMMA SameHistory ==
    ASSUME IInv, tracker' = tracker, missed' = missed, quiet' = quiet
    PROVE  /\ answers \in [Targets -> Addr \cup {NoAddr}]
           /\ tracker' \subseteq Entry
           /\ missed' \subseteq Targets /\ quiet' \in [Targets -> 0 .. Retention]
           /\ \A e \in tracker' : ~e.present /\ mem.leases[e.key] = e.addr =>
                 e.key \in missed' /\ quiet'[e.key] >= e.age
BY DEF IInv, TypeOK, DormantCounts

\* A reconciliation that fails before it observes leases preserves it.
LEMMA PreferencesFailIInv ==
    ASSUME IInv, NEW saved \in BOOLEAN, PreferencesFail(saved)
    PROVE  IInv'
<1>1. /\ Abort(FALSE) /\ mem' = mem /\ mapper' = mapper /\ disk' \in {mem, disk}
      /\ answers' = answers /\ tracker' = tracker /\ missed' = missed /\ quiet' = quiet
  BY DEF PreferencesFail, Stored
<1> QED  BY <1>1, SameHistory, AbortIInv

\* Retain and the history agree: see DormantCounts.
LEMMA ObserveHistory ==
    ASSUME IInv, NEW absent \in SUBSET Targets, tracker' = Observed(absent), Note(absent)
    PROVE  /\ tracker' \subseteq Entry
           /\ missed' \subseteq Targets /\ quiet' \in [Targets -> 0 .. Retention]
           /\ \A e \in tracker' : ~e.present =>
                 /\ mem.leases[e.key] = e.addr
                 /\ e.key \in absent /\ e.key \notin Expired(absent)
                 /\ e.key \in missed' /\ quiet'[e.key] >= e.age
<1>1. tracker' \subseteq Entry
  BY ObservedFacts DEF IInv
<1>2. missed' \subseteq Targets /\ quiet' \in [Targets -> 0 .. Retention]
  <2>1. missed' = absent \cap Holders(mem.leases)
    BY DEF Note
  <2>2. quiet' = [t \in Targets |-> IF t \in missed' \cap missed THEN quiet[t] ELSE 0]
    BY DEF Note
  <2>3. quiet \in [Targets -> 0 .. Retention] /\ 0 \in 0 .. Retention
    BY ConstantsAssumption DEF IInv, TypeOK
  <2> QED  BY <2>1, <2>2, <2>3
<1>3. ASSUME NEW e \in tracker', ~e.present
      PROVE  /\ mem.leases[e.key] = e.addr
             /\ e.key \in absent /\ e.key \notin Expired(absent)
             /\ e.key \in missed' /\ quiet'[e.key] >= e.age
  <2>1. /\ e.key \in absent \cap Holders(mem.leases) /\ e.key \notin Expired(absent)
        /\ mem.leases[e.key] = e.addr
        /\ e.age = 0 \/ e \in tracker
    BY <1>3, ObservedFacts DEF IInv
  <2>2. e.key \in missed'
    BY <2>1 DEF Note
  <2>3. e.key \in Targets /\ e.age \in 0 .. Retention /\ quiet'[e.key] \in 0 .. Retention
    BY <1>1, <1>2 DEF Entry
  <2>4. CASE e.age = 0
    BY <2>1, <2>2, <2>3, <2>4
  <2>5. CASE e \in tracker
    <3>1. e.key \in missed /\ quiet[e.key] >= e.age
      BY <1>3, <2>1, <2>5 DEF IInv, DormantCounts
    <3>2. quiet'[e.key] = quiet[e.key]
      BY <2>2, <2>3, <3>1 DEF Note
    <3> QED  BY <2>1, <2>2, <3>1, <3>2
  <2> QED  BY <2>1, <2>4, <2>5
<1> QED  BY <1>1, <1>2, <1>3

\* refreshLeasesLocked preserves it: only expired leases go, and their records with them.
LEMMA ObserveIInv ==
    ASSUME IInv, NEW fresh \in SUBSET Profiles, NEW act \in SUBSET Targets,
           NEW saved \in BOOLEAN, NEW p \in Profiles \cup {NoProfile},
           Observe(fresh, act, saved, p)
    PROVE  IInv'
<1> DEFINE absent == {t \in Targets : ProfileOf[t] \in fresh} \ act
<1>1. /\ tracker' = Observed(absent) /\ Note(absent) /\ mapper' = mapper /\ answers' = answers
      /\ pc = "idle" /\ proc \in {"boot", "up"} /\ \A t \in act : ProfileOf[t] # p
  BY DEF Observe, Begins
<1>2. /\ tracker' \subseteq Entry
      /\ missed' \subseteq Targets /\ quiet' \in [Targets -> 0 .. Retention]
      /\ \A e \in tracker' : ~e.present =>
            /\ mem.leases[e.key] = e.addr
            /\ e.key \in absent /\ e.key \notin Expired(absent)
            /\ e.key \in missed' /\ quiet'[e.key] >= e.age
  <2> HIDE DEF absent
  <2>1. absent \in SUBSET Targets
    BY DEF absent
  <2> QED  BY <1>1, <2>1, ObserveHistory
<1>3. CASE Abort(FALSE) /\ mem' = mem /\ disk' = Stored(saved)
  <2>1. disk' \in {mem, disk} /\ answers' \in [Targets -> Addr \cup {NoAddr}]
    BY <1>1, <1>3 DEF Stored, IInv, TypeOK
  <2> HIDE DEF absent
  <2> QED  BY <1>1, <1>2, <1>3, <2>1, AbortIInv
<1>4. CASE /\ mem' = [mem EXCEPT !.leases = Retained(absent)]
           /\ disk' = IF Expired(absent) # {} THEN mem' ELSE Stored(saved)
           /\ pc' = "plan" /\ active' = act /\ removing' = p /\ plan' = mem'
           /\ UNCHANGED <<proc, reconcileErr, todo>>
  <2> DEFINE S == Expired(absent)
  <2>1. S \subseteq Targets /\ S \subseteq absent
    BY DEF Expired, Holders
  <2>2. Retained(absent) = [t \in Targets |-> IF t \in S THEN NoAddr ELSE mem.leases[t]]
    BY DEF Retained
  <2>3. mem \in State /\ disk \in State /\ Exclusive(mem) /\ HostValid(mem) /\ Exclusive(disk) /\ HostValid(disk)
    BY DEF IInv, TypeOK, LeasesExclusive, HostAddressesValid
  <2>4. /\ mem' \in State /\ Exclusive(mem') /\ HostValid(mem')
        /\ mem'.leases = [t \in Targets |-> IF t \in S THEN NoAddr ELSE mem.leases[t]]
    <3> HIDE DEF S, absent
    <3> QED  BY <1>4, <2>1, <2>2, <2>3, FewerLeases
  <2>5. disk' \in State /\ Exclusive(disk') /\ HostValid(disk')
    BY <1>4, <2>3, <2>4 DEF Stored
  <2>6. \A t \in Targets : mem'.leases[t] # NoAddr => mem'.leases[t] = mem.leases[t]
    BY <2>4
  <2>7. TypeOK'
    <3> HIDE DEF S, absent
    <3> QED  BY <1>1, <1>2, <1>4, <2>4, <2>5 DEF IInv, TypeOK
  <2>8. LeasesHonoured'
    BY <1>1, <2>4, <2>6 DEF IInv, LeasesHonoured, Holders, OnlyReaches
  <2>9. PlanExtends' /\ MapperMatches'
    BY <1>1, <1>4 DEF PlanExtends, Building, MapperMatches
  <2>10. DormantCounts'
    <3>1. ASSUME NEW e \in tracker', ~e.present
          PROVE  mem'.leases[e.key] = e.addr /\ e.key \in missed' /\ quiet'[e.key] >= e.age
      <4>1. e.key \in Targets
        BY <1>2 DEF Entry
      <4> HIDE DEF absent
      <4> QED  BY <1>2, <2>4, <3>1, <4>1
    <3> QED  BY <3>1 DEF DormantCounts
  <2>11. \A t \in act : \A e \in tracker' : e.key = t => e.present
    BY <1>2
  <2>12. ASSUME ~reconcileErr, NEW t \in Holders(answers) PROVE mem'.leases[t] = answers[t]
    <3>1. t \in Targets /\ mem.leases[t] = answers[t]
      BY <1>1, <2>12 DEF IInv, PublishedPresent, Holders
    <3>2. t \notin S
      BY <1>1, <2>12, <3>1 DEF IInv, PublishedPresent, Expired, Records
    <3> HIDE DEF S
    <3> QED  BY <2>4, <3>1, <3>2
  <2>13. PublishedPresent'
    <3> HIDE DEF S, absent
    <3> QED  BY <1>1, <1>4, <2>11, <2>12 DEF PublishedPresent, Building, Holders
  <2> QED  BY <1>4, <2>3, <2>4, <2>5, <2>7, <2>8, <2>9, <2>10, <2>13
        DEF IInv, LeasesExclusive, HostAddressesValid
<1> QED
  BY <1>3, <1>4 DEF Observe

\* A plan that fails before anything is published changes nothing else.
LEMMA QuietAbortIInv ==
    ASSUME IInv, NEW b \in BOOLEAN, Abort(b),
           UNCHANGED <<mem, disk, tracker, mapper, answers, quiet, missed>>
    PROVE  IInv'
<1>1. /\ mem' = mem /\ mapper' = mapper /\ disk' \in {mem, disk}
      /\ answers' = answers /\ tracker' = tracker /\ missed' = missed /\ quiet' = quiet
  OBVIOUS
<1> QED  BY <1>1, SameHistory, AbortIInv

\* ensureHostIPs preserves it: valid host addresses are kept.
LEMMA EnsureHostIPsIInv ==
    ASSUME IInv, EnsureHostIPs
    PROVE  IInv'
<1>1. /\ UNCHANGED <<mem, disk, tracker, mapper, answers, quiet, missed>> /\ pc = "plan"
  BY DEF EnsureHostIPs
<1>2. CASE Abort(FALSE)
  BY <1>1, <1>2, QuietAbortIInv
<1>3. CASE /\ \E n \in HostNAT(mem) : \E d \in HostDNS(mem, n) : plan' = [mem EXCEPT !.nat = n, !.dns = d]
           /\ pc' = "assign" /\ todo' = active
           /\ UNCHANGED <<proc, reconcileErr, removing, active>>
  <2>1. PICK n \in HostNAT(mem) : \E d \in HostDNS(mem, n) : plan' = [mem EXCEPT !.nat = n, !.dns = d]
    BY <1>3
  <2>2. PICK d \in HostDNS(mem, n) : plan' = [mem EXCEPT !.nat = n, !.dns = d]
    BY <2>1
  <2>3. mem \in State /\ Exclusive(mem) /\ Exclusive(disk) /\ HostValid(mem) /\ HostValid(disk)
    BY DEF IInv, TypeOK, LeasesExclusive, HostAddressesValid
  <2>4. plan' \in State /\ Exclusive(plan') /\ HostValid(plan')
    BY <2>2, <2>3, HostIPsValid
  <2>5. plan'.leases = mem.leases /\ plan'.pool = mem.pool
    BY <2>2, <2>3 DEF State
  <2>6. TypeOK'
    BY <1>1, <1>3, <2>4 DEF IInv, TypeOK
  <2>7. PlanExtends' /\ MapperMatches'
    BY <1>1, <1>3, <2>5 DEF IInv, PlanExtends, MapperMatches, Building, Holders
  <2>8. LeasesHonoured'
    BY <1>1 DEF IInv, LeasesHonoured, OnlyReaches, Holders
  <2>9. DormantCounts' /\ PublishedPresent'
    BY <1>1, <1>3 DEF IInv, DormantCounts, PublishedPresent, Building, Holders
  <2>10. LeasesExclusive' /\ HostAddressesValid'
    BY <1>1, <2>3, <2>4 DEF LeasesExclusive, HostAddressesValid
  <2> QED  BY <2>6, <2>7, <2>8, <2>9, <2>10 DEF IInv
<1> QED  BY <1>2, <1>3 DEF EnsureHostIPs

\* A round of Allocator.Assign preserves it: a new lease is disjoint from the known ones.
LEMMA AssignIInv ==
    ASSUME IInv, NEW t \in Targets, Assign(t)
    PROVE  IInv'
<1>1. /\ UNCHANGED <<mem, disk, tracker, mapper, answers, quiet, missed>> /\ pc = "assign"
  BY DEF Assign
<1>2. CASE Abort(TRUE)
  BY <1>1, <1>2, QuietAbortIInv
<1>3. mem \in State /\ plan \in State /\ Exclusive(mem) /\ Exclusive(disk) /\ Exclusive(plan)
      /\ HostValid(mem) /\ HostValid(disk) /\ HostValid(plan)
  BY DEF IInv, TypeOK, LeasesExclusive, HostAddressesValid
<1>4. CASE /\ plan' \in State /\ Exclusive(plan') /\ HostValid(plan') /\ plan'.pool = plan.pool
           /\ \A u \in Holders(mem.leases) : plan'.leases[u] = plan.leases[u]
           /\ todo' = todo \ {t}
           /\ UNCHANGED <<proc, pc, reconcileErr, removing, active>>
  <2>1. TypeOK'
    BY <1>1, <1>4 DEF IInv, TypeOK
  <2>2. PlanExtends' /\ MapperMatches'
    BY <1>1, <1>4 DEF IInv, PlanExtends, MapperMatches, Building, Holders
  <2>3. LeasesHonoured'
    BY <1>1 DEF IInv, LeasesHonoured, OnlyReaches, Holders
  <2>4. DormantCounts' /\ PublishedPresent'
    BY <1>1, <1>4 DEF IInv, DormantCounts, PublishedPresent, Building, Holders
  <2>5. LeasesExclusive' /\ HostAddressesValid'
    BY <1>1, <1>3, <1>4 DEF LeasesExclusive, HostAddressesValid
  <2> QED  BY <2>1, <2>2, <2>3, <2>4, <2>5 DEF IInv
<1>5. CASE /\ ~Known(plan, t)
           /\ \E a \in First(Allocatable(plan, t)) : plan' = [plan EXCEPT !.leases[t] = a]
           /\ todo' = todo \ {t}
           /\ UNCHANGED <<proc, pc, reconcileErr, removing, active>>
  <2>1. PICK a \in Allocatable(plan, t) : plan' = [plan EXCEPT !.leases[t] = a]
    BY <1>5 DEF First
  <2>2. /\ plan' \in State /\ Exclusive(plan') /\ HostValid(plan') /\ plan'.pool = plan.pool
        /\ \A u \in Targets \ {t} : plan'.leases[u] = plan.leases[u]
    BY <1>3, <2>1, OneMoreLease
  <2>3. t \notin Holders(mem.leases)
    \* a lease of s.st is in the pool and is no host address, so it is known
    <3>1. SUFFICES ASSUME t \in Holders(mem.leases) PROVE FALSE
      OBVIOUS
    <3>2. plan.leases[t] = mem.leases[t] /\ plan.leases[t] # NoAddr
      BY <3>1 DEF IInv, PlanExtends, Holders
    <3>3. plan.leases[t] \in Leased(plan)
      BY <3>2 DEF Leased
    <3> QED  BY <1>3, <1>5, <3>3 DEF Exclusive, Known
  <2>4. \A u \in Holders(mem.leases) : plan'.leases[u] = plan.leases[u]
    BY <2>2, <2>3 DEF Holders
  <2> QED  BY <1>4, <1>5, <2>2, <2>4
<1>6. CASE Known(plan, t) /\ plan' = plan /\ todo' = todo \ {t}
           /\ UNCHANGED <<proc, pc, reconcileErr, removing, active>>
  BY <1>3, <1>4, <1>6
<1> QED  BY <1>2, <1>5, <1>6 DEF Assign

\* Publishing preserves it: the mapper honours the leases of the plan and so those of s.st.
LEMMA PublishIInv ==
    ASSUME IInv, Publish
    PROVE  IInv'
<1>1. /\ UNCHANGED <<mem, disk, answers, quiet, missed>> /\ pc = "assign"
  BY DEF Publish
<1>2. CASE Abort(FALSE) /\ UNCHANGED <<tracker, mapper>>
  BY <1>1, <1>2, QuietAbortIInv
<1>3. CASE /\ tracker' = SetLeases(plan.leases)
           /\ mapper' = TunConfig(plan, active)
           /\ pc' = "host"
           /\ UNCHANGED <<proc, reconcileErr, removing, plan, todo, active>>
  <2>1. mem \in State /\ plan \in State /\ Exclusive(plan) /\ active \in SUBSET Targets /\ TypeOK
    BY DEF IInv, TypeOK, LeasesExclusive
  <2>2. /\ mapper' \in Table
        /\ \A t \in Holders(plan.leases) : OnlyReaches(mapper', plan.leases[t], t)
    BY <1>3, <2>1, TunConfigHonours
  <2>3. /\ tracker' \subseteq Entry
        /\ \A e \in tracker' : ~e.present => e \in tracker
        /\ \A e \in tracker' : e \in tracker \/ e.present
    <3>1. plan.leases \in [Targets -> Addr \cup {NoAddr}]
      BY <2>1 DEF State
    <3> QED  BY <1>3, <2>1, <3>1, SetLeasesFacts
  <2>4. TypeOK'
    BY <1>1, <1>3, <2>2, <2>3 DEF IInv, TypeOK
  <2>5. PlanExtends' /\ MapperMatches'
    BY <1>1, <1>3 DEF IInv, PlanExtends, MapperMatches, Building, Holders
  <2>6. LeasesHonoured'
    <3> SUFFICES ASSUME NEW t \in Holders(mem.leases) PROVE OnlyReaches(mapper', mem.leases[t], t)
      BY <1>1 DEF LeasesHonoured, Holders, OnlyReaches
    <3>1. plan.leases[t] = mem.leases[t] /\ t \in Holders(plan.leases)
      BY DEF IInv, PlanExtends, Holders
    <3> QED  BY <2>2, <3>1
  <2>7. DormantCounts'
    BY <1>1, <1>3, <2>3 DEF IInv, DormantCounts, Building
  <2>8. PublishedPresent'
    BY <1>1, <1>3, <2>3 DEF IInv, PublishedPresent, Building, Holders
  <2>9. LeasesExclusive' /\ HostAddressesValid'
    BY <1>1, <1>3 DEF IInv, LeasesExclusive, HostAddressesValid, Exclusive, HostValid, Leased, Holders
  <2> QED  BY <2>4, <2>5, <2>6, <2>7, <2>8, <2>9 DEF IInv
<1> QED  BY <1>2, <1>3 DEF Publish

\* The host configuration preserves it: no lease is involved.
LEMMA ConfigureHostIInv ==
    ASSUME IInv, ConfigureHost
    PROVE  IInv'
<1>1. UNCHANGED <<mem, disk, tracker, mapper, answers, quiet, missed>> /\ pc = "host"
  BY DEF ConfigureHost
<1>2. CASE Abort(FALSE)
  BY <1>1, <1>2, QuietAbortIInv
<1>3. CASE pc' = "dns" /\ UNCHANGED <<proc, reconcileErr, removing, plan, todo, active>>
  <2>1. TypeOK'
    BY <1>1, <1>3 DEF IInv, TypeOK
  <2>2. PlanExtends' /\ MapperMatches'
    BY <1>1, <1>3 DEF IInv, PlanExtends, MapperMatches, Building, Holders, TunConfig, Leased
  <2>3. LeasesHonoured' /\ LeasesExclusive' /\ HostAddressesValid'
    BY <1>1, <1>3 DEF IInv, LeasesHonoured, OnlyReaches, LeasesExclusive, HostAddressesValid,
                      Exclusive, HostValid, Leased, Holders
  <2>4. DormantCounts' /\ PublishedPresent'
    BY <1>1, <1>3 DEF IInv, DormantCounts, PublishedPresent, Building, Holders
  <2> QED  BY <2>1, <2>2, <2>3, <2>4 DEF IInv
<1> QED  BY <1>2, <1>3 DEF ConfigureHost

\* Configuring DNS and committing the plan preserve it.
LEMMA ConfigureDNSIInv ==
    ASSUME IInv, ConfigureDNS
    PROVE  IInv'
<1>1. /\ UNCHANGED <<disk, mapper, quiet, missed>> /\ pc = "dns"
      /\ mapper = TunConfig(plan, active)
  BY DEF ConfigureDNS, IInv, MapperMatches
<1>2. /\ mem \in State /\ plan \in State /\ Exclusive(plan) /\ HostValid(plan)
      /\ active \in SUBSET Targets /\ TypeOK /\ mapper \in Table
  BY DEF IInv, TypeOK, LeasesExclusive, HostAddressesValid
<1>3. mapper.dest \in [Targets -> Addr \cup {NoAddr}]
  BY <1>2 DEF Table
<1>4. CASE /\ answers' \in {answers, mapper.dest}
           /\ Abort(FALSE)
           /\ UNCHANGED <<mem, tracker>>
  <2>1. answers' \in [Targets -> Addr \cup {NoAddr}]
    BY <1>3, <1>4 DEF IInv, TypeOK
  <2>2. mem' = mem /\ mapper' = mapper /\ disk' \in {mem, disk} /\ tracker' = tracker
        /\ missed' = missed /\ quiet' = quiet
    BY <1>1, <1>4
  <2> QED  BY <1>4, <2>1, <2>2, SameHistory, AbortIInv
<1>5. CASE /\ answers' = mapper.dest
           /\ mem' = plan
           /\ tracker' = SetLeases(plan.leases)
           /\ pc' = "save"
           /\ active' = {}
           /\ UNCHANGED <<proc, reconcileErr, removing, plan, todo>>
  <2>1. \A t \in Holders(plan.leases) : OnlyReaches(mapper, plan.leases[t], t)
    BY <1>1, <1>2, TunConfigHonours
  <2>2. /\ tracker' \subseteq Entry
        /\ \A e \in tracker' : ~e.present => e \in tracker
        /\ \A e \in tracker' : e \in tracker \/ e.present
    <3>1. plan.leases \in [Targets -> Addr \cup {NoAddr}]
      BY <1>2 DEF State
    <3> QED  BY <1>2, <1>5, <3>1, SetLeasesFacts
  <2>3. TypeOK'
    BY <1>1, <1>2, <1>3, <1>5, <2>2 DEF IInv, TypeOK
  <2>4. PlanExtends' /\ MapperMatches'
    BY <1>1, <1>5 DEF IInv, PlanExtends, MapperMatches, Building, Holders
  <2>5. LeasesHonoured'
    BY <1>1, <1>5, <2>1 DEF LeasesHonoured, OnlyReaches, Holders
  <2>6. DormantCounts'
    <3> SUFFICES ASSUME NEW e \in tracker', ~e.present
                 PROVE  e.key \in missed /\ quiet[e.key] >= e.age
      BY <1>1, <1>5 DEF DormantCounts, Building
    <3>1. e \in tracker
      BY <2>2
    <3> QED  BY <1>1, <3>1 DEF IInv, DormantCounts, Building
  <2>7. \A t \in Holders(answers') : t \in active /\ answers'[t] = plan.leases[t]
    BY <1>1, <1>5 DEF TunConfig, Holders
  <2>8. \A t \in active : ProfileOf[t] # removing /\ \A e \in tracker' : e.key = t => e.present
    BY <1>1, <2>2 DEF IInv, PublishedPresent, Building
  <2>9. PublishedPresent'
    BY <1>1, <1>5, <2>7, <2>8 DEF PublishedPresent, Building, Holders
  <2>10. LeasesExclusive' /\ HostAddressesValid'
    BY <1>1, <1>5 DEF IInv, LeasesExclusive, HostAddressesValid, Exclusive, HostValid, Leased, Holders
  <2> QED  BY <2>3, <2>4, <2>5, <2>6, <2>9, <2>10 DEF IInv
<1> QED  BY <1>4, <1>5 DEF ConfigureDNS

\* The final save preserves it.
LEMMA SaveIInv ==
    ASSUME IInv, Save
    PROVE  IInv'
<1>1. UNCHANGED <<mem, tracker, mapper, answers, quiet, missed>> /\ pc = "save"
  BY DEF Save
<1>2. CASE Abort(FALSE) /\ UNCHANGED disk
  BY <1>1, <1>2, QuietAbortIInv
<1>3. CASE /\ disk' = mem
           /\ pc' = IF removing = NoProfile THEN "idle" ELSE "purge"
           /\ proc' = "up"
           /\ reconcileErr' = FALSE
           /\ UNCHANGED <<plan, todo, active, removing>>
  <2>1. pc' \in {"idle", "purge"}
    BY <1>3
  <2>2. TypeOK'
    BY <1>1, <1>3, <2>1 DEF IInv, TypeOK
  <2>3. PlanExtends' /\ MapperMatches'
    BY <1>1, <1>3, <2>1 DEF IInv, PlanExtends, MapperMatches, Building, Holders
  <2>4. LeasesHonoured'
    BY <1>1 DEF IInv, LeasesHonoured, OnlyReaches, Holders
  <2>5. LeasesExclusive' /\ HostAddressesValid'
    BY <1>1, <1>3 DEF IInv, LeasesExclusive, HostAddressesValid, Exclusive, HostValid, Leased, Holders
  <2>6. DormantCounts'
    BY <1>1, <2>1 DEF IInv, DormantCounts, Building
  <2>7. PublishedPresent'
    BY <1>1, <1>3, <2>1 DEF IInv, PublishedPresent, Building, Holders
  <2> QED  BY <2>2, <2>3, <2>4, <2>5, <2>6, <2>7 DEF IInv
<1> QED  BY <1>2, <1>3 DEF Save

\* Purging a profile preserves it: only its own leases go, and DNS answers none of them.
LEMMA PurgeIInv ==
    ASSUME IInv, Purge
    PROVE  IInv'
<1> DEFINE S == {t \in Targets : ProfileOf[t] = removing}
           kept == [t \in Targets |-> IF ProfileOf[t] = removing THEN NoAddr ELSE mem.leases[t]]
<1>1. /\ UNCHANGED <<proc, todo, active, tracker, mapper, answers, reconcileErr, quiet, missed>>
      /\ pc = "purge" /\ pc' = "idle" /\ removing' = NoProfile /\ plan' = mem'
  BY DEF Purge
<1>2. /\ mem \in State /\ Exclusive(mem) /\ HostValid(mem)
      /\ disk \in State /\ Exclusive(disk) /\ HostValid(disk)
  BY DEF IInv, TypeOK, LeasesExclusive, HostAddressesValid
<1>3. /\ mem' \in State /\ Exclusive(mem') /\ HostValid(mem')
      /\ \A t \in Targets : \/ mem'.leases[t] = mem.leases[t]
                            \/ t \in S /\ mem'.leases[t] = NoAddr
  <2>1. CASE mem' = mem
    BY <1>2, <2>1
  <2>2. CASE mem' = [mem EXCEPT !.leases = kept]
    <3>1. kept = [t \in Targets |-> IF t \in S THEN NoAddr ELSE mem.leases[t]]
      OBVIOUS
    <3>2. S \in SUBSET Targets
      OBVIOUS
    <3> HIDE DEF S, kept
    <3>3. /\ mem' \in State /\ Exclusive(mem') /\ HostValid(mem')
          /\ mem'.leases = [t \in Targets |-> IF t \in S THEN NoAddr ELSE mem.leases[t]]
      BY <1>2, <2>2, <3>1, <3>2, FewerLeases
    <3> QED  BY <3>3
  <2> QED  BY <2>1, <2>2 DEF Purge
<1>4. disk' \in {mem', disk}
  BY DEF Purge
<1>5. disk' \in State /\ Exclusive(disk') /\ HostValid(disk')
  BY <1>2, <1>3, <1>4
<1>6. TypeOK'
  <2> HIDE DEF S, kept
  <2> QED  BY <1>1, <1>3, <1>5 DEF IInv, TypeOK
<1>7. PlanExtends' /\ MapperMatches'
  BY <1>1 DEF IInv, PlanExtends, MapperMatches, Building
<1>8. LeasesHonoured'
  <2> HIDE DEF S, kept
  <2> QED  BY <1>1, <1>3 DEF IInv, LeasesHonoured, OnlyReaches, Holders
<1>9. DormantCounts'
  <2> SUFFICES ASSUME NEW e \in tracker, ~e.present, mem'.leases[e.key] = e.addr
               PROVE  e.key \in missed /\ quiet[e.key] >= e.age
    BY <1>1 DEF DormantCounts, Building
  <2>1. e.key \in Targets /\ e.addr # NoAddr
    BY AddrFacts DEF IInv, TypeOK, Entry
  <2>2. mem.leases[e.key] = e.addr
    BY <1>3, <2>1
  <2> QED  BY <2>2 DEF IInv, DormantCounts
<1>10. PublishedPresent'
  <2>1. ASSUME NEW t \in Holders(answers)
        PROVE  /\ mem'.leases[t] = answers[t]
               /\ \A e \in tracker : e.key = t /\ e.addr = answers[t] => e.present
    <3>1. t \in Targets /\ ProfileOf[t] # removing /\ mem.leases[t] = answers[t]
      BY <1>1 DEF IInv, PublishedPresent, Holders
    <3>2. \A e \in tracker : e.key = t /\ e.addr = answers[t] => e.present
      BY <1>1 DEF IInv, PublishedPresent
    <3> QED  BY <1>3, <3>1, <3>2
  <2> QED  BY <1>1, <2>1 DEF PublishedPresent, Building, Holders
<1> QED  BY <1>1, <1>3, <1>5, <1>6, <1>7, <1>8, <1>9, <1>10
      DEF IInv, LeasesExclusive, HostAddressesValid

\* Packets and time only touch the ages of the tracker and of the history.
LEMMA AgesIInv ==
    ASSUME IInv,
           UNCHANGED <<proc, pc, mem, disk, plan, todo, active, removing, mapper, answers,
                       reconcileErr, missed>>,
           tracker' \subseteq Entry, quiet' \in [Targets -> 0 .. Retention],
           \A e \in tracker' : \E f \in tracker :
               /\ e.key = f.key /\ e.addr = f.addr /\ e.present = f.present
               /\ ~e.present /\ mem.leases[f.key] = f.addr => quiet'[f.key] >= e.age
    PROVE  IInv'
<1>1. TypeOK'
  BY DEF IInv, TypeOK
<1>2. PlanExtends' /\ MapperMatches'
  BY DEF IInv, PlanExtends, MapperMatches, Building, Holders, TunConfig, Leased
<1>3. LeasesHonoured' /\ LeasesExclusive' /\ HostAddressesValid'
  BY DEF IInv, LeasesHonoured, OnlyReaches, LeasesExclusive, HostAddressesValid,
         Exclusive, HostValid, Leased, Holders
<1>4. DormantCounts'
  <2> SUFFICES ASSUME NEW e \in tracker', ~e.present
               PROVE  /\ mem.leases[e.key] = e.addr => e.key \in missed /\ quiet'[e.key] >= e.age
                      /\ pc = "plan" \/ Building => mem.leases[e.key] = e.addr
    BY DEF DormantCounts, Building
  <2>1. PICK f \in tracker :
            /\ e.key = f.key /\ e.addr = f.addr /\ e.present = f.present
            /\ ~e.present /\ mem.leases[f.key] = f.addr => quiet'[f.key] >= e.age
    OBVIOUS
  <2>2. ~f.present
    BY <2>1
  <2>3. /\ mem.leases[f.key] = f.addr => f.key \in missed
        /\ pc = "plan" \/ Building => mem.leases[f.key] = f.addr
    BY <2>2 DEF IInv, DormantCounts
  <2> QED  BY <2>1, <2>3
<1>5. PublishedPresent'
  <2>1. \A e \in tracker' : \E f \in tracker : e.key = f.key /\ e.addr = f.addr /\ e.present = f.present
    OBVIOUS
  <2> QED  BY <2>1 DEF IInv, PublishedPresent, Building, Holders
<1> QED  BY <1>1, <1>2, <1>3, <1>4, <1>5 DEF IInv

\* A host packet preserves it: it makes a dormant record younger.
LEMMA ObserveOutboundIInv ==
    ASSUME IInv, NEW a \in Addr, ObserveOutbound(a)
    PROVE  IInv'
<1> DEFINE Seen(f) == IF f.addr = a /\ ~f.present THEN [f EXCEPT !.age = 0] ELSE f
<1>1. tracker' = {Seen(f) : f \in tracker}
      /\ quiet' = [t \in Targets |-> IF mem.leases[t] = a THEN 0 ELSE quiet[t]]
      /\ UNCHANGED <<proc, pc, mem, disk, plan, todo, active, removing, mapper, answers,
                     reconcileErr, missed>>
  BY DEF ObserveOutbound
<1>2. tracker \subseteq Entry /\ quiet \in [Targets -> 0 .. Retention] /\ 0 \in 0 .. Retention
  BY ConstantsAssumption DEF IInv, TypeOK
<1>3. quiet' \in [Targets -> 0 .. Retention]
  BY <1>1, <1>2
<1>4. ASSUME NEW f \in tracker
      PROVE  /\ Seen(f) \in Entry
             /\ Seen(f).key = f.key /\ Seen(f).addr = f.addr /\ Seen(f).present = f.present
             /\ ~f.present /\ mem.leases[f.key] = f.addr => quiet'[f.key] >= Seen(f).age
  <2>1. f \in Entry /\ f.key \in Targets /\ f.age \in 0 .. Retention
    BY <1>2 DEF Entry
  <2>2. CASE f.addr = a /\ ~f.present
    <3>1. Seen(f) = [f EXCEPT !.age = 0]
      BY <2>2
    <3>2. Seen(f) \in Entry /\ Seen(f).age = 0 /\ Seen(f).key = f.key /\ Seen(f).addr = f.addr /\ Seen(f).present = f.present
      BY <1>2, <2>1, <3>1 DEF Entry
    <3>3. quiet'[f.key] >= 0
      BY <1>3, <2>1
    <3> QED  BY <3>2, <3>3
  <2>3. CASE ~(f.addr = a /\ ~f.present)
    <3>1. Seen(f) = f
      BY <2>3
    <3>2. ASSUME ~f.present, mem.leases[f.key] = f.addr PROVE quiet'[f.key] >= f.age
      BY <1>1, <2>1, <2>3, <3>2 DEF IInv, DormantCounts
    <3> QED  BY <2>1, <3>1, <3>2
  <2> QED  BY <2>2, <2>3
<1> HIDE DEF Seen
<1>5. tracker' \subseteq Entry
  BY <1>1, <1>4
<1>6. \A e \in tracker' : \E f \in tracker :
          /\ e.key = f.key /\ e.addr = f.addr /\ e.present = f.present
          /\ ~e.present /\ mem.leases[f.key] = f.addr => quiet'[f.key] >= e.age
  <2> SUFFICES ASSUME NEW e \in tracker'
               PROVE  \E f \in tracker :
                        /\ e.key = f.key /\ e.addr = f.addr /\ e.present = f.present
                        /\ ~e.present /\ mem.leases[f.key] = f.addr => quiet'[f.key] >= e.age
    OBVIOUS
  <2>1. PICK f \in tracker : e = Seen(f)
    BY <1>1
  <2> QED  BY <1>4, <2>1
<1> QED  BY <1>1, <1>3, <1>5, <1>6, AgesIInv

\* Time preserves it: records and history age together.
LEMMA TickIInv ==
    ASSUME IInv, Tick
    PROVE  IInv'
<1> DEFINE Aged(f) == IF f.present THEN f ELSE [f EXCEPT !.age = Older(f.age)]
<1>1. tracker' = {Aged(f) : f \in tracker}
      /\ quiet' = [t \in Targets |-> IF t \in missed THEN Older(quiet[t]) ELSE quiet[t]]
      /\ UNCHANGED <<proc, pc, mem, disk, plan, todo, active, removing, mapper, answers,
                     reconcileErr, missed>>
  BY DEF Tick
<1>2. tracker \subseteq Entry /\ quiet \in [Targets -> 0 .. Retention]
  BY DEF IInv, TypeOK
<1>3. ASSUME NEW m \in 0 .. Retention, NEW n \in 0 .. Retention, m >= n
      PROVE  Older(m) \in 0 .. Retention /\ Older(m) >= Older(n)
  BY <1>3, ConstantsAssumption DEF Older
<1>4. \A m \in 0 .. Retention : Older(m) \in 0 .. Retention
  BY ConstantsAssumption DEF Older
<1>5. quiet' \in [Targets -> 0 .. Retention]
  BY <1>1, <1>2, <1>4
<1>6. ASSUME NEW f \in tracker
      PROVE  /\ Aged(f) \in Entry
             /\ Aged(f).key = f.key /\ Aged(f).addr = f.addr /\ Aged(f).present = f.present
             /\ ~f.present /\ mem.leases[f.key] = f.addr => quiet'[f.key] >= Aged(f).age
  <2>1. f \in Entry /\ f.key \in Targets /\ f.age \in 0 .. Retention
    BY <1>2 DEF Entry
  <2>2. CASE f.present
    BY <2>1, <2>2
  <2>3. CASE ~f.present
    <3>1. Aged(f) = [f EXCEPT !.age = Older(f.age)]
      BY <2>3
    <3>2. Aged(f) \in Entry /\ Aged(f).age = Older(f.age) /\ Aged(f).key = f.key
          /\ Aged(f).addr = f.addr /\ Aged(f).present = f.present
      BY <1>4, <2>1, <3>1 DEF Entry
    <3>3. ASSUME mem.leases[f.key] = f.addr PROVE quiet'[f.key] >= Older(f.age)
      <4>1. f.key \in missed /\ quiet[f.key] >= f.age
        BY <2>3, <3>3 DEF IInv, DormantCounts
      <4>2. quiet'[f.key] = Older(quiet[f.key])
        BY <1>1, <2>1, <4>1
      <4> QED  BY <1>2, <1>3, <2>1, <4>1, <4>2
    <3> QED  BY <3>2, <3>3
  <2> QED  BY <2>2, <2>3
<1> HIDE DEF Aged
<1>7. tracker' \subseteq Entry
  BY <1>1, <1>6
<1>8. \A e \in tracker' : \E f \in tracker :
          /\ e.key = f.key /\ e.addr = f.addr /\ e.present = f.present
          /\ ~e.present /\ mem.leases[f.key] = f.addr => quiet'[f.key] >= e.age
  <2> SUFFICES ASSUME NEW e \in tracker'
               PROVE  \E f \in tracker :
                        /\ e.key = f.key /\ e.addr = f.addr /\ e.present = f.present
                        /\ ~e.present /\ mem.leases[f.key] = f.addr => quiet'[f.key] >= e.age
    OBVIOUS
  <2>1. PICK f \in tracker : e = Aged(f)
    BY <1>1
  <2> QED  BY <1>6, <2>1
<1> QED  BY <1>1, <1>5, <1>7, <1>8, AgesIInv

\* Steps that change nothing preserve it.
LEMMA StutterIInv ==
    ASSUME IInv, UNCHANGED vars
    PROVE  IInv'
<1>1. TypeOK'
  BY DEF vars, IInv, TypeOK
<1>2. PlanExtends' /\ MapperMatches'
  BY DEF vars, IInv, PlanExtends, MapperMatches, Building, Holders, TunConfig, Leased
<1>3. LeasesHonoured' /\ LeasesExclusive' /\ HostAddressesValid'
  BY DEF vars, IInv, LeasesHonoured, OnlyReaches, LeasesExclusive, HostAddressesValid,
         Exclusive, HostValid, Leased, Holders
<1>4. DormantCounts' /\ PublishedPresent'
  BY DEF vars, IInv, DormantCounts, PublishedPresent, Building, Holders
<1> QED  BY <1>1, <1>2, <1>3, <1>4 DEF IInv

\* Every step of the daemon, of its hosts' packets and of time preserves IInv.
LEMMA NextIInv == IInv /\ [Next]_vars => IInv'
<1> SUFFICES ASSUME IInv, [Next]_vars PROVE IInv'
  OBVIOUS
<1>1. CASE \E p \in Pools : Start(p)
  BY <1>1, StartIInv
<1>2. CASE Stop
  BY <1>2, StopIInv
<1>3. CASE \E saved \in BOOLEAN : PreferencesFail(saved)
  BY <1>3, PreferencesFailIInv
<1>4. CASE RefreshLeases
  BY <1>4, ObserveIInv DEF RefreshLeases
<1>5. CASE EnsureHostIPs
  BY <1>5, EnsureHostIPsIInv
<1>6. CASE \E t \in Targets : Assign(t)
  BY <1>6, AssignIInv
<1>7. CASE Publish
  BY <1>7, PublishIInv
<1>8. CASE ConfigureHost
  BY <1>8, ConfigureHostIInv
<1>9. CASE ConfigureDNS
  BY <1>9, ConfigureDNSIInv
<1>10. CASE Save
  BY <1>10, SaveIInv
<1>11. CASE Purge
  BY <1>11, PurgeIInv
<1>12. CASE \E a \in Addr : ObserveOutbound(a)
  BY <1>12, ObserveOutboundIInv
<1>13. CASE Tick
  BY <1>13, TickIInv
<1>14. CASE UNCHANGED vars
  BY <1>14, StutterIInv
<1> QED
  BY <1>1, <1>2, <1>3, <1>4, <1>5, <1>6, <1>7, <1>8, <1>9, <1>10, <1>11, <1>12, <1>13, <1>14 DEF Next

------------------------------------------------------------------------------
(* Theorems *)

\* The invariant IInv holds of every behaviour of the daemon.
THEOREM Invariance == Spec => []IInv
BY InitIInv, NextIInv, PTL DEF Spec

\* Every variable keeps its type, whatever fails and whenever the daemon restarts.
THEOREM TypeCorrect == Spec => []TypeOK
<1>1. IInv => TypeOK
  BY DEF IInv
<1> QED  BY <1>1, Invariance, PTL

\* Allocator, ensureHostIPs and state.json never give one address to two owners.
THEOREM LeasesAreExclusive == Spec => []LeasesExclusive
<1>1. IInv => LeasesExclusive
  BY DEF IInv
<1> QED  BY <1>1, Invariance, PTL

\* The published packet table never sends a leased address anywhere but to its holder.
THEOREM LeasesAreHonoured == Spec => []LeasesHonoured
<1>1. IInv => LeasesHonoured
  BY DEF IInv
<1> QED  BY <1>1, Invariance, PTL

\* While reconciliations succeed, an address MagicDNS answers reaches its target or nobody.
THEOREM AnswersAreSafe == Spec => []AnswersReachTheirTarget
<1>1. IInv => AnswersReachTheirTarget
  <2> SUFFICES ASSUME IInv, ~reconcileErr, NEW t \in Holders(answers)
               PROVE  OnlyReaches(mapper, answers[t], t)
    BY DEF AnswersReachTheirTarget
  <2>1. mem.leases[t] = answers[t] /\ t \in Holders(mem.leases)
    BY DEF IInv, PublishedPresent, Holders
  <2> QED  BY <2>1 DEF IInv, LeasesHonoured
<1> QED  BY <1>1, Invariance, PTL

\* The packet table takes no leased or answered address to anyone but its target.
THEOREM AddressesAreSafe == Spec => []AddressesReachTheirTarget
<1>1. LeasesHonoured /\ AnswersReachTheirTarget => AddressesReachTheirTarget
  BY DEF AddressesReachTheirTarget
<1> QED  BY <1>1, LeasesAreHonoured, AnswersAreSafe, PTL

\* Retain, deleteProfileLeases and the end of the process are the only ways to
\* lose a lease, and Retain waits for the whole retention period.
THEOREM ReclaimsAreJustified == Spec => ReclaimedOnlyWhenQuiet
<1>1. IInv /\ [Next]_vars =>
        [\A t \in Targets : mem.leases[t] # NoAddr /\ mem'.leases[t] # mem.leases[t] => MayLose(t)]_vars
  <2> SUFFICES ASSUME IInv, Next, NEW t \in Targets,
                      mem.leases[t] # NoAddr, mem'.leases[t] # mem.leases[t]
               PROVE  MayLose(t)
    OBVIOUS
  <2>1. CASE \E p \in Pools : Start(p)
    BY <2>1 DEF Start, MayLose
  <2>2. CASE Stop
    BY <2>2 DEF Stop, MayLose
  <2>3. CASE RefreshLeases
    <3>1. PICK fresh \in SUBSET Profiles, act \in SUBSET Targets, saved \in BOOLEAN,
               p \in Profiles \cup {NoProfile} : Observe(fresh, act, saved, p)
      BY <2>3 DEF RefreshLeases
    <3> DEFINE absent == {u \in Targets : ProfileOf[u] \in fresh} \ act
    <3>2. mem' = [mem EXCEPT !.leases = Retained(absent)] /\ Note(absent)
      BY <3>1 DEF Observe
    <3>3. mem \in State /\ quiet \in [Targets -> 0 .. Retention] /\ tracker \subseteq Entry
      BY DEF IInv, TypeOK
    <3>4. t \in Expired(absent)
      <4> HIDE DEF absent
      <4> QED  BY <3>2, <3>3 DEF Retained, State
    <3>5. t \in Holders(mem.leases) \cap absent
      BY <3>4 DEF Expired
    <3>6. t \in missed'
      BY <3>2, <3>5 DEF Note
    <3>7. PICK e \in Records(t, mem.leases) : ~e.present /\ e.age >= Retention
      BY <3>4 DEF Expired
    <3>8. t \in missed /\ quiet[t] >= e.age
      BY <3>7 DEF Records, IInv, DormantCounts
    <3>9. e.age \in 0 .. Retention /\ quiet[t] \in 0 .. Retention
      BY <3>3, <3>7 DEF Records, Entry
    <3>10. quiet[t] = Retention
      BY <3>7, <3>8, <3>9, ConstantsAssumption
    <3> QED  BY <3>6, <3>8, <3>10 DEF MayLose
  <2>4. CASE ConfigureDNS
    BY <2>4 DEF ConfigureDNS, IInv, PlanExtends, Holders
  <2>5. CASE Purge
    <3>1. mem \in State
      BY DEF IInv, TypeOK
    <3>2. pc = "purge" /\ ProfileOf[t] = removing
      BY <2>5, <3>1 DEF Purge, State
    <3> QED  BY <3>2 DEF MayLose
  <2>6. CASE \/ \E saved \in BOOLEAN : PreferencesFail(saved)
             \/ EnsureHostIPs \/ Publish \/ ConfigureHost \/ Save \/ Tick
             \/ \E u \in Targets : Assign(u)
             \/ \E a \in Addr : ObserveOutbound(a)
    BY <2>6 DEF PreferencesFail, EnsureHostIPs, Publish, ConfigureHost, Save, Tick, Assign, ObserveOutbound
  <2> QED  BY <2>1, <2>2, <2>3, <2>4, <2>5, <2>6 DEF Next
<1> QED  BY <1>1, Invariance, PTL DEF Spec, ReclaimedOnlyWhenQuiet

------------------------------------------------------------------------------
(* The host addresses *)

\* Each host address of a plan is the one s.st has.
LEMMA SameHostIPs ==
    ASSUME IInv, mem.nat # NoAddr, NEW n \in HostNAT(mem), NEW d \in HostDNS(mem, n)
    PROVE  SameHost([mem EXCEPT !.nat = n, !.dns = d], mem)
<1>1. mem \in State /\ HostValid(mem)
  BY DEF IInv, TypeOK, HostAddressesValid
<1>2. n = mem.nat /\ d = mem.dns
  BY <1>1, HostIPsKept
<1> QED  BY <1>1, <1>2 DEF SameHost, State

\* While the daemon runs no step gives memory, state.json or the plan other host addresses.
LEMMA NextHostFixed == IInv /\ HostFixed /\ [Next]_vars => HostFixed'
<1> SUFFICES ASSUME IInv, HostFixed, [Next]_vars PROVE HostFixed'
  OBVIOUS
<1>1. CASE \E p \in Pools : Start(p)
  <2>1. PICK p \in Pools : Start(p)
    BY <1>1
  <2> DEFINE st == WithPool(disk, p)
  <2>2. disk \in State /\ Exclusive(disk)
    BY DEF IInv, TypeOK, LeasesExclusive
  <2>3. st \in State
    <3>1. NoLeases \in [Targets -> Addr \cup {NoAddr}]
      BY EmptyFacts
    <3> QED  BY <2>2, <3>1 DEF WithPool, State
  <2>4. PICK n \in HostNAT(st) : \E d \in HostDNS(st, n) : mem' = [st EXCEPT !.nat = n, !.dns = d]
    BY <2>1 DEF Start
  <2>5. PICK d \in HostDNS(st, n) : mem' = [st EXCEPT !.nat = n, !.dns = d]
    BY <2>4
  <2>6. n \in Addrs(st.pool)
    BY DEF HostNAT, ValidReserved, FirstFree, First
  <2>7. mem'.nat # NoAddr
    <3>1. n # NoAddr
      <4> HIDE DEF st
      <4> QED  BY <2>3, <2>6, AddrFacts DEF State
    <3> HIDE DEF st
    <3> QED  BY <2>3, <2>5, <3>1 DEF State
  <2>8. disk' = mem' /\ plan' = mem'
    BY <2>1 DEF Start
  <2> QED  BY <2>7, <2>8 DEF HostFixed, SameHost
<1>2. CASE Stop
  BY <1>2 DEF Stop, HostFixed
<1>3. ASSUME proc # "down",
             \E s \in {mem, disk, plan} : SameHost(mem', s),
             \E s \in {mem, disk, plan, mem'} : SameHost(disk', s),
             \E s \in {mem, plan, mem'} : SameHost(plan', s)
      PROVE  HostFixed'
  BY <1>3 DEF HostFixed, SameHost
<1>4. mem \in State
  BY DEF IInv, TypeOK
<1>5. ASSUME mem' = mem, disk' \in {mem, disk}, plan' \in {mem, plan}, proc' # "down" => proc # "down"
      PROVE  HostFixed'
  BY <1>5 DEF HostFixed, SameHost
<1>6. CASE RefreshLeases
  <2>1. PICK fresh \in SUBSET Profiles, act \in SUBSET Targets, saved \in BOOLEAN,
             p \in Profiles \cup {NoProfile} : Observe(fresh, act, saved, p)
    BY <1>6 DEF RefreshLeases
  <2>2. proc # "down"
    BY <2>1 DEF Observe, Begins
  <2>3. mem' = mem \/ \E l : mem' = [mem EXCEPT !.leases = l]
    BY <2>1 DEF Observe
  <2>4. SameHost(mem', mem)
    BY <1>4, <2>3 DEF SameHost, State
  <2>5. disk' \in {mem', mem, disk} /\ plan' \in {mem', mem}
    BY <2>1 DEF Observe, Stored, Abort
  <2> QED  BY <1>3, <2>2, <2>4, <2>5 DEF SameHost
<1>7. CASE EnsureHostIPs
  <2>1. proc # "down" /\ mem' = mem /\ disk' = disk
    BY <1>7 DEF EnsureHostIPs, IInv, MapperMatches
  <2>2. CASE plan' = mem
    BY <1>5, <2>1, <2>2
  <2>3. CASE plan' # mem
    <3>1. \E n \in HostNAT(mem) : \E d \in HostDNS(mem, n) : plan' = [mem EXCEPT !.nat = n, !.dns = d]
      BY <1>7, <2>3 DEF EnsureHostIPs, Abort
    <3>2. SameHost(plan', mem)
      BY <2>1, <3>1, SameHostIPs DEF HostFixed
    <3> QED  BY <2>1, <3>2 DEF HostFixed, SameHost
  <2> QED  BY <2>2, <2>3
<1>8. CASE \E t \in Targets : Assign(t)
  <2>1. PICK t \in Targets : Assign(t)
    BY <1>8
  <2>2. proc # "down" /\ mem' = mem /\ disk' = disk
    BY <2>1 DEF Assign, IInv, MapperMatches
  <2>3. plan' \in {mem, plan} \/ \E a \in First(Allocatable(plan, t)) : plan' = [plan EXCEPT !.leases[t] = a]
    BY <2>1 DEF Assign, Abort
  <2>4. plan \in State
    BY DEF IInv, TypeOK
  <2>5. plan' = mem \/ SameHost(plan', plan)
    BY <2>3, <2>4 DEF SameHost, State
  <2> QED  BY <2>2, <2>5 DEF HostFixed, SameHost
<1>9. CASE Publish \/ ConfigureHost \/ Save
  <2>1. proc # "down"
    BY <1>9 DEF Publish, ConfigureHost, Save, IInv, MapperMatches
  <2>2. mem' = mem /\ disk' \in {mem, disk} /\ plan' \in {mem, plan}
    BY <1>9 DEF Publish, ConfigureHost, Save, Abort
  <2> QED  BY <1>5, <2>1, <2>2
<1>10. CASE ConfigureDNS
  <2>1. proc # "down" /\ mem' \in {mem, plan} /\ disk' = disk /\ plan' \in {mem, plan}
    BY <1>10 DEF ConfigureDNS, Abort, IInv, MapperMatches
  <2> QED  BY <2>1 DEF HostFixed, SameHost
<1>11. CASE Purge
  <2>1. proc # "down" /\ disk' \in {mem', disk} /\ plan' = mem'
    BY <1>11 DEF Purge, IInv, MapperMatches
  <2>2. mem' = mem \/ \E l : mem' = [mem EXCEPT !.leases = l]
    BY <1>11 DEF Purge
  <2>3. SameHost(mem', mem)
    BY <1>4, <2>2 DEF SameHost, State
  <2> QED  BY <2>1, <2>3 DEF HostFixed, SameHost
<1>12. CASE \/ \E saved \in BOOLEAN : PreferencesFail(saved)
            \/ \E a \in Addr : ObserveOutbound(a)
            \/ Tick \/ UNCHANGED vars
  <2>1. mem' = mem /\ disk' \in {mem, disk} /\ plan' \in {mem, plan}
    BY <1>12 DEF PreferencesFail, Abort, Stored, ObserveOutbound, Tick, vars
  <2>2. proc' # "down" => proc # "down"
    BY <1>12 DEF PreferencesFail, Begins, ObserveOutbound, Tick, vars
  <2> QED  BY <1>5, <2>1, <2>2
<1> QED  BY <1>1, <1>2, <1>6, <1>7, <1>8, <1>9, <1>10, <1>11, <1>12 DEF Next

\* The NAT and DNS addresses survive every reconciliation, failure and restart
\* that does not change the pool.
THEOREM HostAddressesAreStable == Spec => HostAddressesStable
<1>1. Init => HostFixed
  BY DEF Init, HostFixed
<1>2. Spec => []HostFixed
  BY <1>1, NextHostFixed, Invariance, PTL DEF Spec
<1>3. IInv /\ HostFixed /\ [Next]_vars /\ HostFixed' =>
        [mem.nat # NoAddr /\ mem'.pool = mem.pool => mem'.nat = mem.nat /\ mem'.dns = mem.dns]_vars
  <2> SUFFICES ASSUME IInv, HostFixed, Next, HostFixed', mem.nat # NoAddr, mem'.pool = mem.pool
               PROVE  mem'.nat = mem.nat /\ mem'.dns = mem.dns
    OBVIOUS
  <2>1. mem \in State /\ plan \in State
    BY DEF IInv, TypeOK
  <2>2. CASE \E p \in Pools : Start(p)
    <3>1. PICK p \in Pools : Start(p)
      BY <2>2
    <3>2. mem = disk
      BY <3>1 DEF Start, IInv, MapperMatches
    <3> DEFINE st == WithPool(disk, p)
    <3>3. PICK n \in HostNAT(st) : \E d \in HostDNS(st, n) : mem' = [st EXCEPT !.nat = n, !.dns = d]
      BY <3>1 DEF Start
    <3>4. PICK d \in HostDNS(st, n) : mem' = [st EXCEPT !.nat = n, !.dns = d]
      BY <3>3
    <3>5. CASE p = disk.pool
      <4>1. st = mem
        BY <3>2, <3>5 DEF WithPool
      <4>2. SameHost([mem EXCEPT !.nat = n, !.dns = d], mem)
        BY <4>1, SameHostIPs
      <4> QED  BY <3>4, <4>1, <4>2 DEF SameHost
    <3>6. CASE p # disk.pool
      <4>1. st = [leases |-> NoLeases, nat |-> NoAddr, dns |-> NoAddr, pool |-> p]
        BY <3>6 DEF WithPool
      <4>2. mem'.pool = p
        BY <3>4, <4>1
      <4> QED  BY <3>2, <3>6, <4>2
    <3> QED  BY <3>5, <3>6
  <2>3. CASE Stop
    <3>1. proc # "down" /\ mem' = disk
      BY <2>3 DEF Stop
    <3> QED  BY <3>1 DEF HostFixed, SameHost
  <2>4. CASE ConfigureDNS
    <3>1. proc # "down" /\ mem' \in {mem, plan}
      BY <2>4 DEF ConfigureDNS, IInv, MapperMatches
    <3> QED  BY <3>1 DEF HostFixed, SameHost
  <2>5. CASE Purge \/ RefreshLeases
    <3>1. mem' = mem \/ \E l : mem' = [mem EXCEPT !.leases = l]
      BY <2>5 DEF Purge, RefreshLeases, Observe
    <3> QED  BY <2>1, <3>1 DEF State
  <2>6. CASE \/ \E saved \in BOOLEAN : PreferencesFail(saved)
             \/ EnsureHostIPs \/ Publish \/ ConfigureHost \/ Save \/ Tick
             \/ \E u \in Targets : Assign(u)
             \/ \E a \in Addr : ObserveOutbound(a)
    BY <2>6 DEF PreferencesFail, EnsureHostIPs, Publish, ConfigureHost, Save, Tick, Assign, ObserveOutbound
  <2> QED  BY <2>2, <2>3, <2>4, <2>5, <2>6 DEF Next
<1> QED  BY <1>2, <1>3, Invariance, PTL DEF Spec, HostAddressesStable

=============================================================================
