# tailmix in TLA+

tailmix joins one machine to several Tailscale tailnets and raw WireGuard
networks at the same time. A single daemon, `tailmixd`, runs one network engine
per *profile*, merges what the engines know into one plan (effective addresses,
routes, DNS), and publishes that plan to one host TUN device, one DNS service and
one packet multiplexer. These modules model the daemon: the parts where several
goroutines, a fallible operating system and a durable state file meet. Source
paths below are relative to `src/`.

## 1. Inventory

### 1.1 Components

| component | source | state it keeps | operations |
|---|---|---|---|
| supervisor | `cmd/tailmixd/supervisor.go`, `policyapi.go` | desired profiles and policy (`s.st`), runtimes, last reconcile error, update queue | add, enable, disable, restart, patch, remove, purge, up, down, policy changes, `reconcileLocked` |
| effective leases | `effectiveip/`, `cmd/tailmixd/leases.go`, `main.go` | lease per (profile, node, address), host NAT and DNS address, pool, activity records | `Assign`, `Retain`, `SetLeases`, `ObserveOutbound`, `ensureHostIPs`, `configureSyntheticPools` |
| raw WireGuard engine | `profile/wireguardengine.go`, `cmd/tailmixd/wireguardapi.go`, `wireguardsecrets.go` | configuration, device peers, filter policy, shields, pending and degraded marks, secret files | staged apply, shields-up, exit node, start, close, purge |
| multiplexer | `tunmux/` | profiles and their channel TUNs, queues, workers, packet buffers | `Run`, `AddProfile`, `RemoveProfile`, `SetMapper`, `ChanTUN.Read/Write/Close` |
| self-update | `update/update.go`, `cmd/tailmixd/update.go` | `versions/`, the link `current`, policy and activity in `state.json` | the update loop, check, apply, enable, disable, restart, roll back |
| packet mapper, route and DNS policy | `packetmap/`, `routingpolicy/`, `policyapi.go`, `tunConfigWithPolicy` and `tunDNSLiveConfig` in `main.go` | bindings, accept-all flags, search domains, exit node in `state.json`; packet table, host routes and resolver configuration of the plan | bind, unbind, replace, clear, accept; `BuildIP`, `BuildDNS`, `Mapper.Outbound`, `Inbound` |
| WireGuard manifests and filter | `wireguardcfg/`, `wireguardfilter/` | grants compiled from a manifest, flow state, AllowedIPs of the device | normalise, compile, write the difference, match packets |
| host TUN | `hosttun/` | addresses, routes, policy rules or scoped defaults installed on the host; what `Close` must remove | `Configure`, `Close` |
| DNS service | `dns/` | OS resolver configuration, packet stack and its loops; per route a loopback forwarder with its queries, connections and slots | start, configure, query, forward, retire, close |
| SOCKS proxy | `socksproxy/` | routes of the SOCKS mode | resolve, dial |
| Tailscale engine | `profile/tsnetengine.go`, `tsnet/` | forked upstream | start, status, watch |
| state store | `state/` | `state.json` | load, atomic save |
| control API and CLI | `controlapi/`, `cmd/tailmix/`, `profilesocket/` | none | one HTTP request per supervisor operation |

`PROJECT.json` lists every part with its status, the ones that stay outside too.

### 1.2 How they interact

Every API operation takes `supervisor.mu`, changes `s.st`, saves it, starts or stops
runtimes and then calls `reconcileLocked`, which reads every engine's status,
refreshes and assigns leases, builds the plan, publishes it to the multiplexer
(`SetMapper`), then to the host (`Configure`), then to DNS, and finally saves the
state. Each of these can fail, and nothing that was published before is taken back.
Outside the mutex run: a watcher goroutine per profile that queues update
notifications; the host reader of the multiplexer and one worker per profile; the
engines that read and write their channel TUNs; the packet path that refreshes the
activity of leases; the update loop, which has a mutex of its own. The process
may end between any two durable effects.

### 1.3 What is hard

* a reconciliation that fails halfway leaves mapper, host, DNS and `state.json` with
  different plans (leases, supervisor);
* leases are reclaimed by age while DNS answers and packet tables still name them;
* the multiplexer uses a channel TUN after it released the lock under which it
  found it, and channels are closed under their senders;
* a staged WireGuard apply must stay restrictive over failing UAPI writes, failing
  reconciliations and crashes, and its secrets live in a file of their own;
* a bounded queue of notifications that drops entries;
* the host is configured by a sequence of kernel requests or commands, each of which may
  fail or lie, while others change the same tables, and policy rules and scoped
  defaults outlive the process;
* a forwarder is retired while queries, connections and calls that cannot be cancelled
  are under way; the packet stack is destroyed under its own loops;
* a WireGuard device is taken from one manifest to the next peer by peer while packets
  pass, and grants name peers that the device knows by AllowedIPs only;
* one routing policy is computed three times, as packet table, as host routes and as
  SOCKS routes, from bindings, imports, pools, leases and exit node that change
  independently; names are resolved from records, routes and forwarders that are built
  apart;
* an update that is interrupted between staging, rename, link switch and exec.

The list with source lines is `hazards` in `PROJECT.json`; each entry names the
properties that would catch it going wrong.

## 2. Modules

`MC*` modules give constants for TLC, `*Proofs` modules hold TLAPS proofs. Where one run
checks machines that share no state (the supervisor and the update loop, say), the
`MC` module adds a variable `part` that says which of them a behaviour is about: their
product would show nothing more.

### EffectiveLeases

One address family: the leases of all targets, in memory (`mem`), on disk (`disk`)
and in the plan being built (`plan`), the activity tracker, the published packet
table (`mapper`) and what MagicDNS answers. `reconcileLocked` is cut at each point
where something can fail or become visible: `PreferencesFail`, `RefreshLeases`
(observation and `Retain`), `EnsureHostIPs`, one `Assign` per target in allocation
order, `Publish`, `ConfigureHost`, `ConfigureDNS`, `Save`, and `Purge` for
`RemoveProfile --purge`. `Start` models a daemon start, possibly with another
pool; `Stop` ends the process at any point. `ObserveOutbound` and `Tick` run
between any two of these, as the packet path does. Ages are capped at the retention
period; nothing beyond it is told apart. `missed` and `quiet` are history
variables that record what the tracker should know.

### WireGuardApply

One raw WireGuard profile. A configuration is its set of peers, a filter policy is
the configuration and exit node it was compiled from and whether its grants are in
force. `ApplyWireGuard`, `SaveDesired`, `CleanSecrets`, `InstallTransition`,
`SetConfig` (the UAPI write, which may take effect in part), `Commit` are the steps
of an apply; `SetExitNodePreferences` and `Reconcile` are the two halves of the
reconciliation inside every operation; `SetWireGuardShieldsUp`, `SaveShields`,
`CommitShields` order the shields; `PurgeState` and `ForgetProfile` end a purge;
`AddProfile` restores a removed profile. The device itself is the matter of
`WireGuardFilter`. `Crash` is possible between any two steps. The history variable
`purged` records that a purge has removed the directory of the secrets; a manifest that
is applied writes new ones and clears it.

### Supervisor

All profiles, but each engine is only the version of the status it reports, and a plan
maps the profiles it routes to versions. An operation is a sequence of steps (`todo`)
that it runs under `s.mu` (`Run` or a request, through `BeginOp`, lays them down);
`Advance` runs the next one and `ReconcileFails` ends a reconciliation at any step.
Watchers (`Notify`, `WatchFails`, `ReportError`) and the run loop (`HandleUpdate`)
interleave with them. The desired state is saved before an operation acts on it, so one
copy stands for memory and disk. The history variable `slipped` holds the profiles whose
own start failed, or whose operation failed before their start or stop was reached: the
code leaves those as they are until their next operation.

### TunMux

Goroutines are program counters: the host reader (`ReadHost`, `LookupProfile`,
`BeginInject`, `Inject`), the worker of every TUN (`TakeInbound`, `WriteInbound`,
`WorkerReturns`), the local DNS service (`TakeLocal`, `WriteLocal`), the engine
(`Read`, `BeginWrite`, `WritePacket`, `EndWrite`) and `stopProfileLocked`
(`RemoveProfile`, `Join`, `CloseTun`, `CloseChannels`, `DrainPacket`, `Drained`). A
packet is its buffer; a channel is the set of buffers in it, since no property
depends on their order.

### PacketMap and IPRoutes

`PacketMap` has the lookups of the packet mapper as operators over a table; a prefix
is the set of its addresses, so longest match is the smallest set. `IPRoutes` keeps
what clients decide (`bindings`, `accept`, `exitNode`), what engines report
(`report`, `exitOn`), the pool and the leases, and derives the plan: `Exact` and
`Imported` are `BuildIP`, `Table`, `HostRoutes` and `PlanBuilds` are
`tunConfigWithPolicy`, `SocksTable` and `SocksResolve` are the SOCKS router. The
requests of `policyapi.go` are actions that end with `Reconcile`, which may fail at
the preferences, at the plan or after it; `HandleUpdate` is a changed status,
`Start` a restart that may change the pool. `installed` says whether the plan of
the present state is in force; what an older plan does after a failure is the
matter of `Supervisor` and `EffectiveLeases`. `PolicyAllows` states the documented
policy from bindings and statuses alone and is the reference the table is
compared with.

### HostTun, HostConfig, LinuxTun, DarwinTun and HostSystems

`HostTun` is the abstract specification of the `Host` interface: calls are served one at
a time, `Configure` answers "ok" only while the host carries what was asked for and
nothing else, and a closed host stays closed. `HostConfig` is `hosttun.go`: the
configuration, its normalisation, and the fields both systems keep. `LinuxTun` and
`DarwinTun` are the two implementations. `HostSystems` puts either behind the interface
(`os` says which one a behaviour is about), states with `ImplementsHost` that it refines
`HostTun`, and names the properties of both.

A call reads the host once and then runs its loops in the order of the source, one
netlink request or one command per step. On Linux: rules out, addresses in, main table
out and in, exit table 527 out and in, rules in, addresses out, verify. On macOS: routes
out, scoped defaults out, addresses out and in, scoped defaults in, routes in, verify. A
request takes effect, fails, or reports success without an effect (the "false success"
of the repository's tests); `Meddle` is somebody else's change, `Roam` a new physical
gateway, `Crash` takes the interface away and leaves the policy rules (Linux) or the
scoped defaults (macOS) behind. `Close` reads the host again, or falls back on what the
last `Configure` remembered.

Left out: TUN addresses with a prefix length other than the host's, duplicates of one
rule, a lookup that fails for one family only. Only the route to `100.100.100.100` is
optional, as in `main.go:1096`, so an exit route never is (`HostConfigAssumption`).

### DNSPolicy

The DNS half of the policy. A domain is the sequence of its labels from the root. State:
what clients decide (`policy`), what engines report (`report`), the configuration the
resolver works with (`installed`), the forwarders that run (`live`), those the supervisor
keeps (`dnsForwarders`), those a reconciliation has started so far (`nextForwarders`) and
those it has still to end (`leaving`). `BuildDNS` and its three tiers are `routingpolicy`;
`tunDNSLiveConfig` and `configForService` keep their names; `SocksResolve` is
`socksproxy/router.go`. The requests of `policyapi.go` are actions that hold the lock until
the reconciliation they end with is over (`Unlocked`). That is `configureDNSLocked` step by
step: `StartForwarder` for one route after the other, `Configure`, and `EndForwarder` for
one old forwarder after the other; `StartFails` and `ConfigureFails` are its error returns,
which end what was started, and the manager may fail half-way (`half`). Names are answered
at every moment of this. `Claims`, `Winners` and `Chosen` state the documented rule
(longest suffix, then rank) without tiers and are the reference. Assumed of the resolver
outside this repository: its hosts first, then the longest suffix, whether that one has
resolvers or not (`Answer`).

### Forwarder

One loopback forwarder: the two listening steps with their retries, the UDP and TCP loops,
a goroutine per query and connection, the resolvers asked one after the other, the
legacy queryer whose calls cannot be cancelled and hold a slot until they return,
`Retire`, `Close`, the parent context, and `Finish` once `wg` is at zero. `WriteDeadline`
is the moment, 100 ms after the last request of a retired forwarder has timed out, from
which its UDP socket writes nothing. Every section under `mu` is one step.

### DNSService

`StartService` step by step, the undoing of a failed start resource by resource (`Undo`
has the four sequences of the source, `UndoStep` closes the next one), `ConfigureFull` with
the operating system's configuration and the search-domain file of macOS, the packet stack
with its reader per endpoint, acceptor, sessions and pump, and `Close` in the order of the
source. The multiplexer's reader outlives the service: `HandlePacket` checks the context
and `InjectInbound` hands the packet to the stack, with any step of `Close` in between.
Assumed: the OS configurator's `Close` gives the system's configuration back, and
`manager.Down` closes the configurator.

### WireGuardFilter

From manifests to packets. `Acceptable` and `Normalize` are `wireguardcfg` (`m.sound` stands
for the syntax of single values), `Compile`, `Matched` and the flow state
`wireguardfilter`, and `Written`, `Cleared` and `WritePeer` the difference that
`wireguardengine.go` writes. An apply or exit-node change is staged (`Apply`,
`SetExitNodeIP`) and written peer by peer (`WriteStep`), or fails (`WriteFails`). An apply is
then taken over by the engine (`Applied`), and its final policy waits (`pending`) for the
reconciliation, which may change the exit node (`ExitNodeSet` ends that) or fail
(`ReconcileFails`), before `Commit` installs it. `StartEngine` starts open, or restricted as
an apply does, whose policy waits in the same way for `CommitStartPolicy`. `SetShieldsUp`,
`DeviceRead` and `CloseEngine` complete it. Keys and pre-shared keys are fields of a peer.
Two history variables mark what the code does not repair: `mixed`, that a failed write was
followed by something other than the reapply or restart that repairs it; `crossed`, that
`CommitStartPolicy` brought back the flow state of before a change of exit node.

### SelfUpdate

The loop (`CheckEnabled`, `Woken`, `TimerFires`), the operations under `updateMu`
(`ApplyUpdate`, `CheckForUpdate`, `SetUpdatesEnabled`), the installer (`Check`,
`Apply`, `Stage`, `Publish`, `Switch`), the report that schedules a restart or rolls
back (`Report`), the restart (`Restart`) and crashes. A release is its version
number. `failed` records which kinds of failure the running process has met,
because three promises of the code hold only without one of them.

## 3. Runs

| run | instance | properties |
|---|---|---|
| `leases` | 3 targets of 2 profiles, 2 pools of 4 addresses, retention 1 | `LeasesExclusive`, `AddressesReachTheirTarget`, `ReclaimedOnlyWhenQuiet`, `HostAddressesStable` |
| `wireguard` | 2 peers, 3 configurations, 3 secret files, an exit peer, both shields requests, every fault | `SavedStateHolds`, `ApplyStaysRestricted`, `OpenMatchesEngine`, `AppliedConverges` |
| `wireguard_boot` | an exit peer, no fault | `BootCompletes`, violated |
| `mux_stops` | 2 profiles, 2 TUNs, 2 buffers, queues of 1, batches of 2 | `StopsAreIsolated`, violated |
| `daemon` | supervisor: 2 profiles, every request and fault, queue of 1. Update: 3 versions, 4 requests, 3 faults | `SafeToRestart`, `RestartIsScheduled`, `SettledPlan`, `RuntimesMatchDesired`, `NeverDowngrades`, `OptOutIsHonoured`, `WithdrawnBeforeStop` |
| `supervisor_replies` | enable, disable, restart with failing reconciliations | `RepliesAreTrue`, violated |
| `supervisor_watch` | fair, failing watchers, 1 status change, queue of 2 | `ChangesArePublished`, violated |
| `live` | multiplexer: 1 profile started twice, 2 TUNs, 2 buffers, queues of 1, batches of 2. Supervisor: 2 profiles, crashes, requests that keep profiles running, 2 status changes. Update: 2 versions, 3 requests, 2 faults | `PacketsOwned`, `TunClosesLast`, `QueuesGiveWay`, `ChangesArePublished`, `UpdatesArrive` |
| `policy` | routes: 2 profiles, 7 addresses, 3 nested or disjoint routes, 2 pools, 1 exit node. Filter: 7 manifests, 10 addresses of 2 families | `PacketsFollowPolicy`, `BothWaysAgree`, `OnePlan`, `RoutesConverge`, `GrantsFollowSender`, `FlowsFollowIdentity`, `NoFailover` |
| `wireguard_families` | the filter of `policy` | `DeviceConverges`, violated |
| `hosttun` | 5 configurations, 1 fault, 1 change by others, 2 gateways, on Linux and on macOS | `TrafficKeepsItsPath`, `CleanSucceeds`, `NothingLeft`, `ImplementsHost` |
| `dns` | policy: 2 profiles, 5 domains, 5 names, 4 requests, 2 edits, 1 fault. Forwarder: 2 queries, 1 connection, 2 resolvers, 1 slot. Service: 1 endpoint, 2 datagrams, queues of 1 | `NamesFollowPolicy`, `ForwardersServe`, `DoneMeansAnswered`, `CallsBounded`, `QuietWhenDestroyed`, `BindingsAreKept`, `ShutdownsEnd` |

Properties that say one thing of several machines, or several sides of one promise, are
conjunctions: `AddressesReachTheirTarget` (leases honoured, answers safe),
`SavedStateHolds` (secrets and shields durable), `TunClosesLast` (no send on a closed
channel, workers stop first), `SafeToRestart` (always startable, roll-back restores), `BothWaysAgree` (answers return,
sources pinned), `OnePlan` (host routes and SOCKS agree with the packet table),
`QueuesGiveWay` (stops end, the reader moves on), `ShutdownsEnd` (a retired forwarder
ends, `Close` of the service returns).

**Why the bounds are enough.** A pool of four has the base, the NAT and DNS address
of the host and leaves two addresses for three targets, so exhaustion, expiry and
reassignment of one address all occur; the preferred DNS offset lies inside the
pool. Three WireGuard configurations over two peers give every kind of difference
(added, removed, both); three secret files are the current one, its replacement
and one a crash left behind. A queue of one slot makes the supervisor drop
notifications and a channel of one buffer makes every sender of the multiplexer block.
Among the routes one lies inside another and both profiles advertise the outer one,
so override, partial override, ambiguity and failover all occur; the third is in
Tailscale's range; the second pool contains an address of the outer route, so a
restart can invalidate a binding; both targets have one canonical address, which is
also inside the routes. Two TUNs let a profile be stopped and started again while the
old TUN drains; profiles share only the reader and the pool of buffers, and the proofs
have any number of them. Three versions and three faults allow a failed install on top of a
release that never ran, and a withdrawn release. The manifests move a route between
peers, rotate a key, nest a peer's address in another's route, add a family and are
refused. The host configurations renumber the TUN, turn the exit node on and off and
include two that are refused; one fault and one change by others already put every
intermediate state before every later call. The domains nest, both profiles advertise
one of them, one is the root, a name is known to both and another lies below a node's
name; two edits give a binding
and its replacement. Two queries for one slot make the second wait for a call that was
given up. For the modules with proofs, section 5 removes these bounds for the safety
properties listed there.

**Deadlock.** It is checked where the system never stops (`leases`, `policy`). In the
others something may stop for good: the multiplexer returns from `Run`, requests, edits
and releases are used up, a host or a forwarder is closed.

**Fairness.** Supervisor: the operation that holds the mutex goes on, the service
manager boots the daemon, watchers deliver, and the run loop, which competes for `s.mu`
with clients, gets it again and again (strong fairness: Go's mutex hands itself to a
waiter that starves). Multiplexer: goroutines run; engines keep reading a TUN that is
open; strong fairness for the three selects that may be ready for several reasons, since
Go picks among ready cases at random. Update: timers expire, the loop, the holder of
`updateMu` and the service manager go on. Forwarder: goroutines run, a read ends when
its deadline passes, a request ends at the latest with its timeout. DNS service: loops
whose socket is closed end, sessions end, the pump goes on after the cancellation, and
`Close` takes its next step when it can. No client, resolver, legacy call, status change,
release or failure is fair, and the multiplexer need not read what the DNS service sends.

## 4. Where code and documentation differ

Five runs show a divergence (`findings` in `PROJECT.json`):

* `wireguard_boot`: a manifest that drops the selected exit peer leaves the
  selection in `state.json`; `SetExitNodeIP` rejects it in every reconciliation and
  `supervisor.Run` gives up at boot.
* `supervisor_replies`: enable and disable succeed as soon as the saved flag equals the
  request, also when the request that saved it failed before it changed the runtime.
* `mux_stops`: a packet in the host reader's hand when its profile is stopped ends the
  multiplexer, and with it the daemon.
* `wireguard_families`: a reapply that gives the profile an address of a second family
  does not write the selected exit peer again, and the device lacks that family's
  default route until the profile restarts.
* `supervisor_watch`: a watcher returns with its first error, `Run` only records it, and
  nothing starts another; the profile's later changes are published only when something
  else reconciles. In `live` watchers do not fail.

Others were met while the properties were found. They shaped the preconditions of
the checked properties:

* `effectiveip.go:109` may lease the base of the pool; `docs/architecture.md:164` says
  it stays unassigned. `LeasesExclusive` therefore says nothing of the base.
* `wireguardengine.go:428`: lowering shields after a failed apply installs grants while
  the profile is degraded, against the comment at 215-216. `ApplyStaysRestricted` excepts
  exactly this: the history field `relaxed` records that a change of shields or exit node
  replaced the filter of a degraded engine.
* `wireguardengine.go:511`: selecting an exit node inside the reconciliation of an apply
  installs the final policy before the commit, against
  `docs/architecture.md:343-345`; the same exception covers it.
* `wireguardengine.go:265`: after a UAPI write that took effect in part, applying the
  previous manifest writes nothing to the device, against `docs/wireguard.md:56`.
  `AppliedConverges` therefore speaks of engine and filter, not of the device.
* `wireguardengine.go:168`: `CommitStartPolicy` installs the policy that `Start` compiled
  without an exit node, and its flow state, also when the reconciliation in between has
  selected one: the device then takes packets from the exit peer for which a grant with
  the source `*` does nothing, against `docs/wireguard.md:101`, and flows of before the
  selection are remembered again. `OpenMatchesEngine` compares configurations only;
  `GrantsFollowSender` and `FlowsFollowIdentity` except exactly this
  (`StartedWithoutExit`, `crossed`), and TLC violates either without its exception.
* `supervisor.go:1216` and `1223`: a purge removes the directory with the secrets before it
  saves; when that save fails or the daemon ends in between, the profile is still there,
  removed, and `AddProfile` (981-1002) restores it, enabled, without looking for its
  secrets. `SecretsDurable` excepts a profile whose purge was cut off (`purged`).
* `supervisor.go:420`: a notification dropped for an entry of a profile that stops
  before it is read is lost, against `docs/profile-management.md:966`.
  The supervisor of `live` has no request that stops a profile for good.
* `main.go:1011` and `policyapi.go:120`: a saved binding that overlaps a new pool builds no
  plan, so the daemon ends at boot, and `unbind` would reject the prefix as reserved;
  `docs/architecture.md:197-198` says such routes fail closed. `PacketsFollowPolicy`
  speaks of plans that are in force.
* `main.go:1016` and `1029`: an active route of a profile without a self address of the
  family fails the plan of all profiles, and a client may save such a binding.
* `packetmap.go:97`: the answer from a preserved destination that is also the canonical
  address of a target of that profile gets the target's effective source, against
  `docs/profile-management.md:923`. `BothWaysAgree` leaves this address out.
* `packetmap.go:109`: with an exit node, `Inbound` admits a source that equals a held
  effective address, which `Outbound` would send elsewhere, against
  `docs/profile-management.md:925-926`. `BothWaysAgree` leaves these out.
* `supervisor.go:516-537`: the SOCKS router has no barriers for retained leases and sends
  their addresses to the exit node, against `docs/profile-management.md:958-959`.
  `OnePlan` leaves these out.
* `update.go:180-186`: after a failed save the daemon says "restarting" without a
  scheduled restart, and answers every update request with it until it ends.
  `RestartIsScheduled` and `UpdatesArrive` exclude failed saves.
* `dns/service.go:74`: bindings that give parts of one MagicDNS suffix to two profiles are
  accepted and saved, and then every configuration of the resolver is refused; so is a
  split route whose domain is itself a name with a record. `docs/profile-management.md:331-333`
  allows nested bindings to different profiles. `NamesFollowPolicy` speaks of the latest
  configuration that was installed.
* `dns/service.go:132-137`: a waiting binding of the root leaves no default resolver, and
  names go to the machine's own, against `docs/profile-management.md:369-370`
  ("fails closed at that suffix"), 881 and `docs/design.md:187`. The reference of
  `NamesFollowPolicy` says "nobody", as the documents do, and the property excepts these
  names (`RootWaits`): of them it only says that no profile answers.
* `dns/packet_service.go:246-252`: a packet whose check came before the cancellation may be
  injected during or after `Close`, which does not wait for it. It meets no listener;
  that the stack takes it in peace, also when destroyed, is assumed.
* `dns/forwarder.go:154`: a retired forwarder's UDP replies are written until 100 ms after
  the last of its requests has timed out; one that is delayed by more is lost.
  `DoneMeansAnswered` allows a query to be lost after that moment only.
* `dns/service.go:121`: a name that no served suffix covers gets a route of its own, without
  resolvers, and a route takes along all that is below it; the comment at 95-96 says
  "only that exact name". A name below such a node's is answered by nobody, also where the
  policy sends the domain around it to a forwarder. The proof of `NamesFollowPolicy` met
  this case, and the property names it (`BelowNode`).
* `socksproxy/router.go:253`: SOCKS mode looks for a name tier by tier, against
  `docs/profile-management.md:366` (longest suffix across every route first). The two are
  compared where no later tier has a longer suffix.
* A manager that fails half-way through a new configuration leaves the resolver with
  names of forwarders that were closed again (`half`); the next reconciliation repairs it.
* `hosttun_linux.go`: a route of another metric, or the kernel's own, at a wanted
  destination stays beside the wanted one, and `Configure` fails its verification as long
  as it is there; so does an unwanted route to an address of the TUN beside the kernel's
  own, since the request that should delete it may take the other. `CleanSucceeds` excepts
  both.
* `hosttun_linux.go`: a destination that changes between an exit route (table 527) and an
  ordinary one is removed from the one table before it is added to the other, and has no
  route in between. `NoGap` speaks of destinations that are asked for in the same role.
* `hosttun_darwin.go`: a destination may be asked for as an exit route in one configuration
  and as an ordinary route, which needs no scoped default, in another (a user may bind
  half of the address space). `ExitKeepsUnderlay` speaks of those that are only asked for
  as exit routes (`ExitDestinations`).
* `wireguardengine.go`: a change of shields or of the exit node after a failed apply puts
  the grants of the configuration before it in force on a device that was written in
  part (`mixed` in `WireGuardFilter`).

## 5. Proofs

Checked by TLAPS for every value of the constants that satisfies the named
assumptions (`ConstantsAssumption`, `WireGuardAssumption` and `NoneAssumption`,
`TunMuxAssumption`, `UpdateAssumption`, `RoutesAssumption`, `FilterAssumption`,
`SupervisorAssumption`, `HostConfigAssumption`, `DNSPolicyAssumption`,
`ForwarderAssumption`, `DNSServiceAssumption`): any number of targets, pools, profiles, prefixes, TUNs, buffers,
peers, manifests, versions, configurations, queries, slots and faults.

* **EffectiveLeasesProofs.** `IInv` adds to the properties: a plan only extends the
  leases of memory (`PlanExtends`); what is published while a plan is applied is that
  plan (`MapperMatches`); host addresses stay valid (`HostAddressesValid`); a dormant
  record never counts more time than really passed (`DormantCounts`); nothing that is
  answered is on its way to being reclaimed (`PublishedPresent`). The last two are
  needed because whether an answer is safe depends on the tracker several steps
  earlier. `HostFixed` is a second invariant for `HostAddressesStable`.
  Theorems: `Invariance`, `TypeCorrect`, `LeasesAreExclusive`, `LeasesAreHonoured`,
  `AnswersAreSafe`, their conjunction `AddressesAreSafe`, `ReclaimsAreJustified`,
  `HostAddressesAreStable`.
* **WireGuardApplyProofs.** `TypeInv` adds to the types which variables are set at which
  step (`Control`); `SecretInv` says which file each step may still need; `ShieldInv`
  what every staged policy does to grants; `ApplyInv` relates filter, engine and staged
  configuration at every step of an apply, an exit-node change and a shields change, and
  says when a degraded engine's filter is closed. Theorems: `TypeCorrect`,
  `SecretsAreDurable`, `ShieldsAreDurable`, `SavedStateIsHonoured` (both),
  `GrantsMatchEngine`, `AppliesStayRestricted`, `AppliesConverge`.
* **TunMuxProofs.** `IInv` says who may hold what while a TUN goes through closing,
  draining and closed, and counts senders. Theorems: `Invariance`, `TypeCorrect`,
  `NeverSendsOnClosed`, `WorkersStop`, `TunsCloseLast` (both), `PacketsAreOwned`.
* **SelfUpdateProofs.** `IInv` says which release each step of an install has made
  complete, that `current` is at least as new as the running version, and what
  `old` is when a restart may be scheduled. Theorems: `Invariance`, `TypeCorrect`,
  `Startable`, `RollsBack`, `RestartsAreSafe` (both), `RestartsAreScheduled`, `VersionsGrow`
  and, with an invariant of its own (`Heard`: a loop that waits has been told of an
  opt-out, or will be), `OptOutsAreHonoured`.
* **PolicyProofs, routes.** The inductive part is small: types, and a plan in force is one that
  the present state builds (`IInv`). What the plan does with an address follows state by
  state. `TableSelects` and `SocksSelects` reduce both lookups to one definition
  (`Selected`); `BoundTier`, `ImportedTier` and `ExitTier` say which profile each tier
  gives the address to; `RetainedDropped` and `BoundAddress` use that a plan with a
  binding inside the pool does not build. `RoutesAssumption` says of prefixes only that
  those around one address have a smallest one. Theorems: `TypeCorrect`,
  `PolicyImplemented`, `AnswersReturn`, `NoProfileSpeaksForAnother` and their conjunction
  `ConversationsHold`, `HostRoutesMatchTable`, `BothModesAgree` and theirs
  `RenderingsAgree`, `BindingsNeverFailOver`.
* **PolicyProofs, filter.** `FilterInv` relates the device to what is left to write. A key is
  `Right` when the device holds for it exactly the blocks that the configuration declares,
  default routes aside. During an apply or exit-node change every key that is neither to be
  written nor to be removed is right for the new configuration (`Underway`); between them
  every key is (`Clean`); after a failed apply, every key that the same apply would leave
  alone is (`Repairable`), which is why a retry that writes the difference to a configuration
  the device never reached still ends right. Two further parts are about an apply
  or restricted start that waits for its reconciliation: the engine has the saved
  configuration (`Waiting`), everything is written, and the filter is its transition or the
  policy of a change of exit node in between (`Committable`). One lemma per action; a written peer disturbs
  no other because accepted manifests give a block to one peer. `GrantsAreFollowed` then
  compares, in one state, the longest-prefix lookup of the device (`OwnersBlock`) with the
  ownership that `buildOwnership` computes by subtracting blocks (`SenderOwns`), selector by
  selector. `FilterAssumption` says that families are disjoint, that the prefixes around an
  address have a smallest one, and that manifests are made of known addresses and
  prefixes. Theorems: `FilterInvariance`, `RoutesAreReached`, `GrantsAreFollowed`,
  `FlowsStay`.
* **SupervisorProofs.** An invariant that says what the remaining steps of an operation
  (`todo`) still owe. `Sound` has the shapes `todo` can have; `PlanInv` says that what a
  reconciliation has published so far agrees with what it observed, and that without one
  to come, and without a recorded error, the latest plan is published everywhere;
  `RunInv` that a profile runs if it is wanted, has slipped, or its start or stop is
  among the remaining steps (`Owes`); `StopInv` that a stop is only reached when every
  published plan is without the profile. Theorems: `SupInvariance`, `TypeCorrect`,
  `PlansSettle`, `RuntimesFollow`, `StopsAreWithdrawn`.
* **DNSProofs.** For the forwarder `FwdInv` (which goroutines and sockets can exist at
  each stage, and that a query is lost only when the end was forced or the write deadline
  has passed) and `CallInv`,
  which counts: calls that hold a slot, with those that were given up, are at most the
  slots. For the service `SvcInv`, the order of the stages of a start and of `Close` and
  what each has undone, and `UndoInv`: what a failed start still holds is what its
  remaining undo steps give back. For the policy, what every request does to the bindings,
  and `ForwardersInv`: which forwarders run at each step of a reconciliation, the kept ones
  (`Kept`), the started ones, each for its route (`Underway`), and those still to be ended
  (`Ended`), so that none is lost and none left over.
  For names the inductive part is small again: what is installed and what runs come from
  one reconciliation, unless it is marked as half done (`NameInv`). The rest is about one
  plan. `TierSlots` says what a tier holds for a domain; `ResolveIsRoute` that the longest
  match over three tiers, lower ones only when longer, is the longest of the entries that
  become routes, so that records and routes follow the same entry; `ChosenIsEntry` that
  this entry is active, and for whom, exactly as `Claims` and `Chosen` say without tiers.
  `RecordFacts` and `AnswerFollows` carry this to the hosts, routes and ports of the
  resolver, `SocksChoice` to the router of the SOCKS mode. Besides types,
  `DNSPolicyAssumption` says that domains and names are sequences of labels, that names have
  at least two and that profiles are finitely many.
  Theorems: `RetireLosesNothing`, `SlotsBoundCalls`, `StackIsQuiet`,
  `RequestsKeepBindings`, `ForwardersFollowPlan`, `NamesAreAnswered`.
* **HostTunProofs.** `LinuxInv` and `DarwinInv` say which rules and scoped defaults can be
  installed and that they are remembered while they are; this gives `ClosesCleanly`. The
  refinement `HostRefines` maps every request to a stutter and rests on the verifying
  read: nothing happens between it and the answer, so an "ok" means that the host
  carries what was asked for. For `PathIsKept` a second pair of invariants follows a
  `Configure` through its loops: on Linux which kept routes are `Held` and what each
  loop has left to do (`LinuxProgress`, `LinuxLeft`); on macOS that there is one route to
  a destination and that exit routes rest on the scoped defaults of the gateway they
  were installed over (`DarwinProgress`, `RoutesLeft`, `ScopedLeft`).
  `CleanConfiguresSucceed` is about the whole of an undisturbed call. Its invariant
  (`LinuxSettles`, `DarwinSettles`) says that everything not as asked for is left to a
  loop that has yet to set it right, so that nothing is left at the verification. On
  Linux a removal names a destination and the kernel picks which of its routes goes, not
  always the one that was read: what is kept is the number of routes to an unwanted
  destination, equal to the number of entries left to remove (`SameNumber`). This
  counting needs that the tables are finite and that the kernel puts no routes of its
  own into the exit table (`Plain`). That removing an address takes no wanted route
  along rests on what `normalizeConfig` accepts (`AskedSound`: a route's source is one of
  the addresses). On macOS a command fails on what is absent or already there, so the
  argument is that no command of the call meets such a state (`CommandPossible`): what a
  loop removes is there, and when routes are added every installed one is wanted and no
  two share a destination.
  Theorems: `HostRefines`, `PathIsKept`, `ClosesCleanly`, `CleanConfiguresSucceed`.

**Only model-checked**: all liveness (`ChangesArePublished`, `QueuesGiveWay`,
`UpdatesArrive`, `ShutdownsEnd`), since the prover does not handle fairness and
`ENABLED`. Every other invariant and
action property that a passing run checks is the statement of a theorem.

## 6. Not modelled

Packet contents, keys, endpoints, DNS messages, JSON and HTTP, rendering, and the
forked upstream packages (`tsnet`, `netns`): data that no property tells apart, or
code without state of its own. The Tailscale engine is what `Supervisor` sees of it, a
status that changes. The control API, the command line, the exit-node view and the
status listings turn requests and snapshots into text. Renames, login and logout change
nothing another component depends on. IPv6 repeats the steps of IPv4 in the lease and
route modules and appears there as a failure; the WireGuard filter has both families,
and so do the scoped defaults of the macOS host. Reading the installed state of the host
is one step. A top-level
domain of one letter, which has the length of the root in the code's comparison, and a
request that names one domain twice are left out of `DNSPolicy`; so is the listing
`DestinationResolutions` of the manifests. Time is ages, deadlines and timers that pass at
any moment. `PROJECT.json` gives the reason for every component.

## 7. What could come next

Every invariant and action property of the passing runs is proved, so what is left is
more of the system, or more abstract statements about it: a lease service (an address
belongs to at most one target between its first and its last use) that `EffectiveLeases`
implements under a refinement mapping, an atomic apply that `WireGuardApply` implements,
and the profile engines on `tsnet`, of which `Supervisor` sees the status only.
