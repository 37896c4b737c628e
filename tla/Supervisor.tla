----------------------------- MODULE Supervisor -----------------------------
(***************************************************************************)
(* The daemon's supervisor (cmd/tailmixd/supervisor.go): the desired life  *)
(* of every profile, the runtimes that run, the plan that is published to  *)
(* the mapper, the host and DNS, and the bounded queue through which       *)
(* profile watchers ask for a reconciliation.                              *)
(*                                                                         *)
(* An operation holds s.mu from its first step to its reply; todo is what  *)
(* it still has to do, in the order of its calls. Meanwhile engines change *)
(* their status, watchers notify without the mutex, and the process may    *)
(* crash. What an engine reports is a version number; a plan maps the      *)
(* profiles it routes to the versions it was built from. The desired state *)
(* is saved before an operation acts on it, so memory and disk agree.      *)
(***************************************************************************)
EXTENDS Naturals, Sequences

CONSTANTS
    Profiles,
    Requests,    \* the kinds of request clients make
    Faults,      \* the kinds of failure that happen
    MaxChanges,  \* bound on the status changes of one profile
    QueueCap     \* capacity of s.updates (128 in the code)

AllRequests == {"add", "enable", "disable", "restart", "patch", "remove", "up", "down", "policy"}

AllFaults == {"reconcile", "start", "watch", "crash"}

ASSUME SupervisorAssumption ==
    /\ Requests \subseteq AllRequests
    /\ Faults \subseteq AllFaults
    /\ MaxChanges \in Nat
    /\ QueueCap \in Nat \ {0}

VARIABLES
    proc,      \* "off", "boot", "up", "exit"
    life,      \* s.st.Profiles: what the operator wants of every profile
    down,      \* s.st.Down
    runtimes,  \* s.runtimes: the profiles that have a runtime
    ver,       \* the status version of every engine
    obs,       \* the plan of the reconciliation that is under way
    mapper, host, dns,  \* the plan each of them has
    err,       \* s.reconcileErr # ""
    todo,      \* the remaining steps of the operation that holds s.mu
    op,        \* that operation, or Nothing
    reply,     \* the last operation that returned, and whether it succeeded
    queue,     \* s.updates
    watching,  \* profiles that have a live watcher
    bus,       \* profiles whose watcher has a notification to deliver
    failing,   \* profiles whose watcher has an error to deliver
    slipped    \* history: profiles whose last start failed, or whose operation failed
               \* before their start or stop

desired == <<life, down>>
plans == <<obs, mapper, host, dns>>
updates == <<queue, watching, bus, failing>>
supVars == <<proc, desired, runtimes, ver, plans, err, todo, op, reply, updates, slipped>>

Plan == UNION {[S -> 0..MaxChanges] : S \in SUBSET Profiles}

NoPlan == [p \in {} |-> 0]

Nothing == [name |-> "none", who |-> {}]

Operation == [name : AllRequests \cup {"none", "boot", "update"}, who : SUBSET Profiles]

Step == [do : {"start", "stop", "forget", "observe", "mapper", "host", "dns", "save"}, who : SUBSET Profiles]

SupTypeOK ==
    /\ proc \in {"off", "boot", "up", "exit"}
    /\ life \in [Profiles -> {"absent", "enabled", "disabled", "removed"}]
    /\ down \in BOOLEAN
    /\ runtimes \subseteq Profiles
    /\ ver \in [Profiles -> 0..MaxChanges]
    /\ obs \in Plan /\ mapper \in Plan /\ host \in Plan /\ dns \in Plan
    /\ err \in BOOLEAN
    /\ todo \in Seq(Step)
    /\ op \in Operation
    /\ reply \in [op : Operation, ok : BOOLEAN]
    /\ queue \in Seq([profile : Profiles, err : BOOLEAN]) /\ Len(queue) <= QueueCap
    /\ watching \subseteq Profiles
    /\ bus \subseteq Profiles
    /\ failing \subseteq Profiles
    /\ slipped \subseteq Profiles

------------------------------------------------------------------------------
(* Steps *)

Enabled == {p \in Profiles : life[p] = "enabled"}

Do(step, S) == <<[do |-> step, who |-> S]>>

\* reconcileLocked
Reconcile ==
    LET steps == <<"observe", "mapper", "host", "dns", "save">>
    IN [i \in 1..5 |-> [do |-> steps[i], who |-> {}]]

\* The next step of the operation is s.
Doing(s) == todo # <<>> /\ Head(todo).do = s

SupInit ==
    /\ proc = "off"
    /\ life \in [Profiles -> {"absent", "enabled"}]
    /\ down = FALSE
    /\ runtimes = {}
    /\ ver = [p \in Profiles |-> 0]
    /\ obs = NoPlan /\ mapper = NoPlan /\ host = NoPlan /\ dns = NoPlan
    /\ err = FALSE
    /\ todo = <<>>
    /\ op = Nothing
    /\ reply = [op |-> Nothing, ok |-> TRUE]
    /\ queue = <<>>
    /\ watching = {}
    /\ bus = {}
    /\ failing = {}
    /\ slipped = {}

\* startProfileLocked, for every profile of the step that has no runtime. A
\* failure is recorded for the profile and the operation goes on.
StartProfiles ==
    /\ Doing("start")
    /\ \E S \in SUBSET (Head(todo).who \ runtimes) :
          /\ "start" \notin Faults => S = Head(todo).who \ runtimes
          /\ runtimes' = runtimes \cup S
          /\ watching' = watching \cup S
          /\ slipped' = (slipped \ Head(todo).who) \cup (Head(todo).who \ (runtimes \cup S))
    /\ todo' = Tail(todo)
    /\ UNCHANGED <<proc, desired, ver, plans, err, op, reply, queue, bus, failing>>

\* stopProfileLocked: the watcher is cancelled, a notification it is about to
\* deliver may still come.
StopProfiles ==
    /\ Doing("stop")
    /\ runtimes' = runtimes \ Head(todo).who
    /\ watching' = watching \ Head(todo).who
    /\ \E late \in SUBSET (bus \cap Head(todo).who) : bus' = (bus \ Head(todo).who) \cup late
    /\ slipped' = slipped \ Head(todo).who
    /\ todo' = Tail(todo)
    /\ UNCHANGED <<proc, desired, ver, plans, err, op, reply, queue, failing>>

\* The end of a purge.
ForgetProfile ==
    /\ Doing("forget")
    /\ life' = [p \in Profiles |-> IF p \in Head(todo).who THEN "absent" ELSE life[p]]
    /\ todo' = Tail(todo)
    /\ UNCHANGED <<proc, down, runtimes, ver, plans, err, op, reply, updates, slipped>>

\* statusesLocked and the plan built from it.
Observe ==
    /\ Doing("observe")
    /\ obs' = [p \in IF down THEN {} ELSE Enabled \cap runtimes |-> ver[p]]
    /\ todo' = Tail(todo)
    /\ UNCHANGED <<proc, desired, runtimes, ver, mapper, host, dns, err, op, reply, updates, slipped>>

\* mux.SetMapper, before the host changes.
SetMapper ==
    /\ Doing("mapper")
    /\ mapper' = obs
    /\ todo' = Tail(todo)
    /\ UNCHANGED <<proc, desired, runtimes, ver, obs, host, dns, err, op, reply, updates, slipped>>

\* host.Configure
ConfigureHost ==
    /\ Doing("host")
    /\ host' = obs
    /\ todo' = Tail(todo)
    /\ UNCHANGED <<proc, desired, runtimes, ver, obs, mapper, dns, err, op, reply, updates, slipped>>

\* configureDNSLocked
ConfigureDNS ==
    /\ Doing("dns")
    /\ dns' = obs
    /\ todo' = Tail(todo)
    /\ UNCHANGED <<proc, desired, runtimes, ver, obs, mapper, host, err, op, reply, updates, slipped>>

\* store.Save of the reconciled state.
Save ==
    /\ Doing("save")
    /\ err' = FALSE
    /\ obs' = NoPlan
    /\ todo' = Tail(todo)
    /\ UNCHANGED <<proc, desired, runtimes, ver, mapper, host, dns, op, reply, updates, slipped>>

\* The profiles that the operation has still to start or to stop.
Owed == UNION {todo[i].who : i \in {j \in DOMAIN todo : todo[j].do \in {"start", "stop"}}}

\* A step of reconcileLocked fails and the operation returns at once, what is
\* left to do undone. At boot Run gives up, unless the pools are exhausted.
ReconcileFails ==
    /\ "reconcile" \in Faults
    /\ \E s \in {"observe", "mapper", "host", "dns", "save"} :
          /\ Doing(s)
          /\ proc' = IF op.name = "boot" THEN (IF s = "mapper" THEN "up" ELSE "exit") ELSE proc
    /\ err' = TRUE
    /\ slipped' = slipped \cup Owed
    /\ obs' = NoPlan
    /\ todo' = <<>>
    /\ op' = Nothing
    /\ reply' = [op |-> op, ok |-> FALSE]
    /\ UNCHANGED <<desired, runtimes, ver, mapper, host, dns, updates>>

\* The operation returns and releases s.mu.
Finish ==
    /\ todo = <<>>
    /\ op # Nothing
    /\ proc' = IF op.name = "boot" THEN "up" ELSE proc
    /\ op' = Nothing
    /\ reply' = [op |-> op, ok |-> TRUE]
    /\ UNCHANGED <<desired, runtimes, ver, plans, err, todo, updates, slipped>>

------------------------------------------------------------------------------
(* Requests *)

BeginOp(name, S, steps) ==
    /\ op' = [name |-> name, who |-> S]
    /\ todo' = steps
    /\ reply' = [op |-> Nothing, ok |-> TRUE]
    /\ slipped' = IF name \in {"up", "down"} THEN {} ELSE slipped
    /\ UNCHANGED <<runtimes, ver, plans, err>>

Request(name, S, steps) ==
    /\ proc = "up"
    /\ op = Nothing
    /\ name \in Requests
    /\ BeginOp(name, S, steps)
    /\ UNCHANGED <<proc, updates>>

\* A new or a removed profile.
AddProfile(p, disabled) ==
    /\ ~down
    /\ life[p] \in {"absent", "removed"}
    /\ life' = [life EXCEPT ![p] = IF disabled THEN "disabled" ELSE "enabled"]
    /\ Request("add", {p}, IF disabled THEN Reconcile ELSE Do("start", {p}) \o Reconcile)
    /\ UNCHANGED down

\* Nothing is done when the profile already has the life that is asked for.
SetProfileEnabled(p, enabled) ==
    /\ ~down
    /\ life[p] \in {"enabled", "disabled"}
    /\ life' = [life EXCEPT ![p] = IF enabled THEN "enabled" ELSE "disabled"]
    /\ IF enabled
       THEN Request("enable", {p}, IF life[p] = "enabled" THEN <<>> ELSE Do("start", {p}) \o Reconcile)
       ELSE Request("disable", {p},
                    IF life[p] = "disabled" THEN <<>> ELSE Reconcile \o Do("stop", {p}) \o Reconcile)
    /\ UNCHANGED down

\* Mutant: a restart that leaves the new runtime out of the plan.
RestartProfileUnpublished(p) ==
    /\ ~down
    /\ life[p] = "enabled"
    /\ Request("restart", {p}, Do("stop", {p}) \o Reconcile \o Do("start", {p}))
    /\ UNCHANGED desired

RestartProfile(p) ==
    /\ ~down
    /\ life[p] = "enabled"
    /\ Request("restart", {p}, Do("stop", {p}) \o Reconcile \o Do("start", {p}) \o Reconcile)
    /\ UNCHANGED desired

\* A new hostname restarts an enabled profile.
PatchProfile(p, hostname) ==
    /\ ~down
    /\ life[p] # "absent"
    /\ Request("patch", {p},
               IF hostname /\ life[p] = "enabled"
               THEN Do("stop", {p}) \o Reconcile \o Do("start", {p}) \o Reconcile ELSE Reconcile)
    /\ UNCHANGED desired

\* Mutant: the runtime is stopped before the plan without it is applied.
RemoveProfileStopFirst(p, purge) ==
    /\ ~down
    /\ life[p] # "absent"
    /\ life' = [life EXCEPT ![p] = "removed"]
    /\ Request("remove", {p},
               Do("stop", {p}) \o Reconcile \o IF purge THEN Do("forget", {p}) ELSE <<>>)
    /\ UNCHANGED down

RemoveProfile(p, purge) ==
    /\ ~down
    /\ life[p] # "absent"
    /\ life' = [life EXCEPT ![p] = "removed"]
    /\ Request("remove", {p},
               Reconcile \o Do("stop", {p}) \o IF purge THEN Do("forget", {p}) ELSE <<>>)
    /\ UNCHANGED down

\* Up stops what should not run and starts the rest; down stops everything.
SetDaemonUp(up) ==
    /\ down' = ~up
    /\ IF up
       THEN Request("up", {}, Do("stop", runtimes \ Enabled) \o Do("start", Enabled) \o Reconcile)
       ELSE Request("down", {}, Do("stop", runtimes) \o Reconcile)
    /\ UNCHANGED life

\* commitPolicyLocked: route bindings, exit nodes and search domains.
CommitPolicy ==
    /\ Request("policy", {}, Reconcile)
    /\ UNCHANGED desired

------------------------------------------------------------------------------
(* The process, engines, watchers and the update queue *)

\* Mutant: disabled profiles are started too.
BootAll ==
    /\ proc = "off"
    /\ proc' = "boot"
    /\ BeginOp("boot", {}, Do("start", {p \in Profiles : life[p] \in {"enabled", "disabled"}}) \o Reconcile)
    /\ UNCHANGED <<desired, updates>>

\* Run, up to the control server.
Run ==
    /\ proc = "off"
    /\ proc' = "boot"
    /\ BeginOp("boot", {}, Do("start", IF down THEN {} ELSE Enabled) \o Reconcile)
    /\ UNCHANGED <<desired, updates>>

\* The process ends; only the desired state is left.
ProcessEnds ==
    /\ proc \in {"boot", "up", "exit"}
    /\ proc # "exit" => "crash" \in Faults
    /\ proc' = "off"
    /\ runtimes' = {}
    /\ obs' = NoPlan /\ mapper' = NoPlan /\ host' = NoPlan /\ dns' = NoPlan
    /\ err' = FALSE
    /\ todo' = <<>>
    /\ op' = Nothing
    /\ reply' = [op |-> Nothing, ok |-> TRUE]
    /\ queue' = <<>>
    /\ watching' = {}
    /\ bus' = {}
    /\ failing' = {}
    /\ slipped' = {}
    /\ UNCHANGED <<desired, ver>>

\* A netmap, a preference or the backend state of an engine changes.
Change(p) ==
    /\ p \in runtimes
    /\ ver[p] < MaxChanges
    /\ ver' = [ver EXCEPT ![p] = @ + 1]
    /\ bus' = bus \cup ({p} \cap watching)
    /\ UNCHANGED <<proc, desired, runtimes, plans, err, todo, op, reply, queue, watching, failing, slipped>>

\* Mutant: an unbuffered channel, which only a waiting Run receives from.
NotifyUnbuffered(p) ==
    /\ p \in bus
    /\ bus' = bus \ {p}
    /\ queue' = IF queue = <<>> /\ op = Nothing THEN <<[profile |-> p, err |-> FALSE]>> ELSE queue
    /\ UNCHANGED <<proc, desired, runtimes, ver, plans, err, todo, op, reply, watching, failing, slipped>>

\* The watcher's callback: a full queue drops the notification.
Notify(p) ==
    /\ p \in bus
    /\ bus' = bus \ {p}
    /\ queue' = IF Len(queue) < QueueCap THEN Append(queue, [profile |-> p, err |-> FALSE]) ELSE queue
    /\ UNCHANGED <<proc, desired, runtimes, ver, plans, err, todo, op, reply, watching, failing, slipped>>

\* WatchUpdates returns an error; the watcher waits for room in the queue.
WatchFails(p) ==
    /\ "watch" \in Faults
    /\ p \in watching
    /\ watching' = watching \ {p}
    /\ bus' = bus \ {p}
    /\ failing' = failing \cup {p}
    /\ UNCHANGED <<proc, desired, runtimes, ver, plans, err, todo, op, reply, queue, slipped>>

ReportError(p) ==
    /\ p \in failing
    /\ Len(queue) < QueueCap
    /\ failing' = failing \ {p}
    /\ queue' = Append(queue, [profile |-> p, err |-> TRUE])
    /\ UNCHANGED <<proc, desired, runtimes, ver, plans, err, todo, op, reply, watching, bus, slipped>>

\* Run: an error is recorded, an update of a profile that runs reconciles all.
HandleUpdate ==
    /\ proc = "up"
    /\ op = Nothing
    /\ queue # <<>>
    /\ queue' = Tail(queue)
    /\ IF Head(queue).err \/ Head(queue).profile \notin runtimes
       THEN UNCHANGED <<runtimes, ver, plans, err, todo, op, reply, slipped>>
       ELSE BeginOp("update", {Head(queue).profile}, Reconcile)
    /\ UNCHANGED <<proc, desired, watching, bus, failing>>

Advance ==
    \/ StartProfiles
    \/ StopProfiles
    \/ ForgetProfile
    \/ Observe
    \/ SetMapper
    \/ ConfigureHost
    \/ ConfigureDNS
    \/ Save
    \/ Finish

SupNext ==
    \/ Advance
    \/ ReconcileFails
    \/ \E p \in Profiles, b \in BOOLEAN : AddProfile(p, b)
    \/ \E p \in Profiles, b \in BOOLEAN : SetProfileEnabled(p, b)
    \/ \E p \in Profiles : RestartProfile(p)
    \/ \E p \in Profiles, b \in BOOLEAN : PatchProfile(p, b)
    \/ \E p \in Profiles, b \in BOOLEAN : RemoveProfile(p, b)
    \/ \E b \in BOOLEAN : SetDaemonUp(b)
    \/ CommitPolicy
    \/ Run
    \/ ProcessEnds
    \/ \E p \in Profiles : Change(p) \/ Notify(p) \/ WatchFails(p) \/ ReportError(p)
    \/ HandleUpdate

SupSpec == SupInit /\ [][SupNext]_supVars

\* The goroutine that holds s.mu runs on, a watcher delivers what the bus has,
\* and Run gets its turn at the mutex: Go hands a contended mutex to the
\* longest waiter.
SupFairness ==
    /\ WF_supVars(Advance)
    /\ WF_supVars(Run)
    /\ \A p \in Profiles : WF_supVars(Notify(p) \/ ReportError(p))
    /\ SF_supVars(HandleUpdate)

SupFairSpec == SupSpec /\ SupFairness

------------------------------------------------------------------------------
(* Properties *)

BetweenOps == proc = "up" /\ op = Nothing

\* Between operations, unless status reports a reconciliation error, mapper, host
\* and DNS have one plan and it routes the enabled profiles that run: every
\* operation leaves that behind, whatever failed or crashed before it.
SettledPlan ==
    BetweenOps /\ ~err =>
        /\ mapper = host /\ host = dns
        /\ DOMAIN mapper = IF down THEN {} ELSE Enabled \cap runtimes

\* docs/profile-management.md, the order of removing or disabling a profile: a plan
\* that excludes it is applied before its runtime is stopped.
WithdrawnBeforeStop ==
    [][op.name \in {"disable", "remove"} /\ ~ProcessEnds =>
          (runtimes \ runtimes') \cap (DOMAIN mapper \cup DOMAIN host \cup DOMAIN dns) = {}]_supVars

\* The desired state asks for a runtime of p.
Wanted(p) == ~down /\ life[p] = "enabled"

\* Between operations exactly the profiles that the desired state asks for run,
\* whatever failed or crashed before: the only ones that may differ are those whose
\* own start failed, or whose own operation failed before their start or stop, and
\* only until that is done again or the daemon is taken up or down.
RuntimesMatchDesired ==
    BetweenOps => \A p \in Profiles \ slipped : p \in runtimes <=> Wanted(p)

\* docs/profile-management.md: exit status 0 means the "requested state is applied,
\* including idempotent no-ops".
RepliesAreTrue ==
    reply.ok => /\ reply.op.name = "enable" => reply.op.who \subseteq runtimes
                /\ reply.op.name = "disable" => reply.op.who \cap runtimes = {}

\* The published plan is behind what the engine of p reports.
Stale(p) ==
    /\ BetweenOps
    /\ p \in runtimes \cap Enabled
    /\ ~down
    /\ p \notin DOMAIN dns \/ dns[p] # ver[p]

\* docs/profile-management.md: "Every profile lifecycle change or relevant netmap
\* update rebuilds one complete, immutable aggregate plan": dropping a
\* notification when the queue is full must not lose the change it stands for.
ChangesArePublished == \A p \in Profiles : Stale(p) ~> ~Stale(p)

=============================================================================
