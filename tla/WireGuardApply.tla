---------------------------- MODULE WireGuardApply ----------------------------
(***************************************************************************)
(* One raw WireGuard profile: the staged, forward-only apply of the engine *)
(* (profile/wireguardengine.go) and the daemon operations that drive it    *)
(* (ApplyWireGuard and SetWireGuardShieldsUp in cmd/tailmixd/              *)
(* wireguardapi.go, the lifecycle operations and the exit-node preferences *)
(* of reconcileLocked in supervisor.go), with failing saves, failing UAPI  *)
(* writes, failing reconciliations and daemon crashes between any two of   *)
(* their durable or visible effects.                                       *)
(*                                                                         *)
(* A configuration is the set of its peers, a packet filter is what it was *)
(* compiled from and whether its grants are in force; every configuration  *)
(* has grants. All daemon operations hold the supervisor's mutex, so only  *)
(* crashes and the packet path see the states between their steps.         *)
(***************************************************************************)

CONSTANTS
    Peers,           \* peers, by public key
    Configs,         \* the peer sets manifests ask for
    ExitPeers,       \* peers a manifest declares as exit nodes
    ShieldRequests,  \* what the operator asks of shields-up
    SecretFiles,     \* names of secret files (bounds how many exist at once)
    Faults,          \* the kinds of failure that happen
    None

AllFaults == {"save", "uapi", "start", "reconcile"}

ASSUME WireGuardAssumption ==
    /\ Configs \subseteq SUBSET Peers
    /\ ExitPeers \subseteq Peers
    /\ ShieldRequests \subseteq BOOLEAN
    /\ Faults \subseteq AllFaults
    /\ None \notin Peers /\ None \notin SecretFiles /\ None \notin Configs

VARIABLES
    proc,    \* "down", "boot", "up", "exit"
    pc,      \* the next step of the operation that holds the mutex
    op,      \* the operation the running reconciliation belongs to
    mem,     \* the profile in s.st
    disk,    \* the profile in state.json
    next,    \* the state an operation is about to save
    files,   \* secret files in the profile's directory
    stale,   \* the secret file ApplyWireGuard replaces
    staged,  \* WireGuardApply or WireGuardShieldsUpdate, or None
    engine,  \* the running WireGuardEngine, or None
    purged   \* history: a purge has removed the secrets of the saved profile

vars == <<proc, pc, op, mem, disk, next, files, stale, staged, engine, purged>>

Exits == ExitPeers \cup {None}

Profile == [cfg : Configs \cup {None}, secret : SecretFiles \cup {None}, shields : BOOLEAN,
            life : {"none", "enabled", "disabled", "removed"}, exit : Exits]

Policy == [cfg : Configs, exit : Exits, open : BOOLEAN]

Engine == [cfg : Configs, exit : Exits, shields : BOOLEAN, policy : Policy,
           pending : Policy \cup {None}, degraded : BOOLEAN, relaxed : BOOLEAN]

Staged == [filter : BOOLEAN, transition : Policy, final : Policy]

ASSUME NoneAssumption == None \notin Engine \cup Staged \cup Policy

TypeOK ==
    /\ proc \in {"down", "boot", "up", "exit"}
    /\ pc \in {"idle", "save", "clean", "transition", "uapi", "start", "prefs", "rest", "commit",
               "shields", "publish", "purge", "forget"}
    /\ op \in {"boot", "apply", "disable", "remove", "purge", "restart", "other"}
    /\ mem \in Profile
    /\ disk \in Profile
    /\ next \in Profile
    /\ files \subseteq SecretFiles
    /\ stale \in SecretFiles \cup {None}
    /\ staged \in Staged \cup {None}
    /\ engine \in Engine \cup {None}
    /\ purged \in BOOLEAN

Running == engine # None

------------------------------------------------------------------------------
(* Engine *)

\* wireguardfilter.Compile: shields-up, and the restrictive transition, suppress the grants.
Compile(cfg, exit, restrict) == [cfg |-> cfg, exit |-> exit, open |-> ~restrict]

\* validExitSelection
ValidExit(cfg, x) == IF x \in cfg \cap ExitPeers THEN x ELSE None

\* NewWireGuardEngine and Start: the engine starts with no exit node. A
\* restricted start keeps the transition and leaves the policy pending. relaxed
\* is history: a change of exit node or shields has replaced the filter of a
\* degraded engine.
NewEngine(p, restricted) ==
    [cfg |-> p.cfg, exit |-> None, shields |-> p.shields,
     policy |-> Compile(p.cfg, None, restricted \/ p.shields),
     pending |-> IF restricted THEN Compile(p.cfg, None, p.shields) ELSE None,
     degraded |-> restricted,
     relaxed |-> FALSE]

\* A PrepareApply that only looks at applyDegraded.
PrepareApplyDegradedOnly(c) ==
    LET newExit == ValidExit(c, engine.exit)
    IN [filter |-> engine.degraded,
        transition |-> Compile(c, newExit, TRUE),
        final |-> Compile(c, newExit, engine.shields)]

\* A PrepareApply that clones the engine's configuration for the new one.
PrepareApplyOldConfig(c) ==
    [filter |-> c # engine.cfg \/ engine.degraded,
     transition |-> Compile(engine.cfg, engine.exit, TRUE),
     final |-> Compile(engine.cfg, engine.exit, engine.shields)]

\* PrepareApply: compile both policies; the filter stays if nothing changes.
PrepareApply(c) ==
    LET newExit == ValidExit(c, engine.exit)
    IN [filter |-> c # engine.cfg \/ newExit # engine.exit \/ engine.degraded,
        transition |-> Compile(c, newExit, TRUE),
        final |-> Compile(c, newExit, engine.shields)]

------------------------------------------------------------------------------
(* Daemon process and reconciliation *)

NoProfile == [cfg |-> None, secret |-> None, shields |-> FALSE, life |-> "none", exit |-> None]

Init ==
    /\ proc = "down"
    /\ pc = "idle"
    /\ op = "other"
    /\ mem = NoProfile
    /\ disk = NoProfile
    /\ next = NoProfile
    /\ files = {}
    /\ stale = None
    /\ staged = None
    /\ engine = None
    /\ purged = FALSE

\* run: load the state, start the profile if it is enabled, then reconcile.
Boot ==
    /\ proc = "down"
    /\ proc' = "boot"
    /\ mem' = disk
    /\ op' = "boot"
    /\ pc' = IF disk.life = "enabled" THEN "start" ELSE "prefs"
    /\ UNCHANGED <<disk, next, files, stale, staged, engine, purged>>

\* The process ends, at any step.
Crash ==
    /\ proc # "down"
    /\ proc' = "down"
    /\ pc' = "idle"
    /\ op' = "other"
    /\ mem' = disk
    /\ next' = NoProfile
    /\ stale' = None
    /\ staged' = None
    /\ engine' = None
    /\ UNCHANGED <<disk, files, purged>>

\* An operation returns to its caller.
Return ==
    /\ pc' = "idle"
    /\ staged' = None
    /\ stale' = None
    /\ next' = NoProfile
    /\ op' = "other"

\* reconcileLocked fails: the operation returns its error, and at boot Run gives up.
ReconcileFails ==
    /\ proc' = IF op = "boot" THEN "exit" ELSE proc
    /\ Return

\* startProfileLocked: the engine reads its secrets and starts; a failure is
\* recorded and, except for an apply, followed by a reconciliation all the same.
StartProfile ==
    /\ pc = "start"
    /\ \/ /\ mem.secret \in files
          /\ engine' = NewEngine(mem, op = "apply")
          /\ pc' = "prefs"
          /\ op' = IF op = "restart" THEN "other" ELSE op
          /\ UNCHANGED <<staged, stale, next>>
       \/ /\ mem.secret \notin files \/ "start" \in Faults
          /\ engine' = None
          /\ IF op = "apply" THEN Return
             ELSE /\ pc' = "prefs"
                  /\ op' = IF op = "restart" THEN "other" ELSE op
                  /\ UNCHANGED <<staged, stale, next>>
    /\ UNCHANGED <<proc, mem, disk, files, purged>>

\* SetExitNodeIP: transition, UAPI, final policy. A failed UAPI write is rolled
\* back with the full configuration; if that fails too the transition stays.
SetExitNodeIP(x) ==
    \/ /\ x # None
       /\ ValidExit(engine.cfg, x) = None      \* not an eligible exit node
       /\ ReconcileFails
       /\ UNCHANGED engine
    \/ /\ x = engine.exit
       /\ pc' = "rest"
       /\ UNCHANGED <<proc, op, staged, stale, next, engine>>
    \/ /\ x # engine.exit
       /\ x = ValidExit(engine.cfg, x)
       /\ engine' = [engine EXCEPT
                        !.exit = x,
                        !.policy = Compile(engine.cfg, x, engine.shields),
                        !.relaxed = engine.degraded]
       /\ pc' = "rest"
       /\ UNCHANGED <<proc, op, staged, stale, next>>
    \/ /\ "uapi" \in Faults
       /\ x # engine.exit
       /\ x = ValidExit(engine.cfg, x)
       /\ \/ UNCHANGED engine
          \/ engine' = [engine EXCEPT !.policy = Compile(engine.cfg, x, TRUE)]
       /\ ReconcileFails

\* setExitNodePreferencesLocked, for this profile: a disabled profile has no status.
SetExitNodePreferences ==
    LET current == IF mem.life = "enabled" THEN engine.exit ELSE None
    IN /\ pc = "prefs"
       /\ \/ /\ Running => current = mem.exit
             /\ pc' = "rest"
             /\ UNCHANGED <<proc, op, staged, stale, next, engine>>
          \/ /\ Running
             /\ current # mem.exit
             /\ SetExitNodeIP(mem.exit)
          \/ /\ "reconcile" \in Faults      \* another profile's preferences fail first
             /\ ReconcileFails
             /\ UNCHANGED engine
       /\ UNCHANGED <<mem, disk, files, purged>>

\* What an operation does when reconcileLocked has succeeded.
Reconciled ==
    \/ /\ op \in {"boot", "other"}
       /\ Return
       /\ UNCHANGED engine
    \/ /\ op \in {"apply", "restart"}
       /\ pc' = IF op = "apply" THEN "commit" ELSE "start"
       /\ UNCHANGED <<op, staged, stale, next, engine>>
    \/ /\ op = "disable"
       /\ engine' = None
       /\ pc' = "prefs"
       /\ op' = "other"
       /\ UNCHANGED <<staged, stale, next>>
    \/ /\ op = "remove"
       /\ engine' = None
       /\ Return
    \/ /\ op = "purge"
       /\ engine' = None
       /\ pc' = "purge"
       /\ UNCHANGED <<op, staged, stale, next>>

\* The rest of reconcileLocked: mapper, host, DNS and the save.
Reconcile ==
    /\ pc = "rest"
    /\ \/ /\ disk' = mem
          /\ purged' = (purged /\ mem.life # "none")
          /\ proc' = IF op = "boot" THEN "up" ELSE proc
          /\ Reconciled
       \/ /\ "reconcile" \in Faults
          /\ ReconcileFails
          /\ UNCHANGED <<disk, engine, purged>>
       \/ /\ "reconcile" \in Faults
          /\ op = "boot"                     \* ErrPoolExhausted keeps the daemon up
          /\ proc' = "up"
          /\ Return
          /\ UNCHANGED <<disk, engine, purged>>
    /\ UNCHANGED <<mem, files>>

------------------------------------------------------------------------------
(* ApplyWireGuard *)

Idle == proc = "up" /\ pc = "idle"

\* Write the new secrets and stage the change of a running engine.
ApplyWireGuard(c) ==
    /\ Idle
    /\ mem.life # "none" => mem.secret \in files
    /\ \E f \in SecretFiles \ files :
          /\ files' = files \cup {f}
          /\ next' = [mem EXCEPT !.cfg = c, !.secret = f,
                                 !.life = IF @ \in {"none", "removed"} THEN "enabled" ELSE @]
    /\ stale' = mem.secret
    /\ staged' = IF Running THEN PrepareApply(c) ELSE None
    /\ op' = "apply"
    /\ pc' = "save"
    /\ UNCHANGED <<proc, mem, disk, engine, purged>>

\* An apply that removes the replaced secrets before the save.
SaveDesiredCleaned ==
    /\ pc = "save"
    /\ \/ /\ disk' = next
          /\ mem' = next
          /\ purged' = FALSE
          /\ pc' = "clean"
          /\ files' = files \ {stale}
          /\ UNCHANGED <<op, staged, stale, next>>
       \/ /\ "save" \in Faults
          /\ files' = files \ {next.secret, stale}
          /\ Return
          /\ UNCHANGED <<mem, disk, purged>>
    /\ UNCHANGED <<proc, engine>>

\* Make the desired profile durable; a failure removes the new secrets again.
SaveDesired ==
    /\ pc = "save"
    /\ \/ /\ disk' = next
          /\ mem' = next
          /\ purged' = FALSE
          /\ pc' = "clean"
          /\ UNCHANGED <<op, staged, stale, next, files>>
       \/ /\ "save" \in Faults
          /\ files' = files \ {next.secret}
          /\ Return
          /\ UNCHANGED <<mem, disk, purged>>
    /\ UNCHANGED <<proc, engine>>

\* Remove the replaced secrets.
CleanSecrets ==
    /\ pc = "clean"
    /\ files' = files \ {stale}
    /\ IF staged = None /\ mem.life # "enabled" THEN Return
       ELSE /\ pc' = IF staged # None THEN "transition" ELSE "start"
            /\ UNCHANGED <<op, staged, stale, next>>
    /\ UNCHANGED <<proc, mem, disk, engine, purged>>

\* Apply, first half: the restrictive transition.
InstallTransition ==
    /\ pc = "transition"
    /\ engine' = IF staged.filter
                 THEN [engine EXCEPT !.policy = staged.transition, !.degraded = TRUE, !.relaxed = FALSE]
                 ELSE engine
    /\ pc' = "uapi"
    /\ UNCHANGED <<proc, op, mem, disk, next, files, stale, staged, purged>>

\* An Apply that takes the filter back when UAPI fails.
SetConfigReopening ==
    LET new == staged.transition
    IN /\ pc = "uapi"
       /\ \/ /\ engine' = [engine EXCEPT !.cfg = new.cfg, !.exit = new.exit]
             /\ pc' = IF mem.life = "enabled" THEN "prefs" ELSE "commit"
             /\ UNCHANGED <<op, staged, stale, next>>
          \/ /\ "uapi" \in Faults
             /\ engine.cfg # new.cfg \/ engine.exit # new.exit
             /\ engine' = [engine EXCEPT !.policy = Compile(engine.cfg, engine.exit, engine.shields)]
             /\ Return
       /\ UNCHANGED <<proc, mem, disk, files, purged>>

\* Apply, second half: UAPI, and the engine remembers the new configuration. A
\* configuration that does not differ writes nothing that can fail.
SetConfig ==
    LET new == staged.transition
    IN /\ pc = "uapi"
       /\ \/ /\ engine' = [engine EXCEPT !.cfg = new.cfg, !.exit = new.exit]
             /\ pc' = IF mem.life = "enabled" THEN "prefs" ELSE "commit"
             /\ UNCHANGED <<op, staged, stale, next>>
          \/ /\ "uapi" \in Faults
             /\ engine.cfg # new.cfg \/ engine.exit # new.exit
             /\ Return
             /\ UNCHANGED engine
       /\ UNCHANGED <<proc, mem, disk, files, purged>>

\* Commit, or CommitStartPolicy of the engine the apply has started. A filter
\* that changed since the transition is left alone.
Commit ==
    /\ pc = "commit"
    /\ engine' = CASE staged # None /\ staged.filter /\ engine.policy = staged.transition ->
                        [engine EXCEPT !.policy = staged.final, !.pending = None, !.degraded = FALSE, !.relaxed = FALSE]
                   [] staged = None /\ engine.pending # None ->
                        [engine EXCEPT !.policy = engine.pending, !.pending = None, !.degraded = FALSE, !.relaxed = FALSE]
                   [] OTHER -> engine
    /\ Return
    /\ UNCHANGED <<proc, mem, disk, files, purged>>

------------------------------------------------------------------------------
(* SetWireGuardShieldsUp *)

\* PrepareShieldsUp and ApplyBeforeSave: enabling is published before the save.
SetWireGuardShieldsUp(b) ==
    LET live == Running /\ engine.shields # b
        target == Compile(engine.cfg, engine.exit, b)
    IN /\ Idle
       /\ mem.life \in {"enabled", "disabled"}
       /\ mem.shields # b
       /\ next' = [mem EXCEPT !.shields = b]
       /\ staged' = IF live THEN [filter |-> b, transition |-> engine.policy, final |-> target] ELSE None
       /\ engine' = IF live /\ b THEN [engine EXCEPT !.policy = target] ELSE engine
       /\ pc' = "shields"
       /\ UNCHANGED <<proc, op, mem, disk, files, stale, purged>>

\* Save, or Rollback.
SaveShields ==
    /\ pc = "shields"
    /\ \/ /\ disk' = next
          /\ mem' = next
          /\ pc' = "publish"
          /\ UNCHANGED <<op, staged, stale, next, engine>>
       \/ /\ "save" \in Faults
          /\ engine' = IF staged # None /\ staged.filter
                       THEN [engine EXCEPT !.policy = staged.transition] ELSE engine
          /\ Return
          /\ UNCHANGED <<mem, disk>>
    /\ UNCHANGED <<proc, files, purged>>

\* WireGuardShieldsUpdate.Commit: disabling is published after the save.
CommitShields ==
    /\ pc = "publish"
    /\ engine' = IF staged # None
                 THEN [engine EXCEPT !.policy = staged.final, !.shields = mem.shields, !.relaxed = engine.degraded]
                 ELSE engine
    /\ Return
    /\ UNCHANGED <<proc, mem, disk, files, purged>>

------------------------------------------------------------------------------
(* Other operations on the profile; a failed first save changes nothing *)

\* A new desired profile is saved and the next step begins.
Begin(p, step, o) ==
    /\ Idle
    /\ mem' = p
    /\ disk' = p
    /\ pc' = step
    /\ op' = o
    /\ UNCHANGED <<proc, next, files, stale, staged, purged>>

\* SetExitNode, ClearExitNode, or another profile taking the selection over.
SetExitNode(x) ==
    /\ x # None => Running /\ mem.life = "enabled" /\ x \in engine.cfg
    /\ Begin([mem EXCEPT !.exit = x], "prefs", "other")
    /\ UNCHANGED engine

\* AddProfile of a removed profile restores it; nothing looks at its secrets.
AddProfile(disabled) ==
    /\ mem.life = "removed"
    /\ Begin([mem EXCEPT !.life = IF disabled THEN "disabled" ELSE "enabled"],
             IF disabled \/ Running THEN "prefs" ELSE "start", "other")
    /\ UNCHANGED engine

SetProfileEnabled(enabled) ==
    /\ mem.life = IF enabled THEN "disabled" ELSE "enabled"
    /\ Begin([mem EXCEPT !.life = IF enabled THEN "enabled" ELSE "disabled"],
             IF enabled /\ ~Running THEN "start" ELSE "prefs",
             IF enabled THEN "other" ELSE "disable")
    /\ UNCHANGED engine

RestartProfile ==
    /\ mem.life = "enabled"
    /\ Begin(mem, "prefs", "restart")
    /\ engine' = None

RemoveProfile(purge) ==
    /\ mem.life # "none"
    /\ Begin([mem EXCEPT !.life = "removed", !.shields = FALSE, !.exit = None], "prefs",
             IF purge THEN "purge" ELSE "remove")
    /\ UNCHANGED engine

\* os.RemoveAll of the state directory.
PurgeState ==
    /\ pc = "purge"
    /\ files' = {}
    /\ purged' = TRUE
    /\ pc' = "forget"
    /\ UNCHANGED <<proc, op, mem, disk, next, stale, staged, engine>>

\* The profile leaves s.st whether or not the last save succeeds.
ForgetProfile ==
    /\ pc = "forget"
    /\ mem' = NoProfile
    /\ \/ disk' = NoProfile /\ purged' = FALSE
       \/ "save" \in Faults /\ UNCHANGED <<disk, purged>>
    /\ Return
    /\ UNCHANGED <<proc, files, engine>>

\* Run handles a watcher update.
Update ==
    /\ Idle
    /\ pc' = "prefs"
    /\ op' = "other"
    /\ UNCHANGED <<proc, mem, disk, next, files, stale, staged, engine, purged>>

Next ==
    \/ Boot
    \/ Crash
    \/ StartProfile
    \/ SetExitNodePreferences
    \/ Reconcile
    \/ \E c \in Configs : ApplyWireGuard(c)
    \/ SaveDesired
    \/ CleanSecrets
    \/ InstallTransition
    \/ SetConfig
    \/ Commit
    \/ \E b \in ShieldRequests : SetWireGuardShieldsUp(b)
    \/ SaveShields
    \/ CommitShields
    \/ \E x \in Exits : SetExitNode(x)
    \/ \E b \in BOOLEAN : AddProfile(b)
    \/ \E b \in BOOLEAN : SetProfileEnabled(b)
    \/ RestartProfile
    \/ \E b \in BOOLEAN : RemoveProfile(b)
    \/ PurgeState
    \/ ForgetProfile
    \/ Update

Spec == Init /\ [][Next]_vars

------------------------------------------------------------------------------
(* Properties *)

\* The secrets of a configured profile that state.json refers to are there,
\* whenever the daemon crashes during an apply and whichever save fails; only a
\* purge that removed them and was interrupted before its save, followed by the
\* restoring AddProfile, leaves a configured profile without.
SecretsDurable ==
    disk.life \in {"enabled", "disabled"} /\ ~purged => disk.secret \in files

\* While state.json says shields-up, no grant is in force: enabling is published
\* before it is saved, disabling after (docs/wireguard.md).
ShieldsDurable == Running /\ disk.shields => ~engine.policy.open

\* What state.json says holds on disk and in the engine at every moment: its secrets
\* are there, unless a purge took them, and its shields are up (ApplyWireGuard,
\* AddProfile, RemoveProfile, SetWireGuardShieldsUp).
SavedStateHolds == SecretsDurable /\ ShieldsDurable

\* wireguardengine.go: "Failures after the transition remain fail-closed until a
\* later apply or restart", unless a change of exit node or shields replaces the filter.
FailClosed == Running /\ engine.degraded /\ ~engine.relaxed => ~engine.policy.open

\* docs/architecture.md: "New and existing runtimes keep the restrictive
\* transition installed through UAPI and aggregate reconciliation".
RestrictedUntilReconciled ==
    Running /\ ~engine.relaxed /\ op = "apply" /\ pc \in {"uapi", "prefs", "rest"} =>
        \/ ~engine.policy.open
        \/ staged # None /\ ~staged.filter      \* nothing changes

\* An apply is restricted from its transition until it has committed, through failing
\* UAPI writes and reconciliations, and one that failed stays restricted until a later
\* apply or restart; only a change of exit node or shields lifts this (PrepareApply,
\* Apply, Commit).
ApplyStaysRestricted == RestrictedUntilReconciled /\ FailClosed

\* Grants are in force only for the configuration the engine holds: the
\* transition covers every window in which the filter and the engine differ, and a
\* failed write is never followed by grants of the manifest that failed.
OpenMatchesEngine == Running /\ engine.policy.open => engine.policy.cfg = engine.cfg

\* docs/wireguard.md: "Reapplying the file reconciles peers, ... and packet policy":
\* an apply that succeeds leaves engine and filter with the manifest in state.json,
\* also after an apply that failed part of the way.
AppliedConverges ==
    [][pc = "commit" /\ engine' # None /\ ~engine'.degraded
          => engine'.cfg = disk.cfg /\ engine'.policy.cfg = disk.cfg]_vars

\* docs/architecture.md: "Healthy profiles and the daemon control API remain
\* available": without failures around it the daemon boots whatever was applied.
BootCompletes == proc # "exit"

=============================================================================
