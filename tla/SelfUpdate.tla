------------------------------ MODULE SelfUpdate ------------------------------
(***************************************************************************)
(* Self-update of a direct installation: the update loop and the update    *)
(* operations of the daemon (cmd/tailmixd/update.go), the installer that   *)
(* stages a release and moves the link `current` (update/update.go), and   *)
(* the restart into the new binary, with failing saves, downloads, file    *)
(* operations and execs, and crashes between any two of their effects.     *)
(*                                                                         *)
(* A release is its version number, in the order of semver.Compare. The    *)
(* mutex updateMu serialises the update operations; s.mu is free between   *)
(* their steps, so other operations save the state in between. After a     *)
(* crash the service manager starts current/tailmixd again.                *)
(***************************************************************************)
EXTENDS Naturals

CONSTANTS
    MaxVersion,   \* the newest release there ever is
    MaxRequests,  \* bounds the operator's requests and the changes of the latest release
    MaxFaults     \* bounds failures and crashes

ASSUME UpdateAssumption ==
    /\ MaxVersion \in Nat \ {0}
    /\ MaxRequests \in Nat
    /\ MaxFaults \in Nat

Versions == 1 .. MaxVersion

FaultKinds == {"save", "net", "file", "sync"}

Activities == {"idle", "checking", "available", "applying", "error", "restarting"}

VARIABLES
    latest,    \* the release GitHub calls latest
    up,        \* is the daemon running?
    exe,       \* the version it runs
    mem,       \* Updates in s.st
    disk,      \* Updates in state.json
    current,   \* the version the link `current` names
    versions,  \* complete directories under versions/
    stage,     \* is there a staging directory?
    loop,      \* where runUpdateLoop is
    wake,      \* the buffered channel updateWake
    mu,        \* who holds updateMu
    pc,        \* the next step of the operation that holds it
    target,    \* the release it installs, or 0
    old,       \* the link's target before the switch, or 0
    outcome,   \* the activity it will report
    restart,   \* the rollback target of a scheduled restart, or 0
    failed,    \* history: what has failed in this process
    faults, requests

files == <<current, versions, stage>>
bounds == <<faults, requests>>
vars == <<latest, up, exe, mem, disk, files, loop, wake, mu, pc, target, old, outcome, restart,
          failed, bounds>>

Updates == [disabled : BOOLEAN, state : Activities]

Flags == up \in BOOLEAN /\ stage \in BOOLEAN /\ wake \in BOOLEAN

TypeOK ==
    /\ Flags
    /\ latest \in Versions
    /\ exe \in Versions
    /\ mem \in Updates
    /\ disk \in Updates
    /\ current \in Versions
    /\ versions \subseteq Versions
    /\ loop \in {"check", "sleep", "timer", "want", "apply", "ended"}
    /\ mu \in {"free", "loop", "api"}
    /\ pc \in {"idle", "query", "latest", "stage", "publish", "switch", "report"}
    /\ target \in Versions \cup {0}
    /\ old \in Versions \cup {0}
    /\ outcome \in Activities
    /\ restart \in Versions \cup {0}
    /\ failed \subseteq FaultKinds
    /\ faults \in 0 .. MaxFaults
    /\ requests \in 0 .. MaxRequests

Init ==
    /\ latest = 1
    /\ up = FALSE
    /\ exe = 1
    /\ mem = [disabled |-> FALSE, state |-> "idle"]
    /\ disk = mem
    /\ current = 1
    /\ versions = {1}
    /\ stage = FALSE
    /\ loop = "check"
    /\ wake = FALSE
    /\ mu = "free"
    /\ pc = "idle"
    /\ target = 0
    /\ old = 0
    /\ outcome = "idle"
    /\ restart = 0
    /\ failed = {}
    /\ faults = 0
    /\ requests = 0

\* Something fails, as far as the bound allows.
Fails ==
    /\ faults < MaxFaults
    /\ faults' = faults + 1

\* A failure of kind k in a process that goes on.
Fault(k) == Fails /\ failed' = failed \cup {k}

NoFault == UNCHANGED <<faults, failed>>

Asked ==
    /\ requests < MaxRequests
    /\ requests' = requests + 1

\* GitHub: a release is published, or withdrawn.
Release(v) ==
    /\ v # latest
    /\ Asked
    /\ latest' = v
    /\ UNCHANGED <<up, exe, mem, disk, files, loop, wake, mu, pc, target, old, outcome, restart,
                   failed, faults>>

------------------------------------------------------------------------------
(* Processes *)

\* run: an activity that the end of the process interrupted is idle again.
Settled(u) == IF u.state \in {"checking", "applying", "restarting"} THEN [u EXCEPT !.state = "idle"] ELSE u

\* What a process begins with. version: the binary that was executed.
Begin(version) ==
    /\ up' = TRUE
    /\ exe' = version
    /\ mem' = Settled(disk)
    /\ disk' = mem'
    /\ loop' = "check"
    /\ wake' = FALSE
    /\ mu' = "free"
    /\ pc' = "idle"
    /\ target' = 0
    /\ old' = 0
    /\ outcome' = "idle"
    /\ restart' = 0
    /\ failed' = {}

\* What the end of a process leaves.
End ==
    /\ up' = FALSE
    /\ mem' = disk
    /\ loop' = "check"
    /\ wake' = FALSE
    /\ mu' = "free"
    /\ pc' = "idle"
    /\ target' = 0
    /\ old' = 0
    /\ outcome' = "idle"
    /\ restart' = 0
    /\ failed' = {}
    /\ UNCHANGED <<exe, disk>>

\* Rollback: the link is moved back, unless the old pair is not there or the link
\* cannot be moved; a failed sync after the move is an error as well.
Rollback(to) == current' \in {to, current}

\* The service manager starts current/tailmixd.
Boot ==
    /\ ~up
    /\ Begin(current)
    /\ UNCHANGED <<latest, files, bounds>>

Crash ==
    /\ up
    /\ Fails
    /\ End
    /\ UNCHANGED <<latest, files, requests>>

\* updateRestart.exec once Run has returned: execute the new binary; if that fails,
\* roll the link back and execute the old one.
Restart ==
    /\ up
    /\ restart # 0
    /\ \/ /\ Begin(current)
          /\ UNCHANGED <<current, faults>>
       \/ /\ Fails
          /\ current' = restart
          /\ Begin(restart)
       \/ /\ Fails                          \* so does the rollback, or the old binary
          /\ Rollback(restart)
          /\ End
    /\ UNCHANGED <<latest, versions, stage, requests>>

------------------------------------------------------------------------------
(* runUpdateLoop *)

\* Mutant of CheckEnabled: the loop does not look at the policy again.
CheckEnabledOnce ==
    /\ up
    /\ loop = "check"
    /\ loop' = "timer"
    /\ UNCHANGED <<latest, up, exe, mem, disk, files, wake, mu, pc, target, old, outcome, restart,
                   failed, bounds>>

\* updatesEnabled, and on to one of the two selects.
CheckEnabled ==
    /\ up
    /\ loop = "check"
    /\ loop' = IF mem.disabled THEN "sleep" ELSE "timer"
    /\ UNCHANGED <<latest, up, exe, mem, disk, files, wake, mu, pc, target, old, outcome, restart,
                   failed, bounds>>

Woken ==
    /\ loop \in {"sleep", "timer"}
    /\ wake
    /\ wake' = FALSE
    /\ loop' = "check"
    /\ UNCHANGED <<latest, up, exe, mem, disk, files, mu, pc, target, old, outcome, restart,
                   failed, bounds>>

\* The timer fires; a wake that is ready as well may lose against it.
TimerFires ==
    /\ loop = "timer"
    /\ loop' = "want"
    /\ UNCHANGED <<latest, up, exe, mem, disk, files, wake, mu, pc, target, old, outcome, restart,
                   failed, bounds>>

------------------------------------------------------------------------------
(* The update operations *)

\* setUpdateActivity: the activity is set in memory, whether or not the save works.
SetActivity(a) ==
    /\ mem' = [mem EXCEPT !.state = a]
    /\ \/ disk' = mem' /\ NoFault
       \/ UNCHANGED disk /\ Fault("save")

Saved == disk' = mem' /\ NoFault

\* The caller who asks for an operation under updateMu.
Asks(who) ==
    /\ up
    /\ mu = "free"
    /\ IF who = "loop" THEN loop = "want" /\ UNCHANGED requests ELSE Asked

\* applyUpdate, up to the activity "applying". A restart that is under way ends the
\* loop, a failed save does not.
ApplyUpdate(who) ==
    /\ Asks(who)
    /\ \/ /\ mem.state = "restarting"
          /\ loop' = IF who = "loop" THEN "ended" ELSE loop
          /\ UNCHANGED <<mem, disk, mu, pc, failed, faults>>
       \/ /\ mem.state # "restarting"
          /\ SetActivity("applying")
          /\ IF Saved
             THEN /\ mu' = who
                  /\ pc' = "latest"
                  /\ loop' = IF who = "loop" THEN "apply" ELSE loop
             ELSE /\ loop' = IF who = "loop" THEN "check" ELSE loop
                  /\ UNCHANGED <<mu, pc>>
    /\ UNCHANGED <<latest, up, exe, files, wake, target, old, outcome, restart>>

CheckForUpdate ==
    /\ Asks("api")
    /\ mem.state # "restarting"
    /\ SetActivity("checking")
    /\ IF Saved THEN mu' = "api" /\ pc' = "query" ELSE UNCHANGED <<mu, pc>>
    /\ UNCHANGED <<latest, up, exe, files, loop, wake, target, old, outcome, restart>>

\* Mutant of SetUpdatesEnabled: only an opt-out wakes the loop.
SetUpdatesEnabledUnheard(b) ==
    /\ Asks("api")
    /\ mem' = [mem EXCEPT !.disabled = ~b]
    /\ \/ disk' = mem' /\ NoFault /\ wake' = (wake \/ ~b)
       \/ UNCHANGED <<disk, wake>> /\ Fault("save")
    /\ UNCHANGED <<latest, up, exe, files, loop, mu, pc, target, old, outcome, restart>>

\* SetUpdatesEnabled: the loop is woken only if the new policy was saved.
SetUpdatesEnabled(b) ==
    /\ Asks("api")
    /\ mem' = [mem EXCEPT !.disabled = ~b]
    /\ \/ disk' = mem' /\ NoFault /\ wake' = TRUE
       \/ UNCHANGED <<disk, wake>> /\ Fault("save")
    /\ UNCHANGED <<latest, up, exe, files, loop, mu, pc, target, old, outcome, restart>>

\* Any other operation of the supervisor saves the state.
SaveState ==
    /\ up
    /\ disk # mem
    /\ disk' = mem
    /\ UNCHANGED <<latest, up, exe, mem, files, loop, wake, mu, pc, target, old, outcome, restart,
                   failed, bounds>>

\* The operation will report a.
Reports(a) == pc' = "report" /\ outcome' = a

\* Client.Check for CheckForUpdate.
Check ==
    /\ pc = "query"
    /\ \/ Reports(IF latest > exe THEN "available" ELSE "idle") /\ NoFault
       \/ Reports("error") /\ Fault("net")
    /\ UNCHANGED <<latest, up, exe, mem, disk, files, loop, wake, mu, target, old, restart, requests>>

\* Mutant of Apply: any other release is installed.
ApplyDifferent ==
    /\ pc = "latest"
    /\ \/ /\ latest # exe
          /\ target' = latest
          /\ pc' = "stage"
          /\ NoFault
          /\ UNCHANGED outcome
       \/ /\ latest = exe
          /\ Reports("idle")
          /\ NoFault
          /\ UNCHANGED target
       \/ /\ Reports("error")
          /\ Fault("net")
          /\ UNCHANGED target
    /\ UNCHANGED <<latest, up, exe, mem, disk, files, loop, wake, mu, old, restart, requests>>

\* Client.Apply: only a release newer than the running version is installed.
Apply ==
    /\ pc = "latest"
    /\ \/ /\ latest > exe
          /\ target' = latest
          /\ pc' = "stage"
          /\ NoFault
          /\ UNCHANGED outcome
       \/ /\ latest <= exe
          /\ Reports("idle")
          /\ NoFault
          /\ UNCHANGED target
       \/ /\ Reports("error")
          /\ Fault("net")
          /\ UNCHANGED target
    /\ UNCHANGED <<latest, up, exe, mem, disk, files, loop, wake, mu, old, restart, requests>>

\* Install: download, verify the checksum, Recover, and make a staging directory.
Stage ==
    /\ pc = "stage"
    /\ \/ /\ stage' = TRUE
          /\ pc' = "publish"
          /\ NoFault
          /\ UNCHANGED outcome
       \/ /\ Reports("error")
          /\ Fault("net")
          /\ UNCHANGED stage
       \/ /\ Reports("error")
          /\ Fault("file")
          /\ stage' \in {stage, FALSE}
    /\ UNCHANGED <<latest, up, exe, mem, disk, current, versions, loop, wake, mu, target, old, restart,
                   requests>>

\* Mutant of Publish: the version is linked when only its staging directory exists.
PublishLate ==
    /\ pc = "publish"
    /\ stage' = FALSE
    /\ \/ /\ UNCHANGED versions
          /\ pc' = "switch"
          /\ NoFault
          /\ UNCHANGED outcome
       \/ /\ Reports("error")
          /\ Fault("file")
          /\ versions' \in {versions, versions \cup {target}}
    /\ UNCHANGED <<latest, up, exe, mem, disk, current, loop, wake, mu, target, old, restart, requests>>

\* Install: unpack both binaries, sync them, and rename the directory, unless the
\* version is there already.
Publish ==
    /\ pc = "publish"
    /\ stage' = FALSE
    /\ \/ /\ versions' = versions \cup {target}
          /\ pc' = "switch"
          /\ NoFault
          /\ UNCHANGED outcome
       \/ /\ Reports("error")
          /\ Fault("file")
          /\ versions' \in {versions, versions \cup {target}}
    /\ UNCHANGED <<latest, up, exe, mem, disk, current, loop, wake, mu, target, old, restart, requests>>

\* Install: readlink and switchLink. A failed sync after the rename reports an
\* error, and the link stays switched.
Switch ==
    /\ pc = "switch"
    /\ \/ /\ old' = current
          /\ current' = target
          /\ Reports("restarting")
          /\ NoFault
       \/ /\ Reports("error")
          /\ Fault("file")
          /\ UNCHANGED <<current, old>>
       \/ /\ Reports("error")
          /\ Fault("sync")
          /\ current' = target
          /\ UNCHANGED old
    /\ UNCHANGED <<latest, up, exe, mem, disk, versions, stage, loop, wake, mu, target, restart, requests>>

\* Mutant of Report: only a requested update is restarted into.
ReportRequested ==
    /\ pc = "report"
    /\ SetActivity(outcome)
    /\ pc' = "idle"
    /\ mu' = "free"
    /\ restart' = IF outcome = "restarting" /\ Saved /\ mu = "api" THEN old ELSE restart
    /\ IF outcome = "restarting" /\ ~Saved THEN Rollback(old) ELSE UNCHANGED current
    /\ loop' = IF mu # "loop" THEN loop ELSE IF restart' # 0 THEN "ended" ELSE "check"
    /\ target' = 0
    /\ old' = 0
    /\ outcome' = "idle"
    /\ UNCHANGED <<latest, up, exe, versions, stage, wake, requests>>

\* The last setUpdateActivity. An installed update schedules the restart, or is
\* rolled back, if that works, when the save fails.
Report ==
    /\ pc = "report"
    /\ SetActivity(outcome)
    /\ pc' = "idle"
    /\ mu' = "free"
    /\ restart' = IF outcome = "restarting" /\ Saved THEN old ELSE restart
    /\ IF outcome = "restarting" /\ ~Saved THEN Rollback(old) ELSE UNCHANGED current
    /\ loop' = IF mu # "loop" THEN loop ELSE IF restart' # 0 THEN "ended" ELSE "check"
    /\ target' = 0
    /\ old' = 0
    /\ outcome' = "idle"
    /\ UNCHANGED <<latest, up, exe, versions, stage, wake, requests>>

------------------------------------------------------------------------------
Next ==
    \/ \E v \in Versions : Release(v)
    \/ Boot \/ Crash \/ Restart
    \/ CheckEnabled \/ Woken \/ TimerFires
    \/ \E who \in {"loop", "api"} : ApplyUpdate(who)
    \/ CheckForUpdate
    \/ \E b \in BOOLEAN : SetUpdatesEnabled(b)
    \/ SaveState
    \/ Check \/ Apply \/ Stage \/ Publish \/ Switch \/ Report

Spec == Init /\ [][Next]_vars

\* The service manager restarts the daemon, the goroutine of the loop and the
\* operation that holds updateMu keep running, the timers expire.
Fairness ==
    /\ WF_vars(Boot)
    /\ WF_vars(Restart)
    /\ WF_vars(CheckEnabled)
    /\ WF_vars(Woken)
    /\ WF_vars(TimerFires)
    /\ WF_vars(ApplyUpdate("loop"))
    /\ WF_vars(Check \/ Apply \/ Stage \/ Publish \/ Switch \/ Report)

FairSpec == Spec /\ Fairness

------------------------------------------------------------------------------
(* Properties *)

\* update.go stages, syncs and renames a release before it moves the link: whenever
\* the process ends, `current` names a complete pair of binaries, and so does the
\* target a scheduled restart would roll back to.
AlwaysStartable == current \in versions /\ (restart # 0 => restart \in versions)

\* TestUpdateRestartRollsBackBeforeRetry: a restart that cannot execute the new
\* binary goes back to the version that was running, unless an earlier install
\* moved the link without a restart because its last sync failed.
RollbackRestores == restart # 0 /\ "sync" \notin failed => restart = exe

\* However an update ends, there is a release to run: the link names a complete one,
\* and a restart that fails goes back to the one that ran (switchLink, updateRestart.exec).
SafeToRestart == AlwaysStartable /\ RollbackRestores

\* While the daemon says "restarting", and answers every request with it, a restart
\* is scheduled, unless a save has failed.
RestartIsScheduled == up /\ mem.state = "restarting" /\ "save" \notin failed => restart # 0

\* The daemon never runs an older version than before: through withdrawn releases,
\* failed installs, rollbacks and crashes.
NeverDowngrades == [][exe' >= exe]_vars

\* "Use `tailmix update disable` to opt out" (docs/linux-install.md): the loop begins
\* an update while updates are disabled only in a race with that request, whose wake
\* is still unread, or when its save has failed.
OptOutIsHonoured ==
    [][loop = "want" /\ loop' = "apply" /\ mem.disabled => wake \/ "save" \in failed]_vars

\* "Installs from install.sh update themselves" (README.md): an enabled daemon ends up
\* with the latest release however its attempts and restarts have failed, as long as
\* no save fails.
UpdatesArrive ==
    <>[](~mem.disabled /\ "save" \notin failed) => <>[](exe >= latest)

=============================================================================
