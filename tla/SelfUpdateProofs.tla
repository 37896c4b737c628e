--------------------------- MODULE SelfUpdateProofs ---------------------------
(***************************************************************************)
(* Proofs about SelfUpdate for every bound: the link always names a        *)
(* complete version, a rollback restores the running version, a reported   *)
(* restart is scheduled, the daemon never runs an older version, and the   *)
(* update loop hears of an opt-out.                                        *)
(***************************************************************************)
EXTENDS SelfUpdate, TLAPS

USE DEF Versions

\* Whatever the link, a rollback or the next switch may name is installed.
Installed ==
    /\ current \in versions
    /\ restart # 0 => restart \in versions
    /\ old # 0 => old \in versions
    /\ pc = "switch" => target \in versions

\* Whatever they may name is at least as new as the running version.
Newest ==
    /\ exe <= current
    /\ restart # 0 => exe <= restart
    /\ old # 0 => exe <= old
    /\ pc \in {"stage", "publish", "switch"} => exe < target

\* Where the steps of an operation stand.
Steps ==
    /\ pc # "report" => old = 0
    /\ pc = "report" /\ outcome = "restarting" => old # 0
    /\ pc # "idle" => up /\ mem.state # "restarting"
    /\ ~up => restart = 0
    /\ mu = "free" => pc = "idle"

Switched == pc = "report" /\ outcome = "restarting"

\* Until a sync fails, the link moves away from the running version only when that
\* version is remembered.
Remembered ==
    up /\ "sync" \notin failed =>
        /\ mem.state # "restarting" /\ ~Switched => current = exe
        /\ Switched => old = exe
        /\ restart # 0 => restart = exe

IInv == TypeOK /\ Installed /\ Newest /\ Steps /\ Remembered /\ RestartIsScheduled

USE DEF IInv, Installed, Newest, Steps, Switched, Remembered, RestartIsScheduled

\* The installation begins with version 1 installed, linked and about to run.
LEMMA InitIInv == Init => IInv
<1> SUFFICES ASSUME Init PROVE IInv
  OBVIOUS
<1>0. Flags
  BY DEF Init, Flags
<1>1. TypeOK
  BY <1>0, UpdateAssumption DEF Init, TypeOK, Updates, Activities
<1> QED  BY <1>1 DEF Init

\* A process that begins with a version that is linked, or rolled back to.
LEMMA BeginIInv ==
    ASSUME IInv, NEW v \in versions, exe <= v, Begin(v), current' = v,
           versions' = versions, latest' = latest, stage' = stage,
           faults' \in 0 .. MaxFaults, requests' = requests
    PROVE  IInv'
<1>1. mem' \in Updates /\ disk' \in Updates /\ mem'.state # "restarting"
  BY DEF Begin, Settled, TypeOK, Updates, Activities
<1>0. Flags'
  BY DEF Begin, TypeOK, Flags
<1>2. TypeOK'
  BY <1>0, <1>1 DEF Begin, TypeOK, Activities
<1> QED  BY <1>1, <1>2 DEF Begin, TypeOK

\* A process that ends with an installed version linked.
LEMMA EndIInv ==
    ASSUME IInv, End, current' \in versions, exe <= current',
           versions' = versions, latest' = latest, stage' = stage,
           faults' \in 0 .. MaxFaults, requests' = requests
    PROVE  IInv'
<1>0. Flags'
  BY DEF End, TypeOK, Flags
<1>1. TypeOK'
  BY <1>0 DEF End, TypeOK, Activities
<1> QED  BY <1>1 DEF End, TypeOK

\* A failure keeps the types of its history.
LEMMA FaultTyped ==
    ASSUME TypeOK, NEW k \in FaultKinds, NoFault \/ Fault(k)
    PROVE  failed' \subseteq FaultKinds /\ faults' \in 0 .. MaxFaults
  BY UpdateAssumption DEF NoFault, Fault, Fails, TypeOK

\* What setUpdateActivity leaves, whether or not the save works.
LEMMA ActivitySet ==
    ASSUME TypeOK, NEW a \in Activities, SetActivity(a)
    PROVE  /\ mem' \in Updates /\ mem'.state = a /\ disk' \in Updates
           /\ failed' \subseteq FaultKinds /\ faults' \in 0 .. MaxFaults
           /\ "sync" \in failed' <=> "sync" \in failed
           /\ "save" \notin failed' => "save" \notin failed /\ Saved
<1>1. mem' \in Updates /\ mem'.state = a /\ disk' \in Updates
  BY DEF SetActivity, TypeOK, Updates
<1>2. failed' \subseteq FaultKinds /\ faults' \in 0 .. MaxFaults
  BY FaultTyped DEF SetActivity, FaultKinds
<1>3. /\ "sync" \in failed' <=> "sync" \in failed
      /\ "save" \notin failed' => "save" \notin failed /\ Saved
  BY DEF SetActivity, Saved, NoFault, Fault
<1> QED  BY <1>1, <1>2, <1>3

\* Every step preserves the invariant, whichever file operation, save or exec fails.
LEMMA NextIInv == IInv /\ [Next]_vars => IInv'
<1> SUFFICES ASSUME IInv, [Next]_vars PROVE IInv'
  OBVIOUS
<1> USE UpdateAssumption
<1>2. CASE Boot
  BY <1>2, BeginIInv DEF Boot, TypeOK, files, bounds
<1>3. CASE Crash
  BY <1>3, EndIInv DEF Crash, Fails, TypeOK, files
<1>4. CASE Restart
  <2>1. CASE Begin(current) /\ UNCHANGED <<current, faults>>
    BY <1>4, <2>1, BeginIInv DEF Restart, TypeOK
  <2>2. CASE Fails /\ current' = restart /\ Begin(restart)
    BY <1>4, <2>2, BeginIInv DEF Restart, Fails, TypeOK
  <2>3. CASE Fails /\ Rollback(restart) /\ End
    BY <1>4, <2>3, EndIInv DEF Restart, Rollback, Fails, TypeOK
  <2> QED  BY <1>4, <2>1, <2>2, <2>3, Zenon DEF Restart
<1>1. CASE \E v \in Versions : Release(v)
  <2>1. Flags'
    BY <1>1 DEF Release, Asked, files, TypeOK, Flags
  <2>2. TypeOK'
    BY <1>1, <2>1 DEF Release, Asked, files, TypeOK
  <2>3. Installed' /\ Newest' /\ Steps' /\ Remembered' /\ RestartIsScheduled'
    BY <1>1 DEF Release, Asked, files, TypeOK
  <2> QED  BY <2>2, <2>3
<1>5. CASE CheckEnabled
  <2>1. Flags'
    BY <1>5 DEF CheckEnabled, files, bounds, TypeOK, Flags
  <2>2. TypeOK'
    BY <1>5, <2>1 DEF CheckEnabled, files, bounds, TypeOK
  <2>3. Installed' /\ Newest' /\ Steps' /\ Remembered' /\ RestartIsScheduled'
    BY <1>5 DEF CheckEnabled, files, bounds, TypeOK
  <2> QED  BY <2>2, <2>3
<1>6. CASE Woken
  <2>1. Flags'
    BY <1>6 DEF Woken, files, bounds, TypeOK, Flags
  <2>2. TypeOK'
    BY <1>6, <2>1 DEF Woken, files, bounds, TypeOK
  <2>3. Installed' /\ Newest' /\ Steps' /\ Remembered' /\ RestartIsScheduled'
    BY <1>6 DEF Woken, files, bounds, TypeOK
  <2> QED  BY <2>2, <2>3
<1>7. CASE TimerFires
  <2>1. Flags'
    BY <1>7 DEF TimerFires, files, bounds, TypeOK, Flags
  <2>2. TypeOK'
    BY <1>7, <2>1 DEF TimerFires, files, bounds, TypeOK
  <2>3. Installed' /\ Newest' /\ Steps' /\ Remembered' /\ RestartIsScheduled'
    BY <1>7 DEF TimerFires, files, bounds, TypeOK
  <2> QED  BY <2>2, <2>3
<1>11. CASE SaveState
  <2>1. Flags'
    BY <1>11 DEF SaveState, files, bounds, TypeOK, Flags
  <2>2. TypeOK'
    BY <1>11, <2>1 DEF SaveState, files, bounds, TypeOK
  <2>3. Installed' /\ Newest' /\ Steps' /\ Remembered' /\ RestartIsScheduled'
    BY <1>11 DEF SaveState, files, bounds, TypeOK
  <2> QED  BY <2>2, <2>3
<1>8. CASE \E who \in {"loop", "api"} : ApplyUpdate(who)
  <2> PICK who \in {"loop", "api"} : ApplyUpdate(who)
    BY <1>8
  <2>1. Flags'
    BY DEF ApplyUpdate, TypeOK, Flags, files
  <2>2. requests' \in 0 .. MaxRequests
    BY DEF ApplyUpdate, Asks, Asked, TypeOK
  <2>3. CASE mem.state = "restarting" /\ UNCHANGED <<mem, disk, mu, pc, failed, faults>>
    BY <2>1, <2>2, <2>3 DEF ApplyUpdate, TypeOK, files
  <2>4. CASE mem.state # "restarting" /\ SetActivity("applying")
    <3>1. "applying" \in Activities
      BY DEF Activities
    <3>2. /\ mem' \in Updates /\ mem'.state = "applying" /\ disk' \in Updates
          /\ failed' \subseteq FaultKinds /\ faults' \in 0 .. MaxFaults
          /\ "sync" \in failed' <=> "sync" \in failed
      BY <2>4, <3>1, ActivitySet
    <3>3. /\ mu' \in {mu, who} /\ pc' \in {pc, "latest"}
          /\ loop' \in {loop, "apply", "check", "ended"} /\ up
          /\ mu = "free" /\ (mu' = "free" => pc' = pc)
      BY <2>4 DEF ApplyUpdate, Asks
    <3>4. TypeOK'
      BY <2>1, <2>2, <3>2, <3>3 DEF ApplyUpdate, TypeOK, files
    <3>5. Installed' /\ Newest' /\ Steps' /\ Remembered' /\ RestartIsScheduled'
      BY <2>4, <3>2, <3>3 DEF ApplyUpdate, TypeOK, files
    <3> QED  BY <3>4, <3>5
  <2> QED  BY <2>3, <2>4 DEF ApplyUpdate
<1>9. CASE CheckForUpdate
  <2>1. Flags'
    BY <1>9 DEF CheckForUpdate, TypeOK, Flags, files
  <2>2. requests' \in 0 .. MaxRequests /\ up /\ mu = "free"
    BY <1>9 DEF CheckForUpdate, Asks, Asked, TypeOK
  <2>3. /\ mem' \in Updates /\ mem'.state = "checking" /\ disk' \in Updates
        /\ failed' \subseteq FaultKinds /\ faults' \in 0 .. MaxFaults
        /\ "sync" \in failed' <=> "sync" \in failed
    <3>1. "checking" \in Activities
      BY DEF Activities
    <3> QED  BY <1>9, <3>1, ActivitySet DEF CheckForUpdate
  <2>4. /\ mu' \in {mu, "api"} /\ pc' \in {pc, "query"} /\ mem.state # "restarting"
        /\ (mu' = "free" => pc' = pc)
    BY <1>9, <2>2 DEF CheckForUpdate
  <2>5. TypeOK'
    BY <1>9, <2>1, <2>2, <2>3, <2>4 DEF CheckForUpdate, TypeOK, files
  <2>6. Installed' /\ Newest' /\ Steps' /\ Remembered' /\ RestartIsScheduled'
    BY <1>9, <2>2, <2>3, <2>4 DEF CheckForUpdate, TypeOK, files
  <2> QED  BY <2>5, <2>6
<1>10. CASE \E b \in BOOLEAN : SetUpdatesEnabled(b)
  <2> PICK b \in BOOLEAN : SetUpdatesEnabled(b)
    BY <1>10
  <2>1. Flags'
    BY DEF SetUpdatesEnabled, TypeOK, Flags, files
  <2>2. requests' \in 0 .. MaxRequests
    BY DEF SetUpdatesEnabled, Asks, Asked, TypeOK
  <2>3. failed' \subseteq FaultKinds /\ faults' \in 0 .. MaxFaults
    BY FaultTyped DEF SetUpdatesEnabled, FaultKinds
  <2>4. /\ failed \subseteq failed' /\ ("sync" \in failed' => "sync" \in failed)
    BY DEF SetUpdatesEnabled, NoFault, Fault
  <2>5. mem' \in Updates /\ mem'.state = mem.state /\ disk' \in Updates
    BY DEF SetUpdatesEnabled, TypeOK, Updates
  <2>6. TypeOK'
    BY <2>1, <2>2, <2>3, <2>5 DEF SetUpdatesEnabled, TypeOK, files
  <2>7. Installed' /\ Newest' /\ Steps' /\ Remembered' /\ RestartIsScheduled'
    BY <2>4, <2>5 DEF SetUpdatesEnabled, TypeOK, files
  <2> QED  BY <2>6, <2>7
<1>12. CASE Check
  <2>1. Flags'
    BY <1>12 DEF Check, Reports, files, TypeOK, Flags
  <2>2. failed' \subseteq FaultKinds /\ faults' \in 0 .. MaxFaults
    BY <1>12, FaultTyped DEF Check, FaultKinds
  <2>3. TypeOK'
    BY <1>12, <2>1, <2>2 DEF Check, Reports, files, TypeOK, Activities
  <2>4. Installed' /\ Newest' /\ Steps' /\ Remembered' /\ RestartIsScheduled'
    BY <1>12 DEF Check, Reports, files, NoFault, Fault, TypeOK
  <2> QED  BY <2>3, <2>4
<1>13. CASE Apply
  <2>1. Flags'
    BY <1>13 DEF Apply, Reports, files, TypeOK, Flags
  <2>2. failed' \subseteq FaultKinds /\ faults' \in 0 .. MaxFaults
    BY <1>13, FaultTyped DEF Apply, FaultKinds
  <2>3. TypeOK'
    BY <1>13, <2>1, <2>2 DEF Apply, Reports, files, TypeOK, Activities
  <2>4. Installed' /\ Newest' /\ Steps' /\ Remembered' /\ RestartIsScheduled'
    BY <1>13 DEF Apply, Reports, files, NoFault, Fault, TypeOK
  <2> QED  BY <2>3, <2>4
<1>14. CASE Stage
  <2>1. Flags'
    BY <1>14 DEF Stage, Reports, TypeOK, Flags
  <2>2. failed' \subseteq FaultKinds /\ faults' \in 0 .. MaxFaults
    BY <1>14, FaultTyped DEF Stage, FaultKinds
  <2>3. TypeOK'
    BY <1>14, <2>1, <2>2 DEF Stage, Reports, TypeOK, Activities
  <2>4. Installed' /\ Newest' /\ Steps' /\ Remembered' /\ RestartIsScheduled'
    BY <1>14 DEF Stage, Reports, NoFault, Fault, TypeOK
  <2> QED  BY <2>3, <2>4
<1>15. CASE Publish
  <2>1. Flags'
    BY <1>15 DEF Publish, Reports, TypeOK, Flags
  <2>2. failed' \subseteq FaultKinds /\ faults' \in 0 .. MaxFaults
    BY <1>15, FaultTyped DEF Publish, FaultKinds
  <2>3. TypeOK'
    <3>1. target \in Versions
      BY <1>15 DEF Publish, TypeOK
    <3> QED  BY <1>15, <2>1, <2>2, <3>1 DEF Publish, Reports, TypeOK, Activities
  <2>4. Installed' /\ Newest' /\ Steps' /\ Remembered' /\ RestartIsScheduled'
    BY <1>15 DEF Publish, Reports, NoFault, Fault, TypeOK
  <2> QED  BY <2>3, <2>4
<1>16. CASE Switch
  <2>1. Flags'
    BY <1>16 DEF Switch, Reports, TypeOK, Flags
  <2>2. failed' \subseteq FaultKinds /\ faults' \in 0 .. MaxFaults
    BY <1>16, FaultTyped DEF Switch, FaultKinds
  <2>3. TypeOK'
    BY <1>16, <2>1, <2>2 DEF Switch, Reports, TypeOK, Activities
  <2>4. Installed' /\ Newest' /\ Steps' /\ Remembered' /\ RestartIsScheduled'
    BY <1>16 DEF Switch, Reports, NoFault, Fault, TypeOK
  <2> QED  BY <2>3, <2>4
<1>17. CASE Report
  <2>1. Flags'
    BY <1>17 DEF Report, TypeOK, Flags
  <2>2. /\ mem' \in Updates /\ mem'.state = outcome /\ disk' \in Updates
        /\ failed' \subseteq FaultKinds /\ faults' \in 0 .. MaxFaults
        /\ "sync" \in failed' <=> "sync" \in failed
        /\ "save" \notin failed' => "save" \notin failed /\ Saved
    <3>1. outcome \in Activities
      BY DEF TypeOK
    <3> QED  BY <1>17, <3>1, ActivitySet DEF Report
  <2>3. /\ pc = "report" /\ pc' = "idle" /\ mu' = "free"
        /\ loop' \in {loop, "ended", "check"}
        /\ target' = 0 /\ old' = 0 /\ outcome' = "idle"
        /\ UNCHANGED <<latest, up, exe, versions, stage, wake, requests>>
    BY <1>17 DEF Report
  <2>4. restart' = IF outcome = "restarting" /\ Saved THEN old ELSE restart
    BY <1>17 DEF Report
  <2>5. current' = current \/ (outcome = "restarting" /\ current' = old)
    <3>1. CASE outcome = "restarting" /\ ~Saved
      <4>1. current' \in {old, current}
        BY <1>17, <3>1, Zenon DEF Report, Rollback
      <4> QED  BY <3>1, <4>1
    <3>2. CASE ~(outcome = "restarting" /\ ~Saved)
      <4>1. UNCHANGED current
        BY <1>17, <3>2, Zenon DEF Report
      <4> QED  BY <4>1
    <3> QED  BY <3>1, <3>2
  <2>6. TypeOK'
    BY <2>1, <2>2, <2>3, <2>4, <2>5 DEF TypeOK, Activities
  <2>7. Installed' /\ Newest' /\ Steps'
    BY <2>2, <2>3, <2>4, <2>5 DEF TypeOK
  <2>8. Remembered' /\ RestartIsScheduled'
    <3>1. outcome # "restarting" => current' = exe \/ "sync" \in failed
      BY <2>3, <2>5
    <3> QED  BY <2>2, <2>3, <2>4, <3>1 DEF TypeOK
  <2> QED  BY <2>6, <2>7, <2>8
<1>18. CASE UNCHANGED vars
  <2>1. TypeOK'
    BY <1>18 DEF vars, files, bounds, TypeOK, Flags
  <2>2. Installed' /\ Newest' /\ Steps' /\ Remembered' /\ RestartIsScheduled'
    BY <1>18 DEF vars, files, bounds
  <2> QED  BY <2>1, <2>2
<1> QED
  BY <1>1, <1>2, <1>3, <1>4, <1>5, <1>6, <1>7, <1>8, <1>9, <1>10, <1>11, <1>12, <1>13, <1>14,
     <1>15, <1>16, <1>17, <1>18 DEF Next

HIDE DEF IInv, Installed, Newest, Steps, Switched, Remembered, RestartIsScheduled

\* The invariant holds for every bound on versions, requests and faults.
THEOREM Invariance == Spec => []IInv
  BY InitIInv, NextIInv, PTL DEF Spec

\* Every variable keeps its type.
THEOREM TypeCorrect == Spec => []TypeOK
<1>1. IInv => TypeOK
  BY DEF IInv
<1> QED  BY <1>1, Invariance, PTL

\* Whenever the process ends, `current` names a complete pair of binaries, and so
\* does the rollback target of updateRestart.exec.
THEOREM Startable == Spec => []AlwaysStartable
<1>1. IInv => AlwaysStartable
  BY DEF IInv, Installed, AlwaysStartable
<1> QED  BY <1>1, Invariance, PTL

\* updateRestart.exec rolls back to the version that was running, unless the sync
\* that ends switchLink failed before.
THEOREM RollsBack == Spec => []RollbackRestores
<1>1. IInv => RollbackRestores
  BY DEF IInv, TypeOK, Steps, Remembered, RollbackRestores
<1> QED  BY <1>1, Invariance, PTL

\* However an update ends, the link and the rollback target name releases to run.
THEOREM RestartsAreSafe == Spec => []SafeToRestart
<1>1. AlwaysStartable /\ RollbackRestores => SafeToRestart
  BY DEF SafeToRestart
<1> QED  BY <1>1, Startable, RollsBack, PTL

\* Unless setUpdateActivity failed to save, "restarting" means a scheduled restart.
THEOREM RestartsAreScheduled == Spec => []RestartIsScheduled
<1>1. IInv => RestartIsScheduled
  BY DEF IInv
<1> QED  BY <1>1, Invariance, PTL

\* No install, rollback, crash or withdrawn release makes the daemon run an older
\* version than before.
THEOREM VersionsGrow == Spec => NeverDowngrades
<1>1. IInv /\ [Next]_vars => exe' >= exe
  <2> SUFFICES ASSUME IInv, [Next]_vars PROVE exe' >= exe
    OBVIOUS
  <2>1. CASE Boot
    BY <2>1 DEF Boot, Begin, IInv, Newest, TypeOK
  <2>2. CASE Restart
    BY <2>2 DEF Restart, Begin, End, IInv, Newest, TypeOK
  <2>3. CASE ~Boot /\ ~Restart
    <3>1. exe' = exe
      BY <2>3 DEF Next, Release, Crash, End, CheckEnabled, Woken, TimerFires, ApplyUpdate, CheckForUpdate,
                  SetUpdatesEnabled, SaveState, Check, Apply, Stage, Publish, Switch, Report, vars
    <3> QED  BY <3>1 DEF IInv, TypeOK
  <2> QED  BY <2>1, <2>2, <2>3
<1>2. IInv /\ [Next]_vars => [exe' >= exe]_vars
  BY <1>1
<1>3. []IInv /\ [][Next]_vars => NeverDowngrades
  BY <1>2, PTL DEF NeverDowngrades
<1> QED  BY <1>3, Invariance, PTL DEF Spec

\* The update loop waits for its timer, or for updateMu, only with updates enabled, a
\* wake-up pending, or an opt-out that could not be saved.
Heard ==
    loop \in {"timer", "want"} /\ mem.disabled => wake \/ "save" \in failed

\* Every step keeps a waiting loop informed of an opt-out.
LEMMA NextHeard == TypeOK /\ Heard /\ [Next]_vars => Heard'
<1> SUFFICES ASSUME TypeOK, Heard, [Next]_vars PROVE Heard'
  OBVIOUS
<1> USE DEF Heard
<1>1. CASE Boot \/ Crash \/ Restart
  <2>1. loop' = "check"
    BY <1>1 DEF Boot, Crash, Restart, Begin, End
  <2> QED  BY <2>1
<1>2. CASE CheckEnabled
  BY <1>2 DEF CheckEnabled
<1>3. CASE Woken
  BY <1>3 DEF Woken
<1>4. CASE TimerFires
  BY <1>4 DEF TimerFires
<1>5. CASE \E b \in BOOLEAN : SetUpdatesEnabled(b)
  <2>1. wake' = TRUE \/ "save" \in failed'
    BY <1>5 DEF SetUpdatesEnabled, Fault
  <2> QED  BY <2>1
<1>6. CASE \/ \E who \in {"loop", "api"} : ApplyUpdate(who)
           \/ CheckForUpdate
           \/ Report
  <2>1. UNCHANGED wake /\ loop' \in {loop, "ended", "apply", "check"}
    BY <1>6 DEF ApplyUpdate, CheckForUpdate, Report
  <2>2. mem'.disabled = mem.disabled
    BY <1>6 DEF ApplyUpdate, CheckForUpdate, Report, SetActivity, TypeOK, Updates
  <2>3. failed \subseteq failed'
    BY <1>6 DEF ApplyUpdate, CheckForUpdate, Report, SetActivity, NoFault, Fault
  <2> QED  BY <2>1, <2>2, <2>3
<1>7. CASE \/ \E v \in Versions : Release(v)
           \/ SaveState \/ Check \/ Apply \/ Stage \/ Publish \/ Switch
           \/ UNCHANGED vars
  <2>1. UNCHANGED <<loop, mem, wake>> /\ failed \subseteq failed'
    BY <1>7 DEF Release, SaveState, Check, Apply, Stage, Publish, Switch, NoFault, Fault, vars
  <2> QED  BY <2>1
<1> QED
  BY <1>1, <1>2, <1>3, <1>4, <1>5, <1>6, <1>7 DEF Next

\* runUpdateLoop begins an update after an opt-out only before it has heard of it, or
\* when the opt-out was not saved.
THEOREM OptOutsAreHonoured == Spec => OptOutIsHonoured
<1>1. Init => Heard
  BY DEF Init, Heard
<1>2. TypeOK /\ Heard /\ [Next]_vars =>
        [loop = "want" /\ loop' = "apply" /\ mem.disabled => wake \/ "save" \in failed]_vars
  BY DEF Heard
<1>3. [](TypeOK /\ Heard) /\ [][Next]_vars => OptOutIsHonoured
  BY <1>2, PTL DEF OptOutIsHonoured
<1> QED  BY <1>1, <1>3, NextHeard, TypeCorrect, PTL DEF Spec

=============================================================================
