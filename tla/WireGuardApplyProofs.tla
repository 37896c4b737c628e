------------------------ MODULE WireGuardApplyProofs ------------------------
(***************************************************************************)
(* Proofs about WireGuardApply, for any peers, manifests, secret files and *)
(* faults.                                                                 *)
(***************************************************************************)
EXTENDS WireGuardApply, TLAPS

------------------------------------------------------------------------------
(* Types *)

\* A compiled policy is a policy, open unless it is restrictive.
LEMMA CompileType ==
    ASSUME NEW c \in Configs, NEW x \in Exits, NEW r \in BOOLEAN
    PROVE  /\ Compile(c, x, r) \in Policy
           /\ Compile(c, x, r).open = ~r
BY DEF Compile, Policy

\* A selection that is not eligible any more is dropped.
LEMMA ValidExitType ==
    ASSUME NEW c, NEW x
    PROVE  ValidExit(c, x) \in Exits
BY DEF ValidExit, Exits

\* The fields of a profile.
LEMMA ProfileFields ==
    ASSUME NEW p \in Profile
    PROVE  /\ p.cfg \in Configs \cup {None}
           /\ p.secret \in SecretFiles \cup {None}
           /\ p.shields \in BOOLEAN
           /\ p.exit \in Exits
           /\ p.life \in {"none", "enabled", "disabled", "removed"}
BY DEF Profile

\* Nothing configured is a profile too.
LEMMA NoProfileType == NoProfile \in Profile /\ None \in Exits
BY DEF NoProfile, Profile, Exits

\* The fields of an engine.
LEMMA EngineFields ==
    ASSUME NEW e \in Engine
    PROVE  /\ e.cfg \in Configs
           /\ e.exit \in Exits
           /\ e.shields \in BOOLEAN
           /\ e.degraded \in BOOLEAN
           /\ e.relaxed \in BOOLEAN
           /\ e.policy \in Policy
           /\ e.pending \in Policy \cup {None}
BY DEF Engine

\* An engine with another filter or configuration is an engine, and its
\* other fields are what they were.
LEMMA EngineUpdates ==
    ASSUME NEW e \in Engine, NEW p \in Policy
    PROVE  /\ [e EXCEPT !.policy = p] \in Engine
           /\ \A x \in Exits, b \in BOOLEAN :
                 [e EXCEPT !.exit = x, !.policy = p, !.relaxed = b] \in Engine
           /\ \A c \in Configs, x \in Exits : [e EXCEPT !.cfg = c, !.exit = x] \in Engine
           /\ \A b, r \in BOOLEAN :
                 /\ [e EXCEPT !.policy = p, !.degraded = b, !.relaxed = r] \in Engine
                 /\ [e EXCEPT !.policy = p, !.shields = b, !.relaxed = r] \in Engine
                 /\ [e EXCEPT !.policy = p, !.pending = None, !.degraded = b, !.relaxed = r] \in Engine
BY DEF Engine

\* A started engine is an engine.
LEMMA NewEngineType ==
    ASSUME NEW p \in Profile, p.cfg \in Configs, NEW r \in BOOLEAN
    PROVE  NewEngine(p, r) \in Engine
<1>1. p.shields \in BOOLEAN /\ None \in Exits
  BY DEF Profile, Exits
<1>2. /\ Compile(p.cfg, None, r \/ p.shields) \in Policy
      /\ Compile(p.cfg, None, p.shields) \in Policy
  BY <1>1, CompileType
<1> QED
  BY <1>1, <1>2 DEF NewEngine, Engine

\* The fields of a staged update.
LEMMA StagedType ==
    ASSUME NEW s \in Staged
    PROVE  /\ s.filter \in BOOLEAN
           /\ s.transition \in Policy
           /\ s.final \in Policy
           /\ s.transition.cfg \in Configs
           /\ s.transition.exit \in Exits
BY DEF Staged, Policy

\* A staged apply is a staged update.
LEMMA PrepareApplyType ==
    ASSUME NEW c \in Configs, engine \in Engine
    PROVE  PrepareApply(c) \in Staged
<1>1. engine.shields \in BOOLEAN /\ ValidExit(c, engine.exit) \in Exits
  BY ValidExitType DEF Engine
<1>2. engine.degraded \in BOOLEAN
  BY DEF Engine
<1>3. /\ Compile(c, ValidExit(c, engine.exit), TRUE) \in Policy
      /\ Compile(c, ValidExit(c, engine.exit), engine.shields) \in Policy
  BY <1>1, CompileType
<1> QED
  BY <1>1, <1>2, <1>3 DEF PrepareApply, Staged

\* What SetExitNodeIP leaves of an engine: the filter is the old one, a restrictive
\* one, or the final policy of the engine's own configuration.
LEMMA ExitNodeEffect ==
    ASSUME engine \in Engine, SetExitNodeIP(mem.exit)
    PROVE  \/ UNCHANGED engine
           \/ /\ engine'.cfg = engine.cfg
              /\ engine'.shields = engine.shields
              /\ engine'.pending = engine.pending
              /\ engine'.degraded = engine.degraded
              /\ \/ engine'.policy = engine.policy /\ engine'.relaxed = engine.relaxed
                 \/ /\ engine'.policy.cfg = engine.cfg
                    /\ ~engine'.policy.open
                    /\ engine'.relaxed = engine.relaxed
                 \/ /\ engine'.policy.cfg = engine.cfg
                    /\ engine'.policy.open = ~engine.shields
                    /\ engine'.relaxed = engine.degraded
<1> DEFINE x == mem.exit
<1> HIDE DEF x
<1>1. CASE engine' = [engine EXCEPT
                        !.exit = x,
                        !.policy = Compile(engine.cfg, x, engine.shields),
                        !.relaxed = engine.degraded]
  <2>1. /\ engine'.cfg = engine.cfg
        /\ engine'.shields = engine.shields
        /\ engine'.pending = engine.pending
        /\ engine'.degraded = engine.degraded
        /\ engine'.relaxed = engine.degraded
        /\ engine'.policy = Compile(engine.cfg, x, engine.shields)
    BY <1>1 DEF Engine
  <2> QED
    BY <2>1 DEF Compile
<1>2. CASE UNCHANGED engine
  BY <1>2
<1>3. ASSUME engine' = [engine EXCEPT !.policy = Compile(engine.cfg, x, TRUE)]
      PROVE  /\ engine'.cfg = engine.cfg
             /\ engine'.shields = engine.shields
             /\ engine'.pending = engine.pending
             /\ engine'.degraded = engine.degraded
             /\ engine'.relaxed = engine.relaxed
             /\ engine'.policy.cfg = engine.cfg
             /\ ~engine'.policy.open
  <2>1. engine'.policy = Compile(engine.cfg, x, TRUE)
    BY <1>3 DEF Engine
  <2> QED
    BY <1>3, <2>1 DEF Engine, Compile
<1> QED
  BY <1>1, <1>2, <1>3 DEF SetExitNodeIP, x

------------------------------------------------------------------------------
(* The control state: which steps have an engine and a staged update *)

\* A profile with secrets has a configuration.
CfgKnown(p) == p.secret # None => p.cfg # None

\* What every step of an operation may rely on: the engine it started with, and
\* the update it staged.
Control ==
    /\ proc = "down" => pc = "idle"
    /\ pc = "idle" => op = "other"
    /\ pc \in {"idle", "start"} => staged = None
    /\ op \in {"disable", "remove", "purge", "restart"} => staged = None
    /\ staged # None => engine # None
    /\ pc \in {"transition", "uapi"} => staged # None
    /\ pc = "commit" => engine # None
    /\ op = "apply" /\ pc \in {"prefs", "rest"} => engine # None
    /\ CfgKnown(mem) /\ CfgKnown(disk) /\ CfgKnown(next)

TypeInv == TypeOK /\ Control

\* Every step of the daemon keeps the types and the control state.
LEMMA NextType == TypeInv /\ [Next]_vars => TypeInv'
<1> SUFFICES ASSUME TypeInv, [Next]_vars PROVE TypeInv'
  OBVIOUS
<1> USE WireGuardAssumption, NoneAssumption, NoProfileType DEF TypeInv
<1>a. engine # None => engine \in Engine
  BY DEF TypeOK
<1>b. staged # None => staged \in Staged
  BY DEF TypeOK
<1>1. CASE Boot
  <2>1. TypeOK'
    BY <1>1 DEF Boot, TypeOK
  <2>2. Control'
    BY <1>1 DEF Boot, Control, CfgKnown
  <2> QED
    BY <2>1, <2>2
<1>2. CASE Crash
  <2>1. TypeOK'
    BY <1>2 DEF Crash, TypeOK
  <2>2. Control'
    BY <1>2 DEF Crash, Control, CfgKnown, NoProfile
  <2> QED
    BY <2>1, <2>2
<1>3. CASE StartProfile
  <2>1. /\ pc = "start"
        /\ op' \in {"boot", "apply", "disable", "remove", "purge", "other"}
        /\ UNCHANGED <<proc, mem, disk, files>>
    BY <1>3 DEF StartProfile, Return, TypeOK
  <2>2. mem.secret \in files => NewEngine(mem, op = "apply") \in Engine
    <3>1. mem.secret \in files => mem.cfg \in Configs
      BY ProfileFields DEF TypeOK, Control, CfgKnown
    <3> QED
      BY <3>1, NewEngineType DEF TypeOK
  <2>3. engine' \in Engine \cup {None}
    BY <1>3, <2>2 DEF StartProfile
  <2>4. TypeOK'
    BY <1>3, <2>1, <2>3 DEF StartProfile, Return, TypeOK
  <2>5. Control'
    BY <1>3, <2>1, <2>2 DEF StartProfile, Return, Control, CfgKnown, NoProfile
  <2> QED
    BY <2>4, <2>5
<1>4. CASE SetExitNodePreferences
  <2>1. pc = "prefs" /\ UNCHANGED <<mem, disk, files, purged>>
    BY <1>4 DEF SetExitNodePreferences
  <2>2. \/ UNCHANGED engine
        \/ engine \in Engine /\ engine' \in Engine
    <3> SUFFICES ASSUME engine # None, SetExitNodeIP(mem.exit) PROVE UNCHANGED engine \/ engine' \in Engine
      BY <1>4, <1>a DEF SetExitNodePreferences, Running
    <3> DEFINE x == mem.exit
    <3>1. x \in Exits /\ engine \in Engine
      BY <1>a, ProfileFields DEF TypeOK
    <3>2. /\ Compile(engine.cfg, x, engine.shields) \in Policy
          /\ Compile(engine.cfg, x, TRUE) \in Policy
          /\ engine.cfg \subseteq Peers
      BY <3>1, EngineFields, CompileType
    <3>4. CASE engine' = [engine EXCEPT
                        !.exit = x,
                        !.policy = Compile(engine.cfg, x, engine.shields),
                        !.relaxed = engine.degraded]
      <4>1. engine.degraded \in BOOLEAN
        BY <3>1, EngineFields
      <4> QED
        BY <4>1, <3>1, <3>2, <3>4, EngineUpdates
    <3>5. CASE engine' = [engine EXCEPT !.policy = Compile(engine.cfg, x, TRUE)]
      BY <3>1, <3>2, <3>5, EngineUpdates
    <3> QED
      BY <3>4, <3>5 DEF SetExitNodeIP
  <2>3. \/ /\ pc' = "rest" /\ UNCHANGED <<proc, op, staged, stale, next>>
        \/ ReconcileFails
    BY <1>4 DEF SetExitNodePreferences, SetExitNodeIP
  <2>4. TypeOK'
    BY <2>1, <2>2, <2>3 DEF TypeOK, ReconcileFails, Return
  <2>5. Control'
    BY <2>1, <2>2, <2>3 DEF Control, CfgKnown, ReconcileFails, Return, NoProfile
  <2> QED
    BY <2>4, <2>5
<1>5. CASE Reconcile
  <2>1. /\ pc = "rest"
        /\ UNCHANGED <<mem, files>>
        /\ disk' \in {mem, disk}
        /\ proc' \in {proc, "up", "exit"}
        /\ purged' \in BOOLEAN
        /\ \/ Return /\ UNCHANGED engine
           \/ Reconciled
    BY <1>5 DEF Reconcile, ReconcileFails, TypeOK
  <2>2. CASE Return /\ UNCHANGED engine
    BY <2>1, <2>2 DEF Return, TypeOK, Control, CfgKnown, NoProfile
  <2>3. CASE Reconciled
    <3>1. TypeOK'
      BY <2>1, <2>3 DEF Reconciled, Return, TypeOK
    <3>2. Control'
      BY <2>1, <2>3 DEF Reconciled, Return, Control, CfgKnown, NoProfile
    <3> QED
      BY <3>1, <3>2
  <2> QED
    BY <2>1, <2>2, <2>3
<1>6. CASE \E c \in Configs : ApplyWireGuard(c)
  <2> PICK c \in Configs : ApplyWireGuard(c)
    BY <1>6
  <2>1. engine # None => PrepareApply(c) \in Staged
    BY <1>a, PrepareApplyType
  <2>2. PICK f \in SecretFiles \ files :
           /\ files' = files \cup {f}
           /\ next' = [mem EXCEPT !.cfg = c, !.secret = f,
                                 !.life = IF @ \in {"none", "removed"} THEN "enabled" ELSE @]
    BY DEF ApplyWireGuard
  <2>3. next' \in Profile /\ next'.cfg = c
    BY <2>2 DEF TypeOK, Profile
  <2>4. TypeOK'
    BY <2>1, <2>2, <2>3, ProfileFields DEF ApplyWireGuard, TypeOK, Running
  <2>5. Control'
    BY <2>1, <2>3 DEF ApplyWireGuard, Control, CfgKnown, Running, Idle
  <2> QED
    BY <2>4, <2>5
<1>7. CASE SaveDesired
  <2>1. TypeOK'
    BY <1>7 DEF SaveDesired, Return, TypeOK
  <2>2. Control'
    BY <1>7 DEF SaveDesired, Return, Control, CfgKnown, NoProfile
  <2> QED
    BY <2>1, <2>2
<1>8. CASE CleanSecrets
  <2>1. TypeOK'
    BY <1>8 DEF CleanSecrets, Return, TypeOK
  <2>2. Control'
    BY <1>8 DEF CleanSecrets, Return, Control, CfgKnown, NoProfile
  <2> QED
    BY <2>1, <2>2
<1>9. CASE InstallTransition
  <2>1. staged \in Staged /\ engine \in Engine
    BY <1>9, <1>a, <1>b DEF InstallTransition, Control
  <2>2. engine' \in Engine
    BY <1>9, <2>1, StagedType, EngineFields, EngineUpdates DEF InstallTransition
  <2>3. TypeOK'
    BY <1>9, <2>2 DEF InstallTransition, TypeOK
  <2>4. Control'
    BY <1>9, <2>1, <2>2 DEF InstallTransition, Control, CfgKnown
  <2> QED
    BY <2>3, <2>4
<1>10. CASE SetConfig
  <2>1. staged \in Staged /\ engine \in Engine
    BY <1>10, <1>a, <1>b DEF SetConfig, Control
  <2> DEFINE new == staged.transition
  <2>2. new.cfg \in Configs /\ new.exit \in Exits
    BY <2>1, StagedType
  <2>3. engine' \in Engine
    <3>1. CASE engine' = [engine EXCEPT !.cfg = new.cfg, !.exit = new.exit]
      BY <2>1, <2>2, <3>1 DEF Engine
    <3> QED
      BY <1>10, <2>1, <3>1 DEF SetConfig
  <2>4. TypeOK'
    BY <1>10, <2>3 DEF SetConfig, Return, TypeOK
  <2>5. Control'
    BY <1>10, <2>1, <2>3 DEF SetConfig, Return, Control, CfgKnown, NoProfile
  <2> QED
    BY <2>4, <2>5
<1>11. CASE Commit
  <2>1. engine \in Engine
    BY <1>11, <1>a DEF Commit, Control
  <2>2. engine' \in Engine
    BY <1>11, <1>b, <2>1, StagedType, EngineFields, EngineUpdates DEF Commit
  <2>3. TypeOK'
    BY <1>11, <2>2 DEF Commit, Return, TypeOK
  <2>4. Control'
    BY <1>11 DEF Commit, Return, Control, CfgKnown, NoProfile
  <2> QED
    BY <2>3, <2>4
<1>12. CASE \E b \in ShieldRequests : SetWireGuardShieldsUp(b)
  <2> PICK b \in ShieldRequests : SetWireGuardShieldsUp(b)
    BY <1>12
  <2>1. b \in BOOLEAN /\ next' \in Profile /\ next'.cfg = mem.cfg /\ next'.secret = mem.secret
    BY DEF SetWireGuardShieldsUp, TypeOK, Profile
  <2>2. CASE engine = None
    BY <2>1, <2>2 DEF SetWireGuardShieldsUp, TypeOK, Control, CfgKnown, Running, Idle
  <2>3. CASE engine # None
    <3>1. Compile(engine.cfg, engine.exit, b) \in Policy /\ engine.policy \in Policy
      BY <1>a, <2>1, <2>3, EngineFields, CompileType
    <3>2. [filter |-> b, transition |-> engine.policy, final |-> Compile(engine.cfg, engine.exit, b)] \in Staged
      BY <2>1, <3>1 DEF Staged
    <3>3. engine' \in Engine
      BY <1>a, <2>3, <3>1, EngineFields, EngineUpdates DEF SetWireGuardShieldsUp
    <3>4. TypeOK'
      BY <2>1, <3>2, <3>3 DEF SetWireGuardShieldsUp, TypeOK
    <3>5. Control'
      BY <2>1, <3>3 DEF SetWireGuardShieldsUp, Control, CfgKnown, Idle
    <3> QED
      BY <3>4, <3>5
  <2> QED
    BY <2>2, <2>3
<1>13. CASE SaveShields
  <2>1. engine' \in Engine \cup {None}
    <3>1. CASE UNCHANGED engine
      BY <3>1 DEF TypeOK
    <3>2. CASE staged # None /\ engine' = [engine EXCEPT !.policy = staged.transition]
      BY <1>a, <1>b, <3>2, StagedType, EngineFields, EngineUpdates DEF Control
    <3> QED
      BY <1>13, <3>1, <3>2 DEF SaveShields
  <2>2. TypeOK'
    BY <1>13, <2>1 DEF SaveShields, Return, TypeOK
  <2>3. Control'
    BY <1>13 DEF SaveShields, Return, Control, CfgKnown, NoProfile
  <2> QED
    BY <2>2, <2>3
<1>14. CASE CommitShields
  <2>1. mem.shields \in BOOLEAN
    BY ProfileFields DEF TypeOK
  <2>2. engine' \in Engine \cup {None}
    BY <1>14, <1>a, <1>b, <2>1, StagedType, EngineFields, EngineUpdates DEF CommitShields, Control, TypeOK
  <2>3. TypeOK'
    BY <1>14, <2>2 DEF CommitShields, Return, TypeOK
  <2>4. Control'
    BY <1>14 DEF CommitShields, Return, Control, CfgKnown, NoProfile
  <2> QED
    BY <2>3, <2>4
<1>15. CASE \E x \in Exits : SetExitNode(x)
  <2> PICK x \in Exits : SetExitNode(x)
    BY <1>15
  <2>1. mem' \in Profile /\ mem'.cfg = mem.cfg /\ mem'.secret = mem.secret
    BY DEF SetExitNode, Begin, TypeOK, Profile
  <2>2. TypeOK'
    BY <2>1 DEF SetExitNode, Begin, TypeOK
  <2>3. Control'
    BY <2>1 DEF SetExitNode, Begin, Idle, Control, CfgKnown
  <2> QED
    BY <2>2, <2>3
<1>16. CASE \E b \in BOOLEAN : SetProfileEnabled(b)
  <2> PICK b \in BOOLEAN : SetProfileEnabled(b)
    BY <1>16
  <2>1. mem' \in Profile /\ mem'.cfg = mem.cfg /\ mem'.secret = mem.secret
    BY DEF SetProfileEnabled, Begin, TypeOK, Profile
  <2>2. TypeOK'
    BY <2>1 DEF SetProfileEnabled, Begin, TypeOK
  <2>3. Control'
    BY <2>1 DEF SetProfileEnabled, Begin, Idle, Control, CfgKnown
  <2> QED
    BY <2>2, <2>3
<1>17. CASE RestartProfile
  <2>1. TypeOK'
    BY <1>17 DEF RestartProfile, Begin, TypeOK
  <2>2. Control'
    BY <1>17 DEF RestartProfile, Begin, Idle, Control, CfgKnown
  <2> QED
    BY <2>1, <2>2
<1>18. CASE \E b \in BOOLEAN : RemoveProfile(b)
  <2> PICK b \in BOOLEAN : RemoveProfile(b)
    BY <1>18
  <2>1. mem' \in Profile /\ mem'.cfg = mem.cfg /\ mem'.secret = mem.secret
    BY DEF RemoveProfile, Begin, TypeOK, Profile
  <2>2. TypeOK'
    BY <2>1 DEF RemoveProfile, Begin, TypeOK
  <2>3. Control'
    BY <2>1 DEF RemoveProfile, Begin, Idle, Control, CfgKnown
  <2> QED
    BY <2>2, <2>3
<1>19. CASE PurgeState
  BY <1>19 DEF PurgeState, TypeOK, Control, CfgKnown
<1>20. CASE ForgetProfile
  <2>1. TypeOK'
    BY <1>20 DEF ForgetProfile, Return, TypeOK
  <2>2. Control'
    BY <1>20 DEF ForgetProfile, Return, Control, CfgKnown, NoProfile
  <2> QED
    BY <2>1, <2>2
<1>21. CASE Update
  BY <1>21 DEF Update, Idle, TypeOK, Control, CfgKnown
<1>22. CASE UNCHANGED vars
  BY <1>22 DEF vars, TypeOK, Control, CfgKnown
<1>23. CASE \E b \in BOOLEAN : AddProfile(b)
  <2> PICK b \in BOOLEAN : AddProfile(b)
    BY <1>23
  <2>1. mem' \in Profile /\ mem'.cfg = mem.cfg /\ mem'.secret = mem.secret
    BY DEF AddProfile, Begin, TypeOK, Profile
  <2>2. TypeOK'
    BY <2>1 DEF AddProfile, Begin, TypeOK
  <2>3. Control'
    BY <2>1 DEF AddProfile, Begin, Idle, Control, CfgKnown
  <2> QED
    BY <2>2, <2>3
<1> QED
  BY <1>1, <1>2, <1>3, <1>4, <1>5, <1>6, <1>7, <1>8, <1>9, <1>10, <1>11, <1>12, <1>13, <1>14,
     <1>15, <1>16, <1>17, <1>18, <1>19, <1>20, <1>21, <1>22, <1>23 DEF Next

\* The daemon starts with the types and the control state.
LEMMA InitType == Init => TypeInv
<1> SUFFICES ASSUME Init PROVE TypeInv
  OBVIOUS
<1>1. TypeOK
  <2>1. purged \in BOOLEAN
    BY Zenon DEF Init
  <2> QED
    BY <2>1, NoProfileType DEF Init, TypeOK
<1>2. Control
  BY DEF Init, Control, CfgKnown, NoProfile
<1> QED
  BY <1>1, <1>2 DEF TypeInv

\* The types hold in every state.
THEOREM TypeCorrect == Spec => []TypeOK
<1>1. TypeInv => TypeOK
  BY DEF TypeInv
<1> QED
  BY <1>1, InitType, NextType, PTL DEF Spec

------------------------------------------------------------------------------
(* Secrets *)

\* SecretsDurable is not inductive: the failing save of an apply removes the new
\* file, which must be no one's, and the step after a successful one removes the
\* old file, which nothing may refer to any more. A purge removes every file of
\* a profile that is removed in memory and on disk, and the profile that is
\* restored after an interrupted purge keeps its mark until the next apply.
SecretInv ==
    /\ mem.life # "none" /\ ~purged => mem.secret \in files
    /\ disk.life # "none" /\ ~purged => disk.secret \in files
    /\ mem.life = "none" => mem.secret = None
    /\ disk.life = "none" => disk.secret = None
    /\ pc = "save" => /\ next.secret \in files
                      /\ next.secret # stale
                      /\ next.secret # mem.secret
                      /\ disk.life # "none" /\ ~purged => next.secret # disk.secret
                      /\ next.life \in {"enabled", "disabled"}
    /\ pc = "clean" => mem = disk /\ mem.secret # stale
    /\ pc = "shields" => next.life = mem.life /\ next.secret = mem.secret
    /\ op = "purge" => pc \in {"prefs", "rest", "purge", "forget"} /\ mem.life = "removed"
    /\ pc \in {"purge", "forget"} => op = "purge" /\ disk.life = "removed"

\* Every step keeps the secrets the profiles refer to.
LEMMA NextSecret == TypeInv /\ SecretInv /\ [Next]_vars => SecretInv'
<1> SUFFICES ASSUME TypeInv, SecretInv, [Next]_vars PROVE SecretInv'
  OBVIOUS
<1> USE WireGuardAssumption
<1>1. CASE Boot
  BY <1>1 DEF Boot, SecretInv
<1>2. CASE Crash
  BY <1>2 DEF Crash, SecretInv
<1>3. CASE StartProfile
  <2>1. pc = "start" /\ pc' \in {"idle", "prefs"} /\ UNCHANGED <<mem, disk, files, purged>> /\ op' \in {op, "other"}
    BY <1>3 DEF StartProfile, Return
  <2> QED
    BY <2>1 DEF SecretInv
<1>4. CASE SetExitNodePreferences
  <2>1. /\ pc = "prefs"
        /\ UNCHANGED <<mem, disk, files, purged>>
        /\ \/ pc' = "rest" /\ op' = op
           \/ pc' = "idle" /\ op' = "other"
    BY <1>4 DEF SetExitNodePreferences, SetExitNodeIP, ReconcileFails, Return
  <2> QED
    BY <2>1 DEF SecretInv
<1>5. CASE Reconcile
  <2>1. /\ pc = "rest"
        /\ UNCHANGED <<mem, files>>
        /\ \/ disk' = mem /\ purged' = (purged /\ mem.life # "none")
           \/ UNCHANGED <<disk, purged>>
        /\ \/ pc' = "idle" /\ op' = "other"
           \/ pc' \in {"commit", "start"} /\ op' = op /\ op # "purge"
           \/ pc' = "prefs" /\ op' = "other"
           \/ pc' = "purge" /\ op' = op /\ op = "purge" /\ disk' = mem
    BY <1>5 DEF Reconcile, Reconciled, ReconcileFails, Return
  <2>2. CASE UNCHANGED <<disk, purged>>
    BY <2>1, <2>2 DEF SecretInv
  <2>3. CASE disk' = mem /\ purged' = (purged /\ mem.life # "none")
    <3>1. mem.life # "none" /\ ~purged' => ~purged
      BY <2>3, Zenon
    <3>2. disk' = mem /\ (mem.life # "none" /\ ~purged' => mem.secret \in files)
      BY <2>3, <3>1 DEF SecretInv
    <3> QED
      BY <2>1, <3>2 DEF SecretInv
  <2> QED
    BY <2>1, <2>2, <2>3
<1>6. CASE \E c \in Configs : ApplyWireGuard(c)
  <2> PICK c \in Configs : ApplyWireGuard(c)
    BY <1>6
  <2>1. PICK f \in SecretFiles \ files :
           /\ files' = files \cup {f}
           /\ next' = [mem EXCEPT !.cfg = c, !.secret = f,
                                 !.life = IF @ \in {"none", "removed"} THEN "enabled" ELSE @]
    BY DEF ApplyWireGuard
  <2>2. next'.secret = f /\ next'.life \in {"enabled", "disabled"}
    BY <2>1 DEF TypeInv, TypeOK, Profile
  <2>3. f # mem.secret
    BY DEF ApplyWireGuard, SecretInv
  <2> QED
    BY <2>1, <2>2, <2>3 DEF ApplyWireGuard, SecretInv
<1>7. CASE SaveDesired
  BY <1>7 DEF SaveDesired, Return, SecretInv
<1>8. CASE CleanSecrets
  BY <1>8 DEF CleanSecrets, Return, SecretInv
<1>9. CASE InstallTransition
  BY <1>9 DEF InstallTransition, SecretInv
<1>10. CASE SetConfig
  <2>1. /\ pc = "uapi"
        /\ UNCHANGED <<mem, disk, files, purged>>
        /\ \/ pc' \in {"prefs", "commit"} /\ op' = op
           \/ pc' = "idle" /\ op' = "other"
    BY <1>10 DEF SetConfig, Return
  <2> QED
    BY <2>1 DEF SecretInv
<1>11. CASE Commit
  BY <1>11 DEF Commit, Return, SecretInv
<1>12. CASE \E b \in ShieldRequests : SetWireGuardShieldsUp(b)
  <2> PICK b \in ShieldRequests : SetWireGuardShieldsUp(b)
    BY <1>12
  <2>1. next'.life = mem.life /\ next'.secret = mem.secret
    BY DEF SetWireGuardShieldsUp, TypeInv, TypeOK, Profile
  <2>2. pc = "idle" /\ pc' = "shields" /\ UNCHANGED <<op, mem, disk, files, purged>>
    BY DEF SetWireGuardShieldsUp, Idle
  <2> QED
    BY <2>1, <2>2 DEF SecretInv
<1>13. CASE SaveShields
  BY <1>13 DEF SaveShields, Return, SecretInv
<1>14. CASE CommitShields
  BY <1>14 DEF CommitShields, Return, SecretInv
<1>15. CASE \E x \in Exits : SetExitNode(x)
  <2>1. mem'.life = mem.life /\ mem'.secret = mem.secret
    BY <1>15 DEF SetExitNode, Begin, TypeInv, TypeOK, Profile
  <2> QED
    BY <1>15, <2>1 DEF SetExitNode, Begin, Idle, SecretInv
<1>16. CASE \E b \in BOOLEAN : SetProfileEnabled(b)
  <2>1. /\ mem.life \in {"enabled", "disabled"}
        /\ mem'.secret = mem.secret
        /\ mem'.life \in {"enabled", "disabled"}
    BY <1>16 DEF SetProfileEnabled, Begin, TypeInv, TypeOK, Profile
  <2> QED
    BY <1>16, <2>1 DEF SetProfileEnabled, Begin, Idle, SecretInv
<1>17. CASE RestartProfile
  BY <1>17 DEF RestartProfile, Begin, Idle, SecretInv
<1>18. CASE \E b \in BOOLEAN : RemoveProfile(b)
  <2>1. mem.life # "none" /\ mem'.life = "removed" /\ mem'.secret = mem.secret
    BY <1>18 DEF RemoveProfile, Begin, TypeInv, TypeOK, Profile
  <2> QED
    BY <1>18, <2>1 DEF RemoveProfile, Begin, Idle, SecretInv
<1>19. CASE PurgeState
  BY <1>19 DEF PurgeState, SecretInv
<1>20. CASE ForgetProfile
  BY <1>20 DEF ForgetProfile, NoProfile, Return, SecretInv
<1>21. CASE Update
  BY <1>21 DEF Update, Idle, SecretInv
<1>22. CASE UNCHANGED vars
  BY <1>22 DEF vars, SecretInv
<1>23. CASE \E b \in BOOLEAN : AddProfile(b)
  <2>1. /\ mem.life = "removed"
        /\ mem'.secret = mem.secret
        /\ mem'.life \in {"enabled", "disabled"}
    BY <1>23 DEF AddProfile, Begin, TypeInv, TypeOK, Profile
  <2> QED
    BY <1>23, <2>1 DEF AddProfile, Begin, Idle, SecretInv
<1> QED
  BY <1>1, <1>2, <1>3, <1>4, <1>5, <1>6, <1>7, <1>8, <1>9, <1>10, <1>11, <1>12, <1>13, <1>14,
     <1>15, <1>16, <1>17, <1>18, <1>19, <1>20, <1>21, <1>22, <1>23 DEF Next

\* Whenever the daemon crashes, and whatever is removed and restored, the secrets file
\* state.json names for a configured profile exists, unless a purge has removed it.
THEOREM SecretsAreDurable == Spec => []SecretsDurable
<1>1. Init => SecretInv
  BY DEF Init, NoProfile, SecretInv
<1>2. SecretInv => SecretsDurable
  BY DEF SecretInv, SecretsDurable
<1> QED
  BY <1>1, <1>2, InitType, NextType, NextSecret, PTL DEF Spec

------------------------------------------------------------------------------
(* Shields-up *)

\* The staged shields update asks for b, and an enabling one is published already.
ShieldsStaged(b) ==
    /\ b => ~engine.policy.open
    /\ staged = None => engine.shields = b
    /\ staged # None => engine.shields # b /\ staged.final.open = ~b /\ staged.filter = b

\* ShieldsDurable is not inductive: no policy an operation may still install (the
\* final policy of an apply, the pending policy of a restricted start, the target
\* of a shields update) may be open while the shields are up.
ShieldInv ==
    /\ mem.shields = disk.shields
    /\ op = "purge" => mem.shields = FALSE
    /\ pc = "save" => next.shields = mem.shields
    /\ pc \in {"save", "clean", "transition", "uapi", "commit"} => op = "apply"
    /\ pc \in {"shields", "publish"} => op # "apply"
    /\ engine # None =>
         /\ disk.shields /\ pc # "publish" => engine.shields
         /\ engine.shields => ~engine.policy.open
         /\ op = "apply" /\ staged # None =>
              ~staged.transition.open /\ (engine.shields => ~staged.final.open)
         /\ op = "apply" /\ staged = None /\ pc \in {"prefs", "rest", "commit"} =>
              (engine.shields /\ engine.pending # None => ~engine.pending.open)
         /\ pc = "shields" => ShieldsStaged(next.shields)
         /\ pc = "publish" => ShieldsStaged(mem.shields)

\* Every step keeps the shields up.
LEMMA NextShield == TypeInv /\ SecretInv /\ ShieldInv /\ [Next]_vars => ShieldInv'
<1> SUFFICES ASSUME TypeInv, SecretInv, ShieldInv, [Next]_vars PROVE ShieldInv'
  OBVIOUS
<1> USE WireGuardAssumption, NoneAssumption
<1>a. engine # None => engine \in Engine
  BY DEF TypeInv, TypeOK
<1>b. staged # None => staged \in Staged /\ engine # None
  BY DEF TypeInv, TypeOK, Control
<1>c. mem.shields \in BOOLEAN /\ next.shields \in BOOLEAN
  BY ProfileFields DEF TypeInv, TypeOK
<1>1. CASE Boot
  <2>1. pc = "idle" /\ staged = None
    BY <1>1 DEF Boot, TypeInv, Control
  <2>2. UNCHANGED <<engine, staged, disk>> /\ mem' = disk /\ op' = "boot" /\ pc' \in {"start", "prefs"}
    BY <1>1 DEF Boot
  <2> QED
    BY <2>1, <2>2 DEF ShieldInv
<1>2. CASE Crash
  BY <1>2 DEF Crash, ShieldInv
<1>3. CASE StartProfile
  <2>1. /\ pc = "start"
        /\ UNCHANGED <<mem, disk>>
        /\ pc' \in {"idle", "prefs"}
        /\ op' \in {op, "other"}
        /\ staged = None /\ staged' = None
    BY <1>3 DEF StartProfile, Return, TypeInv, Control
  <2>2. CASE engine' = None
    BY <2>1, <2>2 DEF ShieldInv, SecretInv
  <2>3. CASE engine' # None
    <3>1. engine' = NewEngine(mem, op = "apply") /\ mem.cfg \in Configs
      BY <1>3, <2>3, ProfileFields DEF StartProfile, TypeInv, TypeOK, Control, CfgKnown
    <3>2. /\ engine'.shields = mem.shields
          /\ engine'.policy.open = ~(op = "apply" \/ mem.shields)
          /\ engine'.pending # None => engine'.pending.open = ~mem.shields
      BY <3>1, <1>c DEF NewEngine, Compile
    <3> QED
      BY <2>1, <3>2 DEF ShieldInv, SecretInv
  <2> QED
    BY <2>2, <2>3
<1>4. CASE SetExitNodePreferences
  <2>1. /\ pc = "prefs"
        /\ UNCHANGED <<mem, disk, files>>
        /\ \/ pc' = "rest" /\ op' = op /\ staged' = staged
           \/ pc' = "idle" /\ op' = "other" /\ staged' = None
    BY <1>4 DEF SetExitNodePreferences, SetExitNodeIP, ReconcileFails, Return
  <2>2. \/ UNCHANGED engine
        \/ /\ engine # None
           /\ engine'.shields = engine.shields
           /\ engine'.pending = engine.pending
           /\ engine'.policy = engine.policy \/ (engine.shields => ~engine'.policy.open)
    BY <1>4, <1>a, ExitNodeEffect DEF SetExitNodePreferences, Running
  <2> QED
    BY <2>1, <2>2 DEF ShieldInv
<1>5. CASE Reconcile
  <2>1. /\ pc = "rest"
        /\ UNCHANGED mem
        /\ disk' \in {mem, disk}
        /\ \/ Return /\ engine' \in {engine, None}
           \/ /\ op \in {"apply", "restart"}
              /\ pc' = IF op = "apply" THEN "commit" ELSE "start"
              /\ UNCHANGED <<op, staged, engine>>
           \/ engine' = None /\ pc' = "prefs" /\ op' = "other"
           \/ engine' = None /\ pc' = "purge" /\ op' = "purge" /\ op = "purge"
    BY <1>5 DEF Reconcile, Reconciled, ReconcileFails
  <2> QED
    BY <2>1 DEF Return, ShieldInv
<1>6. CASE \E c \in Configs : ApplyWireGuard(c)
  <2> PICK c \in Configs : ApplyWireGuard(c)
    BY <1>6
  <2>1. next'.shields = mem.shields
    BY DEF ApplyWireGuard, TypeInv, TypeOK, Profile
  <2>2. engine # None => /\ PrepareApply(c).transition.open = FALSE
                         /\ PrepareApply(c).final.open = ~engine.shields
    BY DEF PrepareApply, Compile
  <2>3. /\ pc = "idle" /\ pc' = "save" /\ op' = "apply"
        /\ UNCHANGED <<mem, disk, engine>>
        /\ staged' = IF engine # None THEN PrepareApply(c) ELSE None
    BY DEF ApplyWireGuard, Idle, Running
  <2> QED
    BY <2>1, <2>2, <2>3 DEF ShieldInv
<1>7. CASE SaveDesired
  BY <1>7 DEF SaveDesired, Return, ShieldInv
<1>8. CASE CleanSecrets
  BY <1>8 DEF CleanSecrets, Return, ShieldInv
<1>9. CASE InstallTransition
  <2>1. engine \in Engine
    BY <1>9, <1>a DEF InstallTransition, TypeInv, Control
  <2>2. /\ engine'.shields = engine.shields
        /\ engine'.pending = engine.pending
        /\ engine'.policy \in {engine.policy, staged.transition}
    BY <1>9, <2>1 DEF InstallTransition, Engine
  <2>3. engine # None /\ staged # None
    BY <1>9 DEF InstallTransition, TypeInv, Control
  <2> QED
    BY <1>9, <2>2, <2>3 DEF InstallTransition, ShieldInv
<1>10. CASE SetConfig
  <2>1. engine \in Engine /\ engine # None /\ staged # None
    BY <1>10, <1>a DEF SetConfig, TypeInv, Control
  <2>2. \/ \E c, x : engine' = [engine EXCEPT !.cfg = c, !.exit = x]
        \/ UNCHANGED engine
    BY <1>10 DEF SetConfig
  <2>3. engine'.shields = engine.shields /\ engine'.policy = engine.policy
    BY <2>1, <2>2 DEF Engine
  <2>4. /\ pc = "uapi"
        /\ UNCHANGED <<mem, disk>>
        /\ \/ pc' \in {"prefs", "commit"} /\ UNCHANGED <<op, staged>>
           \/ pc' = "idle" /\ op' = "other" /\ staged' = None
    BY <1>10 DEF SetConfig, Return
  <2> QED
    BY <2>1, <2>3, <2>4 DEF ShieldInv
<1>11. CASE Commit
  <2>1. engine \in Engine /\ engine # None /\ op = "apply" /\ pc = "commit"
    BY <1>11, <1>a DEF Commit, TypeInv, Control, ShieldInv
  <2>2. \/ UNCHANGED engine
        \/ staged # None /\ engine' = [engine EXCEPT !.policy = staged.final, !.pending = None, !.degraded = FALSE,
                            !.relaxed = FALSE]
        \/ /\ staged = None /\ engine.pending # None
           /\ engine' = [engine EXCEPT !.policy = engine.pending, !.pending = None, !.degraded = FALSE,
                            !.relaxed = FALSE]
    BY <1>11 DEF Commit
  <2>3. /\ engine'.shields = engine.shields
        /\ engine.shields => ~engine'.policy.open
    <3>1. CASE UNCHANGED engine
      BY <2>1, <3>1 DEF ShieldInv
    <3>2. CASE staged # None /\ engine' = [engine EXCEPT !.policy = staged.final, !.pending = None, !.degraded = FALSE,
                            !.relaxed = FALSE]
      <4>1. engine'.policy = staged.final /\ engine'.shields = engine.shields
        BY <2>1, <3>2 DEF Engine
      <4> QED  BY <2>1, <3>2, <4>1 DEF ShieldInv
    <3>3. CASE /\ staged = None /\ engine.pending # None
               /\ engine' = [engine EXCEPT !.policy = engine.pending, !.pending = None, !.degraded = FALSE,
                            !.relaxed = FALSE]
      <4>1. engine'.policy = engine.pending /\ engine'.shields = engine.shields
        BY <2>1, <3>3 DEF Engine
      <4> QED  BY <2>1, <3>3, <4>1 DEF ShieldInv
    <3> QED  BY <2>2, <3>1, <3>2, <3>3
  <2> QED
    BY <1>11, <2>1, <2>3 DEF Commit, Return, ShieldInv
<1>12. CASE \E b \in ShieldRequests : SetWireGuardShieldsUp(b)
  <2> PICK b \in ShieldRequests : SetWireGuardShieldsUp(b)
    BY <1>12
  <2>1. next'.shields = b /\ b \in BOOLEAN
    BY DEF SetWireGuardShieldsUp, TypeInv, TypeOK, Profile
  <2>2. pc = "idle" /\ pc' = "shields" /\ op = "other" /\ UNCHANGED <<op, mem, disk>>
    BY DEF SetWireGuardShieldsUp, Idle, TypeInv, Control
  <2>3. CASE engine = None
    BY <2>1, <2>2, <2>3 DEF SetWireGuardShieldsUp, Running, ShieldInv
  <2>4. CASE engine # None
    <3>1. engine \in Engine /\ engine.shields \in BOOLEAN
      BY <1>a, <2>4, EngineFields
    <3>2. CASE engine.shields = b
      <4>1. UNCHANGED engine /\ staged' = None
        BY <3>2 DEF SetWireGuardShieldsUp
      <4> QED
        BY <2>1, <2>2, <2>4, <3>2, <4>1 DEF ShieldInv, ShieldsStaged
    <3>3. CASE engine.shields # b
      <4> DEFINE target == Compile(engine.cfg, engine.exit, b)
      <4>1. target.open = ~b
        BY <2>1 DEF Compile
      <4>2. /\ staged' = [filter |-> b, transition |-> engine.policy, final |-> target]
            /\ engine' = IF b THEN [engine EXCEPT !.policy = target] ELSE engine
        BY <2>4, <3>3 DEF SetWireGuardShieldsUp, Running
      <4>3. /\ engine'.shields = engine.shields
            /\ b => ~engine'.policy.open
            /\ ~b => engine'.policy = engine.policy
        BY <2>1, <3>1, <4>1, <4>2 DEF Engine
      <4>4. staged'.final.open = ~b /\ staged'.filter = b
        BY <4>1, <4>2
      <4>5. staged' # None
        BY <2>1, <3>1, <4>2, EngineFields, CompileType DEF Staged
      <4> QED
        BY <2>1, <2>2, <2>4, <3>1, <3>3, <4>3, <4>4, <4>5 DEF ShieldInv, ShieldsStaged
    <3> QED
      BY <3>2, <3>3
  <2> QED
    BY <2>3, <2>4
<1>13. CASE SaveShields
  <2>1. CASE /\ disk' = next /\ mem' = next /\ pc' = "publish"
             /\ UNCHANGED <<op, staged, engine>>
    BY <1>13, <2>1 DEF SaveShields, ShieldInv, ShieldsStaged, SecretInv
  <2>2. CASE /\ engine' = IF staged # None /\ staged.filter
                          THEN [engine EXCEPT !.policy = staged.transition] ELSE engine
             /\ Return
             /\ UNCHANGED <<mem, disk>>
    <3>1. pc = "shields"
      BY <1>13 DEF SaveShields
    <3>2. CASE UNCHANGED engine
      BY <2>2, <3>1, <3>2 DEF Return, ShieldInv
    <3>3. CASE staged # None /\ staged.filter /\ engine' = [engine EXCEPT !.policy = staged.transition]
      <4>1. engine'.shields = engine.shields
        BY <1>a, <1>b, <3>3 DEF Engine
      <4>2. engine.shields = FALSE
        BY <1>a, <1>b, <1>c, <3>1, <3>3, EngineFields DEF ShieldInv, ShieldsStaged
      <4> QED
        BY <1>b, <2>2, <3>1, <3>3, <4>1, <4>2 DEF Return, ShieldInv
    <3> QED
      BY <2>2, <3>2, <3>3
  <2> QED
    BY <1>13, <2>1, <2>2 DEF SaveShields
<1>14. CASE CommitShields
  <2>1. pc = "publish" /\ pc' = "idle" /\ op' = "other" /\ UNCHANGED <<mem, disk>>
    BY <1>14 DEF CommitShields, Return
  <2>2. CASE staged = None
    BY <1>14, <2>1, <2>2 DEF CommitShields, ShieldInv, ShieldsStaged
  <2>3. CASE staged # None
    <3>1. engine' = [engine EXCEPT !.policy = staged.final, !.shields = mem.shields, !.relaxed = engine.degraded]
      BY <1>14, <2>3 DEF CommitShields
    <3>2. engine'.shields = mem.shields /\ engine'.policy = staged.final
      BY <1>a, <1>b, <2>3, <3>1 DEF Engine
    <3>3. staged.final.open = ~mem.shields
      BY <1>b, <2>1, <2>3 DEF ShieldInv, ShieldsStaged
    <3> QED
      BY <2>1, <3>2, <3>3 DEF ShieldInv
  <2> QED
    BY <2>2, <2>3
<1>15. CASE \E x \in Exits : SetExitNode(x)
  <2>1. mem'.shields = mem.shields
    BY <1>15 DEF SetExitNode, Begin, TypeInv, TypeOK, Profile
  <2> QED
    BY <1>15, <2>1 DEF SetExitNode, Begin, Idle, ShieldInv
<1>16. CASE \E b \in BOOLEAN : SetProfileEnabled(b)
  <2>1. mem'.shields = mem.shields
    BY <1>16 DEF SetProfileEnabled, Begin, TypeInv, TypeOK, Profile
  <2> QED
    BY <1>16, <2>1 DEF SetProfileEnabled, Begin, Idle, ShieldInv
<1>17. CASE RestartProfile
  BY <1>17 DEF RestartProfile, Begin, Idle, ShieldInv
<1>18. CASE \E b \in BOOLEAN : RemoveProfile(b)
  <2>1. mem'.shields = FALSE
    BY <1>18 DEF RemoveProfile, Begin, TypeInv, TypeOK, Profile
  <2> QED
    BY <1>18, <2>1 DEF RemoveProfile, Begin, Idle, ShieldInv
<1>19. CASE PurgeState
  BY <1>19 DEF PurgeState, ShieldInv, SecretInv
<1>20. CASE ForgetProfile
  <2>1. mem.shields = FALSE /\ disk.shields = FALSE
    BY <1>20 DEF ForgetProfile, ShieldInv, SecretInv
  <2>2. /\ mem'.shields = FALSE
        /\ disk' \in {NoProfile, disk}
        /\ pc = "forget" /\ pc' = "idle" /\ op' = "other"
        /\ UNCHANGED engine
    BY <1>20 DEF ForgetProfile, NoProfile, Return
  <2>3. disk'.shields = FALSE
    BY <2>1, <2>2 DEF NoProfile
  <2> QED
    BY <2>2, <2>3 DEF ShieldInv
<1>21. CASE Update
  BY <1>21 DEF Update, Idle, ShieldInv
<1>22. CASE UNCHANGED vars
  BY <1>22 DEF vars, ShieldInv, ShieldsStaged
<1>23. CASE \E b \in BOOLEAN : AddProfile(b)
  <2>1. mem'.shields = mem.shields
    BY <1>23 DEF AddProfile, Begin, TypeInv, TypeOK, Profile
  <2> QED
    BY <1>23, <2>1 DEF AddProfile, Begin, Idle, ShieldInv
<1> QED
  BY <1>1, <1>2, <1>3, <1>4, <1>5, <1>6, <1>7, <1>8, <1>9, <1>10, <1>11, <1>12, <1>13, <1>14,
     <1>15, <1>16, <1>17, <1>18, <1>19, <1>20, <1>21, <1>22, <1>23 DEF Next

\* While state.json says shields-up, no grant is in force on the running engine.
THEOREM ShieldsAreDurable == Spec => []ShieldsDurable
<1>1. Init => SecretInv /\ ShieldInv
  BY DEF Init, NoProfile, SecretInv, ShieldInv
<1>2. ShieldInv => ShieldsDurable
  BY DEF ShieldInv, ShieldsStaged, ShieldsDurable, Running
<1> QED
  BY <1>1, <1>2, InitType, NextType, NextSecret, NextShield, PTL DEF Spec

\* What state.json says of secrets and shields holds at every moment.
THEOREM SavedStateIsHonoured == Spec => []SavedStateHolds
<1>1. SecretsDurable /\ ShieldsDurable => SavedStateHolds
  BY DEF SavedStateHolds
<1> QED  BY <1>1, SecretsAreDurable, ShieldsAreDurable, PTL

------------------------------------------------------------------------------
(* Applies: restricted, about the configuration in force, and convergent *)

\* A staged apply is about the saved manifest. It leaves the filter alone only when
\* nothing changes; else the engine is degraded from the transition on, closed at
\* the UAPI write, and holds the new configuration after it.
ApplyStaged ==
    LET cfg == IF pc = "save" THEN next.cfg ELSE mem.cfg
    IN /\ staged.transition.cfg = cfg
       /\ staged.final.cfg = cfg
       /\ ~staged.filter => engine.cfg = cfg /\ ~engine.degraded
       /\ pc \in {"uapi", "prefs", "rest", "commit"} /\ staged.filter => engine.degraded
       /\ pc = "uapi" /\ staged.filter => ~engine.policy.open
       /\ pc \in {"prefs", "rest", "commit"} => engine.cfg = cfg

\* The engine an apply has started waits for its own policy.
ApplyStarted ==
    /\ engine.degraded
    /\ engine.cfg = mem.cfg
    /\ engine.pending # None
    /\ engine.pending.cfg = mem.cfg

\* Both policies of a shields update are the engine's.
ShieldsFollow ==
    /\ staged.final.cfg = engine.cfg
    /\ staged.transition.open \/ ~engine.degraded => staged.transition.cfg = engine.cfg
    /\ engine.degraded /\ ~engine.relaxed => ~staged.transition.open

\* OpenMatchesEngine and FailClosed with what an operation may still install.
ApplyInv ==
    /\ op = "apply" /\ pc # "save" => mem.cfg = disk.cfg
    /\ engine # None =>
         /\ engine.policy.open \/ ~engine.degraded => engine.policy.cfg = engine.cfg
         /\ engine.degraded /\ ~engine.relaxed => ~engine.policy.open
         /\ op = "apply" /\ staged # None => ApplyStaged
         /\ op = "apply" /\ staged = None /\ pc \in {"prefs", "rest", "commit"} => ApplyStarted
         /\ pc \in {"shields", "publish"} /\ staged # None => ShieldsFollow

\* Every step keeps the filter, the engine and the saved manifest in step.
LEMMA NextApply == TypeInv /\ ShieldInv /\ ApplyInv /\ [Next]_vars => ApplyInv'
<1> SUFFICES ASSUME TypeInv, ShieldInv, ApplyInv, [Next]_vars PROVE ApplyInv'
  OBVIOUS
<1> USE WireGuardAssumption, NoneAssumption
<1>a. engine # None => engine \in Engine
  BY DEF TypeInv, TypeOK
<1>b. staged # None => staged \in Staged /\ engine # None
  BY DEF TypeInv, TypeOK, Control
<1>1. CASE Boot
  <2>1. pc = "idle" /\ staged = None
    BY <1>1 DEF Boot, TypeInv, Control
  <2>2. UNCHANGED <<engine, staged>> /\ op' = "boot" /\ pc' \in {"start", "prefs"}
    BY <1>1 DEF Boot
  <2> QED
    BY <2>1, <2>2 DEF ApplyInv
<1>2. CASE Crash
  BY <1>2 DEF Crash, ApplyInv
<1>3. CASE StartProfile
  <2>1. pc = "start" /\ staged = None /\ UNCHANGED <<mem, disk>>
    BY <1>3 DEF StartProfile, TypeInv, Control
  <2>2. pc' \in {"idle", "prefs"} /\ op' \in {op, "other"} /\ staged' = None
    BY <1>3, <2>1 DEF StartProfile, Return
  <2>3. CASE engine' = None
    BY <2>1, <2>2, <2>3 DEF ApplyInv
  <2>4. CASE engine' = NewEngine(mem, op = "apply") /\ mem.secret \in files
    <3>1. /\ engine'.cfg = mem.cfg
          /\ engine'.degraded = (op = "apply")
          /\ engine'.policy = Compile(mem.cfg, None, (op = "apply") \/ mem.shields)
          /\ op = "apply" => engine'.pending = Compile(mem.cfg, None, mem.shields)
      BY <2>4 DEF NewEngine
    <3>2. engine'.policy.cfg = mem.cfg /\ (op = "apply" => ~engine'.policy.open)
      <4>1. \A r : Compile(mem.cfg, None, r).cfg = mem.cfg /\ Compile(mem.cfg, None, r).open = ~r
        BY DEF Compile
      <4>2. engine'.policy.cfg = mem.cfg /\ engine'.policy.open = ~(op = "apply" \/ mem.shields)
        BY <3>1, <4>1, Zenon
      <4> QED
        BY <4>2, Zenon
    <3>3. op = "apply" => engine'.pending # None /\ engine'.pending.cfg = mem.cfg
      <4>1. mem.cfg \in Configs
        BY <2>4, ProfileFields DEF TypeInv, TypeOK, Control, CfgKnown
      <4>2. Compile(mem.cfg, None, mem.shields) \in Policy
        BY <4>1, CompileType, ProfileFields, NoProfileType DEF TypeInv, TypeOK
      <4> QED
        BY <3>1, <4>2 DEF Compile
    <3> QED
      BY <2>1, <2>2, <3>1, <3>2, <3>3 DEF ApplyInv, ApplyStarted
  <2> QED
    BY <1>3, <2>3, <2>4 DEF StartProfile
<1>4. CASE SetExitNodePreferences
  <2>1. /\ pc = "prefs" /\ UNCHANGED <<mem, disk>>
        /\ \/ pc' = "rest" /\ UNCHANGED <<op, staged>>
           \/ pc' = "idle" /\ op' = "other" /\ staged' = None
    BY <1>4 DEF SetExitNodePreferences, SetExitNodeIP, ReconcileFails, Return
  <2>2. CASE UNCHANGED engine
    BY <2>1, <2>2 DEF ApplyInv, ApplyStaged, ApplyStarted
  <2>3. CASE engine # None /\ SetExitNodeIP(mem.exit)
    <3>1. engine.degraded \in BOOLEAN /\ engine.shields \in BOOLEAN
      BY <2>3, <1>a, EngineFields
    <3>2. \/ UNCHANGED engine
          \/ /\ engine'.cfg = engine.cfg
             /\ engine'.pending = engine.pending
             /\ engine'.degraded = engine.degraded
             /\ engine'.policy.open \/ ~engine'.degraded => engine'.policy.cfg = engine.cfg
             /\ engine'.degraded /\ ~engine'.relaxed => ~engine'.policy.open
      BY <2>3, <1>a, <3>1, ExitNodeEffect DEF ApplyInv
    <3> QED
      BY <2>1, <2>2, <2>3, <3>2 DEF ApplyInv, ApplyStaged, ApplyStarted
  <2> QED
    BY <1>4, <2>2, <2>3 DEF SetExitNodePreferences, Running
<1>5. CASE Reconcile
  <2>1. /\ pc = "rest" /\ UNCHANGED mem
        /\ disk' \in {mem, disk}
        /\ \/ pc' = "idle" /\ op' = "other" /\ staged' = None /\ engine' \in {engine, None}
           \/ /\ op \in {"apply", "restart"}
              /\ pc' = IF op = "apply" THEN "commit" ELSE "start"
              /\ UNCHANGED <<op, staged, engine>>
           \/ engine' = None /\ pc' = "prefs" /\ op' = "other"
           \/ engine' = None /\ pc' = "purge" /\ op' = "purge"
    BY <1>5 DEF Reconcile, Reconciled, ReconcileFails, Return
  <2> QED
    BY <2>1 DEF ApplyInv, ApplyStaged, ApplyStarted
<1>6. CASE \E c \in Configs : ApplyWireGuard(c)
  <2> PICK c \in Configs : ApplyWireGuard(c)
    BY <1>6
  <2>1. /\ pc = "idle" /\ pc' = "save" /\ op' = "apply"
        /\ UNCHANGED <<mem, disk, engine>>
        /\ staged' = IF engine # None THEN PrepareApply(c) ELSE None
    BY DEF ApplyWireGuard, Idle, Running
  <2>2. next'.cfg = c
    BY DEF ApplyWireGuard, TypeInv, TypeOK, Profile
  <2>3. /\ PrepareApply(c).transition.cfg = c
        /\ PrepareApply(c).final.cfg = c
        /\ ~PrepareApply(c).filter => c = engine.cfg /\ ~engine.degraded
    BY DEF PrepareApply, Compile
  <2> QED
    BY <2>1, <2>2, <2>3 DEF ApplyInv, ApplyStaged
<1>7. CASE SaveDesired
  <2>1. CASE pc' = "clean"
    <3>1. /\ pc = "save" /\ disk' = next /\ mem' = next
          /\ UNCHANGED <<op, staged, engine>>
      BY <1>7, <2>1 DEF SaveDesired, Return
    <3> QED
      BY <2>1, <3>1 DEF ApplyInv, ApplyStaged
  <2>2. CASE Return
    BY <1>7, <2>2 DEF SaveDesired, Return, ApplyInv
  <2> QED
    BY <1>7, <2>1, <2>2 DEF SaveDesired
<1>8. CASE CleanSecrets
  <2>1. /\ pc = "clean" /\ UNCHANGED <<mem, disk, engine>>
        /\ \/ pc' = "idle" /\ op' = "other" /\ staged' = None
           \/ /\ pc' = IF staged # None THEN "transition" ELSE "start"
              /\ UNCHANGED <<op, staged>>
    BY <1>8 DEF CleanSecrets, Return
  <2> QED
    BY <2>1 DEF ApplyInv, ApplyStaged
<1>9. CASE InstallTransition
  <2>1. /\ engine \in Engine /\ engine # None /\ staged # None /\ op = "apply"
        /\ ~staged.transition.open
    BY <1>9, <1>a DEF InstallTransition, TypeInv, Control, ShieldInv
  <2>2. pc = "transition" /\ pc' = "uapi" /\ UNCHANGED <<op, mem, disk, staged>>
    BY <1>9 DEF InstallTransition
  <2>3. CASE staged.filter
    <3>1. /\ engine'.policy = staged.transition
          /\ engine'.degraded = TRUE
          /\ engine'.cfg = engine.cfg
      BY <1>9, <2>1, <2>3 DEF InstallTransition, Engine
    <3> QED
      BY <2>1, <2>2, <2>3, <3>1 DEF ApplyInv, ApplyStaged
  <2>4. CASE ~staged.filter
    <3>1. UNCHANGED engine
      BY <1>9, <2>4 DEF InstallTransition
    <3> QED
      BY <2>1, <2>2, <2>4, <3>1 DEF ApplyInv, ApplyStaged
  <2> QED
    BY <2>3, <2>4
<1>10. CASE SetConfig
  <2>1. engine \in Engine /\ engine # None /\ staged # None /\ op = "apply" /\ pc = "uapi"
    BY <1>10, <1>a DEF SetConfig, TypeInv, Control, ShieldInv
  <2>2. UNCHANGED <<mem, disk>>
    BY <1>10 DEF SetConfig
  <2>3. CASE pc' \in {"prefs", "commit"} /\ UNCHANGED <<op, staged>>
             /\ \E x : engine' = [engine EXCEPT !.cfg = staged.transition.cfg, !.exit = x]
    <3>1. /\ engine'.cfg = staged.transition.cfg
          /\ engine'.policy = engine.policy
          /\ engine'.degraded = engine.degraded
          /\ engine'.relaxed = engine.relaxed
      BY <2>1, <2>3 DEF Engine
    <3> QED
      BY <2>1, <2>2, <2>3, <3>1 DEF ApplyInv, ApplyStaged
  <2>4. CASE Return /\ UNCHANGED engine
    BY <2>1, <2>4 DEF Return, ApplyInv
  <2> QED
    BY <1>10, <2>3, <2>4 DEF SetConfig
<1>11. CASE Commit
  <2>1. engine \in Engine /\ engine # None /\ op = "apply" /\ pc = "commit"
    BY <1>11, <1>a DEF Commit, TypeInv, Control, ShieldInv
  <2>2. pc' = "idle" /\ op' = "other" /\ staged' = None
    BY <1>11 DEF Commit, Return
  <2>3. CASE UNCHANGED engine
    BY <2>1, <2>2, <2>3 DEF ApplyInv
  <2>4. ASSUME NEW p, p.cfg = engine.cfg,
               engine' = [engine EXCEPT !.policy = p, !.pending = None, !.degraded = FALSE, !.relaxed = FALSE]
        PROVE  ApplyInv'
    <3>1. engine'.policy = p /\ engine'.degraded = FALSE /\ engine'.cfg = engine.cfg
      BY <2>1, <2>4 DEF Engine
    <3> QED
      BY <2>2, <2>4, <3>1 DEF ApplyInv
  <2>5. staged # None => staged.final.cfg = engine.cfg
    BY <2>1 DEF ApplyInv, ApplyStaged
  <2>6. staged = None => engine.pending.cfg = engine.cfg
    BY <2>1 DEF ApplyInv, ApplyStarted
  <2> QED
    BY <1>11, <2>3, <2>4, <2>5, <2>6 DEF Commit
<1>12. CASE \E b \in ShieldRequests : SetWireGuardShieldsUp(b)
  <2> PICK b \in ShieldRequests : SetWireGuardShieldsUp(b)
    BY <1>12
  <2>1. pc = "idle" /\ op = "other" /\ UNCHANGED op /\ pc' = "shields"
    BY DEF SetWireGuardShieldsUp, Idle, TypeInv, Control
  <2>2. CASE engine = None \/ engine.shields = b
    <3>1. UNCHANGED engine /\ staged' = None
      BY <2>2 DEF SetWireGuardShieldsUp, Running
    <3> QED
      BY <2>1, <3>1 DEF ApplyInv
  <2>3. CASE engine # None /\ engine.shields # b
    <3> DEFINE target == Compile(engine.cfg, engine.exit, b)
    <3>1. /\ staged' = [filter |-> b, transition |-> engine.policy, final |-> target]
          /\ engine' = IF b THEN [engine EXCEPT !.policy = target] ELSE engine
      BY <2>3 DEF SetWireGuardShieldsUp, Running
    <3>2. target.cfg = engine.cfg /\ (b => ~target.open)
      BY DEF Compile
    <3>3. /\ engine'.cfg = engine.cfg
          /\ engine'.degraded = engine.degraded
          /\ engine'.relaxed = engine.relaxed
          /\ engine'.policy = IF b THEN target ELSE engine.policy
      BY <1>a, <2>3, <3>1 DEF Engine
    <3>4. staged'.final = target /\ staged'.transition = engine.policy
      BY <3>1
    <3> HIDE DEF target
    <3> QED
      BY <2>1, <2>3, <3>2, <3>3, <3>4 DEF ApplyInv, ShieldsFollow
  <2> QED
    BY <2>2, <2>3
<1>13. CASE SaveShields
  <2>1. op # "apply" /\ pc = "shields"
    BY <1>13 DEF SaveShields, ShieldInv
  <2>2. CASE pc' = "publish" /\ UNCHANGED <<op, staged, engine>>
    BY <2>1, <2>2 DEF ApplyInv, ShieldsFollow
  <2>3. CASE Return /\ UNCHANGED engine
    BY <2>3 DEF Return, ApplyInv
  <2>4. CASE Return /\ staged # None /\ engine' = [engine EXCEPT !.policy = staged.transition]
    <3>1. /\ engine'.cfg = engine.cfg
          /\ engine'.degraded = engine.degraded
          /\ engine'.relaxed = engine.relaxed
          /\ engine'.policy = staged.transition
      BY <1>a, <1>b, <2>4 DEF Engine
    <3> QED
      BY <1>b, <2>1, <2>4, <3>1 DEF Return, ApplyInv, ShieldsFollow
  <2> QED
    BY <1>13, <2>2, <2>3, <2>4 DEF SaveShields
<1>14. CASE CommitShields
  <2>1. pc = "publish" /\ Return
    BY <1>14 DEF CommitShields
  <2>2. CASE staged = None
    BY <1>14, <2>1, <2>2 DEF CommitShields, Return, ApplyInv
  <2>3. CASE staged # None
    <3>1. /\ engine'.cfg = engine.cfg
          /\ engine'.degraded = engine.degraded
          /\ engine'.relaxed = engine.degraded
          /\ engine'.policy = staged.final
      BY <1>14, <1>a, <1>b, <2>3 DEF CommitShields, Engine
    <3> QED
      BY <1>b, <2>1, <2>3, <3>1 DEF Return, ApplyInv, ShieldsFollow
  <2> QED
    BY <2>2, <2>3
<1>15. CASE \E x \in Exits : SetExitNode(x)
  <2>1. UNCHANGED engine /\ pc' = "prefs" /\ op' = "other"
    BY <1>15 DEF SetExitNode, Begin
  <2> QED
    BY <2>1 DEF ApplyInv
<1>16. CASE \E b \in BOOLEAN : SetProfileEnabled(b)
  <2>1. UNCHANGED engine /\ pc' \in {"start", "prefs"} /\ op' # "apply"
    BY <1>16 DEF SetProfileEnabled, Begin
  <2> QED
    BY <2>1 DEF ApplyInv
<1>17. CASE RestartProfile
  BY <1>17 DEF RestartProfile, Begin, ApplyInv
<1>18. CASE \E b \in BOOLEAN : RemoveProfile(b)
  <2>1. UNCHANGED engine /\ pc' = "prefs" /\ op' # "apply"
    BY <1>18 DEF RemoveProfile, Begin
  <2> QED
    BY <2>1 DEF ApplyInv
<1>19. CASE PurgeState
  BY <1>19 DEF PurgeState, ApplyInv, ApplyStaged
<1>20. CASE ForgetProfile
  <2>1. UNCHANGED engine /\ pc' = "idle" /\ op' = "other"
    BY <1>20 DEF ForgetProfile, Return
  <2> QED
    BY <2>1 DEF ApplyInv
<1>21. CASE Update
  BY <1>21 DEF Update, ApplyInv
<1>22. CASE UNCHANGED vars
  BY <1>22 DEF vars, ApplyInv, ApplyStaged, ApplyStarted, ShieldsFollow
<1>23. CASE \E b \in BOOLEAN : AddProfile(b)
  <2>1. UNCHANGED engine /\ pc' \in {"start", "prefs"} /\ op' = "other"
    BY <1>23 DEF AddProfile, Begin
  <2> QED
    BY <2>1 DEF ApplyInv
<1> QED
  BY <1>1, <1>2, <1>3, <1>4, <1>5, <1>6, <1>7, <1>8, <1>9, <1>10, <1>11, <1>12, <1>13, <1>14,
     <1>15, <1>16, <1>17, <1>18, <1>19, <1>20, <1>21, <1>22, <1>23 DEF Next

\* The four invariants together.
LEMMA ApplyInvariance == Spec => [](TypeInv /\ SecretInv /\ ShieldInv /\ ApplyInv)
<1>1. Init => SecretInv /\ ShieldInv /\ ApplyInv
  BY DEF Init, NoProfile, SecretInv, ShieldInv, ApplyInv
<1> QED
  BY <1>1, InitType, NextType, NextSecret, NextShield, NextApply, PTL DEF Spec

\* Grants are in force only for the configuration the engine holds, whatever write,
\* save or reconciliation fails and wherever the daemon crashes (PrepareApply,
\* SetExitNodeIP, PrepareShieldsUp).
THEOREM GrantsMatchEngine == Spec => []OpenMatchesEngine
<1>1. ApplyInv => OpenMatchesEngine
  BY DEF ApplyInv, OpenMatchesEngine, Running
<1> QED
  BY <1>1, ApplyInvariance, PTL

\* An apply is restricted until it has committed, and one that failed stays so until
\* a later apply or restart; only a change of exit node or shields lifts this.
THEOREM AppliesStayRestricted == Spec => []ApplyStaysRestricted
<1>1. ApplyInv => FailClosed
  BY DEF ApplyInv, FailClosed, Running
<1>2. TypeInv /\ ApplyInv => RestrictedUntilReconciled
  <2> SUFFICES ASSUME TypeInv, ApplyInv, engine # None, ~engine.relaxed, op = "apply",
                      pc \in {"uapi", "prefs", "rest"}, staged # None => staged.filter
               PROVE  ~engine.policy.open
    BY DEF RestrictedUntilReconciled, Running
  <2>1. staged = None => pc \in {"prefs", "rest"}
    BY DEF TypeInv, Control
  <2>2. engine.degraded
    BY <2>1 DEF ApplyInv, ApplyStaged, ApplyStarted
  <2> QED
    BY <2>2 DEF ApplyInv
<1>3. FailClosed /\ RestrictedUntilReconciled => ApplyStaysRestricted
  BY DEF ApplyStaysRestricted
<1> QED
  BY <1>1, <1>2, <1>3, ApplyInvariance, PTL

\* An apply that ends with an engine that is not degraded leaves engine and filter
\* with the manifest in state.json, also after applies that failed part of the way
\* (Apply, Commit, CommitStartPolicy).
THEOREM AppliesConverge == Spec => AppliedConverges
<1>1. TypeInv /\ ShieldInv /\ ApplyInv /\ [Next]_vars
        => [pc = "commit" /\ engine' # None /\ ~engine'.degraded
              => engine'.cfg = disk.cfg /\ engine'.policy.cfg = disk.cfg]_vars
  <2> SUFFICES ASSUME TypeInv, ShieldInv, ApplyInv, Next, pc = "commit", engine' # None, ~engine'.degraded
               PROVE  engine'.cfg = disk.cfg /\ engine'.policy.cfg = disk.cfg
    OBVIOUS
  <2>1. /\ engine \in Engine /\ engine # None /\ op = "apply" /\ mem.cfg = disk.cfg
        /\ staged # None => staged \in Staged
    BY DEF TypeInv, TypeOK, Control, ShieldInv, ApplyInv
  <2>2. Commit
    BY DEF Next, Boot, Crash, StartProfile, SetExitNodePreferences, Reconcile, ApplyWireGuard, Idle,
           SaveDesired, CleanSecrets, InstallTransition, SetConfig, SetWireGuardShieldsUp, SaveShields,
           CommitShields, SetExitNode, AddProfile, SetProfileEnabled, RestartProfile, RemoveProfile, Begin,
           PurgeState, ForgetProfile, Update, TypeInv, Control
  <2>3. CASE UNCHANGED engine
    <3>1. staged # None /\ ~staged.filter
      BY <2>1, <2>3 DEF ApplyInv, ApplyStaged, ApplyStarted
    <3> QED
      BY <2>1, <2>3, <3>1 DEF ApplyInv, ApplyStaged
  <2>4. ASSUME NEW p, p.cfg = disk.cfg, engine.cfg = disk.cfg,
               engine' = [engine EXCEPT !.policy = p, !.pending = None, !.degraded = FALSE, !.relaxed = FALSE]
        PROVE  engine'.cfg = disk.cfg /\ engine'.policy.cfg = disk.cfg
    BY <2>1, <2>4 DEF Engine
  <2>5. staged # None => staged.final.cfg = disk.cfg /\ engine.cfg = disk.cfg
    BY <2>1 DEF ApplyInv, ApplyStaged
  <2>6. staged = None => engine.pending.cfg = disk.cfg /\ engine.cfg = disk.cfg
    BY <2>1 DEF ApplyInv, ApplyStarted
  <2> QED
    BY <2>2, <2>3, <2>4, <2>5, <2>6 DEF Commit
<1> QED
  BY <1>1, ApplyInvariance, PTL DEF Spec, AppliedConverges

=============================================================================
