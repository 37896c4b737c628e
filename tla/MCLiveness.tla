----------------------------- MODULE MCLiveness -----------------------------
(***************************************************************************)
(* What has to happen in the end: the multiplexer ("mux") ends its stops   *)
(* and gets its packets off its hands, the supervisor ("supervisor")       *)
(* publishes every change its watchers report, and updates ("update")      *)
(* arrive.  A behaviour is one of one of them (part) and the others stay   *)
(* as they began.                                                          *)
(***************************************************************************)
EXTENDS TunMux, TLC

CONSTANTS work, home, t1, t2, b1, b2, SupProfiles, Requests, Faults, MaxChanges,
          MaxVersion, MaxRequests, MaxFaults

VARIABLES part,
    proc, life, down, runtimes, ver, obs, supMapper, host, dns, supErr, todo, op, reply, queue,
    watching, bus, failing, slipped,
    latest, up, exe, mem, disk, current, versions, stage, loop, wake, mu, pc, target, old, outcome,
    restart, failed, faults, requests

Sup == INSTANCE Supervisor WITH Profiles <- SupProfiles, mapper <- supMapper, err <- supErr

Upd == INSTANCE SelfUpdate

supVars == <<proc, life, down, runtimes, ver, obs, supMapper, host, dns, supErr, todo, op, reply,
             queue, watching, bus, failing, slipped>>

updVars == <<latest, up, exe, mem, disk, current, versions, stage, loop, wake, mu, pc, target, old,
             outcome, restart, failed, faults, requests>>

LiveInit ==
    /\ part \in {"mux", "supervisor", "update"}
    /\ Init
    /\ Sup!SupInit /\ (part # "supervisor" => \A p \in SupProfiles : life[p] = "absent")
    /\ Upd!Init

LiveNext ==
    /\ UNCHANGED part
    /\ \/ part = "mux" /\ Next /\ UNCHANGED <<supVars, updVars>>
       \/ part = "supervisor" /\ Sup!SupNext /\ UNCHANGED <<vars, updVars>>
       \/ part = "update" /\ Upd!Next /\ UNCHANGED <<vars, supVars>>

\* SupFairness and SelfUpdate's Fairness, asked of their own behaviours.
SupervisorFairness ==
    /\ WF_supVars(part = "supervisor" /\ Sup!Advance)
    /\ WF_supVars(part = "supervisor" /\ Sup!Run)
    /\ \A p \in SupProfiles : WF_supVars(part = "supervisor" /\ (Sup!Notify(p) \/ Sup!ReportError(p)))
    /\ SF_supVars(part = "supervisor" /\ Sup!HandleUpdate)

UpdateFairness ==
    /\ WF_updVars(part = "update" /\ Upd!Boot)
    /\ WF_updVars(part = "update" /\ Upd!Restart)
    /\ WF_updVars(part = "update" /\ Upd!CheckEnabled)
    /\ WF_updVars(part = "update" /\ Upd!Woken)
    /\ WF_updVars(part = "update" /\ Upd!TimerFires)
    /\ WF_updVars(part = "update" /\ Upd!ApplyUpdate("loop"))
    /\ WF_updVars(part = "update" /\ (Upd!Check \/ Upd!Apply \/ Upd!Stage \/ Upd!Publish
                                     \/ Upd!Switch \/ Upd!Report))

LiveSpec ==
    /\ LiveInit
    /\ [][LiveNext]_<<part, vars, supVars, updVars>>
    /\ Fairness
    /\ SupervisorFairness
    /\ UpdateFairness

\* A status change that is behind is published in the end, although the queue of
\* updates drops notifications when it is full (Run, the watchers' callback).
ChangesArePublished == Sup!ChangesArePublished

\* An enabled daemon ends up with the latest release, however its attempts and
\* restarts have failed, as long as no save fails (runUpdateLoop).
UpdatesArrive == part = "update" => Upd!UpdatesArrive
=============================================================================
