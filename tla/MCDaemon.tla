------------------------------ MODULE MCDaemon ------------------------------
(***************************************************************************)
(* The daemon's own life: self-update ("update") and the supervisor        *)
(* ("supervisor").  They share state.json and the process, of which each   *)
(* module has what concerns it, and nothing else: a behaviour is one of    *)
(* one of them (part) and the other stays as it began.                     *)
(***************************************************************************)
EXTENDS SelfUpdate, Supervisor, TLC

CONSTANTS Parts,                                      \* the parts a run is about
          work, home

VARIABLE part

ProfileSymmetry == Permutations({work, home})

DaemonInit ==
    /\ part \in Parts
    /\ Init
    /\ SupInit
    /\ part = "update" => \A p \in Profiles : life[p] = "absent"

DaemonNext ==
    /\ UNCHANGED part
    /\ \/ part = "update" /\ Next /\ UNCHANGED supVars
       \/ part = "supervisor" /\ SupNext /\ UNCHANGED vars

DaemonSpec == DaemonInit /\ [][DaemonNext]_<<part, vars, supVars>>

\* SupFairness, asked of its own behaviours.
SupervisorSpec ==
    /\ DaemonSpec
    /\ WF_supVars(part = "supervisor" /\ Advance)
    /\ WF_supVars(part = "supervisor" /\ Run)
    /\ \A p \in Profiles : WF_supVars(part = "supervisor" /\ (Notify(p) \/ ReportError(p)))
    /\ SF_supVars(part = "supervisor" /\ HandleUpdate)
=============================================================================
