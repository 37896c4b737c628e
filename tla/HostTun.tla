------------------------------- MODULE HostTun -------------------------------
(***************************************************************************)
(* What the Host interface of src/hosttun promises, whatever the system    *)
(* beneath it: calls are served one at a time, Configure answers "ok" only *)
(* while the host carries exactly the configuration that was asked for,    *)
(* and a closed host stays closed.  LinuxTun and DarwinTun implement it.   *)
(***************************************************************************)
CONSTANT Configs      \* the configurations Configure may be called with

VARIABLES phase,      \* "idle", "configuring", "closing" or "closed"
          want,       \* the configuration of the latest accepted call
          carries,    \* the host carries want and nothing else
          answer      \* what the latest finished Configure returned

hostVars == <<phase, want, carries, answer>>

HostInit ==
    /\ phase = "idle"
    /\ want \in Configs
    /\ carries \in BOOLEAN
    /\ answer = "none"

\* Configure is called and accepted.
Begin ==
    /\ phase = "idle"
    /\ phase' = "configuring"
    /\ want' \in Configs
    /\ answer' = "none"
    /\ carries' \in BOOLEAN

\* Configure fails at once: the configuration is unsound, the host cannot be
\* read, or it is closed.  Nothing is touched.
Refuse ==
    /\ phase \in {"idle", "closed"}
    /\ \/ answer' = "rejected"
       \/ phase = "idle" /\ answer' = "error"
       \/ phase = "closed" /\ answer' = "closed"
    /\ UNCHANGED <<phase, want, carries>>

\* Configure answers; it is right when it says that it succeeded.
Answer ==
    /\ phase = "configuring"
    /\ phase' = "idle"
    /\ \/ answer' = "ok" /\ carries /\ carries'
       \/ answer' = "error" /\ carries' \in BOOLEAN
    /\ UNCHANGED want

\* The host changes: under a running call, or by somebody else's hand.
Change ==
    /\ carries' \in BOOLEAN
    /\ UNCHANGED <<phase, want, answer>>

\* Close waits for the running call, and nothing follows it.
Close ==
    /\ \/ phase = "idle" /\ phase' = "closing"
       \/ phase = "closing" /\ phase' = "closed"
    /\ carries' \in BOOLEAN
    /\ UNCHANGED <<want, answer>>

\* The process dies and a new one opens a fresh interface.
Restart ==
    /\ phase' = "idle"
    /\ answer' = "none"
    /\ carries' \in BOOLEAN
    /\ UNCHANGED want

HostNext == Begin \/ Refuse \/ Answer \/ Change \/ Close \/ Restart

HostSpec == HostInit /\ [][HostNext]_hostVars
=============================================================================
