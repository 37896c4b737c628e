---------------------------- MODULE HostSystems ------------------------------
(***************************************************************************)
(* The host TUN on the two systems that have one: the machine (os) runs    *)
(* src/hosttun/hosttun_linux.go or hosttun_darwin.go, and both implement   *)
(* the Host interface of hosttun.go.                                       *)
(***************************************************************************)
EXTENDS HostConfig

CONSTANTS Gateways, NoGateway

VARIABLE os

Linux == INSTANCE LinuxTun
Darwin == INSTANCE DarwinTun

----------------------------------------------------------------------------
HostInit ==
    \/ os = "linux" /\ Linux!Init
    \/ os = "darwin" /\ Darwin!Init

HostNext ==
    /\ UNCHANGED os
    /\ \/ os = "linux" /\ Linux!Next
       \/ os = "darwin" /\ Darwin!Next

HostSpec == HostInit /\ [][HostNext]_<<vars, os>>

Interface == INSTANCE HostTun WITH
    Configs <- {Normalized(cfg) : cfg \in Configs} \cup {[addrs |-> {}, routes |-> {}]},
    phase <- Phase,
    want <- asked,
    carries <- IF os = "linux" THEN Linux!Carries ELSE Darwin!Carries

\* hosttun.go's Host interface, implemented by both systems: Configure and Close
\* take their turns, Configure answers "ok" only while the host carries the
\* configuration and nothing else, and a closed host stays closed.
ImplementsHost == Interface!HostSpec

\* Traffic keeps its path while the host is reconfigured. Linux: no gap opens through
\* which packets to a destination that stays wanted would take another way (the order
\* of Configure's loops, see LinuxTun). macOS: an exit route is never installed without
\* the scoped defaults that keep the daemon's own sockets on the physical network (see
\* DarwinTun).
TrafficKeepsItsPath == IF os = "linux" THEN Linux!NoGap ELSE Darwin!ExitKeepsUnderlay

\* A Configure that nothing disturbs succeeds, whatever failed calls, crashes and
\* others left behind (readInstalledState and the macOS records, see LinuxTun and
\* DarwinTun).
CleanSucceeds == IF os = "linux" THEN Linux!CleanSucceeds ELSE Darwin!CleanSucceeds

\* Close leaves nothing behind that outlives the interface, also when it must
\* rely on what the calls before it remembered (see LinuxTun and DarwinTun).
NothingLeft == IF os = "linux" THEN Linux!NothingLeft ELSE Darwin!NothingLeft
=============================================================================
