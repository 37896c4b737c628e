------------------------------- MODULE MCDNS --------------------------------
(***************************************************************************)
(* The DNS machines of the daemon, which share no state: the policy with   *)
(* the resolver it configures, one forwarder, and the service with its     *)
(* packet loops.  A behaviour is one of one of them (part); their product  *)
(* would show nothing more.                                                *)
(***************************************************************************)
EXTENDS DNSPolicy, Forwarder, DNSService, TLC

VARIABLE part

----------------------------------------------------------------------------
(* Two profiles, nested and shared suffixes, a name that both know.        *)

CONSTANTS work, home, r1, r2

corp == <<"corp">>
lab == <<"corp", "lab">>
ts == <<"ts", "net">>
pi == <<"ts", "net", "pi">>
www == <<"org", "www">>
under == <<"org", "www", "api">>

MCDomains == {Root, corp, lab, ts, pi}
MCNames == {<<"corp", "db">>, <<"corp", "lab", "pc">>, pi, www, under}

Split(d, r) == [dom |-> d, source |-> "split-dns", res |-> {r}]
Status(suffix, routes, names, exit) == [suffix |-> suffix, routes |-> routes, names |-> names, exit |-> exit]

MCReports ==
    work :> {Status(ts, <<Split(corp, r1)>>, {pi, www}, FALSE),
             Status(ts, <<>>, {pi}, TRUE)}
    @@ home :> {Status(None, <<Split(corp, r2), Split(lab, r2)>>, {}, FALSE),
                Status(ts, <<Split(lab, r2), [dom |-> Root, source |-> "default", res |-> {r2}]>>, {pi, www}, FALSE)}

NoDoms == [d \in {} |-> None]
Patch(accept, refuse, unbind, bind, replace) ==
    [accept |-> accept, refuse |-> refuse, unbind |-> unbind, bind |-> bind, replace |-> replace]

MCRequests ==
    {Patch({home}, {}, NoDoms, corp :> work, FALSE),
     Patch({work}, {}, corp :> work, lab :> home, FALSE),
     Patch({}, {home}, NoDoms, corp :> home @@ Root :> home, TRUE),
     Patch({home}, {work}, corp :> None, ts :> home @@ pi :> work, TRUE)}
MCSearchSets == {{lab, ts}}

----------------------------------------------------------------------------
allVars == <<part, vars, fwdVars, svcVars>>

DNSInit ==
    /\ part \in {"policy", "forwarder", "service"}
    /\ Init /\ FwdInit /\ SvcInit
    /\ part # "forwarder" => kind = "legacy"

DNSNext ==
    /\ UNCHANGED part
    /\ \/ part = "policy" /\ Next /\ UNCHANGED <<fwdVars, svcVars>>
       \/ part = "forwarder" /\ FwdNext /\ UNCHANGED <<vars, svcVars>>
       \/ part = "service" /\ SvcNext /\ UNCHANGED <<vars, fwdVars>>

DNSSpec == DNSInit /\ [][DNSNext]_allVars /\ FwdFairness /\ SvcFairness

\* What is shut down ends: a retired forwarder and a service that is closed, whatever
\* clients, resolvers and the multiplexer do (Forwarder, DNSService).
ShutdownsEnd == RetiredEnds /\ CloseReturns
=============================================================================
