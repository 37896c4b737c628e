------------------------------ MODULE DNSService ------------------------------
(***************************************************************************)
(* The aggregate DNS service: StartService and Close of dns/service_os.go, *)
(* the search-domain file of dns/service_darwin.go, and the packet service *)
(* of dns/packet_service.go: a network stack of its own whose packets come *)
(* from and go to the multiplexer.  Loops (the packet pump, one reader per *)
(* UDP endpoint, the TCP acceptor) are counted by wg, sessions by another  *)
(* WaitGroup.  The Tailscale manager, its OS configurator and gVisor are   *)
(* external.                                                               *)
(***************************************************************************)
EXTENDS Naturals, FiniteSets, Sequences

CONSTANTS Endpoints,    \* UDP endpoints: the resolver address and the service IP
          Datagrams,    \* UDP queries
          Streams,        \* TCP connections
          QueueSize,    \* dnsQueueSize, of the link and of the outbound channel
          MaxSets       \* bound on ConfigureFull

ASSUME DNSServiceAssumption ==
    /\ IsFiniteSet(Endpoints) /\ IsFiniteSet(Datagrams) /\ IsFiniteSet(Streams)
    /\ Datagrams \cap Streams = {}
    /\ {"read", "end"} \cap (Datagrams \cup Streams) = {}
    /\ "tcp" \notin Endpoints
    /\ QueueSize \in Nat \ {0}
    /\ MaxSets \in Nat

VARIABLES
    stage,      \* how far StartService or Close has come
    held,       \* the resources that are open
    undo,       \* what a failed StartService, or Close, has still to close, in order
    osDNS,      \* what the OS configurator was given last: "none", "split" or "global"
    file,       \* does the search-domain file exist?
    cancelled,  \* s.ctx
    broken,     \* history: a loop failed by itself
    err,        \* s.err is set
    pump,       \* "read", "send" or "end"
    loop,       \* of each endpoint and of "tcp": "read", "end", or the client just read
    session,    \* of each datagram and connection
    conns,      \* s.connections
    link,       \* packets of the stack that the pump has not read
    outbound,   \* packets the multiplexer has not read
    muxClosed,  \* history: the outbound channel is closed
    late,       \* history: a session was started after sessions.Wait had returned
    sets        \* bound

os == <<held, undo, osDNS, file>>
loops == <<pump, loop, session, conns, link, outbound, muxClosed, late>>
svcVars == <<stage, os, cancelled, broken, err, loops, sets>>

Loops == Endpoints \cup {"tcp"}
Callers == Datagrams \cup Streams

----------------------------------------------------------------------------
(* The OS configurator (dns/service_darwin.go; Linux has no file).         *)

\* Close of the manager gives the OS configuration back and removes the file;
\* errors are joined, and the file may stay.
Down ==
    /\ osDNS' = "none"
    /\ file' \in {FALSE, file}

\* SetDNS: the OS first, then the file, which only a global configuration with
\* search domains needs.
SetDNS ==
    \E want \in {"split", "global"}, search \in BOOLEAN :
        /\ osDNS' = want
        /\ file' = (want = "global" /\ search)

\* Either part may fail, and what was done stays: the write may leave the file behind.
SetDNSFails ==
    /\ osDNS' \in {osDNS, "split", "global"}
    /\ file' \in {file, TRUE}

----------------------------------------------------------------------------
(* StartService.                                                           *)

Begin(st) ==
    /\ stage' = st
    /\ UNCHANGED <<cancelled, broken, err, loops, sets>>

AfterOS == <<"dialer", "netmon", "bus">>
AfterManager == <<"os", "dialer", "netmon", "bus">>
AfterSet == <<"manager", "dialer", "netmon", "bus">>

\* Mutant: the configurator is not closed when there is no manager to do so.
UndoLeavesOS(st) ==
    CASE st = "config" -> <<>>
      [] st \in {"os", "manager"} -> AfterOS
      [] OTHER -> AfterSet

\* What the error returns of StartService close, by the stage that failed.
Undo(st) ==
    CASE st = "config" -> <<>>
      [] st = "os" -> AfterOS
      [] st = "manager" -> AfterManager
      [] OTHER -> AfterSet

Fail ==
    /\ undo' = Undo(stage)
    /\ Begin("failing")
    /\ UNCHANGED held

\* One resource is closed; manager.Down closes the configurator with it.
UndoStep ==
    /\ undo # <<>>
    /\ undo' = Tail(undo)
    /\ held' = held \ (IF Head(undo) = "manager" THEN {"manager", "os"} ELSE {Head(undo)})
    /\ IF Head(undo) \in {"manager", "os"} THEN Down ELSE UNCHANGED <<osDNS, file>>
    /\ UNCHANGED <<stage, cancelled, broken, err, loops, sets>>

Failed ==
    /\ stage = "failing"
    /\ undo = <<>>
    /\ Begin("failed")
    /\ UNCHANGED os

\* configForService; bus, dialer and monitor cannot fail.
StartConfig ==
    /\ stage = "config"
    /\ \/ Fail
       \/ held' = {"bus", "dialer", "netmon"} /\ Begin("os") /\ UNCHANGED undo
    /\ UNCHANGED <<osDNS, file>>

StartOS ==
    /\ stage = "os"
    /\ \/ Fail
       \/ held' = held \cup {"os"} /\ Begin("manager") /\ UNCHANGED undo
    /\ UNCHANGED <<osDNS, file>>

\* There is no manager in a build without Tailscale's DNS.
StartManager ==
    /\ stage = "manager"
    /\ \/ Fail
       \/ held' = held \cup {"manager"} /\ Begin("set") /\ UNCHANGED undo
    /\ UNCHANGED <<osDNS, file>>

\* manager.Set
StartSet ==
    /\ stage = "set"
    /\ \/ SetDNS /\ Begin("stack") /\ UNCHANGED <<held, undo>>
       \/ SetDNSFails /\ Fail

\* newPacketService, which takes back its own endpoints when it fails.
StartStack ==
    /\ stage = "stack"
    /\ \/ Fail
       \/ /\ held' = held \cup {"stack"}
          /\ stage' = "running"
          /\ pump' = "read"
          /\ loop' = [l \in Loops |-> "read"]
          /\ UNCHANGED <<undo, cancelled, broken, err, session, conns, link, outbound, muxClosed, late, sets>>
    /\ UNCHANGED <<osDNS, file>>

\* ConfigureFull
ConfigureFull ==
    /\ stage = "running"
    /\ sets > 0
    /\ sets' = sets - 1
    /\ SetDNS \/ SetDNSFails
    /\ UNCHANGED <<stage, held, undo, cancelled, broken, err, loops>>

----------------------------------------------------------------------------
(* The order of Close; a stage is the step that comes next.                *)

\* Mutant: connections are closed before the acceptor has ended.
ConnsFirst == <<"cancel", "listeners", "conns", "wait loops", "wait sessions", "destroy", "down", "closed">>

\* Mutant: the sessions are waited for before the loops that start them.
SessionsFirst == <<"cancel", "listeners", "conns", "wait sessions", "wait loops", "destroy", "down", "closed">>

CloseSteps == <<"cancel", "listeners", "wait loops", "conns", "wait sessions", "destroy", "down", "closed">>

At(st) == CHOOSE i \in DOMAIN CloseSteps : CloseSteps[i] = st

\* sessions.Wait has returned.
AfterSessions == {CloseSteps[i] : i \in At("wait sessions") + 1 .. Len(CloseSteps)}

----------------------------------------------------------------------------
(* The loops.                                                              *)

\* start: the first error of a loop is kept and cancels the others, but not one
\* that Close caused.
Ends ==
    /\ err' = (err \/ ~cancelled)
    /\ cancelled' = TRUE

\* Are the listeners closed?  Close closes them in its second step.
Listening == stage \in {"running", "cancel", "listeners"}

\* HandlePacket, called by the multiplexer's one reader, which outlives the service:
\* a packet of a client is swallowed when the context is cancelled.  Close does not
\* wait between this check and the injection.
HandlePacket(c) ==
    /\ stage \in {"running"} \cup {CloseSteps[i] : i \in DOMAIN CloseSteps}
    /\ ~cancelled
    /\ session[c] = "away"
    /\ \A d \in Callers : session[d] # "inject"
    /\ session' = [session EXCEPT ![c] = "inject"]
    /\ UNCHANGED <<stage, os, cancelled, broken, err, pump, loop, conns, link, outbound, muxClosed, late, sets>>

\* InjectInbound (external): the packet reaches its socket, if that is still open.
InjectInbound(c) ==
    /\ session[c] = "inject"
    /\ session' = [session EXCEPT ![c] = IF Listening THEN "sent" ELSE "ended"]
    /\ UNCHANGED <<stage, os, cancelled, broken, err, pump, loop, conns, link, outbound, muxClosed, late, sets>>

\* serveUDP and serveTCP: read or accept, fail because the socket was closed, or
\* fail by themselves.
Read(l) ==
    /\ loop[l] = "read"
    /\ \/ /\ Listening
          /\ \E c \in (IF l = "tcp" THEN Streams ELSE Datagrams) :
                session[c] = "sent" /\ loop' = [loop EXCEPT ![l] = c]
                /\ session' = [session EXCEPT ![c] = "read"]
          /\ UNCHANGED <<cancelled, broken, err>>
       \/ /\ loop' = [loop EXCEPT ![l] = "end"]
          /\ Ends
          /\ broken' = (broken \/ (Listening /\ ~cancelled))
          /\ UNCHANGED session
    /\ UNCHANGED <<stage, os, pump, conns, link, outbound, muxClosed, late, sets>>

\* A datagram becomes a session; a connection is registered first.
StartSession(l) ==
    /\ loop[l] \in Callers
    /\ loop' = [loop EXCEPT ![l] = "read"]
    /\ session' = [session EXCEPT ![loop[l]] = IF l = "tcp" THEN "open" ELSE "query"]
    /\ conns' = IF l = "tcp" THEN conns \cup {loop[l]} ELSE conns
    /\ late' = (late \/ stage \in AfterSessions)
    /\ UNCHANGED <<stage, os, cancelled, broken, err, pump, link, outbound, muxClosed, sets>>

\* A UDP session: the manager answers, fails or times out; nothing is written
\* once the context is cancelled.
Query(c) ==
    /\ session[c] = "query"
    /\ session' = [session EXCEPT ![c] = IF cancelled THEN "ended" ELSE "write"]
    /\ UNCHANGED <<stage, os, cancelled, broken, err, pump, loop, conns, link, outbound, muxClosed, late, sets>>

\* The response reaches the link, unless that is full or the endpoint closed.
Write(c) ==
    /\ session[c] = "write"
    /\ session' = [session EXCEPT ![c] = "ended"]
    /\ link' = IF Listening /\ link < QueueSize THEN link + 1 ELSE link
    /\ UNCHANGED <<stage, os, cancelled, broken, err, pump, loop, conns, outbound, muxClosed, late, sets>>

\* HandleTCPConn (external) ends when its client closes the connection, or when
\* the service has closed it.
TCPSession(c) ==
    /\ session[c] \in {"open", "shut"}
    /\ session' = [session EXCEPT ![c] = "ended"]
    /\ conns' = conns \ {c}
    /\ UNCHANGED <<stage, os, cancelled, broken, err, pump, loop, link, outbound, muxClosed, late, sets>>

\* pumpOutbound: closes the channel when it ends.
Pump ==
    /\ \/ /\ pump = "read" /\ link > 0
          /\ link' = link - 1
          /\ pump' = "send"
          /\ UNCHANGED <<outbound, muxClosed>>
       \/ /\ pump = "send" /\ outbound < QueueSize
          /\ outbound' = outbound + 1
          /\ pump' = "read"
          /\ UNCHANGED <<link, muxClosed>>
       \/ /\ pump # "end" /\ cancelled
          /\ pump' = "end"
          /\ muxClosed' = TRUE
          /\ UNCHANGED <<link, outbound>>
    /\ UNCHANGED <<stage, os, cancelled, broken, err, loop, session, conns, late, sets>>

\* The multiplexer reads a packet (external).
Outbound ==
    /\ outbound > 0
    /\ outbound' = outbound - 1
    /\ UNCHANGED <<stage, os, cancelled, broken, err, pump, loop, session, conns, link, muxClosed, late, sets>>

----------------------------------------------------------------------------
(* Close.                                                                  *)

CloseService ==
    /\ stage = "running"
    /\ stage' = "cancel"
    /\ UNCHANGED <<os, cancelled, broken, err, loops, sets>>

LoopsEnded == pump = "end" /\ \A l \in Loops : loop[l] = "end"
InSession(c) == session[c] \in {"query", "write", "open", "shut"}

CloseStep ==
    /\ stage \in {CloseSteps[i] : i \in 1 .. Len(CloseSteps) - 1}
    /\ stage = "wait loops" => LoopsEnded
    /\ stage = "wait sessions" => \A c \in Callers : ~InSession(c)
    /\ stage = "down" => undo = <<>>
    /\ stage' = CloseSteps[At(stage) + 1]
    /\ cancelled' = (cancelled \/ stage = "cancel")
    /\ session' = IF stage = "conns" THEN [c \in Callers |-> IF c \in conns THEN "shut" ELSE session[c]]
                                     ELSE session
    /\ held' = IF stage = "destroy" THEN held \ {"stack"} ELSE held
    /\ undo' = IF stage = "destroy" THEN AfterSet ELSE undo
    /\ UNCHANGED <<osDNS, file, broken, err, pump, loop, conns, link, outbound, muxClosed, late, sets>>

----------------------------------------------------------------------------
SvcInit ==
    /\ stage = "config"
    /\ held = {}
    /\ undo = <<>>
    /\ osDNS = "none"
    /\ file = FALSE
    /\ cancelled = FALSE /\ broken = FALSE /\ err = FALSE
    /\ pump = "end"
    /\ loop = [l \in Loops |-> "end"]
    /\ session = [c \in Callers |-> "away"]
    /\ conns = {}
    /\ link = 0 /\ outbound = 0
    /\ muxClosed = FALSE
    /\ late = FALSE
    /\ sets = MaxSets

SvcNext ==
    \/ StartConfig \/ StartOS \/ StartManager \/ StartSet \/ StartStack
    \/ UndoStep \/ Failed
    \/ ConfigureFull
    \/ \E l \in Loops : Read(l) \/ StartSession(l)
    \/ \E c \in Callers : HandlePacket(c) \/ InjectInbound(c)
    \/ \E c \in Datagrams : Query(c) \/ Write(c)
    \/ \E c \in Streams : TCPSession(c)
    \/ Pump \/ Outbound
    \/ CloseService \/ CloseStep

\* Goroutines run, a closed socket or connection ends its read, and the manager's
\* queries end with their timeout; clients, the multiplexer and loops without a
\* reason to end are assumed nothing of.
SvcFairness ==
    /\ \A l \in Loops : WF_svcVars(Read(l) /\ ~Listening) /\ WF_svcVars(StartSession(l))
    /\ \A c \in Datagrams : WF_svcVars(Query(c)) /\ WF_svcVars(Write(c))
    /\ \A c \in Streams : WF_svcVars(TCPSession(c) /\ session[c] = "shut")
    /\ WF_svcVars(Pump /\ cancelled)
    /\ WF_svcVars(CloseStep) /\ WF_svcVars(UndoStep)

SvcSpec == SvcInit /\ [][SvcNext]_svcVars /\ SvcFairness

----------------------------------------------------------------------------
(* Properties.                                                             *)

\* The stack is destroyed only when no loop and no session can touch it any more, and
\* none started after they were waited for, although a packet that HandlePacket let
\* through may be injected at any moment of Close and after it; what StartService
\* opened is closed again, by whichever of its error returns or by Close; and Close
\* reports an error only when a loop broke by itself.
QuietWhenDestroyed ==
    /\ stage \in {"down", "closed"} => LoopsEnded /\ conns = {} /\ \A c \in Callers : ~InSession(c)
    /\ ~late
    /\ stage \in {"failed", "closed"} => held = {} /\ osDNS = "none"
    /\ err => broken

\* Close returns, although connections stay open, the multiplexer does not read
\* and packets keep arriving; and a loop that breaks closes the outbound channel.
CloseReturns ==
    /\ (stage = "cancel") ~> (stage = "closed")
    /\ err ~> muxClosed
=============================================================================
