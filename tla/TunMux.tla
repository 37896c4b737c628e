-------------------------------- MODULE TunMux --------------------------------
(***************************************************************************)
(* The packet multiplexer (tunmux/mux.go), the channel TUNs of the         *)
(* profiles (tunmux/chantun.go) and the ownership of packet buffers        *)
(* (tunmux/packet.go): the goroutine that reads the host TUN, one worker   *)
(* per profile, the local DNS service's worker, the engines that read and  *)
(* write their channel TUN, and the supervisor, which adds and stops       *)
(* profiles while packets flow (startProfileLocked, stopProfileLocked).    *)
(*                                                                         *)
(* A packet is the buffer that holds it. The order of a channel is not     *)
(* told apart: a channel is the set of packets in it. A profile that is    *)
(* started again gets a new channel TUN, so every TUN is used once.        *)
(***************************************************************************)
EXTENDS Integers, FiniteSets

CONSTANTS
    Profiles,
    Tuns,       \* channel TUNs (bounds how often profiles are started)
    Buffers,    \* packet buffers (bounds the packets alive at one time)
    QueueCap,   \* chanTUNQueueSize (1024 in the code)
    BatchSize,  \* packets written to the host TUN at once
    None

ASSUME TunMuxAssumption ==
    /\ QueueCap \in Nat \ {0}
    /\ BatchSize \in Nat \ {0}
    /\ None \notin Profiles \cup Tuns \cup Buffers

VARIABLES
    mux,        \* "new", "running", or "stopped" once Run returns or its context ends
    err,        \* why Run returned: "none", "host" or "closed"
    mapper,     \* the profiles the packet mapper has routes and sources for
    profiles,   \* m.profiles
    owner,      \* the profile of every TUN
    tun,        \* "new", "open", "closing", "draining", "closed"
    in, out,    \* the channels of every TUN
    senders,    \* the WaitGroup of every TUN
    worker,     \* the worker of every TUN: "none", "wait", "drain", "done"
    cancelled,  \* TUNs whose worker is cancelled
    batch,      \* packets every worker holds
    reader,     \* the goroutine of runHostToProfiles
    local,      \* packets the goroutine of runLocalToHost holds
    engine,     \* TUNs whose engine is in Write
    ctl,        \* stopProfileLocked: its next step and the TUN it stops
    pool        \* free buffers

vars == <<mux, err, mapper, profiles, owner, tun, in, out, senders, worker, cancelled, batch,
          reader, local, engine, ctl, pool>>

TypeOK ==
    /\ mux \in {"new", "running", "stopped"}
    /\ err \in {"none", "host", "closed"}
    /\ mapper \subseteq Profiles
    /\ profiles \in [Profiles -> Tuns \cup {None}]
    /\ owner \in [Tuns -> Profiles \cup {None}]
    /\ tun \in [Tuns -> {"new", "open", "closing", "draining", "closed"}]
    /\ in \in [Tuns -> SUBSET Buffers]
    /\ out \in [Tuns -> SUBSET Buffers]
    /\ senders \in [Tuns -> Nat]
    /\ worker \in [Tuns -> {"none", "wait", "drain", "done"}]
    /\ cancelled \subseteq Tuns
    /\ batch \in [Tuns -> SUBSET Buffers]
    /\ reader \in [at : {"read", "lookup", "begin", "send", "dead"}, to : Profiles \cup {None},
                   tun : Tuns \cup {None}, pkt : Buffers \cup {None}]
    /\ local \subseteq Buffers
    /\ engine \subseteq Tuns
    /\ ctl \in [at : {"idle", "join", "close", "wait", "drain"}, tun : Tuns \cup {None}]
    /\ pool \subseteq Buffers

Room(queue) == Cardinality(queue) < QueueCap

Reading == [at |-> "read", to |-> None, tun |-> None, pkt |-> None]

IdleCtl == [at |-> "idle", tun |-> None]

Init ==
    /\ mux = "new"
    /\ err = "none"
    /\ mapper = {}
    /\ profiles = [p \in Profiles |-> None]
    /\ owner = [t \in Tuns |-> None]
    /\ tun = [t \in Tuns |-> "new"]
    /\ in = [t \in Tuns |-> {}]
    /\ out = [t \in Tuns |-> {}]
    /\ senders = [t \in Tuns |-> 0]
    /\ worker = [t \in Tuns |-> "none"]
    /\ cancelled = {}
    /\ batch = [t \in Tuns |-> {}]
    /\ reader = Reading
    /\ local = {}
    /\ engine = {}
    /\ ctl = IdleCtl
    /\ pool = Buffers

------------------------------------------------------------------------------
(* The life of the mux and of profiles *)

\* Run, which starts the workers of the profiles that are there already.
Run ==
    /\ mux = "new"
    /\ mux' = "running"
    /\ worker' = [t \in Tuns |-> IF \E p \in Profiles : profiles[p] = t THEN "wait" ELSE worker[t]]
    /\ UNCHANGED <<err, mapper, profiles, owner, tun, in, out, senders, cancelled, batch, reader,
                   local, engine, ctl, pool>>

\* The daemon shuts down: the context of Run is cancelled.
Shutdown ==
    /\ mux = "running"
    /\ mux' = "stopped"
    /\ UNCHANGED <<err, mapper, profiles, owner, tun, in, out, senders, worker, cancelled, batch,
                   reader, local, engine, ctl, pool>>

\* A goroutine reports an error: Run returns it and cancels the others. Errors
\* after the context has ended are dropped.
Fail(cause) ==
    /\ mux' = "stopped"
    /\ err' = IF mux = "running" THEN cause ELSE err

\* reconcileLocked publishes another plan; the supervisor's mutex is held.
SetMapper(S) ==
    /\ ctl.at = "idle"
    /\ mapper' = S
    /\ UNCHANGED <<mux, err, profiles, owner, tun, in, out, senders, worker, cancelled, batch,
                   reader, local, engine, ctl, pool>>

\* NewChanTUN, engine.Start and AddProfile.
AddProfile(p, t) ==
    /\ mux # "stopped"
    /\ ctl.at = "idle"
    /\ profiles[p] = None
    /\ tun[t] = "new"
    /\ profiles' = [profiles EXCEPT ![p] = t]
    /\ owner' = [owner EXCEPT ![t] = p]
    /\ tun' = [tun EXCEPT ![t] = "open"]
    /\ worker' = [worker EXCEPT ![t] = IF mux = "running" THEN "wait" ELSE @]
    /\ UNCHANGED <<mux, err, mapper, in, out, senders, cancelled, batch, reader, local, engine, ctl, pool>>

\* RemoveProfile, up to waiting for the worker it has cancelled.
RemoveProfile(p) ==
    LET t == profiles[p]
    IN /\ ctl.at = "idle"
       /\ t # None
       /\ profiles' = [profiles EXCEPT ![p] = None]
       /\ cancelled' = cancelled \cup {t}
       /\ ctl' = [at |-> IF worker[t] = "none" THEN "close" ELSE "join", tun |-> t]
       /\ UNCHANGED <<mux, err, mapper, owner, tun, in, out, senders, worker, batch, reader, local,
                      engine, pool>>

Join ==
    /\ ctl.at = "join"
    /\ worker[ctl.tun] = "done"
    /\ ctl' = [ctl EXCEPT !.at = "close"]
    /\ UNCHANGED <<mux, err, mapper, profiles, owner, tun, in, out, senders, worker, cancelled,
                   batch, reader, local, engine, pool>>

\* Engine.Close closes the channel TUN: no new sender from here on, ...
CloseTun ==
    /\ ctl.at = "close"
    /\ tun' = [tun EXCEPT ![ctl.tun] = "closing"]
    /\ ctl' = [ctl EXCEPT !.at = "wait"]
    /\ UNCHANGED <<mux, err, mapper, profiles, owner, in, out, senders, worker, cancelled, batch,
                   reader, local, engine, pool>>

\* Mutant: Close does not wait for the senders.
CloseChannelsAtOnce ==
    /\ ctl.at = "wait"
    /\ tun' = [tun EXCEPT ![ctl.tun] = "draining"]
    /\ ctl' = [ctl EXCEPT !.at = "drain"]
    /\ UNCHANGED <<mux, err, mapper, profiles, owner, in, out, senders, worker, cancelled, batch,
                   reader, local, engine, pool>>

\* ... the channels are closed when the senders have left, ...
CloseChannels ==
    /\ ctl.at = "wait"
    /\ senders[ctl.tun] = 0
    /\ tun' = [tun EXCEPT ![ctl.tun] = "draining"]
    /\ ctl' = [ctl EXCEPT !.at = "drain"]
    /\ UNCHANGED <<mux, err, mapper, profiles, owner, in, out, senders, worker, cancelled, batch,
                   reader, local, engine, pool>>

\* ... and what is left in them is released, inbound first.
DrainPacket ==
    LET t == ctl.tun
    IN /\ ctl.at = "drain"
       /\ \/ \E b \in in[t] : in' = [in EXCEPT ![t] = @ \ {b}] /\ pool' = pool \cup {b} /\ UNCHANGED out
          \/ /\ in[t] = {}
             /\ \E b \in out[t] : out' = [out EXCEPT ![t] = @ \ {b}] /\ pool' = pool \cup {b}
             /\ UNCHANGED in
       /\ UNCHANGED <<mux, err, mapper, profiles, owner, tun, senders, worker, cancelled, batch,
                      reader, local, engine, ctl>>

Drained ==
    /\ ctl.at = "drain"
    /\ in[ctl.tun] = {} /\ out[ctl.tun] = {}
    /\ tun' = [tun EXCEPT ![ctl.tun] = "closed"]
    /\ ctl' = IdleCtl
    /\ UNCHANGED <<mux, err, mapper, profiles, owner, in, out, senders, worker, cancelled, batch,
                   reader, local, engine, pool>>

------------------------------------------------------------------------------
(* runHostToProfiles *)

\* A host packet is copied and the mapper selects profile p. A packet that the
\* local service consumes or the mapper refuses is released in the same round.
ReadHost(p) ==
    /\ mux # "new"
    /\ reader.at = "read"
    /\ p \in mapper
    /\ \E b \in pool : /\ reader' = [at |-> "lookup", to |-> p, tun |-> None, pkt |-> b]
                       /\ pool' = pool \ {b}
    /\ UNCHANGED <<mux, err, mapper, profiles, owner, tun, in, out, senders, worker, cancelled,
                   batch, local, engine, ctl>>

\* Mutant: the packet for a missing TUN is not released.
LookupProfileLeaking ==
    LET t == profiles[reader.to]
    IN /\ reader.at = "lookup"
       /\ reader' = IF t = None THEN Reading ELSE [reader EXCEPT !.at = "begin", !.tun = t]
       /\ UNCHANGED <<mux, err, mapper, profiles, owner, tun, in, out, senders, worker, cancelled,
                      batch, local, engine, ctl, pool>>

\* The read lock is held only for the lookup: the TUN may be stopped after it.
LookupProfile ==
    LET t == profiles[reader.to]
    IN /\ reader.at = "lookup"
       /\ reader' = IF t = None THEN Reading ELSE [reader EXCEPT !.at = "begin", !.tun = t]
       /\ pool' = IF t = None THEN pool \cup {reader.pkt} ELSE pool
       /\ UNCHANGED <<mux, err, mapper, profiles, owner, tun, in, out, senders, worker, cancelled,
                      batch, local, engine, ctl>>

\* The reader ends with the error of an injection into a closed TUN.
InjectFails ==
    /\ pool' = pool \cup {reader.pkt}
    /\ reader' = [Reading EXCEPT !.at = "dead"]
    /\ Fail("closed")

\* injectOutboundPacket: beginSend, ...
BeginInject ==
    LET t == reader.tun
    IN /\ reader.at = "begin"
       /\ \/ /\ tun[t] = "open"
             /\ senders' = [senders EXCEPT ![t] = @ + 1]
             /\ reader' = [reader EXCEPT !.at = "send"]
             /\ UNCHANGED <<mux, err, pool>>
          \/ /\ tun[t] # "open"
             /\ InjectFails
             /\ UNCHANGED senders
       /\ UNCHANGED <<mapper, profiles, owner, tun, in, out, worker, cancelled, batch, local, engine, ctl>>

\* Mutant: the send does not watch for the TUN to close.
InjectBlocking ==
    LET t == reader.tun
    IN /\ reader.at = "send"
       /\ Room(out[t])
       /\ senders' = [senders EXCEPT ![t] = @ - 1]
       /\ out' = [out EXCEPT ![t] = @ \cup {reader.pkt}]
       /\ reader' = Reading
       /\ UNCHANGED <<mux, err, mapper, profiles, owner, tun, in, worker, cancelled, batch, local,
                      engine, ctl, pool>>

\* ... and the send, which waits for room or for the TUN to close.
Inject ==
    LET t == reader.tun
    IN /\ reader.at = "send"
       /\ senders' = [senders EXCEPT ![t] = @ - 1]
       /\ \/ /\ Room(out[t])
             /\ out' = [out EXCEPT ![t] = @ \cup {reader.pkt}]
             /\ reader' = Reading
             /\ UNCHANGED <<mux, err, pool>>
          \/ /\ tun[t] # "open"
             /\ InjectFails
             /\ UNCHANGED out
       /\ UNCHANGED <<mapper, profiles, owner, tun, in, worker, cancelled, batch, local, engine, ctl>>

\* Reading the host TUN fails, or the daemon has closed it.
HostReadEnds ==
    /\ mux # "new"
    /\ reader.at = "read"
    /\ reader' = [Reading EXCEPT !.at = "dead"]
    /\ Fail("host")
    /\ UNCHANGED <<mapper, profiles, owner, tun, in, out, senders, worker, cancelled, batch, local,
                   engine, ctl, pool>>

------------------------------------------------------------------------------
(* runProfileToHost and runLocalToHost *)

Cancelled(t) == t \in cancelled \/ mux = "stopped"

\* The worker of t takes a packet: it waits for the first one of a batch only.
TakeInbound(t) ==
    /\ worker[t] \in {"wait", "drain"}
    /\ Cardinality(batch[t]) < BatchSize
    /\ \E b \in in[t] : /\ in' = [in EXCEPT ![t] = @ \ {b}]
                        /\ batch' = [batch EXCEPT ![t] = @ \cup {b}]
    /\ worker' = [worker EXCEPT ![t] = "drain"]
    /\ UNCHANGED <<mux, err, mapper, profiles, owner, tun, out, senders, cancelled, reader, local,
                   engine, ctl, pool>>

\* The packets the mapper accepts go to the host TUN; all are released. A write
\* that fails ends the worker, and the mux unless the worker is cancelled.
WriteInbound(t) ==
    /\ worker[t] = "drain"
    /\ in[t] = {} \/ Cardinality(batch[t]) = BatchSize
    /\ pool' = pool \cup batch[t]
    /\ batch' = [batch EXCEPT ![t] = {}]
    /\ \/ /\ worker' = [worker EXCEPT ![t] = "wait"]
          /\ UNCHANGED <<mux, err>>
       \/ /\ owner[t] \in mapper
          /\ worker' = [worker EXCEPT ![t] = "done"]
          /\ IF Cancelled(t) THEN UNCHANGED <<mux, err>> ELSE Fail("host")
    /\ UNCHANGED <<mapper, profiles, owner, tun, in, out, senders, cancelled, reader, local, engine, ctl>>

WorkerReturns(t) ==
    /\ worker[t] = "wait"
    /\ Cancelled(t)
    /\ worker' = [worker EXCEPT ![t] = "done"]
    /\ UNCHANGED <<mux, err, mapper, profiles, owner, tun, in, out, senders, cancelled, batch,
                   reader, local, engine, ctl, pool>>

\* An answer of the local DNS service.
TakeLocal ==
    /\ mux = "running"
    /\ Cardinality(local) < BatchSize
    /\ \E b \in pool : local' = local \cup {b} /\ pool' = pool \ {b}
    /\ UNCHANGED <<mux, err, mapper, profiles, owner, tun, in, out, senders, worker, cancelled,
                   batch, reader, engine, ctl>>

WriteLocal ==
    /\ local # {}
    /\ pool' = pool \cup local
    /\ local' = {}
    /\ \/ UNCHANGED <<mux, err>>
       \/ Fail("host")
    /\ UNCHANGED <<mapper, profiles, owner, tun, in, out, senders, worker, cancelled, batch, reader,
                   engine, ctl>>

------------------------------------------------------------------------------
(* The engine's side of a channel TUN *)

\* Read copies a packet to the engine and releases it.
Read(t) ==
    /\ \E b \in out[t] : out' = [out EXCEPT ![t] = @ \ {b}] /\ pool' = pool \cup {b}
    /\ UNCHANGED <<mux, err, mapper, profiles, owner, tun, in, senders, worker, cancelled, batch,
                   reader, local, engine, ctl>>

\* Write: beginSend, ...
BeginWrite(t) ==
    /\ tun[t] = "open"
    /\ t \notin engine
    /\ engine' = engine \cup {t}
    /\ senders' = [senders EXCEPT ![t] = @ + 1]
    /\ UNCHANGED <<mux, err, mapper, profiles, owner, tun, in, out, worker, cancelled, batch, reader,
                   local, ctl, pool>>

\* ... a copy of every packet, unless the channel is full, ...
WritePacket(t) ==
    /\ t \in engine
    /\ Room(in[t])
    /\ \E b \in pool : in' = [in EXCEPT ![t] = @ \cup {b}] /\ pool' = pool \ {b}
    /\ UNCHANGED <<mux, err, mapper, profiles, owner, tun, out, senders, worker, cancelled, batch,
                   reader, local, engine, ctl>>

\* ... until the last one or the end of the TUN.
EndWrite(t) ==
    /\ t \in engine
    /\ engine' = engine \ {t}
    /\ senders' = [senders EXCEPT ![t] = @ - 1]
    /\ UNCHANGED <<mux, err, mapper, profiles, owner, tun, in, out, worker, cancelled, batch, reader,
                   local, ctl, pool>>

Next ==
    \/ Run
    \/ Shutdown
    \/ \E S \in SUBSET Profiles : SetMapper(S)
    \/ \E p \in Profiles, t \in Tuns : AddProfile(p, t)
    \/ \E p \in Profiles : RemoveProfile(p)
    \/ Join
    \/ CloseTun
    \/ CloseChannels
    \/ DrainPacket
    \/ Drained
    \/ \E p \in Profiles : ReadHost(p)
    \/ LookupProfile
    \/ BeginInject
    \/ Inject
    \/ HostReadEnds
    \/ \E t \in Tuns :
          \/ TakeInbound(t)
          \/ WriteInbound(t)
          \/ WorkerReturns(t)
          \/ Read(t)
          \/ BeginWrite(t)
          \/ WritePacket(t)
          \/ EndWrite(t)
    \/ TakeLocal
    \/ WriteLocal

Spec == Init /\ [][Next]_vars

\* Goroutines run on, engines keep reading a TUN that is open, and a select that is
\* ready again and again for the end of its context takes that branch.
Fairness ==
    /\ WF_vars(Join) /\ WF_vars(CloseTun) /\ WF_vars(CloseChannels)
    /\ WF_vars(DrainPacket) /\ WF_vars(Drained)
    /\ WF_vars(LookupProfile) /\ WF_vars(BeginInject) /\ SF_vars(Inject)
    /\ \A t \in Tuns : /\ WF_vars(tun[t] = "open" /\ Read(t)) /\ WF_vars(EndWrite(t))
                       /\ WF_vars(TakeInbound(t)) /\ SF_vars(WriteInbound(t)) /\ SF_vars(WorkerReturns(t))

FairSpec == Spec /\ Fairness

------------------------------------------------------------------------------
(* Properties *)

\* Where a packet can be: free, or with one of these holders.
Places == ({"in", "out", "batch"} \X Tuns) \cup ({"pool", "reader", "local"} \X {None})

Held(h) ==
    CASE h[1] = "in" -> in[h[2]]
      [] h[1] = "out" -> out[h[2]]
      [] h[1] = "batch" -> batch[h[2]]
      [] h[1] = "reader" -> {reader.pkt} \ {None}
      [] h[1] = "local" -> local
      [] h[1] = "pool" -> pool

\* packet.go: a Packet is "exclusively owned" and its receiver "must forward it or
\* call Release exactly once": every buffer is free or has one holder, and none
\* is lost, while TUNs close under their readers and writers.
PacketsOwned ==
    /\ Buffers = UNION {Held(h) : h \in Places}
    /\ \A g, h \in Places : g # h => Held(g) \cap Held(h) = {}

\* No goroutine sends on a closed channel, which would end the process: the
\* senders of a TUN have left when its channels are closed.
NoSendOnClosed ==
    \A t \in Tuns : tun[t] \in {"draining", "closed"} =>
        t \notin engine /\ ~(reader.at = "send" /\ reader.tun = t)

\* RemoveProfile returns after the worker has: no worker meets the closed channel
\* of its TUN, for which it would end the mux, and a profile that is started
\* again never has two workers.
WorkersStopFirst ==
    \A t \in Tuns : tun[t] \notin {"new", "open"} => worker[t] \in {"none", "done"} /\ batch[t] = {}

\* ChannelTUN.Close and RemoveProfile: a TUN closes after everyone who uses it has
\* left, its worker first, then the senders on its channels.
TunClosesLast == NoSendOnClosed /\ WorkersStopFirst

\* docs/profile-management.md: "adding, changing, or removing a profile must not
\* restart the daemon or disrupt other profiles".
StopsAreIsolated == err # "closed"

\* Stopping a profile ends, however full its queues are and whoever sends.
StopsEnd == ctl.at # "idle" ~> ctl.at = "idle"

\* The host reader gets every packet off its hands: a full queue holds up the
\* other profiles only until the engine reads it or the profile is stopped.
ReaderMovesOn == reader.at # "read" ~> reader.at \in {"read", "dead"}

\* Full queues hold nobody up for ever: neither a stop of their profile nor the one
\* reader that serves every profile (injectOutboundPacket, stopProfileLocked).
QueuesGiveWay == StopsEnd /\ ReaderMovesOn

=============================================================================
