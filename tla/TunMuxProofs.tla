----------------------------- MODULE TunMuxProofs -----------------------------
(***************************************************************************)
(* Proofs about TunMux: packet ownership, no send on a closed channel, and *)
(* workers that stop before their TUN, for any number of profiles, TUNs,   *)
(* packets and any queue and batch size.                                   *)
(***************************************************************************)
EXTENDS TunMux, TLAPS

------------------------------------------------------------------------------
(* The inductive invariant *)

\* What the reader holds at each of its steps.
ReaderInv ==
    /\ reader.at \in {"read", "dead"} => reader.pkt = None
    /\ reader.at \in {"lookup", "begin", "send"} => reader.pkt \in Buffers /\ reader.to \in Profiles
    /\ reader.at \in {"begin", "send"} => reader.tun \in Tuns

\* The TUN that is being stopped, its state and its worker.
CtlInv ==
    /\ ctl.at = "idle" => ctl.tun = None
    /\ ctl.at # "idle" => ctl.tun \in Tuns
    /\ ctl.at \in {"join", "close"} => tun[ctl.tun] = "open"
    /\ ctl.at = "wait" => tun[ctl.tun] = "closing"
    /\ ctl.at = "drain" => tun[ctl.tun] = "draining"
    /\ ctl.at # "idle" /\ ctl.at # "join" => worker[ctl.tun] \in {"none", "done"}

\* A registered TUN is open, belongs to one profile and is not being stopped.
RegisteredInv ==
    \A p \in Profiles : profiles[p] # None =>
        tun[profiles[p]] = "open" /\ owner[profiles[p]] = p /\ profiles[p] # ctl.tun

WorkerInv ==
    \A t \in Tuns :
        /\ worker[t] # "drain" => batch[t] = {}
        /\ mux = "new" => worker[t] = "none"
        /\ tun[t] = "new" => worker[t] = "none"
        /\ tun[t] \in {"closing", "draining", "closed"} => worker[t] \in {"none", "done"}

\* The WaitGroup counts the goroutines between beginSend and Done.
SendersInv ==
    \A t \in Tuns :
        /\ senders[t] = (IF t \in engine THEN 1 ELSE 0)
                        + (IF reader.at = "send" /\ reader.tun = t THEN 1 ELSE 0)
        /\ tun[t] \in {"draining", "closed"} => senders[t] = 0

\* PacketsOwned, place by place.
OwnedInv ==
    /\ \A b \in Buffers :
          b \in pool \/ b \in local \/ b = reader.pkt
          \/ \E t \in Tuns : b \in in[t] \/ b \in out[t] \/ b \in batch[t]
    /\ \A b \in pool : b \notin local /\ b # reader.pkt
    /\ \A b \in local : b # reader.pkt
    /\ \A t \in Tuns : \A b \in in[t] \cup out[t] \cup batch[t] :
          b \notin pool /\ b \notin local /\ b # reader.pkt
    /\ \A t, u \in Tuns : in[t] \cap out[u] = {} /\ in[t] \cap batch[u] = {} /\ out[t] \cap batch[u] = {}
    /\ \A t, u \in Tuns : t # u => in[t] \cap in[u] = {} /\ out[t] \cap out[u] = {}
                                    /\ batch[t] \cap batch[u] = {}

IInv ==
    /\ TypeOK
    /\ ReaderInv
    /\ CtlInv
    /\ RegisteredInv
    /\ WorkerInv
    /\ SendersInv
    /\ OwnedInv

------------------------------------------------------------------------------
(* Every step preserves it *)

\* Every step keeps the types; the WaitGroup never goes below zero.
LEMMA TypeStep == IInv /\ [Next]_vars => TypeOK'
<1> SUFFICES ASSUME IInv, [Next]_vars PROVE TypeOK'
  OBVIOUS
<1>1. CASE Run
  BY <1>1, TunMuxAssumption DEF Run, IInv, TypeOK, ReaderInv, CtlInv, SendersInv
<1>2. CASE Shutdown
  BY <1>2, TunMuxAssumption DEF Shutdown, IInv, TypeOK, ReaderInv, CtlInv, SendersInv
<1>3. CASE \E S \in SUBSET Profiles : SetMapper(S)
  BY <1>3, TunMuxAssumption DEF SetMapper, IInv, TypeOK, ReaderInv, CtlInv, SendersInv
<1>4. CASE \E p \in Profiles, t \in Tuns : AddProfile(p, t)
  BY <1>4, TunMuxAssumption DEF AddProfile, IInv, TypeOK, ReaderInv, CtlInv, SendersInv
<1>5. CASE \E p \in Profiles : RemoveProfile(p)
  BY <1>5, TunMuxAssumption DEF RemoveProfile, IInv, TypeOK, ReaderInv, CtlInv, SendersInv
<1>6. CASE Join
  BY <1>6, TunMuxAssumption DEF Join, IInv, TypeOK, ReaderInv, CtlInv, SendersInv
<1>7. CASE CloseTun
  BY <1>7, TunMuxAssumption DEF CloseTun, IInv, TypeOK, ReaderInv, CtlInv, SendersInv
<1>8. CASE CloseChannels
  BY <1>8, TunMuxAssumption DEF CloseChannels, IInv, TypeOK, ReaderInv, CtlInv, SendersInv
<1>9. CASE DrainPacket
  BY <1>9, TunMuxAssumption DEF DrainPacket, IInv, TypeOK, ReaderInv, CtlInv, SendersInv
<1>10. CASE Drained
  BY <1>10, TunMuxAssumption DEF Drained, IdleCtl, IInv, TypeOK, ReaderInv, CtlInv, SendersInv
<1>11. CASE \E p \in Profiles : ReadHost(p)
  BY <1>11, TunMuxAssumption DEF ReadHost, IInv, TypeOK, ReaderInv, CtlInv, SendersInv
<1>12. CASE LookupProfile
  BY <1>12, TunMuxAssumption DEF LookupProfile, Reading, IInv, TypeOK, ReaderInv, CtlInv, SendersInv
<1>13. CASE BeginInject
  BY <1>13, TunMuxAssumption DEF BeginInject, InjectFails, Fail, Reading, IInv, TypeOK, ReaderInv,
     CtlInv, SendersInv
<1>14. CASE Inject
  BY <1>14, TunMuxAssumption DEF Inject, InjectFails, Fail, Reading, IInv, TypeOK, ReaderInv,
     CtlInv, SendersInv
<1>15. CASE HostReadEnds
  BY <1>15, TunMuxAssumption DEF HostReadEnds, Fail, Reading, IInv, TypeOK, ReaderInv, CtlInv,
     SendersInv
<1>16. CASE \E t \in Tuns : TakeInbound(t)
  BY <1>16, TunMuxAssumption DEF TakeInbound, IInv, TypeOK, ReaderInv, CtlInv, SendersInv
<1>17. CASE \E t \in Tuns : WriteInbound(t)
  BY <1>17, TunMuxAssumption DEF WriteInbound, Fail, IInv, TypeOK, ReaderInv, CtlInv, SendersInv
<1>18. CASE \E t \in Tuns : WorkerReturns(t)
  BY <1>18, TunMuxAssumption DEF WorkerReturns, IInv, TypeOK, ReaderInv, CtlInv, SendersInv
<1>19. CASE \E t \in Tuns : Read(t)
  BY <1>19, TunMuxAssumption DEF Read, IInv, TypeOK, ReaderInv, CtlInv, SendersInv
<1>20. CASE \E t \in Tuns : BeginWrite(t)
  BY <1>20, TunMuxAssumption DEF BeginWrite, IInv, TypeOK, ReaderInv, CtlInv, SendersInv
<1>21. CASE \E t \in Tuns : WritePacket(t)
  BY <1>21, TunMuxAssumption DEF WritePacket, IInv, TypeOK, ReaderInv, CtlInv, SendersInv
<1>22. CASE \E t \in Tuns : EndWrite(t)
  BY <1>22, TunMuxAssumption DEF EndWrite, IInv, TypeOK, ReaderInv, CtlInv, SendersInv
<1>23. CASE TakeLocal
  BY <1>23, TunMuxAssumption DEF TakeLocal, IInv, TypeOK, ReaderInv, CtlInv, SendersInv
<1>24. CASE WriteLocal
  BY <1>24, TunMuxAssumption DEF WriteLocal, Fail, IInv, TypeOK, ReaderInv, CtlInv, SendersInv
<1>25. CASE UNCHANGED vars
  BY <1>25 DEF vars, IInv, TypeOK, ReaderInv, CtlInv, SendersInv
<1> QED
  BY <1>1, <1>2, <1>3, <1>4, <1>5, <1>6, <1>7, <1>8, <1>9, <1>10, <1>11, <1>12, <1>13, <1>14,
     <1>15, <1>16, <1>17, <1>18, <1>19, <1>20, <1>21, <1>22, <1>23, <1>24, <1>25 DEF Next

\* Every step keeps what the reader holds.
LEMMA ReaderStep == IInv /\ [Next]_vars => ReaderInv'
<1> SUFFICES ASSUME IInv, [Next]_vars PROVE ReaderInv'
  OBVIOUS
<1>1. CASE \E p \in Profiles : ReadHost(p)
  BY <1>1, TunMuxAssumption DEF ReadHost, IInv, TypeOK, ReaderInv
<1>2. CASE LookupProfile
  BY <1>2, TunMuxAssumption DEF LookupProfile, Reading, IInv, TypeOK, ReaderInv
<1>3. CASE BeginInject
  BY <1>3, TunMuxAssumption DEF BeginInject, InjectFails, Fail, Reading, IInv, TypeOK, ReaderInv
<1>4. CASE Inject
  BY <1>4, TunMuxAssumption DEF Inject, InjectFails, Fail, Reading, IInv, TypeOK, ReaderInv
<1>5. CASE HostReadEnds
  BY <1>5, TunMuxAssumption DEF HostReadEnds, Fail, Reading, IInv, TypeOK, ReaderInv
<1>6. CASE \/ UNCHANGED vars
           \/ Run
           \/ Shutdown
           \/ \E S \in SUBSET Profiles : SetMapper(S)
           \/ \E p \in Profiles, t \in Tuns : AddProfile(p, t)
           \/ \E p \in Profiles : RemoveProfile(p)
           \/ Join
           \/ CloseTun
           \/ CloseChannels
           \/ DrainPacket
           \/ Drained
           \/ \E t \in Tuns : TakeInbound(t)
           \/ \E t \in Tuns : WriteInbound(t)
           \/ \E t \in Tuns : WorkerReturns(t)
           \/ \E t \in Tuns : Read(t)
           \/ \E t \in Tuns : BeginWrite(t)
           \/ \E t \in Tuns : WritePacket(t)
           \/ \E t \in Tuns : EndWrite(t)
           \/ TakeLocal
           \/ WriteLocal
  BY <1>6 DEF vars, Run, Shutdown, SetMapper, AddProfile, RemoveProfile, Join, CloseTun,
     CloseChannels, DrainPacket, Drained, IdleCtl, TakeInbound, WriteInbound, Fail, WorkerReturns,
     Read, BeginWrite, WritePacket, EndWrite, TakeLocal, WriteLocal, IInv, TypeOK, ReaderInv
<1> QED
  BY <1>1, <1>2, <1>3, <1>4, <1>5, <1>6 DEF Next

\* Every step keeps the TUN that is being stopped in its state.
LEMMA CtlStep == IInv /\ [Next]_vars => CtlInv'
<1> SUFFICES ASSUME IInv, [Next]_vars PROVE CtlInv'
  OBVIOUS
<1>1. CASE Run
  BY <1>1, TunMuxAssumption DEF Run, IInv, TypeOK, CtlInv, RegisteredInv, WorkerInv
<1>2. CASE \E p \in Profiles, t \in Tuns : AddProfile(p, t)
  BY <1>2, TunMuxAssumption DEF AddProfile, IInv, TypeOK, CtlInv, RegisteredInv, WorkerInv
<1>3. CASE \E p \in Profiles : RemoveProfile(p)
  BY <1>3, TunMuxAssumption DEF RemoveProfile, IInv, TypeOK, CtlInv, RegisteredInv, WorkerInv
<1>4. CASE Join
  BY <1>4, TunMuxAssumption DEF Join, IInv, TypeOK, CtlInv, RegisteredInv, WorkerInv
<1>5. CASE CloseTun
  BY <1>5, TunMuxAssumption DEF CloseTun, IInv, TypeOK, CtlInv, RegisteredInv, WorkerInv
<1>6. CASE CloseChannels
  BY <1>6, TunMuxAssumption DEF CloseChannels, IInv, TypeOK, CtlInv, RegisteredInv, WorkerInv
<1>7. CASE Drained
  BY <1>7, TunMuxAssumption DEF Drained, IdleCtl, IInv, TypeOK, CtlInv, RegisteredInv, WorkerInv
<1>8. CASE \E t \in Tuns : TakeInbound(t)
  BY <1>8, TunMuxAssumption DEF TakeInbound, IInv, TypeOK, CtlInv, RegisteredInv, WorkerInv
<1>9. CASE \E t \in Tuns : WriteInbound(t)
  BY <1>9, TunMuxAssumption DEF WriteInbound, Fail, IInv, TypeOK, CtlInv, RegisteredInv, WorkerInv
<1>10. CASE \E t \in Tuns : WorkerReturns(t)
  BY <1>10, TunMuxAssumption DEF WorkerReturns, IInv, TypeOK, CtlInv, RegisteredInv, WorkerInv
<1>11. CASE \/ UNCHANGED vars
            \/ Shutdown
            \/ \E S \in SUBSET Profiles : SetMapper(S)
            \/ DrainPacket
            \/ \E p \in Profiles : ReadHost(p)
            \/ LookupProfile
            \/ BeginInject
            \/ Inject
            \/ HostReadEnds
            \/ \E t \in Tuns : Read(t)
            \/ \E t \in Tuns : BeginWrite(t)
            \/ \E t \in Tuns : WritePacket(t)
            \/ \E t \in Tuns : EndWrite(t)
            \/ TakeLocal
            \/ WriteLocal
  BY <1>11 DEF vars, Shutdown, SetMapper, DrainPacket, ReadHost, LookupProfile, Reading,
     BeginInject, InjectFails, Fail, Inject, HostReadEnds, Read, BeginWrite, WritePacket,
     EndWrite, TakeLocal, WriteLocal, IInv, TypeOK, CtlInv, RegisteredInv, WorkerInv
<1> QED
  BY <1>1, <1>2, <1>3, <1>4, <1>5, <1>6, <1>7, <1>8, <1>9, <1>10, <1>11 DEF Next

\* Registered TUNs stay open until RemoveProfile has taken them out.
LEMMA RegisteredStep == IInv /\ [Next]_vars => RegisteredInv'
<1> SUFFICES ASSUME IInv, [Next]_vars PROVE RegisteredInv'
  OBVIOUS
<1>1. CASE \E p \in Profiles, t \in Tuns : AddProfile(p, t)
  BY <1>1, TunMuxAssumption DEF AddProfile, IInv, TypeOK, CtlInv, RegisteredInv
<1>2. CASE \E p \in Profiles : RemoveProfile(p)
  BY <1>2, TunMuxAssumption DEF RemoveProfile, IInv, TypeOK, CtlInv, RegisteredInv
<1>3. CASE Join
  BY <1>3, TunMuxAssumption DEF Join, IInv, TypeOK, CtlInv, RegisteredInv
<1>4. CASE CloseTun
  BY <1>4, TunMuxAssumption DEF CloseTun, IInv, TypeOK, CtlInv, RegisteredInv
<1>5. CASE CloseChannels
  BY <1>5, TunMuxAssumption DEF CloseChannels, IInv, TypeOK, CtlInv, RegisteredInv
<1>6. CASE Drained
  BY <1>6, TunMuxAssumption DEF Drained, IdleCtl, IInv, TypeOK, CtlInv, RegisteredInv
<1>7. CASE \/ UNCHANGED vars
           \/ Run
           \/ Shutdown
           \/ \E S \in SUBSET Profiles : SetMapper(S)
           \/ DrainPacket
           \/ \E p \in Profiles : ReadHost(p)
           \/ LookupProfile
           \/ BeginInject
           \/ Inject
           \/ HostReadEnds
           \/ \E t \in Tuns : TakeInbound(t)
           \/ \E t \in Tuns : WriteInbound(t)
           \/ \E t \in Tuns : WorkerReturns(t)
           \/ \E t \in Tuns : Read(t)
           \/ \E t \in Tuns : BeginWrite(t)
           \/ \E t \in Tuns : WritePacket(t)
           \/ \E t \in Tuns : EndWrite(t)
           \/ TakeLocal
           \/ WriteLocal
  BY <1>7 DEF vars, Run, Shutdown, SetMapper, DrainPacket, ReadHost, LookupProfile, Reading,
     BeginInject, InjectFails, Fail, Inject, HostReadEnds, TakeInbound, WriteInbound,
     WorkerReturns, Read, BeginWrite, WritePacket, EndWrite, TakeLocal, WriteLocal, IInv, TypeOK,
     CtlInv, RegisteredInv
<1> QED
  BY <1>1, <1>2, <1>3, <1>4, <1>5, <1>6, <1>7 DEF Next

\* Workers have stopped, with nothing in hand, before their TUN closes.
LEMMA WorkerStep == IInv /\ [Next]_vars => WorkerInv'
<1> SUFFICES ASSUME IInv, [Next]_vars PROVE WorkerInv'
  OBVIOUS
<1>1. CASE Run
  <2>1. \A t \in Tuns : (\E p \in Profiles : profiles[p] = t) => tun[t] = "open"
    BY TunMuxAssumption DEF IInv, RegisteredInv
  <2> QED
    BY <1>1, <2>1 DEF Run, IInv, TypeOK, WorkerInv
<1>2. CASE Shutdown
  BY <1>2, TunMuxAssumption DEF Shutdown, IInv, TypeOK, CtlInv, RegisteredInv, WorkerInv
<1>3. CASE \E p \in Profiles, t \in Tuns : AddProfile(p, t)
  BY <1>3, TunMuxAssumption DEF AddProfile, IInv, TypeOK, CtlInv, RegisteredInv, WorkerInv
<1>4. CASE CloseTun
  BY <1>4, TunMuxAssumption DEF CloseTun, IInv, TypeOK, CtlInv, RegisteredInv, WorkerInv
<1>5. CASE CloseChannels
  BY <1>5, TunMuxAssumption DEF CloseChannels, IInv, TypeOK, CtlInv, RegisteredInv, WorkerInv
<1>6. CASE Drained
  BY <1>6, TunMuxAssumption DEF Drained, IdleCtl, IInv, TypeOK, CtlInv, RegisteredInv, WorkerInv
<1>7. CASE BeginInject
  BY <1>7, TunMuxAssumption DEF BeginInject, InjectFails, Fail, Reading, IInv, TypeOK, CtlInv,
     RegisteredInv, WorkerInv
<1>8. CASE Inject
  BY <1>8, TunMuxAssumption DEF Inject, InjectFails, Fail, Reading, IInv, TypeOK, CtlInv,
     RegisteredInv, WorkerInv
<1>9. CASE HostReadEnds
  BY <1>9, TunMuxAssumption DEF HostReadEnds, Fail, Reading, IInv, TypeOK, CtlInv, RegisteredInv,
     WorkerInv
<1>10. CASE \E t \in Tuns : TakeInbound(t)
  BY <1>10, TunMuxAssumption DEF TakeInbound, IInv, TypeOK, CtlInv, RegisteredInv, WorkerInv
<1>11. CASE \E t \in Tuns : WriteInbound(t)
  BY <1>11, TunMuxAssumption DEF WriteInbound, Fail, IInv, TypeOK, CtlInv, RegisteredInv, WorkerInv
<1>12. CASE \E t \in Tuns : WorkerReturns(t)
  BY <1>12, TunMuxAssumption DEF WorkerReturns, IInv, TypeOK, CtlInv, RegisteredInv, WorkerInv
<1>13. CASE WriteLocal
  BY <1>13, TunMuxAssumption DEF WriteLocal, Fail, IInv, TypeOK, CtlInv, RegisteredInv, WorkerInv
<1>14. CASE \/ UNCHANGED vars
            \/ \E S \in SUBSET Profiles : SetMapper(S)
            \/ \E p \in Profiles : RemoveProfile(p)
            \/ Join
            \/ DrainPacket
            \/ \E p \in Profiles : ReadHost(p)
            \/ LookupProfile
            \/ \E t \in Tuns : Read(t)
            \/ \E t \in Tuns : BeginWrite(t)
            \/ \E t \in Tuns : WritePacket(t)
            \/ \E t \in Tuns : EndWrite(t)
            \/ TakeLocal
  BY <1>14 DEF vars, SetMapper, RemoveProfile, Join, DrainPacket, ReadHost, LookupProfile,
     Reading, Read, BeginWrite, WritePacket, EndWrite, TakeLocal, IInv, TypeOK, CtlInv,
     RegisteredInv, WorkerInv
<1> QED
  BY <1>1, <1>2, <1>3, <1>4, <1>5, <1>6, <1>7, <1>8, <1>9, <1>10, <1>11, <1>12, <1>13, <1>14 DEF
     Next

\* Every step keeps the count of senders.
LEMMA SendersStep == IInv /\ [Next]_vars => SendersInv'
<1> SUFFICES ASSUME IInv, [Next]_vars PROVE SendersInv'
  OBVIOUS
<1>1. CASE \E p \in Profiles, t \in Tuns : AddProfile(p, t)
  BY <1>1, TunMuxAssumption DEF AddProfile, IInv, TypeOK, ReaderInv, CtlInv, SendersInv
<1>2. CASE CloseTun
  BY <1>2, TunMuxAssumption DEF CloseTun, IInv, TypeOK, ReaderInv, CtlInv, SendersInv
<1>3. CASE CloseChannels
  BY <1>3, TunMuxAssumption DEF CloseChannels, IInv, TypeOK, ReaderInv, CtlInv, SendersInv
<1>4. CASE Drained
  BY <1>4, TunMuxAssumption DEF Drained, IdleCtl, IInv, TypeOK, ReaderInv, CtlInv, SendersInv
<1>5. CASE \E p \in Profiles : ReadHost(p)
  BY <1>5, TunMuxAssumption DEF ReadHost, IInv, TypeOK, ReaderInv, CtlInv, SendersInv
<1>6. CASE LookupProfile
  BY <1>6, TunMuxAssumption DEF LookupProfile, Reading, IInv, TypeOK, ReaderInv, CtlInv, SendersInv
<1>7. CASE BeginInject
  BY <1>7, TunMuxAssumption DEF BeginInject, InjectFails, Fail, Reading, IInv, TypeOK, ReaderInv,
     CtlInv, SendersInv
<1>8. CASE Inject
  BY <1>8, TunMuxAssumption DEF Inject, InjectFails, Fail, Reading, IInv, TypeOK, ReaderInv,
     CtlInv, SendersInv
<1>9. CASE HostReadEnds
  BY <1>9, TunMuxAssumption DEF HostReadEnds, Fail, Reading, IInv, TypeOK, ReaderInv, CtlInv,
     SendersInv
<1>10. CASE \E t \in Tuns : BeginWrite(t)
  BY <1>10, TunMuxAssumption DEF BeginWrite, IInv, TypeOK, ReaderInv, CtlInv, SendersInv
<1>11. CASE \E t \in Tuns : EndWrite(t)
  BY <1>11, TunMuxAssumption DEF EndWrite, IInv, TypeOK, ReaderInv, CtlInv, SendersInv
<1>12. CASE \/ UNCHANGED vars
            \/ Run
            \/ Shutdown
            \/ \E S \in SUBSET Profiles : SetMapper(S)
            \/ \E p \in Profiles : RemoveProfile(p)
            \/ Join
            \/ DrainPacket
            \/ \E t \in Tuns : TakeInbound(t)
            \/ \E t \in Tuns : WriteInbound(t)
            \/ \E t \in Tuns : WorkerReturns(t)
            \/ \E t \in Tuns : Read(t)
            \/ \E t \in Tuns : WritePacket(t)
            \/ TakeLocal
            \/ WriteLocal
  BY <1>12 DEF vars, Run, Shutdown, SetMapper, RemoveProfile, Join, DrainPacket, TakeInbound,
     WriteInbound, Fail, WorkerReturns, Read, WritePacket, TakeLocal, WriteLocal, IInv, TypeOK,
     ReaderInv, CtlInv, SendersInv
<1> QED
  BY <1>1, <1>2, <1>3, <1>4, <1>5, <1>6, <1>7, <1>8, <1>9, <1>10, <1>11, <1>12 DEF Next

\* Every step hands packets from one holder to the next.
LEMMA OwnedStep == IInv /\ [Next]_vars => OwnedInv'
<1> SUFFICES ASSUME IInv, [Next]_vars PROVE OwnedInv'
  OBVIOUS
<1>1. CASE DrainPacket
  <2>1. CASE \E b \in in[ctl.tun] : /\ in' = [in EXCEPT ![ctl.tun] = @ \ {b}]
                                   /\ pool' = pool \cup {b} /\ UNCHANGED out
    BY <1>1, <2>1, TunMuxAssumption DEF DrainPacket, IInv, TypeOK, ReaderInv, CtlInv, OwnedInv
  <2>2. CASE \E b \in out[ctl.tun] : /\ out' = [out EXCEPT ![ctl.tun] = @ \ {b}]
                                    /\ pool' = pool \cup {b} /\ UNCHANGED in
    BY <1>1, <2>2, TunMuxAssumption DEF DrainPacket, IInv, TypeOK, ReaderInv, CtlInv, OwnedInv
  <2> QED
    BY <1>1, <2>1, <2>2 DEF DrainPacket
<1>2. CASE \E p \in Profiles : ReadHost(p)
  BY <1>2, TunMuxAssumption DEF ReadHost, IInv, TypeOK, ReaderInv, CtlInv, WorkerInv, OwnedInv
<1>3. CASE LookupProfile
  BY <1>3, TunMuxAssumption DEF LookupProfile, Reading, IInv, TypeOK, ReaderInv, CtlInv,
     WorkerInv, OwnedInv
<1>4. CASE BeginInject
  BY <1>4, TunMuxAssumption DEF BeginInject, InjectFails, Fail, Reading, IInv, TypeOK, ReaderInv,
     CtlInv, WorkerInv, OwnedInv
<1>5. CASE Inject
  <2>1. CASE out' = [out EXCEPT ![reader.tun] = @ \cup {reader.pkt}] /\ reader' = Reading /\ UNCHANGED pool
    BY <1>5, <2>1, TunMuxAssumption DEF Inject, Reading, IInv, TypeOK, ReaderInv, OwnedInv
  <2>2. CASE InjectFails /\ UNCHANGED out
    BY <1>5, <2>2, TunMuxAssumption DEF Inject, InjectFails, Reading, IInv, TypeOK, ReaderInv,
       OwnedInv
  <2> QED
    BY <1>5, <2>1, <2>2 DEF Inject
<1>6. CASE HostReadEnds
  BY <1>6, TunMuxAssumption DEF HostReadEnds, Fail, Reading, IInv, TypeOK, ReaderInv, CtlInv,
     WorkerInv, OwnedInv
<1>7. CASE \E t \in Tuns : TakeInbound(t)
  BY <1>7, TunMuxAssumption DEF TakeInbound, IInv, TypeOK, ReaderInv, CtlInv, WorkerInv, OwnedInv
<1>8. CASE \E t \in Tuns : WriteInbound(t)
  BY <1>8, TunMuxAssumption DEF WriteInbound, Fail, IInv, TypeOK, ReaderInv, CtlInv, WorkerInv,
     OwnedInv
<1>9. CASE \E t \in Tuns : Read(t)
  BY <1>9, TunMuxAssumption DEF Read, IInv, TypeOK, ReaderInv, CtlInv, WorkerInv, OwnedInv
<1>10. CASE \E t \in Tuns : WritePacket(t)
  BY <1>10, TunMuxAssumption DEF WritePacket, IInv, TypeOK, ReaderInv, CtlInv, WorkerInv, OwnedInv
<1>11. CASE TakeLocal
  BY <1>11, TunMuxAssumption DEF TakeLocal, IInv, TypeOK, ReaderInv, CtlInv, WorkerInv, OwnedInv
<1>12. CASE WriteLocal
  BY <1>12, TunMuxAssumption DEF WriteLocal, Fail, IInv, TypeOK, ReaderInv, CtlInv, WorkerInv,
     OwnedInv
<1>13. CASE \/ UNCHANGED vars
            \/ Run
            \/ Shutdown
            \/ \E S \in SUBSET Profiles : SetMapper(S)
            \/ \E p \in Profiles, t \in Tuns : AddProfile(p, t)
            \/ \E p \in Profiles : RemoveProfile(p)
            \/ Join
            \/ CloseTun
            \/ CloseChannels
            \/ Drained
            \/ \E t \in Tuns : WorkerReturns(t)
            \/ \E t \in Tuns : BeginWrite(t)
            \/ \E t \in Tuns : EndWrite(t)
  BY <1>13 DEF vars, Run, Shutdown, SetMapper, AddProfile, RemoveProfile, Join, CloseTun,
     CloseChannels, Drained, IdleCtl, WorkerReturns, BeginWrite, EndWrite, IInv, TypeOK,
     ReaderInv, CtlInv, WorkerInv, OwnedInv
<1> QED
  BY <1>1, <1>2, <1>3, <1>4, <1>5, <1>6, <1>7, <1>8, <1>9, <1>10, <1>11, <1>12, <1>13 DEF Next


------------------------------------------------------------------------------
(* Theorems *)

\* The mux starts with every buffer in its pool and no TUN in use.
LEMMA InitInv == Init => IInv
  BY TunMuxAssumption DEF Init, Reading, IdleCtl, IInv, TypeOK, ReaderInv, CtlInv, RegisteredInv,
     WorkerInv, SendersInv, OwnedInv

\* The inductive invariant holds in every reachable state.
THEOREM Invariance == Spec => []IInv
<1>1. IInv /\ [Next]_vars => IInv'
  BY TypeStep, ReaderStep, CtlStep, RegisteredStep, WorkerStep, SendersStep, OwnedStep DEF IInv
<1> QED
  BY InitInv, <1>1, PTL DEF Spec

\* Type correctness; in particular the WaitGroup of a TUN never goes negative,
\* which would end the process.
THEOREM TypeCorrect == Spec => []TypeOK
<1>1. IInv => TypeOK
  BY DEF IInv
<1> QED
  BY <1>1, Invariance, PTL

\* No goroutine sends on a closed channel: beginSend and senders.Wait keep
\* ChanTUN.Close apart from every sender.
THEOREM NeverSendsOnClosed == Spec => []NoSendOnClosed
<1>1. IInv => NoSendOnClosed
  BY DEF IInv, TypeOK, SendersInv, NoSendOnClosed
<1> QED
  BY <1>1, Invariance, PTL

\* RemoveProfile's wait keeps workers from meeting the closed channel of their TUN.
THEOREM WorkersStop == Spec => []WorkersStopFirst
<1>1. IInv => WorkersStopFirst
  BY DEF IInv, TypeOK, WorkerInv, WorkersStopFirst
<1> QED
  BY <1>1, Invariance, PTL

\* A channel TUN closes after its worker and the senders on its channels have left.
THEOREM TunsCloseLast == Spec => []TunClosesLast
<1>1. NoSendOnClosed /\ WorkersStopFirst => TunClosesLast
  BY DEF TunClosesLast
<1> QED
  BY <1>1, NeverSendsOnClosed, WorkersStop, PTL

\* Place by place ownership is ownership.
LEMMA OwnedPlaces == IInv => PacketsOwned
<1> SUFFICES ASSUME IInv PROVE PacketsOwned
  OBVIOUS
<1>1. /\ \A t \in Tuns : /\ Held(<<"in", t>>) = in[t]
                         /\ Held(<<"out", t>>) = out[t]
                         /\ Held(<<"batch", t>>) = batch[t]
      /\ Held(<<"pool", None>>) = pool
      /\ Held(<<"local", None>>) = local
      /\ Held(<<"reader", None>>) = {reader.pkt} \ {None}
  BY DEF Held
<1>2. ASSUME NEW h \in Places
      PROVE  \/ \E t \in Tuns : \/ h = <<"in", t>> /\ Held(h) = in[t]
                                \/ h = <<"out", t>> /\ Held(h) = out[t]
                                \/ h = <<"batch", t>> /\ Held(h) = batch[t]
             \/ h = <<"pool", None>> /\ Held(h) = pool
             \/ h = <<"local", None>> /\ Held(h) = local
             \/ h = <<"reader", None>> /\ Held(h) = {reader.pkt} \ {None}
  <2>1. CASE \E t \in Tuns : h = <<"in", t>> \/ h = <<"out", t>> \/ h = <<"batch", t>>
    <3>1. PICK t \in Tuns : h = <<"in", t>> \/ h = <<"out", t>> \/ h = <<"batch", t>>
      BY <2>1
    <3>2. CASE h = <<"in", t>>
      BY <1>1, <3>2
    <3>3. CASE h = <<"out", t>>
      BY <1>1, <3>3
    <3>4. CASE h = <<"batch", t>>
      BY <1>1, <3>4
    <3> QED
      BY <3>1, <3>2, <3>3, <3>4
  <2>2. CASE h = <<"pool", None>> \/ h = <<"local", None>> \/ h = <<"reader", None>>
    BY <1>1, <2>2
  <2> QED
    BY <2>1, <2>2 DEF Places
<1>3. /\ \A t \in Tuns : {<<"in", t>>, <<"out", t>>, <<"batch", t>>} \subseteq Places
      /\ {<<"pool", None>>, <<"local", None>>, <<"reader", None>>} \subseteq Places
  BY DEF Places
<1>4. ASSUME NEW b \in Buffers PROVE \E h \in Places : b \in Held(h)
  <2>1. CASE b \in pool
    BY <1>1, <1>3, <2>1
  <2>2. CASE b \in local
    BY <1>1, <1>3, <2>2
  <2>3. CASE b = reader.pkt
    BY <1>1, <1>3, <2>3, TunMuxAssumption
  <2>4. CASE \E t \in Tuns : b \in in[t] \/ b \in out[t] \/ b \in batch[t]
    BY <1>1, <1>3, <2>4
  <2> QED
    BY <2>1, <2>2, <2>3, <2>4 DEF IInv, OwnedInv
<1>5. ASSUME NEW h \in Places PROVE Held(h) \subseteq Buffers
  BY <1>2 DEF IInv, TypeOK
<1>6. ASSUME NEW g \in Places, NEW h \in Places, g # h PROVE Held(g) \cap Held(h) = {}
  <2> SUFFICES ASSUME NEW b \in Held(g), b \in Held(h) PROVE FALSE
    OBVIOUS
  <2>1. CASE b \in pool
    BY <1>2, <1>6, <2>1 DEF IInv, OwnedInv
  <2>2. CASE b \in local
    BY <1>2, <1>6, <2>2 DEF IInv, OwnedInv
  <2>3. CASE b = reader.pkt
    BY <1>2, <1>6, <2>3 DEF IInv, OwnedInv
  <2>4. CASE b \notin pool /\ b \notin local /\ b # reader.pkt
    BY <1>2, <1>6, <2>4 DEF IInv, OwnedInv
  <2> QED
    BY <2>1, <2>2, <2>3, <2>4
<1> QED
  BY <1>4, <1>5, <1>6 DEF PacketsOwned

\* Every packet buffer is free or has exactly one holder, whatever closes while
\* packets move: none is released twice, used after its release, or lost.
THEOREM PacketsAreOwned == Spec => []PacketsOwned
  BY OwnedPlaces, Invariance, PTL

=============================================================================
