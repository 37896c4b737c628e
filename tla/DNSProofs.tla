------------------------------ MODULE DNSProofs ------------------------------
(***************************************************************************)
(* What the DNS machines promise, for any number of queries, connections,  *)
(* resolvers, slots, profiles, domains and ports: Forwarder, DNSService    *)
(* and DNSPolicy, one after the other.                                     *)
(***************************************************************************)
EXTENDS DNSPolicy, Forwarder, DNSService, FiniteSetTheorems, WellFoundedInduction, TLAPS

----------------------------------------------------------------------------
(* Forwarder.                                                              *)

Places == {"away", "sent", "check", "reading", "asking", "calling", "reply",
           "answered", "lost", "ended"}

Calling == {c \in Clients : job[c] = "calling"}

FwdTypeOK ==
    /\ kind \in {"resolvers", "legacy"}
    /\ phase \in {"listening", "failed", "serving"}
    /\ attempt \in Int
    /\ sockets \subseteq {"udp", "tcp"}
    /\ parent \in BOOLEAN /\ retired \in BOOLEAN /\ stopped \in BOOLEAN
    /\ done \in BOOLEAN /\ forced \in BOOLEAN /\ writeExpired \in BOOLEAN
    /\ udpLoop \in Queries \cup {"read", "end"}
    /\ tcpLoop \in Conns \cup {"read", "end"}
    /\ job \in [Clients -> Places]
    /\ try \in [Clients -> Int]
    /\ deadline \in [Conns -> BOOLEAN]

\* Before it serves, a forwarder has no goroutine, no job and nothing to end.
Idle ==
    phase # "serving" =>
        /\ udpLoop = "end" /\ tcpLoop = "end"
        /\ \A c \in Clients : job[c] = "away"
        /\ ~stopped /\ ~done
        /\ phase = "failed" => sockets = {}

\* The UDP socket stays open until stop, which closes both; and stop is called
\* from outside or by the goroutine that waited for all others.
Ending ==
    /\ phase = "serving" /\ ~stopped => "udp" \in sockets
    /\ stopped => retired /\ sockets = {}
    /\ stopped /\ ~forced => done
    /\ done => stopped /\ Working = {} /\ udpLoop = "end" /\ tcpLoop = "end"

Answers == \A c \in Queries : job[c] = "lost" => forced \/ writeExpired

FwdInv == FwdTypeOK /\ Idle /\ Ending /\ Answers

LEMMA FwdInitial == FwdInit => FwdInv
<1> SUFFICES ASSUME FwdInit PROVE FwdInv
  OBVIOUS
<1>1. FwdTypeOK
  <2>1. attempt \in Int
    BY ForwarderAssumption DEF FwdInit
  <2>2. job \in [Clients -> Places] /\ try \in [Clients -> Int]
    BY DEF FwdInit, Places
  <2>3. deadline \in [Conns -> BOOLEAN]
    BY Zenon DEF FwdInit
  <2>q. QED  BY <2>1, <2>2, <2>3 DEF FwdInit, FwdTypeOK
<1>2. Idle /\ Ending
  BY DEF FwdInit, Idle, Ending
<1>3. Answers
  BY DEF FwdInit, Answers, Clients
<1>q. QED  BY <1>1, <1>2, <1>3 DEF FwdInv

LEMMA FwdListens ==
    ASSUME FwdInv, ListenUDP \/ ListenTCP
    PROVE  FwdInv'
<1>1. CASE ListenUDP
  BY <1>1, ForwarderAssumption
  DEF ListenUDP, FailToListen, FwdInv, FwdTypeOK, Idle, Ending, Answers, Working, ending, served
<1>2. CASE ListenTCP
  BY <1>2, ForwarderAssumption
  DEF ListenTCP, FailToListen, FwdInv, FwdTypeOK, Idle, Ending, Answers, Working, ending, served
<1>q. QED  BY <1>1, <1>2

\* A step that moves one job and leaves everything around it alone.
LEMMA FwdMoves ==
    ASSUME FwdInv, NEW c \in Clients, NEW to \in Places,
           phase = "serving", ~done,
           job' = [job EXCEPT ![c] = to],
           UNCHANGED <<kind, phase, attempt, sockets, ending, udpLoop, tcpLoop>>,
           try' \in [Clients -> Int], deadline' \in [Conns -> BOOLEAN],
           to = "lost" => forced \/ writeExpired \/ c \notin Queries
    PROVE  FwdInv'
<1>1. FwdTypeOK'
  BY DEF FwdInv, FwdTypeOK, ending
<1>2. Idle' /\ Ending'
  BY DEF FwdInv, FwdTypeOK, Idle, Ending, ending, Working
<1>3. Answers'
  BY DEF FwdInv, FwdTypeOK, Answers, ending, Clients
<1>q. QED  BY <1>1, <1>2, <1>3 DEF FwdInv

LEMMA FwdAtWork ==
    ASSUME FwdInv, NEW c \in Clients, job[c] \in {"check", "reading", "asking", "calling", "reply"}
    PROVE  phase = "serving" /\ ~done
  BY DEF FwdInv, Idle, Ending, Working

LEMMA FwdJobs ==
    ASSUME FwdInv, NEW c \in Clients, JobStep(c)
    PROVE  FwdInv'
<1>t. try' \in [Clients -> Int] /\ deadline' \in [Conns -> BOOLEAN]
  BY ForwarderAssumption DEF FwdInv, FwdTypeOK, JobStep, Malformed, Answered, NextResolver, Call, Return,
     Timeout, Reply, ReplyFails
<1>w. phase = "serving" /\ ~done
  <2>1. job[c] \in {"check", "reading", "asking", "calling", "reply"}
    BY DEF JobStep, Malformed, Answered, NextResolver, Call, Return, Timeout, Reply, ReplyFails
  <2>q. QED  BY <2>1, FwdAtWork
<1>1. CASE \E to \in Places \ {"lost"} : Becomes(c, to)
  BY <1>1, <1>t, <1>w, FwdMoves DEF Becomes
<1>2. CASE Reply(c)
  <2>1. PICK to \in Places : Becomes(c, to) /\ (to = "lost" => "udp" \notin sockets \/ writeExpired)
    BY <1>2 DEF Reply, Places
  <2>2. to = "lost" => forced \/ writeExpired
    BY <2>1, <1>w DEF FwdInv, Ending
  <2>q. QED  BY <2>1, <2>2, <1>t, <1>w, FwdMoves DEF Becomes
<1>q. QED
  BY <1>1, <1>2 DEF JobStep, Malformed, Answered, NextResolver, Call, Return, Timeout, ReplyFails, Places

LEMMA FwdConns ==
    ASSUME FwdInv, NEW c \in Conns, ConnStep(c)
    PROVE  FwdInv'
<1>c. c \in Clients
  BY DEF Clients
<1>t. try' \in [Clients -> Int] /\ deadline' \in [Conns -> BOOLEAN]
  BY DEF FwdInv, FwdTypeOK, ConnStep, ConnCheck, ConnRead, ConnEnd
<1>w. phase = "serving" /\ ~done
  BY <1>c, FwdAtWork DEF ConnStep, ConnCheck, ConnRead, ConnEnd
<1>1. \E to \in Places \ {"lost"} : Becomes(c, to)
  BY DEF ConnStep, ConnCheck, ConnRead, ConnEnd, Places
<1>q. QED  BY <1>1, <1>c, <1>t, <1>w, FwdMoves DEF Becomes

LEMMA FwdLoops ==
    ASSUME FwdInv, UDPRead \/ UDPAdmit \/ TCPAccept \/ TCPAdmit
    PROVE  FwdInv'
<1>w. phase = "serving" /\ ~done
  BY ForwarderAssumption
  DEF FwdInv, Idle, Ending, UDPRead, UDPAdmit, TCPAccept, TCPAdmit
<1>1. CASE UDPRead
  BY <1>1, <1>w DEF UDPRead, FwdInv, FwdTypeOK, Idle, Ending, Answers, Working, ending
<1>2. CASE TCPAccept
  BY <1>2, <1>w DEF TCPAccept, FwdInv, FwdTypeOK, Idle, Ending, Answers, Working, ending
<1>3. CASE UDPAdmit
  <2>1. FwdTypeOK'
    BY <1>3 DEF UDPAdmit, FwdInv, FwdTypeOK, ending, Clients, Places
  <2>2. Idle' /\ Ending'
    BY <1>3, <1>w DEF UDPAdmit, FwdInv, Idle, Ending, ending
  <2>3. Answers'
    BY <1>3 DEF UDPAdmit, FwdInv, FwdTypeOK, Answers, ending, Clients
  <2>q. QED  BY <2>1, <2>2, <2>3 DEF FwdInv
<1>4. CASE TCPAdmit
  <2>1. FwdTypeOK'
    BY <1>4 DEF TCPAdmit, FwdInv, FwdTypeOK, ending, Clients, Places
  <2>2. Idle' /\ Ending'
    BY <1>4, <1>w DEF TCPAdmit, FwdInv, Idle, Ending, ending
  <2>3. Answers'
    BY <1>4 DEF TCPAdmit, FwdInv, FwdTypeOK, Answers, ending, Clients
  <2>q. QED  BY <2>1, <2>2, <2>3 DEF FwdInv
<1>q. QED  BY <1>1, <1>2, <1>3, <1>4

LEMMA FwdEnds ==
    ASSUME FwdInv, Retire \/ Close \/ CancelParent \/ StopWithParent \/ WriteDeadline \/ Finish
    PROVE  FwdInv'
<1>1. CASE Retire
  BY <1>1 DEF Retire, FwdInv, FwdTypeOK, Idle, Ending, Answers, Working
<1>2. CASE Close \/ StopWithParent
  <2>1. FwdTypeOK'
    BY <1>2 DEF Close, StopWithParent, stop, FwdInv, FwdTypeOK
  <2>2. Idle' /\ Ending'
    BY <1>2 DEF Close, StopWithParent, stop, FwdInv, Idle, Ending, Working
  <2>3. Answers'
    BY <1>2 DEF Close, StopWithParent, stop, FwdInv, Answers
  <2>q. QED  BY <2>1, <2>2, <2>3 DEF FwdInv
<1>3. CASE CancelParent
  BY <1>3 DEF CancelParent, served, FwdInv, FwdTypeOK, Idle, Ending, Answers, Working
<1>4. CASE Finish
  BY <1>4 DEF Finish, stop, FwdInv, FwdTypeOK, Idle, Ending, Answers, Working
<1>5. CASE WriteDeadline
  BY <1>5 DEF WriteDeadline, served, FwdInv, FwdTypeOK, Idle, Ending, Answers, Working
<1>q. QED  BY <1>1, <1>2, <1>3, <1>4, <1>5

LEMMA FwdSends ==
    ASSUME FwdInv, NEW c \in Clients, Send(c)
    PROVE  FwdInv'
<1>1. FwdTypeOK'
  BY DEF Send, FwdInv, FwdTypeOK, ending, Places
<1>2. Idle' /\ Ending'
  BY DEF Send, FwdInv, FwdTypeOK, Idle, Ending, ending, Working
<1>3. Answers'
  BY DEF Send, FwdInv, FwdTypeOK, Answers, ending, Clients
<1>q. QED  BY <1>1, <1>2, <1>3 DEF FwdInv

LEMMA FwdStep == FwdInv /\ [FwdNext]_fwdVars => FwdInv'
<1> SUFFICES ASSUME FwdInv, [FwdNext]_fwdVars PROVE FwdInv'
  OBVIOUS
<1>1. CASE ReturnLate
  BY <1>1 DEF ReturnLate, FwdInv, FwdTypeOK, Idle, Ending, Answers, Working, ending
<1>2. CASE UNCHANGED fwdVars
  BY <1>2 DEF fwdVars, served, ending, FwdInv, FwdTypeOK, Idle, Ending, Answers, Working
<1>q. QED
  BY <1>1, <1>2, FwdListens, FwdLoops, FwdSends, FwdJobs, FwdConns, FwdEnds DEF FwdNext

\* A forwarder whose goroutines are counted out, or that could not listen, leaves
\* neither a socket nor a writer behind, and a query that it admitted is without an
\* answer only when Close or the startup context forced the end, or the write deadline
\* of a retired forwarder passed before the answer was there (dns/forwarder.go).
THEOREM RetireLosesNothing == FwdSpec => []DoneMeansAnswered
<1>1. FwdInv => DoneMeansAnswered
  BY DEF FwdInv, Idle, Ending, Answers, DoneMeansAnswered, Working
<1>q. QED  BY <1>1, FwdInitial, FwdStep, PTL DEF FwdSpec

----------------------------------------------------------------------------
(* Forwarder: the calls of a legacy queryer.                               *)

\* Each call has a slot of its own, and each job that waits for a call is one of
\* those that have not returned.
CallInv ==
    /\ calls \in Nat /\ slots = calls
    /\ calls <= Slots
    /\ Cardinality(Calling) <= calls

FwdCalls == FwdInv /\ CallInv

LEMMA ClientsFinite == IsFiniteSet(Clients) /\ IsFiniteSet(Calling) /\ Cardinality(Calling) \in Nat
  BY ForwarderAssumption, FS_Union, FS_Subset, FS_CardinalityType DEF Clients, Calling

LEMMA FewerCalling ==
    ASSUME CallInv, Calling' \subseteq Calling, UNCHANGED <<slots, calls>>
    PROVE  CallInv'
<1>1. Cardinality(Calling') \in Nat /\ Cardinality(Calling') <= Cardinality(Calling)
  BY ClientsFinite, FS_Subset, FS_CardinalityType
<1>q. QED  BY <1>1, ClientsFinite DEF CallInv

LEMMA OneLess ==
    ASSUME FwdInv, NEW c \in Clients, NEW to \in Places \ {"calling"}, job[c] = "calling",
           job' = [job EXCEPT ![c] = to]
    PROVE  Cardinality(Calling') = Cardinality(Calling) - 1 /\ Cardinality(Calling) > 0
<1>1. Calling' = Calling \ {c} /\ c \in Calling
  BY DEF FwdInv, FwdTypeOK, Calling
<1>2. Cardinality(Calling \ {c}) = Cardinality(Calling) - 1
  BY <1>1, ClientsFinite, FS_RemoveElement
<1>3. Cardinality(Calling) # 0
  BY <1>1, ClientsFinite, FS_EmptySet
<1>q. QED  BY <1>1, <1>2, <1>3, ClientsFinite

LEMMA CallStep ==
    ASSUME FwdInv, CallInv, [FwdNext]_fwdVars
    PROVE  CallInv'
<1>1. ASSUME NEW c \in Clients, Call(c) PROVE CallInv'
  <2>1. Calling' = Calling \cup {c} /\ c \notin Calling
    BY <1>1 DEF Call, Becomes, FwdInv, FwdTypeOK, Calling
  <2>2. Cardinality(Calling \cup {c}) = Cardinality(Calling) + 1
    BY <2>1, ClientsFinite, FS_AddElement
  <2>q. QED
    BY <1>1, <2>1, <2>2, ClientsFinite, ForwarderAssumption DEF Call, CallInv
<1>2. ASSUME NEW c \in Clients, Return(c) PROVE CallInv'
  <2>1. Cardinality(Calling') = Cardinality(Calling) - 1 /\ Cardinality(Calling) > 0
    BY <1>2, OneLess DEF Return, Becomes, Places
  <2>q. QED  BY <1>2, <2>1, ClientsFinite, ForwarderAssumption DEF Return, CallInv
<1>3. CASE ReturnLate
  <2>1. Calling' = Calling
    BY <1>3 DEF ReturnLate, Calling
  <2>q. QED
    BY <1>3, <2>1, ClientsFinite, ForwarderAssumption DEF ReturnLate, Calling, CallInv
<1>4. ASSUME NEW c \in Clients,
             \/ Malformed(c) \/ Answered(c) \/ NextResolver(c)
             \/ Timeout(c) \/ Reply(c) \/ ReplyFails(c) \/ ConnStep(c) \/ Send(c)
      PROVE  CallInv'
  <2>1. UNCHANGED <<slots, calls>>
    BY <1>4 DEF Malformed, Answered, NextResolver, Timeout, Reply, ReplyFails, ConnStep, ConnCheck,
       ConnRead, ConnEnd, Send
  <2>2. \E to \in Places \ {"calling"} : job' = [job EXCEPT ![c] = to]
    BY <1>4 DEF Malformed, Answered, NextResolver, Timeout, Reply, ReplyFails, ConnStep, ConnCheck,
       ConnRead, ConnEnd, Send, Becomes, Places
  <2>3. Calling' \subseteq Calling
    BY <2>2 DEF Calling, FwdInv, FwdTypeOK
  <2>q. QED  BY <2>1, <2>3, FewerCalling
<1>5. CASE UDPAdmit \/ TCPAdmit
  BY <1>5, FewerCalling DEF UDPAdmit, TCPAdmit, Calling, FwdInv, FwdTypeOK, Clients
<1>6. CASE \/ ListenUDP \/ ListenTCP \/ UDPRead \/ TCPAccept
           \/ Retire \/ Close \/ CancelParent \/ StopWithParent \/ WriteDeadline \/ Finish \/ UNCHANGED fwdVars
  <2>1. UNCHANGED <<job, slots, calls>>
    BY <1>6 DEF ListenUDP, ListenTCP, FailToListen, UDPRead, TCPAccept, Retire, Close, CancelParent,
       StopWithParent, WriteDeadline, Finish, stop, served, fwdVars
  <2>q. QED  BY <2>1, FewerCalling DEF Calling
<1>q. QED
  BY <1>1, <1>2, <1>3, <1>4, <1>5, <1>6 DEF FwdNext, JobStep, Clients

\* However often requests time out, at most as many calls of a legacy queryer are
\* under way as there are slots (legacyQuery in dns/forwarder.go).
THEOREM SlotsBoundCalls == FwdSpec => []CallsBounded
<1>1. FwdInit => FwdCalls
  <2> SUFFICES ASSUME FwdInit PROVE FwdCalls
    OBVIOUS
  <2>1. Calling = {}
    BY DEF FwdInit, Calling
  <2>2. Cardinality(Calling) = 0
    BY <2>1, FS_EmptySet
  <2>q. QED
    BY <2>2, FwdInitial, ForwarderAssumption DEF FwdInit, FwdCalls, CallInv
<1>2. FwdCalls /\ [FwdNext]_fwdVars => FwdCalls'
  BY FwdStep, CallStep DEF FwdCalls
<1>3. FwdCalls => CallsBounded
  BY DEF FwdCalls, CallInv, CallsBounded
<1>q. QED  BY <1>1, <1>2, <1>3, PTL DEF FwdSpec
----------------------------------------------------------------------------
(* DNSService.                                                             *)

Starting == {"config", "os", "manager", "set", "stack", "failing", "failed"}
Closing == {"cancel", "listeners", "wait loops", "conns", "wait sessions", "destroy", "down", "closed"}
SessionStates == {"away", "inject", "sent", "read", "query", "write", "open", "shut", "ended"}

SvcTypeOK ==
    /\ stage \in Starting \cup {"running"} \cup Closing
    /\ cancelled \in BOOLEAN /\ broken \in BOOLEAN /\ err \in BOOLEAN /\ late \in BOOLEAN
    /\ loop \in [Loops -> Callers \cup {"read", "end"}]
    /\ \A l \in Loops : loop[l] \in Callers => loop[l] \in (IF l = "tcp" THEN Streams ELSE Datagrams)
    /\ session \in [Callers -> SessionStates]
    /\ conns \subseteq Streams

\* What is still to be closed covers what is open, and the OS is left alone once its
\* configurator is closed.
Closes(S) ==
    /\ held \subseteq S
    /\ osDNS = "none" \/ {"os", "manager"} \cap S # {}

UndoInv ==
    \/ undo = AfterSet /\ Closes({"manager", "os", "dialer", "netmon", "bus"})
    \/ undo = AfterManager /\ Closes({"os", "dialer", "netmon", "bus"})
    \/ undo = AfterOS /\ Closes({"dialer", "netmon", "bus"})
    \/ undo = <<"netmon", "bus">> /\ Closes({"netmon", "bus"})
    \/ undo = <<"bus">> /\ Closes({"bus"})
    \/ undo = <<>> /\ Closes({})

\* What StartService leaves behind in each of its stages: nothing runs before the
\* last of them, and the OS has not been asked for anything before "set".
StartInv ==
    /\ stage \in Starting =>
          /\ LoopsEnded
          /\ ~cancelled
    /\ stage \in {"config", "os", "manager", "set"} => osDNS = "none"
    /\ stage = "config" => held = {}
    /\ stage = "os" => held \subseteq {"dialer", "netmon", "bus"}
    /\ stage = "manager" => held \subseteq {"os", "dialer", "netmon", "bus"}
    /\ stage \in {"set", "stack"} => held \subseteq {"manager", "os", "dialer", "netmon", "bus"}
    /\ held \subseteq {"stack", "manager", "os", "dialer", "netmon", "bus"}
    /\ IF stage \in {"failing", "down"} THEN UndoInv ELSE undo = <<>>
    /\ stage \in {"failed", "closed"} => held = {} /\ osDNS = "none"

\* Close cancels before it closes the listeners, and waits for the loops before
\* the sessions, which only loops start.
CloseInv ==
    /\ stage \in Closing \ {"cancel"} => cancelled
    /\ stage \in {"conns", "wait sessions", "destroy", "down", "closed"} => LoopsEnded
    /\ stage \in {"destroy", "down", "closed"} => \A c \in Callers : ~InSession(c)
    /\ ~late
    /\ err => broken

\* A registered connection has a session.
ConnsInv == \A c \in conns : session[c] \in {"open", "shut"}

SvcInv == SvcTypeOK /\ StartInv /\ CloseInv /\ ConnsInv

\* The order of Close, step by step.
LEMMA CloseTuple ==
    /\ DOMAIN CloseSteps = 1 .. 8 /\ Len(CloseSteps) = 8
    /\ CloseSteps[1] = "cancel" /\ CloseSteps[2] = "listeners" /\ CloseSteps[3] = "wait loops"
    /\ CloseSteps[4] = "conns" /\ CloseSteps[5] = "wait sessions" /\ CloseSteps[6] = "destroy"
    /\ CloseSteps[7] = "down" /\ CloseSteps[8] = "closed"
  BY DEF CloseSteps

LEMMA ToEight == \A j \in 1 .. 8 : j = 1 \/ j = 2 \/ j = 3 \/ j = 4 \/ j = 5 \/ j = 6 \/ j = 7 \/ j = 8
  BY SMT

LEMMA CloseOrder ==
    /\ At("cancel") = 1 /\ At("listeners") = 2 /\ At("wait loops") = 3 /\ At("conns") = 4
    /\ At("wait sessions") = 5 /\ At("destroy") = 6 /\ At("down") = 7
<1>1. At("cancel") = 1
  <2>1. \A j \in 1 .. 8 : CloseSteps[j] = "cancel" => j = 1
    BY CloseTuple, ToEight
  <2>2. 1 \in 1 .. 8
    OBVIOUS
  <2>q. QED  BY <2>1, <2>2, CloseTuple DEF At
<1>2. At("listeners") = 2
  <2>1. \A j \in 1 .. 8 : CloseSteps[j] = "listeners" => j = 2
    BY CloseTuple, ToEight
  <2>2. 2 \in 1 .. 8
    OBVIOUS
  <2>q. QED  BY <2>1, <2>2, CloseTuple DEF At
<1>3. At("wait loops") = 3
  <2>1. \A j \in 1 .. 8 : CloseSteps[j] = "wait loops" => j = 3
    BY CloseTuple, ToEight
  <2>2. 3 \in 1 .. 8
    OBVIOUS
  <2>q. QED  BY <2>1, <2>2, CloseTuple DEF At
<1>4. At("conns") = 4
  <2>1. \A j \in 1 .. 8 : CloseSteps[j] = "conns" => j = 4
    BY CloseTuple, ToEight
  <2>2. 4 \in 1 .. 8
    OBVIOUS
  <2>q. QED  BY <2>1, <2>2, CloseTuple DEF At
<1>5. At("wait sessions") = 5
  <2>1. \A j \in 1 .. 8 : CloseSteps[j] = "wait sessions" => j = 5
    BY CloseTuple, ToEight
  <2>2. 5 \in 1 .. 8
    OBVIOUS
  <2>q. QED  BY <2>1, <2>2, CloseTuple DEF At
<1>6. At("destroy") = 6
  <2>1. \A j \in 1 .. 8 : CloseSteps[j] = "destroy" => j = 6
    BY CloseTuple, ToEight
  <2>2. 6 \in 1 .. 8
    OBVIOUS
  <2>q. QED  BY <2>1, <2>2, CloseTuple DEF At
<1>7. At("down") = 7
  <2>1. \A j \in 1 .. 8 : CloseSteps[j] = "down" => j = 7
    BY CloseTuple, ToEight
  <2>2. 7 \in 1 .. 8
    OBVIOUS
  <2>q. QED  BY <2>1, <2>2, CloseTuple DEF At
<1>q. QED  BY <1>1, <1>2, <1>3, <1>4, <1>5, <1>6, <1>7

LEMMA CloseStages ==
    /\ AfterSessions = {"destroy", "down", "closed"}
    /\ {CloseSteps[i] : i \in 1 .. Len(CloseSteps) - 1} = Closing \ {"closed"}
    /\ CloseSteps[At("cancel") + 1] = "listeners"
    /\ CloseSteps[At("listeners") + 1] = "wait loops"
    /\ CloseSteps[At("wait loops") + 1] = "conns"
    /\ CloseSteps[At("conns") + 1] = "wait sessions"
    /\ CloseSteps[At("wait sessions") + 1] = "destroy"
    /\ CloseSteps[At("destroy") + 1] = "down"
    /\ CloseSteps[At("down") + 1] = "closed"
<1>1. AfterSessions = {"destroy", "down", "closed"}
  <2>1. AfterSessions = {CloseSteps[i] : i \in 6 .. 8}
    <3>1. At("wait sessions") + 1 = 6 /\ Len(CloseSteps) = 8
      <4>1. 5 + 1 = 6
        OBVIOUS
      <4>q. QED  BY <4>1, CloseTuple, CloseOrder, Zenon
    <3>q. QED  BY <3>1, Zenon DEF AfterSessions
  <2>2. 6 .. 8 = {6, 7, 8}
    OBVIOUS
  <2>q. QED  BY <2>1, <2>2, CloseTuple, Zenon
<1>2. {CloseSteps[i] : i \in 1 .. Len(CloseSteps) - 1} = Closing \ {"closed"}
  <2>1. 1 .. Len(CloseSteps) - 1 = {1, 2, 3, 4, 5, 6, 7}
    <3>1. Len(CloseSteps) - 1 = 7
      <4>1. 8 - 1 = 7
        OBVIOUS
      <4>q. QED  BY <4>1, CloseTuple, Zenon
    <3>2. 1 .. 7 = {1, 2, 3, 4, 5, 6, 7}
      OBVIOUS
    <3>q. QED  BY <3>1, <3>2, Zenon
  <2>2. {CloseSteps[i] : i \in {1, 2, 3, 4, 5, 6, 7}} =
            {"cancel", "listeners", "wait loops", "conns", "wait sessions", "destroy", "down"}
    BY CloseTuple, Zenon
  <2>3. Closing \ {"closed"} = {"cancel", "listeners", "wait loops", "conns", "wait sessions", "destroy", "down"}
    BY DEF Closing
  <2>q. QED  BY <2>1, <2>2, <2>3, Zenon
<1>3. /\ CloseSteps[At("cancel") + 1] = "listeners"
      /\ CloseSteps[At("listeners") + 1] = "wait loops"
      /\ CloseSteps[At("wait loops") + 1] = "conns"
      /\ CloseSteps[At("conns") + 1] = "wait sessions"
      /\ CloseSteps[At("wait sessions") + 1] = "destroy"
      /\ CloseSteps[At("destroy") + 1] = "down"
      /\ CloseSteps[At("down") + 1] = "closed"
  <2>1. 1 + 1 = 2 /\ 2 + 1 = 3 /\ 3 + 1 = 4 /\ 4 + 1 = 5 /\ 5 + 1 = 6 /\ 6 + 1 = 7 /\ 7 + 1 = 8
    OBVIOUS
  <2>q. QED  BY <2>1, CloseTuple, CloseOrder, Zenon
<1>q. QED  BY <1>1, <1>2, <1>3

LEMMA SvcInitial == SvcInit => SvcInv
<1> SUFFICES ASSUME SvcInit PROVE SvcInv
  OBVIOUS
<1>1. SvcTypeOK
  BY DNSServiceAssumption DEF SvcInit, SvcTypeOK, Starting, SessionStates, Callers
<1>2. StartInv /\ CloseInv /\ ConnsInv
  BY DEF SvcInit, StartInv, CloseInv, ConnsInv, LoopsEnded, Closing
<1>q. QED  BY <1>1, <1>2 DEF SvcInv

\* What is left to be closed after one close.
LEMMA UndoTails ==
    /\ Head(AfterSet) = "manager" /\ Tail(AfterSet) = AfterOS
    /\ Head(AfterManager) = "os" /\ Tail(AfterManager) = AfterOS
    /\ Head(AfterOS) = "dialer" /\ Tail(AfterOS) = <<"netmon", "bus">>
    /\ Head(<<"netmon", "bus">>) = "netmon" /\ Tail(<<"netmon", "bus">>) = <<"bus">>
    /\ Head(<<"bus">>) = "bus" /\ Tail(<<"bus">>) = <<>>
    /\ <<>> \notin {AfterSet, AfterManager, AfterOS, <<"netmon", "bus">>, <<"bus">>}
  BY DEF AfterSet, AfterManager, AfterOS

\* A step of StartService fails.
LEMMA SvcFails ==
    ASSUME SvcInv, stage \in {"config", "os", "manager", "set", "stack"}, Fail,
           osDNS' = "none" \/ stage \in {"set", "stack"}
    PROVE  SvcInv'
<1>1. stage' = "failing" /\ undo' = Undo(stage) /\ UNCHANGED <<held, cancelled, broken, err, loops, sets>>
  BY DEF Fail, Begin
<1>2. SvcTypeOK'
  BY <1>1 DEF SvcInv, SvcTypeOK, Starting, loops
<1>3. UndoInv'
  <2>1. CASE stage = "config"
    BY <1>1, <2>1 DEF SvcInv, StartInv, Undo, UndoInv, Closes
  <2>2. CASE stage = "os"
    BY <1>1, <2>2 DEF SvcInv, StartInv, Undo, UndoInv, Closes
  <2>3. CASE stage = "manager"
    BY <1>1, <2>3 DEF SvcInv, StartInv, Undo, UndoInv, Closes
  <2>4. CASE stage \in {"set", "stack"}
    BY <1>1, <2>4 DEF SvcInv, StartInv, Undo, UndoInv, Closes
  <2>q. QED  BY <2>1, <2>2, <2>3, <2>4
<1>4. StartInv'
  BY <1>1, <1>3 DEF SvcInv, StartInv, Starting, LoopsEnded, loops
<1>5. CloseInv' /\ ConnsInv'
  BY <1>1 DEF SvcInv, CloseInv, ConnsInv, Closing, loops
<1>q. QED  BY <1>2, <1>4, <1>5 DEF SvcInv

\* What was opened is closed, one after the other.
LEMMA SvcUndoes ==
    ASSUME SvcInv, UndoStep
    PROVE  SvcInv'
<1>1. UNCHANGED <<stage, cancelled, broken, err, loops, sets>> /\ undo # <<>>
  BY DEF UndoStep
<1>2. stage \in {"failing", "down"} /\ UndoInv
  BY <1>1 DEF SvcInv, StartInv
<1>3. /\ undo' = Tail(undo)
      /\ held' = held \ (IF Head(undo) = "manager" THEN {"manager", "os"} ELSE {Head(undo)})
      /\ osDNS' = IF Head(undo) \in {"manager", "os"} THEN "none" ELSE osDNS
  BY DEF UndoStep, Down
<1>4. UndoInv'
  BY <1>1, <1>2, <1>3, UndoTails DEF UndoInv, Closes
<1>5. held' \subseteq held
  BY <1>3
<1>6. StartInv'
  BY <1>1, <1>2, <1>4, <1>5 DEF SvcInv, StartInv, Starting, LoopsEnded, loops
<1>7. SvcTypeOK' /\ CloseInv' /\ ConnsInv'
  BY <1>1 DEF SvcInv, SvcTypeOK, CloseInv, ConnsInv, LoopsEnded, InSession, loops
<1>q. QED  BY <1>6, <1>7 DEF SvcInv

LEMMA SvcFailed ==
    ASSUME SvcInv, Failed
    PROVE  SvcInv'
<1>1. /\ stage = "failing" /\ stage' = "failed" /\ undo = <<>>
      /\ UNCHANGED <<held, undo, osDNS, cancelled, broken, err, loops, sets>>
  BY DEF Failed, Begin, os
<1>2. Closes({})
  BY <1>1, UndoTails DEF SvcInv, StartInv, UndoInv
<1>3. StartInv'
  BY <1>1, <1>2 DEF SvcInv, StartInv, Closes, Starting, LoopsEnded, loops
<1>4. SvcTypeOK' /\ CloseInv' /\ ConnsInv'
  BY <1>1 DEF SvcInv, SvcTypeOK, CloseInv, ConnsInv, Starting, Closing, loops
<1>q. QED  BY <1>3, <1>4 DEF SvcInv

\* StartService, with whatever of its steps fails.
LEMMA SvcStarts ==
    ASSUME SvcInv, StartConfig \/ StartOS \/ StartManager \/ StartSet
    PROVE  SvcInv'
<1>1. stage \in {"config", "os", "manager", "set"} /\ undo = <<>>
  BY DEF StartConfig, StartOS, StartManager, StartSet, SvcInv, StartInv
<1>2. CASE Fail
  <2>1. osDNS' = "none" \/ stage = "set"
    BY <1>1 DEF SvcInv, StartInv, StartConfig, StartOS, StartManager, StartSet
  <2>q. QED  BY <1>1, <1>2, <2>1, SvcFails
<1>3. CASE /\ stage' \in {"os", "manager", "set", "stack"}
           /\ UNCHANGED <<undo, cancelled, broken, err, loops, sets>>
  <2>1. SvcTypeOK'
    BY <1>3 DEF SvcInv, SvcTypeOK, Starting, loops
  <2>2. StartInv'
    BY <1>1, <1>3 DEF SvcInv, StartInv, Starting, LoopsEnded, loops, StartConfig, StartOS, StartManager, StartSet,
       Fail, Begin, SetDNS
  <2>3. CloseInv' /\ ConnsInv'
    BY <1>3 DEF SvcInv, CloseInv, ConnsInv, Closing, loops
  <2>q. QED  BY <2>1, <2>2, <2>3 DEF SvcInv
<1>q. QED  BY <1>2, <1>3 DEF StartConfig, StartOS, StartManager, StartSet, Begin

LEMMA SvcRuns ==
    ASSUME SvcInv, StartStack
    PROVE  SvcInv'
<1>1. CASE Fail
  BY <1>1, SvcFails DEF StartStack
<1>2. CASE ~Fail
  <2>1. /\ stage = "stack" /\ stage' = "running" /\ held' = held \cup {"stack"}
        /\ pump' = "read" /\ loop' = [l \in Loops |-> "read"]
        /\ UNCHANGED <<undo, cancelled, broken, err, session, conns, late>>
    BY <1>2 DEF StartStack
  <2>2. SvcTypeOK'
    BY <2>1, DNSServiceAssumption DEF SvcInv, SvcTypeOK, Callers
  <2>3. StartInv' /\ CloseInv' /\ ConnsInv'
    BY <2>1 DEF SvcInv, StartInv, CloseInv, ConnsInv, Starting, Closing
  <2>q. QED  BY <2>2, <2>3 DEF SvcInv
<1>q. QED  BY <1>1, <1>2

\* A step of one session of a client, which is not registered or is deregistered.
LEMMA SvcSessions ==
    ASSUME SvcInv, NEW c \in Callers,
           \/ HandlePacket(c) \/ InjectInbound(c)
           \/ c \in Datagrams /\ (Query(c) \/ Write(c))
           \/ c \in Streams /\ TCPSession(c)
    PROVE  SvcInv'
<1>1. /\ UNCHANGED <<stage, os, cancelled, broken, err, pump, loop, late>>
      /\ conns' \subseteq conns
      /\ c \notin conns'
  BY DEF HandlePacket, InjectInbound, Query, Write, TCPSession, SvcInv, ConnsInv
<1>2. \E to \in {"inject", "sent", "write", "ended"} :
          /\ session' = [session EXCEPT ![c] = to]
          /\ to = "write" => InSession(c)
  BY DEF HandlePacket, InjectInbound, Query, Write, TCPSession, InSession
<1>3. SvcTypeOK'
  BY <1>1, <1>2 DEF SvcInv, SvcTypeOK, SessionStates
<1>4. StartInv'
  BY <1>1 DEF SvcInv, StartInv, UndoInv, Closes, LoopsEnded, os
<1>5. CloseInv'
  <2>1. ASSUME stage \in {"destroy", "down", "closed"}, NEW d \in Callers PROVE ~InSession(d)'
    BY <1>1, <1>2, <2>1 DEF SvcInv, SvcTypeOK, CloseInv, InSession
  <2>q. QED  BY <1>1, <2>1 DEF SvcInv, CloseInv, LoopsEnded
<1>6. ConnsInv'
  BY <1>1, <1>2 DEF SvcInv, SvcTypeOK, ConnsInv, Callers
<1>q. QED  BY <1>3, <1>4, <1>5, <1>6 DEF SvcInv

LEMMA SvcReads ==
    ASSUME SvcInv, NEW l \in Loops, Read(l)
    PROVE  SvcInv'
<1>1. ~LoopsEnded
  BY DEF Read, LoopsEnded
<1>2. stage \in {"running", "cancel", "listeners", "wait loops"}
  BY <1>1 DEF SvcInv, SvcTypeOK, StartInv, CloseInv, Closing
<1>3. CASE loop' = [loop EXCEPT ![l] = "end"] /\ Ends
           /\ broken' = (broken \/ (Listening /\ ~cancelled)) /\ UNCHANGED session
  <2>1. SvcTypeOK'
    BY <1>3, DNSServiceAssumption DEF Read, Ends, SvcInv, SvcTypeOK, Callers, os
  <2>2. StartInv' /\ ConnsInv'
    BY <1>2, <1>3 DEF Read, SvcInv, StartInv, ConnsInv, Starting, os
  <2>3. CloseInv'
    BY <1>2, <1>3 DEF Read, Ends, Listening, SvcInv, SvcTypeOK, CloseInv, Closing
  <2>q. QED  BY <2>1, <2>2, <2>3 DEF SvcInv
<1>4. CASE /\ \E c \in (IF l = "tcp" THEN Streams ELSE Datagrams) :
                  session[c] = "sent" /\ loop' = [loop EXCEPT ![l] = c]
                  /\ session' = [session EXCEPT ![c] = "read"]
           /\ UNCHANGED <<cancelled, broken, err>>
  <2>1. PICK c \in (IF l = "tcp" THEN Streams ELSE Datagrams) :
            session[c] = "sent" /\ loop' = [loop EXCEPT ![l] = c] /\ session' = [session EXCEPT ![c] = "read"]
    BY <1>4
  <2>2. c \in Callers
    BY <2>1 DEF Callers
  <2>3. SvcTypeOK'
    BY <1>4, <2>1, <2>2 DEF Read, SvcInv, SvcTypeOK, SessionStates, os
  <2>4. StartInv' /\ CloseInv'
    BY <1>2, <1>4 DEF Read, SvcInv, StartInv, CloseInv, Starting, Closing, os
  <2>5. ConnsInv'
    BY <2>1, <2>2 DEF Read, SvcInv, SvcTypeOK, ConnsInv, Callers
  <2>q. QED  BY <2>3, <2>4, <2>5 DEF SvcInv
<1>q. QED  BY <1>3, <1>4 DEF Read

LEMMA SvcStartsSession ==
    ASSUME SvcInv, NEW l \in Loops, StartSession(l)
    PROVE  SvcInv'
<1>1. ~LoopsEnded
  BY DNSServiceAssumption DEF StartSession, LoopsEnded, Callers
<1>2. stage \in {"running", "cancel", "listeners", "wait loops"}
  BY <1>1 DEF SvcInv, SvcTypeOK, StartInv, CloseInv, Closing
<1> DEFINE c == loop[l]
<1>3. c \in Callers /\ c \in (IF l = "tcp" THEN Streams ELSE Datagrams)
  BY DEF StartSession, SvcInv, SvcTypeOK
<1>4. SvcTypeOK'
  BY <1>3, DNSServiceAssumption
  DEF StartSession, SvcInv, SvcTypeOK, SessionStates, Callers, os
<1>5. StartInv'
  BY <1>2 DEF StartSession, SvcInv, StartInv, Starting, os
<1>6. CloseInv'
  BY <1>2, CloseStages DEF StartSession, SvcInv, CloseInv, Closing
<1>7. ConnsInv'
  <2>1. l # "tcp" => c \notin conns
    BY <1>3, DNSServiceAssumption DEF SvcInv, SvcTypeOK
  <2>q. QED  BY <1>3, <2>1 DEF StartSession, SvcInv, SvcTypeOK, ConnsInv, Callers
<1>q. QED  BY <1>4, <1>5, <1>6, <1>7 DEF SvcInv

LEMMA SvcPumps ==
    ASSUME SvcInv, Pump \/ Outbound
    PROVE  SvcInv'
<1>1. /\ UNCHANGED <<stage, os, cancelled, broken, err, loop, session, conns, late>>
      /\ pump = "end" => pump' = "end"
  BY DEF Pump, Outbound
<1>2. SvcTypeOK' /\ ConnsInv'
  BY <1>1 DEF SvcInv, SvcTypeOK, ConnsInv
<1>3. StartInv'
  BY <1>1 DEF SvcInv, StartInv, UndoInv, Closes, LoopsEnded, os
<1>4. CloseInv'
  BY <1>1 DEF SvcInv, CloseInv, LoopsEnded, InSession
<1>q. QED  BY <1>2, <1>3, <1>4 DEF SvcInv

LEMMA SvcCloses ==
    ASSUME SvcInv, CloseStep
    PROVE  SvcInv'
<1>1. stage \in Closing \ {"closed"}
  BY CloseStages DEF CloseStep
<1>2. /\ stage = "cancel" => stage' = "listeners"
      /\ stage = "listeners" => stage' = "wait loops"
      /\ stage = "wait loops" => stage' = "conns"
      /\ stage = "conns" => stage' = "wait sessions"
      /\ stage = "wait sessions" => stage' = "destroy"
      /\ stage = "destroy" => stage' = "down"
      /\ stage = "down" => stage' = "closed"
  BY CloseStages DEF CloseStep
<1>3. \A c \in Callers : session'[c] = IF stage = "conns" /\ c \in conns THEN "shut" ELSE session[c]
  BY DEF CloseStep, SvcInv, SvcTypeOK
<1>4. SvcTypeOK'
  BY <1>1, <1>2 DEF CloseStep, SvcInv, SvcTypeOK, Closing, SessionStates
<1>5. StartInv'
  <2>1. CASE stage = "destroy"
    <3>1. /\ stage' = "down" /\ undo' = AfterSet /\ held' = held \ {"stack"}
          /\ held \subseteq {"stack", "manager", "os", "dialer", "netmon", "bus"}
      BY <1>2, <2>1 DEF CloseStep, SvcInv, StartInv
    <3>2. UndoInv'
      BY <3>1 DEF UndoInv, Closes
    <3>q. QED  BY <3>1, <3>2 DEF StartInv, Starting
  <2>2. CASE stage = "down"
    <3>1. /\ stage' = "closed" /\ undo = <<>> /\ UndoInv
          /\ UNCHANGED <<held, undo, osDNS>>
      BY <1>2, <2>2 DEF CloseStep, SvcInv, StartInv
    <3>2. Closes({})
      BY <3>1, UndoTails DEF UndoInv
    <3>q. QED  BY <3>1, <3>2 DEF StartInv, Starting, Closes
  <2>3. CASE stage \notin {"destroy", "down"}
    <3>1. /\ stage' \in {"listeners", "wait loops", "conns", "wait sessions", "destroy"}
          /\ UNCHANGED <<held, undo, osDNS>>
      BY <1>1, <1>2, <2>3 DEF CloseStep, Closing
    <3>q. QED  BY <1>1, <2>3, <3>1 DEF SvcInv, StartInv, Starting, Closing
  <2>q. QED  BY <2>1, <2>2, <2>3
<1>6. CloseInv'
  <2>1. (stage' \in Closing \ {"cancel"} => cancelled') /\ ~late' /\ (err' => broken')
    BY <1>1, <1>2 DEF CloseStep, SvcInv, CloseInv, Closing
  <2>2. stage' \in {"conns", "wait sessions", "destroy", "down", "closed"} => LoopsEnded'
    BY <1>1, <1>2 DEF CloseStep, SvcInv, CloseInv, Closing, LoopsEnded
  <2>3. stage' \in {"destroy", "down", "closed"} => \A c \in Callers : ~InSession(c)'
    BY <1>1, <1>2, <1>3 DEF CloseStep, SvcInv, CloseInv, Closing, InSession
  <2>q. QED  BY <2>1, <2>2, <2>3 DEF CloseInv
<1>7. ConnsInv'
  BY <1>3 DEF CloseStep, SvcInv, SvcTypeOK, ConnsInv, Callers
<1>q. QED  BY <1>4, <1>5, <1>6, <1>7 DEF SvcInv

LEMMA SvcStep == SvcInv /\ [SvcNext]_svcVars => SvcInv'
<1> SUFFICES ASSUME SvcInv, [SvcNext]_svcVars PROVE SvcInv'
  OBVIOUS
<1>1. CASE CloseService
  BY <1>1 DEF CloseService, SvcInv, SvcTypeOK, StartInv, CloseInv, ConnsInv, Starting, Closing,
     LoopsEnded, InSession, os, loops
<1>2. CASE ConfigureFull
  <2>1. stage = "running" /\ UNCHANGED <<stage, held, undo, cancelled, broken, err, loops>>
    BY <1>2 DEF ConfigureFull
  <2>q. QED
    BY <2>1 DEF SvcInv, SvcTypeOK, StartInv, CloseInv, ConnsInv, Starting, Closing, loops
<1>3. CASE UNCHANGED svcVars
  BY <1>3 DEF svcVars, os, loops, SvcInv, SvcTypeOK, StartInv, UndoInv, Closes, CloseInv, ConnsInv, LoopsEnded,
     InSession
<1>q. QED
  BY <1>1, <1>2, <1>3, SvcStarts, SvcUndoes, SvcFailed, SvcRuns, SvcSessions, SvcReads, SvcStartsSession, SvcPumps, SvcCloses
  DEF SvcNext, Callers

\* The packet service's Close destroys the network stack when no loop and no session
\* is left and none can start; whichever step of StartService fails, and when Close
\* is done, what was opened is closed; and Close reports only the error of a loop
\* that broke by itself (dns/packet_service.go, dns/service_os.go).
THEOREM StackIsQuiet == SvcSpec => []QuietWhenDestroyed
<1>1. SvcInv => QuietWhenDestroyed
  BY DEF SvcInv, SvcTypeOK, StartInv, CloseInv, ConnsInv, QuietWhenDestroyed, InSession, Callers
<1>q. QED  BY <1>1, SvcInitial, SvcStep, PTL DEF SvcSpec
----------------------------------------------------------------------------
(* DNSPolicy: requests of clients.                                         *)

Policies == [bind : Bindings, accept : SUBSET Profiles, exit : Profiles \cup {None}, search : SUBSET Domains]
ReportMaps == [Profiles -> Statuses \cup {None}]

PolTypeOK ==
    /\ policy \in Policies
    /\ report \in ReportMaps
    /\ basis \in [policy : Policies, report : ReportMaps]

LEMMA BindingFacts ==
    ASSUME NEW f \in Bindings
    PROVE  DOMAIN f \subseteq Domains /\ f \in [DOMAIN f -> Profiles \cup {None}]
  BY DEF Bindings

LEMMA MergedBindings ==
    ASSUME NEW f \in Bindings, NEW g \in Bindings, NEW S
    PROVE  With(Without(f, S), g) \in Bindings
<1> DEFINE h == With(Without(f, S), g)
<1>1. h \in [DOMAIN h -> Profiles \cup {None}] /\ DOMAIN h \in SUBSET Domains
  BY BindingFacts DEF With, Without
<1> HIDE DEF h
<1>2. h \in Bindings
  BY <1>1 DEF Bindings
<1>q. QED  BY <1>2 DEF h

LEMMA NoBindings == [d \in {} |-> None] \in Bindings
<1>1. [d \in {} |-> None] \in [{} -> Profiles \cup {None}] /\ {} \in SUBSET Domains
  OBVIOUS
<1>q. QED  BY <1>1 DEF Bindings

\* What each request makes of the bindings.
LEMMA Requested ==
    ASSUME NEW q \in Requests, NEW pol \in Policies
    PROVE  /\ Patched(q, pol) \in Policies
           /\ Patched(q, pol).bind = With(Without(pol.bind, DOMAIN q.unbind), q.bind)
           /\ Cleared(pol) \in Policies
           /\ Cleared(pol).bind = [d \in {} |-> None]
<1>1. /\ q.bind \in Bindings /\ q.unbind \in Bindings
      /\ q.accept \subseteq Profiles /\ q.refuse \subseteq Profiles
  BY DNSPolicyAssumption
<1>2. With(Without(pol.bind, DOMAIN q.unbind), q.bind) \in Bindings
  BY <1>1, MergedBindings DEF Policies
<1>q. QED  BY <1>1, <1>2, NoBindings DEF Policies, Patched, Cleared

LEMMA Replaced ==
    ASSUME NEW q \in Requests, NEW pol \in Policies, NEW patch,
           patch = [q EXCEPT !.replace = TRUE, !.unbind = [d \in {} |-> None], !.refuse = {}]
    PROVE  /\ Patched(patch, Cleared(pol)) \in Policies
           /\ Patched(patch, Cleared(pol)).bind = q.bind
<1>1. /\ q \in [accept : SUBSET Profiles, refuse : SUBSET Profiles,
                unbind : Bindings, bind : Bindings, replace : BOOLEAN]
      /\ q.bind \in Bindings /\ q.accept \subseteq Profiles
  BY DNSPolicyAssumption
<1>2. /\ patch.bind = q.bind /\ patch.unbind = [d \in {} |-> None]
      /\ patch.accept = q.accept /\ patch.refuse = {}
  BY <1>1
<1>3. Cleared(pol) \in Policies /\ Cleared(pol).bind = [d \in {} |-> None]
  BY Requested
<1>4. With(Without([d \in {} |-> None], {}), q.bind) = q.bind
  <2>1. q.bind = [x \in DOMAIN q.bind |-> q.bind[x]]
    BY <1>1, BindingFacts
  <2>q. QED  BY <2>1 DEF With, Without
<1>5. With(Without(Cleared(pol).bind, DOMAIN patch.unbind), patch.bind) = q.bind
  <2>1. DOMAIN patch.unbind = {}
    BY <1>2
  <2>q. QED  BY <1>2, <1>3, <1>4, <2>1
<1>q. QED
  BY <1>1, <1>2, <1>3, <1>5 DEF Patched, Policies

LEMMA Replacing ==
    ASSUME NEW q \in Requests, policy \in Policies, ReplaceDNSRoutes(q)
    PROVE  policy' \in Policies /\ policy'.bind = q.bind /\ UNCHANGED <<report, basis>>
<1> DEFINE patch == [q EXCEPT !.replace = TRUE, !.unbind = [d \in {} |-> None], !.refuse = {}]
<1>1. policy' = Patched(patch, Cleared(policy)) /\ UNCHANGED <<report, basis>>
  BY DEF ReplaceDNSRoutes, Commit, resolver
<1>2. Patched(patch, Cleared(policy)) \in Policies /\ Patched(patch, Cleared(policy)).bind = q.bind
  <2> HIDE DEF patch
  <2>1. patch = [q EXCEPT !.replace = TRUE, !.unbind = [d \in {} |-> None], !.refuse = {}]
    BY DEF patch
  <2>q. QED  BY <2>1, Replaced
<1>q. QED  BY <1>1, <1>2

PatchRequests == \E q \in Requests : PatchDNSRoutes(q)
ReplaceRequests == \E q \in Requests : ReplaceDNSRoutes(q)
SearchOrExit ==
    \/ \E S \in SearchSets : ReplaceSearchDomains(S) \/ \E R \in SearchSets : PatchSearchDomains(S, R)
    \/ ClearSearchDomains
    \/ \E p \in Profiles \cup {None} : SelectExit(p)

LEMMA OtherRequests ==
    ASSUME policy \in Policies, SearchOrExit
    PROVE  policy' \in Policies /\ policy'.bind = policy.bind
  BY DNSPolicyAssumption
  DEF SearchOrExit, ReplaceSearchDomains, PatchSearchDomains, ClearSearchDomains, SelectExit, Commit, Policies

\* A reconciliation changes neither the policy nor the reports.
LEMMA Reconciling ==
    ASSUME configureDNSLocked \/ EndForwarder
    PROVE  UNCHANGED <<policy, report>> /\ basis' \in {basis, Current}
  BY DEF configureDNSLocked, StartForwarder, StartFails, Configure, ConfigureFails, EndForwarder, resolver

LEMMA PolStep == PolTypeOK /\ [Next]_vars => PolTypeOK'
<1> SUFFICES ASSUME PolTypeOK, [Next]_vars PROVE PolTypeOK'
  OBVIOUS
<1>p. policy \in Policies
  BY DEF PolTypeOK
<1>1. CASE PatchRequests
  BY <1>1, <1>p, Requested DEF PatchRequests, PatchDNSRoutes, Commit, resolver, PolTypeOK
<1>2. CASE ReplaceRequests
  BY <1>2, <1>p, Replacing DEF ReplaceRequests, PolTypeOK
<1>3. CASE ClearDNSRoutes
  <2>1. Cleared(policy) \in Policies
    BY <1>p, NoBindings DEF Cleared, Policies
  <2>q. QED  BY <1>3, <2>1 DEF ClearDNSRoutes, Commit, resolver, PolTypeOK
<1>4. CASE SearchOrExit
  <2>1. UNCHANGED <<report, basis>>
    BY <1>4 DEF SearchOrExit, ReplaceSearchDomains, PatchSearchDomains, ClearSearchDomains, SelectExit, Commit,
       resolver
  <2>q. QED  BY <1>4, <1>p, <2>1, OtherRequests DEF PolTypeOK
<1>5. ASSUME NEW p \in Profiles, NEW s \in Reports[p] \cup {None}, Observe(p, s) PROVE PolTypeOK'
  <2>1. s \in Statuses \cup {None}
    BY DNSPolicyAssumption
  <2>q. QED  BY <1>5, <2>1 DEF Observe, resolver, PolTypeOK, ReportMaps
<1>6. CASE configureDNSLocked \/ EndForwarder
  <2>1. UNCHANGED <<policy, report>> /\ basis' \in {basis, Current}
    BY <1>6, Reconciling
  <2>q. QED  BY <2>1 DEF PolTypeOK, Current
<1>7. CASE UNCHANGED vars
  BY <1>7 DEF vars, resolver, PolTypeOK
<1>q. QED
  BY <1>1, <1>2, <1>3, <1>4, <1>5, <1>6, <1>7
  DEF Next, PatchRequests, ReplaceRequests, SearchOrExit

LEMMA PolInitial == Init => PolTypeOK
<1> SUFFICES ASSUME Init PROVE PolTypeOK
  OBVIOUS
<1>1. policy \in Policies
  BY NoBindings DEF Init, Policies
<1>2. report \in ReportMaps
  BY DEF Init, ReportMaps
<1>q. QED  BY <1>1, <1>2 DEF Init, PolTypeOK

\* One request, on one domain: dropped because the request unbinds it from the
\* profile it names, given to another because the request replaces, or kept.
LEMMA PatchKeeps ==
    ASSUME NEW q \in Requests, policy \in Policies, PatchDNSRoutes(q), NEW d \in DOMAIN policy.bind
    PROVE  \/ d \in DOMAIN policy'.bind /\ policy'.bind[d] = policy.bind[d]
           \/ /\ d \in DOMAIN q.unbind /\ q.unbind[d] \in {None, policy.bind[d]}
              /\ policy'.bind = With(Without(policy.bind, DOMAIN q.unbind), q.bind)
           \/ /\ q.replace /\ d \in DOMAIN q.bind
              /\ policy'.bind = With(Without(policy.bind, DOMAIN q.unbind), q.bind)
<1>1. policy'.bind = With(Without(policy.bind, DOMAIN q.unbind), q.bind) /\ ~PatchFails(q, policy)
  BY Requested DEF PatchDNSRoutes, Commit
<1>2. CASE d \in DOMAIN q.unbind
  BY <1>1, <1>2 DEF PatchFails
<1>3. CASE d \notin DOMAIN q.unbind /\ d \in DOMAIN q.bind
  <2>1. q.replace \/ policy.bind[d] = q.bind[d]
    BY <1>1, <1>3 DEF PatchFails
  <2>2. d \in DOMAIN policy'.bind /\ policy'.bind[d] = q.bind[d]
    BY <1>1, <1>3 DEF With
  <2>q. QED  BY <1>1, <1>3, <2>1, <2>2
<1>4. CASE d \notin DOMAIN q.unbind /\ d \notin DOMAIN q.bind
  BY <1>1, <1>4 DEF With, Without
<1>q. QED  BY <1>2, <1>3, <1>4

BindingsStep ==
    \A d \in DOMAIN policy.bind :
        \/ d \in DOMAIN policy'.bind /\ policy'.bind[d] = policy.bind[d]
        \/ \E q \in Requests : d \in DOMAIN q.unbind /\ q.unbind[d] \in {None, policy.bind[d]}
                               /\ policy'.bind = With(Without(policy.bind, DOMAIN q.unbind), q.bind)
        \/ \E q \in Requests : q.replace /\ d \in DOMAIN q.bind
                               /\ policy'.bind = With(Without(policy.bind, DOMAIN q.unbind), q.bind)
        \/ \E q \in Requests : policy'.bind = q.bind
        \/ policy'.bind = Cleared(policy).bind

LEMMA StepsKeep == PolTypeOK /\ [Next]_vars => [BindingsStep]_vars
<1> SUFFICES ASSUME PolTypeOK, Next PROVE BindingsStep
  OBVIOUS
<1>p. policy \in Policies
  BY DEF PolTypeOK
<1>1. CASE PatchRequests
  BY <1>1, <1>p, PatchKeeps DEF PatchRequests, BindingsStep
<1>2. CASE ReplaceRequests
  BY <1>2, <1>p, Replacing DEF ReplaceRequests, BindingsStep
<1>3. CASE ClearDNSRoutes
  BY <1>3 DEF ClearDNSRoutes, Commit, BindingsStep
<1>4. CASE SearchOrExit
  BY <1>4, <1>p, OtherRequests DEF BindingsStep
<1>5. CASE policy' = policy
  BY <1>5 DEF BindingsStep
<1>q. QED
  BY <1>1, <1>2, <1>3, <1>4, <1>5, Reconciling
  DEF Next, PatchRequests, ReplaceRequests, SearchOrExit, Observe

\* Whatever else a request asks for, a binding that it does not name, or names for
\* another profile without replace, stays with its profile (applyDNSPatchLocked,
\* commitPolicyLocked in cmd/tailmixd/policyapi.go).
THEOREM RequestsKeepBindings == Spec => BindingsAreKept
<1>1. Spec => []PolTypeOK
  BY PolInitial, PolStep, PTL DEF Spec
<1>q. QED  BY <1>1, StepsKeep, PTL DEF Spec, BindingsAreKept, BindingsStep
----------------------------------------------------------------------------
(* DNSPolicy: the plan, the configuration and its forwarders.              *)

LEMMA Least ==
    ASSUME NEW T \in SUBSET Nat, T # {}
    PROVE  \E x \in T : \A y \in T : x <= y
<1> DEFINE Below == {ss \in Nat \X Nat : ss[1] < ss[2]}
<1>1. IsWellFoundedOn(Below, Nat)
  BY NatLessThanWellFounded DEF OpToRel
<1>2. PICK x \in T : \A y \in T : <<y, x>> \notin Below
  <2> HIDE DEF Below
  <2>q. QED  BY <1>1, WFMin
<1>3. \A y \in T : <<y, x>> \in Nat \X Nat
  OBVIOUS
<1>4. \A y \in T : ~(y < x)
  BY <1>2, <1>3
<1>q. QED  BY <1>4

\* The routes of a status carry no resolvers but those that it reports.
LEMMA RoutesOfStatus ==
    ASSUME NEW s \in Statuses
    PROVE  /\ DOMAIN dnsRoutesForStatus(s) \subseteq Nat
           /\ \A i \in DOMAIN dnsRoutesForStatus(s) :
                 /\ dnsRoutesForStatus(s)[i].source \in Sources
                 /\ \/ dnsRoutesForStatus(s)[i].res = NoList
                    \/ \E j \in DOMAIN s.routes : s.routes[j].res = dnsRoutesForStatus(s)[i].res
<1> DEFINE own == [dom |-> s.suffix, source |-> "magicdns", res |-> NoList]
           R == dnsRoutesForStatus(s)
<1>1. s.routes \in Seq(Advertised)
  BY DEF Statuses
<1>2. R = s.routes \/ R = Append(s.routes, own)
  BY DEF dnsRoutesForStatus
<1>3. \A i \in DOMAIN s.routes : s.routes[i] \in Advertised
  BY <1>1
<1>4. DOMAIN s.routes = 1 .. Len(s.routes) /\ Len(s.routes) \in Nat
  BY <1>1
<1>5. own.source \in Sources /\ own.res = NoList
  BY DEF Sources
<1>6. CASE R = s.routes
  BY <1>3, <1>4, <1>6 DEF Advertised
<1>7. CASE R = Append(s.routes, own)
  <2> HIDE DEF own
  <2>1. /\ DOMAIN Append(s.routes, own) = 1 .. Len(s.routes) + 1
        /\ \A i \in 1 .. Len(s.routes) : Append(s.routes, own)[i] = s.routes[i]
        /\ Append(s.routes, own)[Len(s.routes) + 1] = own
    BY <1>1
  <2>2. \A i \in DOMAIN R : (i \in DOMAIN s.routes /\ R[i] = s.routes[i]) \/ R[i] = own
    BY <1>4, <1>7, <2>1
  <2>3. DOMAIN R \subseteq Nat
    BY <1>4, <1>7, <2>1
  <2>q. QED  BY <1>3, <1>5, <2>2, <2>3 DEF Advertised
<1>q. QED  BY <1>2, <1>6, <1>7

\* addDNSCandidate finds what it looks for: the offer for a domain is a route of
\* the status, and no other route for the domain has a better source.
LEMMA OfferIsRoute ==
    ASSUME NEW s \in Statuses, NEW d \in Offers(s)
    PROVE  \E i \in DOMAIN dnsRoutesForStatus(s) :
              /\ Offer(s, d) = dnsRoutesForStatus(s)[i]
              /\ \A k \in DOMAIN dnsRoutesForStatus(s) : dnsRoutesForStatus(s)[k].dom = d =>
                    Priority[dnsRoutesForStatus(s)[i].source] <= Priority[dnsRoutesForStatus(s)[k].source]
<1> DEFINE R == dnsRoutesForStatus(s)
           C == {i \in DOMAIN R : R[i].dom = d}
           P(i) == Priority[R[i].source]
           First(i) == \A k \in C : P(i) < P(k) \/ (P(i) = P(k) /\ i <= k)
<1>1. C # {} /\ C \subseteq Nat /\ C \subseteq DOMAIN R
  BY RoutesOfStatus DEF Offers
<1>2. \A i \in C : P(i) \in Nat
  BY RoutesOfStatus DEF Priority, Sources
<1>3. Offer(s, d) = R[CHOOSE i \in C : First(i)]
  BY DEF Offer
<1> HIDE DEF R, P
<1>4. PICK m \in C : \A k \in C : P(m) <= P(k)
  <2>1. {P(i) : i \in C} \in SUBSET Nat /\ {P(i) : i \in C} # {}
    BY <1>1, <1>2
  <2>2. PICK x \in {P(i) : i \in C} : \A y \in {P(i) : i \in C} : x <= y
    BY <2>1, Least
  <2>q. QED  BY <2>2
<1>5. PICK n \in {i \in C : P(i) = P(m)} : \A k \in {i \in C : P(i) = P(m)} : n <= k
  <2>1. {i \in C : P(i) = P(m)} \in SUBSET Nat /\ {i \in C : P(i) = P(m)} # {}
    BY <1>1
  <2>q. QED  BY <2>1, Least
<1>6. n \in C /\ First(n)
  BY <1>1, <1>2, <1>4, <1>5
<1> DEFINE c == CHOOSE i \in C : First(i)
<1>7. c \in C /\ First(c)
  BY <1>6
<1> HIDE DEF c
<1>8. \A k \in C : P(c) <= P(k)
  BY <1>2, <1>7
<1>9. \A k \in DOMAIN R : R[k].dom = d => k \in C
  OBVIOUS
<1>q. QED  BY <1>1, <1>3, <1>7, <1>8, <1>9 DEF R, P, c

\* An active entry of a tier is the offer of a profile.
LEMMA ActiveInTier ==
    ASSUME NEW offers, NEW above, NEW e \in Tier(offers, above), e.active
    PROVE  \E p \in DOMAIN offers : \E d \in DOMAIN offers[p] : e = offers[p][d]
<1> DEFINE C(d) == {p \in DOMAIN offers : d \in DOMAIN offers[p]}
<1>1. PICK d \in UNION {DOMAIN offers[p] : p \in DOMAIN offers} :
          e = IF d \in above \/ Cardinality(C(d)) # 1 THEN Inactive(d, None)
                                                      ELSE offers[CHOOSE p \in C(d) : TRUE][d]
  BY DEF Tier
<1>2. Cardinality(C(d)) = 1 /\ e = offers[CHOOSE p \in C(d) : TRUE][d]
  BY <1>1 DEF Inactive
<1>3. C(d) # {}
  BY <1>2, FS_EmptySet
<1>4. (CHOOSE p \in C(d) : TRUE) \in C(d)
  BY <1>3
<1>q. QED  BY <1>2, <1>4

\* What an active entry needs: a profile that runs and whose resolvers it has.
Sound(b, e) ==
    /\ e.prof \in Running(b)
    /\ e.profileDNS => e.prof \in ExitProfile(b)
    /\ \/ e.res = NoList
       \/ \E i \in DOMAIN b.report[e.prof].routes : b.report[e.prof].routes[i].res = e.res

Bases == [policy : Policies, report : ReportMaps]

LEMMA RunningStatus ==
    ASSUME NEW b \in Bases, NEW p \in Running(b)
    PROVE  b.report[p] \in Statuses
  BY DEF Bases, ReportMaps, Running

LEMMA ExactSound ==
    ASSUME NEW b \in Bases, NEW d, exactEntry(b, d).active
    PROVE  Sound(b, exactEntry(b, d))
<1> DEFINE p == b.policy.bind[d]
           R == dnsRoutesForStatus(b.report[p])
           cover == IF p \in Running(b) THEN coveringDNSRoute(d, R) ELSE {}
           r == CHOOSE r \in cover : TRUE
<1>1. cover # {} /\ exactEntry(b, d) = Entry(d, p, r.source, FALSE, r.res)
  BY DEF exactEntry, Inactive
<1>2. p \in Running(b) /\ r \in coveringDNSRoute(d, R)
  <2> HIDE DEF p, R
  <2>q. QED  BY <1>1
<1>3. PICK i \in DOMAIN R : r = R[i]
  <2> HIDE DEF r, R
  <2>q. QED  BY <1>2 DEF coveringDNSRoute
<1>4. R[i].res = NoList \/ \E j \in DOMAIN b.report[p].routes : b.report[p].routes[j].res = R[i].res
  BY <1>2, <1>3, RunningStatus, RoutesOfStatus
<1> HIDE DEF p, R, r, cover
<1>q. QED  BY <1>1, <1>2, <1>3, <1>4 DEF Sound, Entry

LEMMA ImportedSound ==
    ASSUME NEW b \in Bases, NEW p \in Running(b), NEW d \in Offers(b.report[p])
    PROVE  Sound(b, Entry(d, p, Offer(b.report[p], d).source, FALSE, Offer(b.report[p], d).res))
<1>1. PICK i \in DOMAIN dnsRoutesForStatus(b.report[p]) : Offer(b.report[p], d) = dnsRoutesForStatus(b.report[p])[i]
  BY RunningStatus, OfferIsRoute
<1>2. \/ Offer(b.report[p], d).res = NoList
      \/ \E j \in DOMAIN b.report[p].routes : b.report[p].routes[j].res = Offer(b.report[p], d).res
  BY <1>1, RunningStatus, RoutesOfStatus
<1>q. QED  BY <1>2 DEF Sound, Entry

LEMMA PlanSound ==
    ASSUME NEW b \in Bases,
           NEW e \in BuildDNS(b).exact \cup BuildDNS(b).imported \cup BuildDNS(b).automatic,
           e.active
    PROVE  Sound(b, e)
<1> DEFINE importedEntry(p, d) ==
              LET o == Offer(b.report[p], d) IN Entry(d, p, o.source, FALSE, o.res)
           automaticEntry(p, d) ==
              IF d = Root /\ p \in ExitProfile(b) THEN Entry(d, p, "exit-node", TRUE, NoList)
                                                  ELSE Entry(d, p, "magicdns", FALSE, NoList)
           imports == [p \in b.policy.accept \cap Running(b) |->
                          [d \in Offers(b.report[p]) |-> importedEntry(p, d)]]
           automatics == [p \in Running(b) |-> [d \in AutomaticDomains(b, p) |-> automaticEntry(p, d)]]
<1>1. /\ BuildDNS(b).exact = {exactEntry(b, d) : d \in DOMAIN b.policy.bind}
      /\ \E above : BuildDNS(b).imported = Tier(imports, above)
      /\ \E above : BuildDNS(b).automatic = Tier(automatics, above)
  BY DEF BuildDNS
<1>2. CASE e \in BuildDNS(b).exact
  BY <1>1, <1>2, ExactSound
<1>3. CASE e \in BuildDNS(b).imported
  <2>1. PICK p \in DOMAIN imports : \E d \in DOMAIN imports[p] : e = imports[p][d]
    <3> HIDE DEF imports
    <3>q. QED  BY <1>1, <1>3, ActiveInTier
  <2>2. p \in Running(b) /\ \E d \in Offers(b.report[p]) : e = importedEntry(p, d)
    BY <2>1
  <2>q. QED  BY <2>2, ImportedSound
<1>4. CASE e \in BuildDNS(b).automatic
  <2>1. PICK p \in DOMAIN automatics : \E d \in DOMAIN automatics[p] : e = automatics[p][d]
    <3> HIDE DEF automatics
    <3>q. QED  BY <1>1, <1>4, ActiveInTier
  <2>2. p \in Running(b) /\ \E d \in AutomaticDomains(b, p) : e = automaticEntry(p, d)
    BY <2>1
  <2>q. QED  BY <2>2 DEF Sound, Entry
<1>q. QED  BY <1>2, <1>3, <1>4

LEMMA ForwardedSound ==
    ASSUME NEW b \in Bases, NEW r \in Forwarded(tunDNSLiveConfig(b))
    PROVE  Sound(b, r) /\ (r.profileDNS \/ r.res # NoList)
<1>1. r.active /\ (r.profileDNS \/ r.res # NoList) /\ r \in tunDNSLiveConfig(b).routes
  BY DEF Forwarded
<1>2. \/ r \in PolicyEntries(BuildDNS(b))
      \/ \E n : r = Inactive(n, None)
  BY <1>1 DEF tunDNSLiveConfig
<1>3. r \in PolicyEntries(BuildDNS(b))
  <2>1. \A n : ~Inactive(n, None).active
    BY DEF Inactive
  <2>q. QED  BY <1>1, <1>2, <2>1
<1>4. r \in BuildDNS(b).exact \cup BuildDNS(b).imported \cup BuildDNS(b).automatic
  BY <1>3 DEF PolicyEntries
<1>q. QED  BY <1>1, <1>4, PlanSound

\* The resolver is given the ports of the forwarders and no other.
LEMMA ConfiguredPorts ==
    ASSUME NEW cfg, NEW ports \in [Doms(Forwarded(cfg)) -> Ports], NEW c, c = configForService(cfg, ports)
    PROVE  Values(ports) = (Values(c.routes) \cup {c.default}) \ {None}
<1> DEFINE D == (Doms(cfg.routes) \cup ExactRoutes(cfg)) \ {Root}
<1>1. /\ c.routes = [d \in D |-> IF d \in DOMAIN ports THEN ports[d] ELSE None]
      /\ c.default = IF Root \in DOMAIN ports THEN ports[Root] ELSE None
  BY DEF configForService
<1>2. DOMAIN ports \subseteq D \cup {Root}
  <2>1. DOMAIN ports = Doms(Forwarded(cfg))
    OBVIOUS
  <2>2. Doms(Forwarded(cfg)) \subseteq Doms(cfg.routes)
    BY DEF Doms, Forwarded
  <2>q. QED  BY <2>1, <2>2
<1>3. \A d \in DOMAIN ports : ports[d] # None
  BY DNSPolicyAssumption
<1> HIDE DEF D
<1>4. DOMAIN c.routes = D
  BY <1>1
<1>5. \A d \in D : c.routes[d] = IF d \in DOMAIN ports THEN ports[d] ELSE None
  BY <1>1
<1>q. QED  BY <1>1, <1>2, <1>3, <1>4, <1>5 DEF Values

----------------------------------------------------------------------------
(* DNSPolicy: domains.                                                     *)

\* Domains and names are sequences.
LEMMA DomainLen ==
    ASSUME NEW d \in Domains \cup Names
    PROVE  /\ Len(d) \in Nat
           /\ Len(d) = 0 => d = Root
           /\ DNSContains(Root, d)
<1>1. d \in Seq({d[i] : i \in DOMAIN d})
  BY DNSPolicyAssumption, Zenon
<1>2. Len(d) \in Nat /\ DOMAIN d = 1 .. Len(d)
  BY <1>1
<1>3. Len(d) = 0 => d = Root
  BY <1>1 DEF Root
<1>4. Len(Root) = 0 /\ SubSeq(d, 1, 0) = Root
  BY <1>1 DEF Root
<1>q. QED  BY <1>2, <1>3, <1>4 DEF DNSContains

\* Two suffixes of one name that have the same length are one.
LEMMA SuffixesOfName ==
    ASSUME NEW n, NEW d, NEW e, DNSContains(d, n), DNSContains(e, n), Len(d) = Len(e)
    PROVE  d = e
  BY DEF DNSContains

\* A bounded set of numbers has a greatest.
LEMMA Greatest ==
    ASSUME NEW T \in SUBSET Nat, T # {}, NEW N \in Nat, \A x \in T : x <= N
    PROVE  \E x \in T : \A y \in T : y <= x
<1> DEFINE U == {N - x : x \in T}
<1>0. \A x \in T : x \in Nat /\ x <= N
  OBVIOUS
<1>1. U \in SUBSET Nat /\ U # {}
  <2>1. \A x \in T : N - x \in Nat
    BY <1>0
  <2>q. QED  BY <2>1
<1>2. PICK u \in U : \A v \in U : u <= v
  <2> HIDE DEF U
  <2>q. QED  BY <1>1, Least
<1>3. PICK x \in T : u = N - x
  BY <1>2
<1>4. \A y \in T : N - x <= N - y
  BY <1>2, <1>3
<1>5. x \in Nat /\ \A y \in T : y \in Nat
  OBVIOUS
<1>6. ASSUME NEW y \in T PROVE y <= x
  BY <1>4, <1>5
<1>q. QED  BY <1>6

\* longestDNSMatch among entries with one domain each: nothing when nothing covers the
\* name, else the one longest.
LEMMA OneLongest ==
    ASSUME NEW E, NEW n \in Domains \cup Names,
           \A e \in E : e.dom \in Domains,
           \A e, f \in E : e.dom = f.dom => e = f,
           Covering(n, E) # {}
    PROVE  \E e \in Covering(n, E) :
              /\ longestDNSMatch(n, E) = {e}
              /\ \A f \in Covering(n, E) : f # e => Len(f.dom) < Len(e.dom)
<1> DEFINE C == Covering(n, E)
           L == {Len(e.dom) : e \in C}
<1>1. \A e \in C : e \in E /\ e.dom \in Domains /\ DNSContains(e.dom, n)
  BY DEF Covering
<1>2. \A e \in C : Len(e.dom) \in Nat /\ Len(e.dom) <= Len(n)
  BY <1>1, DomainLen DEF DNSContains
<1>3. Len(n) \in Nat
  BY DomainLen
<1> HIDE DEF C
<1>4. PICK x \in L : \A y \in L : y <= x
  <2>1. L \in SUBSET Nat /\ L # {} /\ \A x \in L : x <= Len(n)
    BY <1>2 DEF C
  <2> HIDE DEF L
  <2>q. QED  BY <1>3, <2>1, Greatest
<1>5. PICK e \in C : x = Len(e.dom)
  BY <1>4
<1>6. \A f \in C : Len(f.dom) <= Len(e.dom)
  BY <1>4, <1>5
<1>7. ASSUME NEW f \in C, Len(f.dom) = Len(e.dom)
      PROVE  f = e
  BY <1>1, <1>7, SuffixesOfName
<1>8. \A f \in C : f # e => Len(f.dom) < Len(e.dom)
  BY <1>2, <1>6, <1>7
<1>9. longestDNSMatch(n, E) = {e}
  BY <1>2, <1>6, <1>8 DEF longestDNSMatch, Longest, C
<1>q. QED  BY <1>8, <1>9 DEF C

----------------------------------------------------------------------------
(* DNSPolicy: the plan, domain by domain.                                  *)

\* What each profile offers to the two lower tiers.
ImportOffers(b) ==
    [p \in b.policy.accept \cap Running(b) |->
        [d \in Offers(b.report[p]) |->
            LET o == Offer(b.report[p], d) IN Entry(d, p, o.source, FALSE, o.res)]]

AutomaticOffers(b) ==
    [p \in Running(b) |->
        [d \in AutomaticDomains(b, p) |->
            IF d = Root /\ p \in ExitProfile(b) THEN Entry(d, p, "exit-node", TRUE, NoList)
                                                ELSE Entry(d, p, "magicdns", FALSE, NoList)]]

\* Who offers a domain, and the domains that somebody offers.
Offering(offers, d) == {p \in DOMAIN offers : d \in DOMAIN offers[p]}
OfferedIn(offers) == UNION {DOMAIN offers[p] : p \in DOMAIN offers}

Bound(b) == DOMAIN b.policy.bind
Imported(b) == OfferedIn(ImportOffers(b))
Automatic(b) == OfferedIn(AutomaticOffers(b))

\* The entry of a tier for one domain.
IsSlot(offers, above, d, e) ==
    /\ e.dom = d
    /\ d \notin above =>
          /\ e.active <=> \E p : Offering(offers, d) = {p}
          /\ \A p : Offering(offers, d) = {p} => e = offers[p][d]

\* A tier has one entry for each domain that somebody offers: that of the only one who
\* does, or an inactive one.
LEMMA TierSlots ==
    ASSUME NEW offers, NEW above, IsFiniteSet(DOMAIN offers),
           \A p \in DOMAIN offers : \A d \in DOMAIN offers[p] :
               offers[p][d].dom = d /\ offers[p][d].active
    PROVE  /\ Doms(Tier(offers, above)) = OfferedIn(offers)
           /\ \A e \in Tier(offers, above) : IsSlot(offers, above, e.dom, e)
           /\ \A e, f \in Tier(offers, above) : e.dom = f.dom => e = f
<1> DEFINE C(d) == {p \in DOMAIN offers : d \in DOMAIN offers[p]}
           slot(d) == IF d \in above \/ Cardinality(C(d)) # 1 THEN Inactive(d, None)
                                                             ELSE offers[CHOOSE p \in C(d) : TRUE][d]
<1>1. Tier(offers, above) = {slot(d) : d \in OfferedIn(offers)}
  BY DEF Tier, OfferedIn
<1>2. \A d : (Cardinality(C(d)) = 1) <=> \E p : C(d) = {p}
  <2> SUFFICES ASSUME NEW d PROVE (Cardinality(C(d)) = 1) <=> \E p : C(d) = {p}
    OBVIOUS
  <2>1. IsFiniteSet(C(d))
    BY FS_Subset
  <2>2. Cardinality(C(d)) = 1 => \E p : C(d) = {p}
    BY <2>1, FS_Singleton
  <2>3. (\E p : C(d) = {p}) => Cardinality(C(d)) = 1
    BY FS_Singleton
  <2>q. QED  BY <2>2, <2>3
<1>3. ASSUME NEW d, NEW p, C(d) = {p}, d \notin above
      PROVE  slot(d) = offers[p][d] /\ offers[p][d].dom = d /\ offers[p][d].active
  <2>1. p \in C(d) /\ (CHOOSE q \in C(d) : TRUE) = p
    BY <1>3
  <2>2. offers[p][d].dom = d /\ offers[p][d].active
    BY <2>1
  <2>3. slot(d) = offers[p][d]
    BY <1>2, <1>3, <2>1
  <2>q. QED  BY <2>2, <2>3
<1>4. ASSUME NEW d, d \in above \/ ~\E p : C(d) = {p}
      PROVE  slot(d).dom = d /\ ~slot(d).active
  BY <1>2, <1>4 DEF Inactive
<1> HIDE DEF slot
<1>5. \A d : slot(d).dom = d
  BY <1>3, <1>4
<1>6. \A d : IsSlot(offers, above, d, slot(d))
  <2> SUFFICES ASSUME NEW d PROVE IsSlot(offers, above, d, slot(d))
    OBVIOUS
  <2>1. Offering(offers, d) = C(d)
    BY DEF Offering
  <2> HIDE DEF C
  <2>2. CASE d \in above
    BY <1>5, <2>2 DEF IsSlot
  <2>3. CASE d \notin above /\ ~\E p : C(d) = {p}
    BY <1>4, <1>5, <2>1, <2>3 DEF IsSlot
  <2>4. ASSUME NEW p, d \notin above, C(d) = {p}
        PROVE  IsSlot(offers, above, d, slot(d))
    <3>1. slot(d) = offers[p][d] /\ offers[p][d].active
      BY <1>3, <2>4, Zenon
    <3>2. \A q : C(d) = {q} => q = p
      BY <2>4
    <3>q. QED  BY <1>5, <2>1, <2>4, <3>1, <3>2 DEF IsSlot
  <2>q. QED  BY <2>2, <2>3, <2>4
<1>7. Doms(Tier(offers, above)) = OfferedIn(offers)
  BY <1>1, <1>5 DEF Doms
<1>q. QED  BY <1>1, <1>5, <1>6, <1>7

\* S is what longestDNSMatch finds for n in E: nothing or one entry, the longest.
Best(n, E, S) ==
    \/ Covering(n, E) = {} /\ S = {}
    \/ \E e \in Covering(n, E) : /\ S = {e}
                                 /\ \A f \in Covering(n, E) : f # e => Len(f.dom) < Len(e.dom)

OneEach(E) ==
    /\ \A e \in E : e.dom \in Domains
    /\ \A e, f \in E : e.dom = f.dom => e = f

\* longestDNSMatch is the best match.
LEMMA BestMatch ==
    ASSUME NEW E, OneEach(E), NEW n \in Domains \cup Names
    PROVE  Best(n, E, longestDNSMatch(n, E))
<1>1. CASE Covering(n, E) = {}
  BY <1>1 DEF Best, longestDNSMatch, Longest
<1>2. CASE Covering(n, E) # {}
  BY <1>2, OneLongest DEF Best, OneEach
<1>q. QED  BY <1>1, <1>2

LongerOf(x, i) == IF i # {} /\ (\A s \in x, t \in i : Len(s.dom) < Len(t.dom)) THEN i ELSE x
Under(X, I) == X \cup {e \in I : e.dom \notin Doms(X)}

\* A lower tier below a higher one: the longer match of the two, and on a tie that of
\* the higher, is the best among the entries that become routes.
LEMMA BestOfTwo ==
    ASSUME NEW n \in Domains \cup Names, NEW X, OneEach(X), NEW I, OneEach(I),
           NEW x, Best(n, X, x), NEW i, Best(n, I, i)
    PROVE  /\ OneEach(Under(X, I))
           /\ Best(n, Under(X, I), LongerOf(x, i))
           /\ Doms(Under(X, I)) = Doms(X) \cup Doms(I)
<1> DEFINE E == Under(X, I)
           both == LongerOf(x, i)
<1>1. OneEach(E)
  BY DEF OneEach, Doms, Under
<1>2. Doms(E) = Doms(X) \cup Doms(I)
  BY DEF Doms, Under
<1>3. /\ \A e \in E : e \in X \/ (e \in I /\ \A f \in X : f.dom # e.dom)
      /\ X \subseteq E
      /\ \A e \in I : e \in E \/ \E f \in X : f.dom = e.dom
  BY DEF Doms, Under
<1> HIDE DEF E, both
<1>4. \A F : \A e : e \in Covering(n, F) <=> e \in F /\ DNSContains(e.dom, n)
  BY DEF Covering
<1>5. \A e \in X \cup I \cup E : Len(e.dom) \in Nat
  BY <1>1, DomainLen DEF OneEach
<1>6. ASSUME Covering(n, I) = {}, i = {}
      PROVE  Best(n, E, both)
  <2>1. both = x
    BY <1>6 DEF both, LongerOf
  <2>2. \A e : e \in Covering(n, E) <=> e \in Covering(n, X)
    BY <1>3, <1>4, <1>6
  <2>3. Covering(n, E) = Covering(n, X)
    BY <2>2
  <2>q. QED  BY <2>1, <2>3 DEF Best
<1>7. ASSUME Covering(n, X) = {}, x = {}
      PROVE  Best(n, E, both)
  <2>1. both = i
    BY <1>7 DEF both, LongerOf
  <2>2. \A e : e \in Covering(n, E) <=> e \in Covering(n, I)
    BY <1>3, <1>4, <1>7
  <2>3. Covering(n, E) = Covering(n, I)
    BY <2>2
  <2>q. QED  BY <2>1, <2>3 DEF Best
<1>8. ASSUME NEW ex \in Covering(n, X), x = {ex},
             \A f \in Covering(n, X) : f # ex => Len(f.dom) < Len(ex.dom),
             NEW ei \in Covering(n, I), i = {ei},
             \A f \in Covering(n, I) : f # ei => Len(f.dom) < Len(ei.dom)
      PROVE  Best(n, E, both)
  <2>1. CASE Len(ex.dom) < Len(ei.dom)
    <3>1. both = {ei}
      BY <1>8, <2>1 DEF both, LongerOf
    <3>2. \A f \in X : f.dom # ei.dom
      <4> SUFFICES ASSUME NEW f \in X, f.dom = ei.dom PROVE FALSE
        OBVIOUS
      <4>1. f \in Covering(n, X) /\ Len(f.dom) = Len(ei.dom)
        BY <1>4, <1>8
      <4>2. Len(f.dom) <= Len(ex.dom)
        BY <1>4, <1>5, <1>8, <4>1
      <4>q. QED  BY <1>4, <1>5, <1>8, <2>1, <4>1, <4>2
    <3>3. ei \in Covering(n, E)
      BY <1>3, <1>4, <1>8, <3>2
    <3>4. ASSUME NEW f \in Covering(n, E), f # ei
          PROVE  Len(f.dom) < Len(ei.dom)
      <4>1. CASE f \in X
        <5>1. f \in Covering(n, X)
          BY <1>4, <3>4, <4>1
        <5>2. f = ex \/ Len(f.dom) < Len(ex.dom)
          BY <1>8, <5>1
        <5>q. QED  BY <1>4, <1>5, <1>8, <2>1, <4>1, <5>2
      <4>2. CASE f \in I
        BY <1>4, <1>8, <3>4, <4>2
      <4>q. QED  BY <1>3, <1>4, <3>4, <4>1, <4>2
    <3>q. QED  BY <3>1, <3>3, <3>4 DEF Best
  <2>2. CASE ~(Len(ex.dom) < Len(ei.dom))
    <3>1. both = {ex}
      BY <1>8, <2>2 DEF both, LongerOf
    <3>2. ex \in Covering(n, E)
      BY <1>3, <1>4, <1>8
    <3>3. ASSUME NEW f \in Covering(n, E), f # ex
          PROVE  Len(f.dom) < Len(ex.dom)
      <4>1. CASE f \in X
        BY <1>4, <1>8, <3>3, <4>1
      <4>2. CASE f \in I /\ \A g \in X : g.dom # f.dom
        <5>1. f \in Covering(n, I) /\ (f = ei \/ Len(f.dom) < Len(ei.dom))
          BY <1>4, <1>8, <3>3, <4>2
        <5>2. Len(f.dom) <= Len(ex.dom)
          BY <1>4, <1>5, <1>8, <2>2, <4>2, <5>1
        <5>3. f.dom # ex.dom /\ DNSContains(f.dom, n) /\ DNSContains(ex.dom, n)
          BY <1>4, <1>8, <4>2, <5>1
        <5>4. Len(f.dom) # Len(ex.dom)
          BY <5>3, SuffixesOfName
        <5>q. QED  BY <1>4, <1>5, <1>8, <4>2, <5>2, <5>4
      <4>q. QED  BY <1>3, <1>4, <3>3, <4>1, <4>2
    <3>q. QED  BY <3>1, <3>2, <3>3 DEF Best
  <2>q. QED  BY <2>1, <2>2
<1>9. Best(n, E, both)
  BY <1>6, <1>7, <1>8 DEF Best
<1>q. QED  BY <1>1, <1>2, <1>9 DEF E, both

\* Resolve and routeBySuffix agree: the entry that decides on a name is the longest of
\* those that become routes.
LEMMA ResolveIsRoute ==
    ASSUME NEW plan, OneEach(plan.exact), OneEach(plan.imported), OneEach(plan.automatic),
           NEW n \in Domains \cup Names
    PROVE  /\ OneEach(PolicyEntries(plan))
           /\ Best(n, PolicyEntries(plan), Resolve(plan, n))
           /\ Doms(PolicyEntries(plan)) = Doms(plan.exact) \cup Doms(plan.imported) \cup Doms(plan.automatic)
<1> DEFINE x == longestDNSMatch(n, plan.exact)
           i == longestDNSMatch(n, plan.imported)
           a == longestDNSMatch(n, plan.automatic)
           xi == LongerOf(x, i)
           E == Under(plan.exact, plan.imported)
<1>1. Best(n, plan.exact, x) /\ Best(n, plan.imported, i) /\ Best(n, plan.automatic, a)
  BY BestMatch
<1>2. Resolve(plan, n) = LongerOf(xi, a)
  BY DEF Resolve, LongerOf
<1> HIDE DEF x, i, a
<1>3. OneEach(E) /\ Best(n, E, xi) /\ Doms(E) = Doms(plan.exact) \cup Doms(plan.imported)
  BY <1>1, BestOfTwo
<1>4. PolicyEntries(plan) = Under(E, plan.automatic)
  BY <1>3 DEF PolicyEntries, Under
<1> HIDE DEF xi, E
<1>5. /\ OneEach(Under(E, plan.automatic))
      /\ Best(n, Under(E, plan.automatic), LongerOf(xi, a))
      /\ Doms(Under(E, plan.automatic)) = Doms(E) \cup Doms(plan.automatic)
  BY <1>1, <1>3, BestOfTwo
<1>q. QED  BY <1>2, <1>3, <1>4, <1>5

\* The domains of what a status offers are known, and a MagicDNS suffix is offered as
\* such.
LEMMA RouteDomains ==
    ASSUME NEW s \in Statuses
    PROVE  /\ \A i \in DOMAIN dnsRoutesForStatus(s) : dnsRoutesForStatus(s)[i].dom \in Domains
           /\ s.suffix # None =>
                 \E i \in DOMAIN dnsRoutesForStatus(s) :
                    /\ dnsRoutesForStatus(s)[i].dom = s.suffix
                    /\ dnsRoutesForStatus(s)[i].source = "magicdns"
<1> DEFINE own == [dom |-> s.suffix, source |-> "magicdns", res |-> NoList]
           R == dnsRoutesForStatus(s)
           listed == \E i \in DOMAIN s.routes : s.routes[i].source = "magicdns" /\ s.routes[i].dom = s.suffix
<1>1. s.routes \in Seq(Advertised) /\ s.suffix \in Domains \cup {None}
  BY DEF Statuses
<1>2. IF s.suffix = None \/ listed THEN R = s.routes ELSE R = Append(s.routes, own)
  BY DEF dnsRoutesForStatus
<1>3. \A i \in DOMAIN s.routes : s.routes[i].dom \in Domains
  <2>1. \A i \in DOMAIN s.routes : s.routes[i] \in Advertised
    BY <1>1
  <2>q. QED  BY <2>1 DEF Advertised
<1>4. DOMAIN s.routes = 1 .. Len(s.routes) /\ Len(s.routes) \in Nat
  BY <1>1
<1>5. own.dom = s.suffix /\ own.source = "magicdns"
  OBVIOUS
<1>6. CASE s.suffix = None \/ listed
  <2>1. R = s.routes
    BY <1>2, <1>6
  <2> HIDE DEF R
  <2>q. QED  BY <1>3, <1>6, <2>1 DEF R
<1>7. CASE ~(s.suffix = None \/ listed)
  <2> HIDE DEF own, listed, R
  <2>1. R = Append(s.routes, own)
    BY <1>2, <1>7
  <2>2. /\ DOMAIN Append(s.routes, own) = 1 .. Len(s.routes) + 1
        /\ \A i \in 1 .. Len(s.routes) : Append(s.routes, own)[i] = s.routes[i]
        /\ Append(s.routes, own)[Len(s.routes) + 1] = own
    BY <1>1
  <2>3. \A i \in DOMAIN R : (i \in DOMAIN s.routes /\ R[i] = s.routes[i]) \/ R[i] = own
    BY <1>4, <2>1, <2>2
  <2>4. Len(s.routes) + 1 \in DOMAIN R /\ R[Len(s.routes) + 1] = own
    BY <1>4, <2>1, <2>2
  <2>5. s.suffix \in Domains
    BY <1>1, <1>7
  <2>q. QED  BY <1>3, <1>5, <2>3, <2>4, <2>5 DEF R
<1>q. QED  BY <1>6, <1>7

\* Profiles offer known domains only.
LEMMA OfferedDomains ==
    ASSUME NEW b \in Bases, NEW p \in Running(b)
    PROVE  Offers(b.report[p]) \subseteq Domains /\ AutomaticDomains(b, p) \subseteq Domains
<1>1. Offers(b.report[p]) \subseteq Domains
  BY RunningStatus, RouteDomains DEF Offers
<1>2. MagicDomains(b.report[p]) \subseteq Domains
  BY <1>1 DEF MagicDomains
<1>q. QED  BY <1>1, <1>2, DNSPolicyAssumption DEF AutomaticDomains

\* The tiers that BuildDNS makes.
LEMMA PlanTiers ==
    ASSUME NEW b \in Bases
    PROVE  /\ OneEach(BuildDNS(b).exact)
           /\ Doms(BuildDNS(b).exact) = Bound(b)
           /\ \A e \in BuildDNS(b).exact : e = exactEntry(b, e.dom)
           /\ OneEach(BuildDNS(b).imported)
           /\ Doms(BuildDNS(b).imported) = Imported(b)
           /\ \A e \in BuildDNS(b).imported : IsSlot(ImportOffers(b), Bound(b), e.dom, e)
           /\ OneEach(BuildDNS(b).automatic)
           /\ Doms(BuildDNS(b).automatic) = Automatic(b)
           /\ \A e \in BuildDNS(b).automatic :
                 IsSlot(AutomaticOffers(b), Bound(b) \cup Imported(b), e.dom, e)
<1> DEFINE exact == {exactEntry(b, d) : d \in Bound(b)}
           P == BuildDNS(b)
<1>1. /\ P.exact = exact
      /\ P.imported = Tier(ImportOffers(b), Doms(P.exact))
      /\ P.automatic = Tier(AutomaticOffers(b), Doms(P.exact) \cup Doms(P.imported))
  BY DEF BuildDNS, Bound, ImportOffers, AutomaticOffers
<1>2. \A d : exactEntry(b, d).dom = d
  BY DEF exactEntry, Entry, Inactive
<1>3. Bound(b) \subseteq Domains
  BY BindingFacts DEF Bases, Policies, Bound
<1>4. /\ OneEach(exact) /\ Doms(exact) = Bound(b) /\ \A e \in exact : e = exactEntry(b, e.dom)
  BY <1>2, <1>3 DEF OneEach, Doms
<1>5. Running(b) \subseteq Profiles /\ IsFiniteSet(Running(b))
  BY DNSPolicyAssumption, FS_Subset DEF Running
<1>6. /\ DOMAIN ImportOffers(b) = b.policy.accept \cap Running(b)
      /\ \A p \in DOMAIN ImportOffers(b) : \A d \in DOMAIN ImportOffers(b)[p] :
            ImportOffers(b)[p][d].dom = d /\ ImportOffers(b)[p][d].active
      /\ OfferedIn(ImportOffers(b)) \subseteq Domains
  <2>1. /\ DOMAIN ImportOffers(b) = b.policy.accept \cap Running(b)
        /\ \A p \in DOMAIN ImportOffers(b) : DOMAIN ImportOffers(b)[p] = Offers(b.report[p])
    BY DEF ImportOffers
  <2>2. \A p \in DOMAIN ImportOffers(b) : \A d \in DOMAIN ImportOffers(b)[p] :
            ImportOffers(b)[p][d].dom = d /\ ImportOffers(b)[p][d].active
    BY DEF ImportOffers, Entry
  <2>q. QED  BY <2>1, <2>2, OfferedDomains DEF OfferedIn
<1>7. /\ DOMAIN AutomaticOffers(b) = Running(b)
      /\ \A p \in DOMAIN AutomaticOffers(b) : \A d \in DOMAIN AutomaticOffers(b)[p] :
            AutomaticOffers(b)[p][d].dom = d /\ AutomaticOffers(b)[p][d].active
      /\ OfferedIn(AutomaticOffers(b)) \subseteq Domains
  <2>1. /\ DOMAIN AutomaticOffers(b) = Running(b)
        /\ \A p \in DOMAIN AutomaticOffers(b) : DOMAIN AutomaticOffers(b)[p] = AutomaticDomains(b, p)
    BY DEF AutomaticOffers
  <2>2. \A p \in DOMAIN AutomaticOffers(b) : \A d \in DOMAIN AutomaticOffers(b)[p] :
            AutomaticOffers(b)[p][d].dom = d /\ AutomaticOffers(b)[p][d].active
    BY DEF AutomaticOffers, Entry
  <2>q. QED  BY <2>1, <2>2, OfferedDomains DEF OfferedIn
<1>8. IsFiniteSet(DOMAIN ImportOffers(b)) /\ IsFiniteSet(DOMAIN AutomaticOffers(b))
  <2>1. b.policy.accept \cap Running(b) \subseteq Running(b)
    OBVIOUS
  <2>q. QED  BY <1>5, <1>6, <1>7, <2>1, FS_Subset
<1> HIDE DEF exact, P
<1>9. /\ Doms(P.imported) = Imported(b)
      /\ OneEach(P.imported)
      /\ \A e \in P.imported : IsSlot(ImportOffers(b), Bound(b), e.dom, e)
  <2>1. P.imported = Tier(ImportOffers(b), Bound(b))
    BY <1>1, <1>4
  <2>2. /\ Doms(P.imported) = OfferedIn(ImportOffers(b))
        /\ \A e \in P.imported : IsSlot(ImportOffers(b), Bound(b), e.dom, e)
        /\ \A e, f \in P.imported : e.dom = f.dom => e = f
    BY <1>6, <1>8, <2>1, TierSlots
  <2>3. \A e \in P.imported : e.dom \in Domains
    BY <1>6, <2>2 DEF Doms
  <2>q. QED  BY <2>2, <2>3 DEF OneEach, Imported
<1>10. /\ Doms(P.automatic) = Automatic(b)
       /\ OneEach(P.automatic)
       /\ \A e \in P.automatic : IsSlot(AutomaticOffers(b), Bound(b) \cup Imported(b), e.dom, e)
  <2>1. P.automatic = Tier(AutomaticOffers(b), Bound(b) \cup Imported(b))
    BY <1>1, <1>4, <1>9
  <2>2. /\ Doms(P.automatic) = OfferedIn(AutomaticOffers(b))
        /\ \A e \in P.automatic : IsSlot(AutomaticOffers(b), Bound(b) \cup Imported(b), e.dom, e)
        /\ \A e, f \in P.automatic : e.dom = f.dom => e = f
    BY <1>7, <1>8, <2>1, TierSlots
  <2>3. \A e \in P.automatic : e.dom \in Domains
    BY <1>7, <2>2 DEF Doms
  <2>q. QED  BY <2>2, <2>3 DEF OneEach, Automatic
<1>q. QED  BY <1>1, <1>4, <1>9, <1>10 DEF P

\* coveringDNSRoute finds one route whenever one covers the domain.
LEMMA CoverFound ==
    ASSUME NEW s \in Statuses, NEW d \in Domains
    PROVE  /\ coveringDNSRoute(d, dnsRoutesForStatus(s)) # {} <=> \E o \in Offers(s) : DNSContains(o, d)
           /\ \A q, r \in coveringDNSRoute(d, dnsRoutesForStatus(s)) : q = r
<1> DEFINE R == dnsRoutesForStatus(s)
           C == {i \in DOMAIN R : DNSContains(R[i].dom, d)}
           first(j) == \A k \in C : \/ Len(R[k].dom) < Len(R[j].dom)
                                    \/ Len(R[k].dom) = Len(R[j].dom) /\ j <= k
           cover == coveringDNSRoute(d, R)
<1>1. cover = {R[i] : i \in {j \in C : first(j)}}
  BY DEF coveringDNSRoute
<1>2. C \subseteq Nat /\ \A i \in C : R[i].dom \in Domains /\ DNSContains(R[i].dom, d)
  BY RoutesOfStatus, RouteDomains
<1>3. (\E o \in Offers(s) : DNSContains(o, d)) <=> C # {}
  BY DEF Offers
<1>4. \A i \in C : Len(R[i].dom) \in Nat /\ Len(R[i].dom) <= Len(d)
  BY <1>2, DomainLen DEF DNSContains
<1> HIDE DEF R, C
<1>5. ASSUME C # {} PROVE \E j \in C : first(j)
  <2> DEFINE L == {Len(R[i].dom) : i \in C}
  <2>1. L \in SUBSET Nat /\ L # {} /\ \A x \in L : x <= Len(d)
    BY <1>4, <1>5
  <2>2. PICK x \in L : \A y \in L : y <= x
    <3> HIDE DEF L
    <3>q. QED  BY <2>1, Greatest, DomainLen
  <2> DEFINE T == {i \in C : Len(R[i].dom) = x}
  <2>3. T \in SUBSET Nat /\ T # {}
    BY <1>2, <2>2
  <2>4. PICK j \in T : \A k \in T : j <= k
    <3> HIDE DEF T
    <3>q. QED  BY <2>3, Least
  <2>5. ASSUME NEW k \in C
        PROVE  Len(R[k].dom) < Len(R[j].dom) \/ (Len(R[k].dom) = Len(R[j].dom) /\ j <= k)
    <3>1. Len(R[k].dom) <= Len(R[j].dom)
      BY <2>2, <2>4
    <3>2. Len(R[k].dom) = Len(R[j].dom) => j <= k
      BY <2>4
    <3>q. QED  BY <1>4, <2>4, <3>1, <3>2
  <2>q. QED  BY <2>4, <2>5
<1>6. \A i, j \in C : first(i) /\ first(j) => i = j
  <2> SUFFICES ASSUME NEW i \in C, NEW j \in C, first(i), first(j) PROVE i = j
    OBVIOUS
  <2>1. i <= j /\ j <= i
    BY <1>4
  <2>q. QED  BY <1>2, <2>1
<1>7. cover # {} <=> C # {}
  BY <1>1, <1>5
<1>8. \A q, r \in cover : q = r
  BY <1>1, <1>6
<1>q. QED  BY <1>3, <1>7, <1>8 DEF R

\* What the entry of a binding says.
LEMMA ExactEntryFacts ==
    ASSUME NEW b \in Bases, NEW d \in Bound(b), NEW p, p = b.policy.bind[d]
    PROVE  LET e == exactEntry(b, d)
               cover == coveringDNSRoute(d, dnsRoutesForStatus(b.report[p]))
           IN /\ e.prof = p
              /\ e.active <=> p \in Running(b) /\ \E o \in Offers(b.report[p]) : DNSContains(o, d)
              /\ e.active => /\ ~e.profileDNS
                             /\ e.res # NoList <=> \E r \in cover : r.res # NoList
<1> DEFINE e == exactEntry(b, d)
           R == dnsRoutesForStatus(b.report[p])
           cover == coveringDNSRoute(d, R)
           has == \E o \in Offers(b.report[p]) : DNSContains(o, d)
<1>1. d \in Domains
  BY BindingFacts DEF Bases, Policies, Bound
<1>2. CASE p \notin Running(b)
  BY <1>2 DEF exactEntry, Inactive
<1>3. CASE p \in Running(b)
  <2>1. b.report[p] \in Statuses
    BY <1>3, RunningStatus
  <2>2. (cover # {} <=> has) /\ \A q, r \in cover : q = r
    BY <1>1, <2>1, CoverFound
  <2>3. IF cover = {} THEN e = Inactive(d, p)
        ELSE LET r == CHOOSE r \in cover : TRUE IN e = Entry(d, p, r.source, FALSE, r.res)
    BY <1>3 DEF exactEntry
  <2> HIDE DEF e, cover, has
  <2>4. CASE cover = {}
    <3>1. e = Inactive(d, p) /\ ~has
      BY <2>2, <2>3, <2>4
    <3>2. e.prof = p /\ ~e.active
      BY <3>1 DEF Inactive
    <3>q. QED  BY <3>1, <3>2 DEF e, has
  <2>5. CASE cover # {}
    <3> DEFINE r == CHOOSE r \in cover : TRUE
    <3>1. r \in cover
      BY <2>5
    <3>2. e = Entry(d, p, r.source, FALSE, r.res) /\ has
      BY <2>2, <2>3, <2>5
    <3> HIDE DEF r
    <3>3. e.prof = p /\ e.active /\ ~e.profileDNS /\ e.res = r.res
      BY <3>2 DEF Entry
    <3>4. e.res # NoList <=> \E q \in cover : q.res # NoList
      BY <2>2, <3>1, <3>3
    <3>q. QED  BY <1>3, <3>2, <3>3, <3>4 DEF e, has, cover
  <2>q. QED  BY <2>4, <2>5
<1>q. QED  BY <1>2, <1>3

\* The entries that become routes, domain by domain: those of the highest tier that has
\* the domain.
LEMMA PlanRoutes ==
    ASSUME NEW b \in Bases
    PROVE  /\ OneEach(PolicyEntries(BuildDNS(b)))
           /\ Doms(PolicyEntries(BuildDNS(b))) = Bound(b) \cup Imported(b) \cup Automatic(b)
           /\ \A n \in Domains \cup Names : Best(n, PolicyEntries(BuildDNS(b)), Resolve(BuildDNS(b), n))
           /\ \A e \in PolicyEntries(BuildDNS(b)) :
                 /\ e.dom \in Bound(b) => e = exactEntry(b, e.dom)
                 /\ e.dom \in Imported(b) \ Bound(b) => IsSlot(ImportOffers(b), {}, e.dom, e)
                 /\ e.dom \in Automatic(b) \ (Bound(b) \cup Imported(b)) =>
                       IsSlot(AutomaticOffers(b), {}, e.dom, e)
<1> DEFINE plan == BuildDNS(b)
<1>0. Root \in Domains \cup Names
  BY DNSPolicyAssumption
<1>t. /\ OneEach(plan.exact) /\ OneEach(plan.imported) /\ OneEach(plan.automatic)
      /\ Doms(plan.exact) = Bound(b)
      /\ \A e \in plan.exact : e = exactEntry(b, e.dom)
      /\ Doms(plan.imported) = Imported(b)
      /\ \A e \in plan.imported : IsSlot(ImportOffers(b), Bound(b), e.dom, e)
      /\ Doms(plan.automatic) = Automatic(b)
      /\ \A e \in plan.automatic : IsSlot(AutomaticOffers(b), Bound(b) \cup Imported(b), e.dom, e)
  BY PlanTiers
<1> HIDE DEF plan
<1>1. /\ OneEach(PolicyEntries(plan))
      /\ Doms(PolicyEntries(plan)) = Bound(b) \cup Imported(b) \cup Automatic(b)
      /\ \A n \in Domains \cup Names : Best(n, PolicyEntries(plan), Resolve(plan, n))
  BY <1>0, <1>t, ResolveIsRoute
<1>2. ASSUME NEW e \in PolicyEntries(plan)
      PROVE  /\ e.dom \in Bound(b) => e = exactEntry(b, e.dom)
             /\ e.dom \in Imported(b) \ Bound(b) => IsSlot(ImportOffers(b), {}, e.dom, e)
             /\ e.dom \in Automatic(b) \ (Bound(b) \cup Imported(b)) =>
                       IsSlot(AutomaticOffers(b), {}, e.dom, e)
  <2>1. \/ e \in plan.exact
        \/ e \in plan.imported /\ e.dom \notin Bound(b)
        \/ e \in plan.automatic /\ e.dom \notin Bound(b) \cup Imported(b)
    BY <1>t DEF PolicyEntries
  <2>2. \A offers, above : IsSlot(offers, above, e.dom, e) /\ e.dom \notin above
                               => IsSlot(offers, {}, e.dom, e)
    BY Zenon DEF IsSlot
  <2>3. /\ e \in plan.exact => e.dom \in Bound(b)
        /\ e \in plan.imported => e.dom \in Imported(b)
    BY <1>t DEF Doms
  <2>q. QED  BY <1>t, <2>1, <2>2, <2>3
<1>q. QED  BY <1>1, <1>2 DEF plan

----------------------------------------------------------------------------
(* DNSPolicy: claims and the entry that decides.                           *)

\* Who claims a domain with a rank, whatever the name.
Holders(b, d, rank) ==
    CASE rank = 3 -> {b.policy.bind[x] : x \in Bound(b) \cap {d}}
      [] rank = 2 -> Offering(ImportOffers(b), d)
      [] rank = 1 -> Offering(AutomaticOffers(b), d)
      [] OTHER -> {}

ClaimOf(d, rank, p) == [dom |-> d, rank |-> rank, prof |-> p]

\* The holders of each rank, said with what they offer.
LEMMA HolderSets ==
    ASSUME NEW b, NEW d
    PROVE  /\ Holders(b, d, 3) = {b.policy.bind[x] : x \in Bound(b) \cap {d}}
           /\ Holders(b, d, 2) = {p \in b.policy.accept \cap Running(b) : d \in Offers(b.report[p])}
           /\ Holders(b, d, 1) = {p \in Running(b) : d \in AutomaticDomains(b, p)}
           /\ Holders(b, d, 3) # {} <=> d \in Bound(b)
           /\ Holders(b, d, 2) # {} <=> d \in Imported(b)
           /\ Holders(b, d, 1) # {} <=> d \in Automatic(b)
           /\ \A r : Holders(b, d, r) # {} => r \in {1, 2, 3}
<1>1. /\ Holders(b, d, 3) = {b.policy.bind[x] : x \in Bound(b) \cap {d}}
      /\ Holders(b, d, 2) = Offering(ImportOffers(b), d)
      /\ Holders(b, d, 1) = Offering(AutomaticOffers(b), d)
      /\ \A r : r \notin {1, 2, 3} => Holders(b, d, r) = {}
  BY DEF Holders
<1>2. Offering(ImportOffers(b), d) = {p \in b.policy.accept \cap Running(b) : d \in Offers(b.report[p])}
  BY DEF Offering, ImportOffers
<1>3. Offering(AutomaticOffers(b), d) = {p \in Running(b) : d \in AutomaticDomains(b, p)}
  BY DEF Offering, AutomaticOffers
<1>4. \A offers : Offering(offers, d) # {} <=> d \in OfferedIn(offers)
  BY DEF Offering, OfferedIn
<1>5. Holders(b, d, 3) # {} <=> d \in Bound(b)
  BY <1>1
<1>6. \A r : Holders(b, d, r) # {} => r \in {1, 2, 3}
  BY <1>1
<1>q. QED  BY <1>1, <1>2, <1>3, <1>4, <1>5, <1>6 DEF Imported, Automatic

\* The claims on a name.
LEMMA ClaimFacts ==
    ASSUME NEW b, NEW n
    PROVE  /\ \A k \in Claims(b, n) : /\ k = ClaimOf(k.dom, k.rank, k.prof)
                                      /\ k.prof \in Holders(b, k.dom, k.rank)
                                      /\ DNSContains(k.dom, n)
           /\ \A d, r : \A p \in Holders(b, d, r) : DNSContains(d, n) => ClaimOf(d, r, p) \in Claims(b, n)
<1> DEFINE X == {ClaimOf(d, 3, b.policy.bind[d]) : d \in Bound(b)}
           I == UNION {{ClaimOf(d, 2, p) : d \in Offers(b.report[p])} : p \in b.policy.accept \cap Running(b)}
           M == UNION {{ClaimOf(d, 1, p) : d \in {e \in MagicDomains(b.report[p]) :
                    e # Root \/ ExitProfile(b) = {}}} : p \in Running(b)}
           R == {ClaimOf(Root, 1, p) : p \in ExitProfile(b)}
<1>1. Claims(b, n) = {k \in X \cup I \cup M \cup R : DNSContains(k.dom, n)}
  BY DEF Claims, ClaimOf, Bound
<1>2. ASSUME NEW k \in X \cup I \cup M \cup R
      PROVE  k = ClaimOf(k.dom, k.rank, k.prof) /\ k.prof \in Holders(b, k.dom, k.rank)
  <2>0. \A d, r, p : ClaimOf(d, r, p).dom = d /\ ClaimOf(d, r, p).rank = r /\ ClaimOf(d, r, p).prof = p
    BY DEF ClaimOf
  <2>1. CASE k \in X
    BY <2>0, <2>1, HolderSets
  <2>2. CASE k \in I
    BY <2>0, <2>2, HolderSets
  <2>3. CASE k \in M
    <3>1. PICK p \in Running(b) : \E d \in MagicDomains(b.report[p]) :
             k = ClaimOf(d, 1, p) /\ (d # Root \/ ExitProfile(b) = {})
      BY <2>3
    <3>3. PICK d \in MagicDomains(b.report[p]) :
             k = ClaimOf(d, 1, p) /\ (d # Root \/ ExitProfile(b) = {})
      BY <3>1
    <3>2. d \in AutomaticDomains(b, p)
      BY <3>3 DEF AutomaticDomains
    <3>q. QED  BY <2>0, <3>3, <3>2, HolderSets
  <2>4. CASE k \in R
    <3>1. PICK p \in ExitProfile(b) : k = ClaimOf(Root, 1, p)
      BY <2>4
    <3>2. p \in Running(b) /\ Root \in AutomaticDomains(b, p)
      BY <3>1 DEF AutomaticDomains, ExitProfile
    <3>q. QED  BY <2>0, <3>1, <3>2, HolderSets
  <2>q. QED  BY <2>1, <2>2, <2>3, <2>4
<1>3. ASSUME NEW d, NEW r, NEW p \in Holders(b, d, r)
      PROVE  ClaimOf(d, r, p) \in X \cup I \cup M \cup R
  <2>0. r = 1 \/ r = 2 \/ r = 3
    BY HolderSets
  <2>1. CASE r = 3
    <3>1. d \in Bound(b) /\ p = b.policy.bind[d]
      BY <2>1, HolderSets
    <3>q. QED  BY <2>1, <3>1
  <2>2. CASE r = 2
    <3>1. p \in b.policy.accept \cap Running(b) /\ d \in Offers(b.report[p])
      BY <2>2, HolderSets
    <3>q. QED  BY <2>2, <3>1
  <2>3. CASE r = 1
    <3>1. p \in Running(b) /\ d \in AutomaticDomains(b, p)
      BY <2>3, HolderSets
    <3>2. \/ d \in MagicDomains(b.report[p]) /\ (d # Root \/ ExitProfile(b) = {})
          \/ d = Root /\ p \in ExitProfile(b)
      BY <3>1 DEF AutomaticDomains
    <3>q. QED  BY <2>3, <3>1, <3>2
  <2>q. QED  BY <2>0, <2>1, <2>2, <2>3
<1> HIDE DEF X, I, M, R
<1>4. \A d, r, p : ClaimOf(d, r, p).dom = d
  BY DEF ClaimOf
<1>q. QED  BY <1>1, <1>2, <1>3, <1>4

\* r is the highest rank with a claim on d, and d the longest suffix of n with a claim.
Decisive(b, n, d, r) ==
    /\ DNSContains(d, n)
    /\ r \in {1, 2, 3} /\ Holders(b, d, r) # {}
    /\ \A s \in {1, 2, 3} : Holders(b, d, s) # {} => s <= r
    /\ \A x, s : Holders(b, x, s) # {} /\ DNSContains(x, n) /\ x # d => Len(x) < Len(d) /\ ~(Len(d) < Len(x))

\* Those who hold the decisive domain with the decisive rank are the winners.
LEMMA WinnersAt ==
    ASSUME NEW b, NEW n, NEW d, NEW r, Decisive(b, n, d, r), Len(d) \in Nat
    PROVE  /\ \A k \in Winners(b, n) : k = ClaimOf(d, r, k.prof) /\ k.prof \in Holders(b, d, r)
           /\ \A p \in Holders(b, d, r) : ClaimOf(d, r, p) \in Winners(b, n)
<1> DEFINE C == Claims(b, n)
<1>0. \A x, s, p : ClaimOf(x, s, p).dom = x /\ ClaimOf(x, s, p).rank = s /\ ClaimOf(x, s, p).prof = p
  BY DEF ClaimOf
<1>1. Winners(b, n) = {k \in C : \A j \in C : Len(j.dom) < Len(k.dom) \/ (j.dom = k.dom /\ j.rank <= k.rank)}
  BY DEF Winners
<1>2. /\ \A k \in C : /\ k = ClaimOf(k.dom, k.rank, k.prof)
                      /\ k.prof \in Holders(b, k.dom, k.rank)
                      /\ DNSContains(k.dom, n)
      /\ \A p \in Holders(b, d, r) : ClaimOf(d, r, p) \in C
  BY ClaimFacts DEF Decisive
<1>3. \A k \in C : k.rank \in {1, 2, 3}
  BY <1>2, HolderSets
<1> HIDE DEF C
<1>4. \A k \in C : \/ k.dom = d /\ k.rank <= r
                   \/ Len(k.dom) < Len(d) /\ ~(Len(d) < Len(k.dom)) /\ k.dom # d
  BY <1>2, <1>3 DEF Decisive
<1>5. PICK q : q \in Holders(b, d, r)
  BY DEF Decisive
<1>6. ASSUME NEW k \in Winners(b, n)
      PROVE  k = ClaimOf(d, r, k.prof) /\ k.prof \in Holders(b, d, r)
  <2>1. k \in C /\ (Len(d) < Len(k.dom) \/ (d = k.dom /\ r <= k.rank))
    BY <1>0, <1>1, <1>2, <1>5
  <2>2. k.dom = d /\ k.rank <= r /\ r <= k.rank
    BY <1>4, <2>1
  <2>3. k.rank = r
    BY <1>3, <2>1, <2>2 DEF Decisive
  <2>q. QED  BY <1>2, <2>1, <2>2, <2>3
<1>7. ASSUME NEW p \in Holders(b, d, r)
      PROVE  ClaimOf(d, r, p) \in Winners(b, n)
  BY <1>0, <1>1, <1>2, <1>4
<1>q. QED  BY <1>6, <1>7

\* What the decisive domain and rank say: who is chosen, and whether a forwarder is needed.
LEMMA ChosenAt ==
    ASSUME NEW b, NEW n, NEW d, NEW r, Decisive(b, n, d, r), Len(d) \in Nat
    PROVE  /\ Claims(b, n) # {}
           /\ \A k \in Winners(b, n) : k.dom = d
           /\ Winners(b, n) # {}
           /\ \A p : p \in Chosen(b, n) <=>
                 /\ Holders(b, d, r) = {p}
                 /\ p \in Running(b)
                 /\ r = 3 => \E o \in Offers(b.report[p]) : DNSContains(o, d)
           /\ Forwards(b, n) <=> \E p \in Holders(b, d, r) :
                 \/ r = 3 /\ \E c \in coveringDNSRoute(d, dnsRoutesForStatus(b.report[p])) : c.res # NoList
                 \/ r = 2 /\ Offer(b.report[p], d).res # NoList
                 \/ r = 1 /\ d = Root /\ p \in ExitProfile(b)
<1> DEFINE W == Winners(b, n)
           H == Holders(b, d, r)
<1>0. \A x, s, p : ClaimOf(x, s, p).dom = x /\ ClaimOf(x, s, p).rank = s /\ ClaimOf(x, s, p).prof = p
  BY DEF ClaimOf
<1>1. /\ \A k \in W : k = ClaimOf(d, r, k.prof) /\ k.prof \in H
      /\ \A p \in H : ClaimOf(d, r, p) \in W
  BY WinnersAt
<1>2. H # {} /\ r \in {1, 2, 3}
  BY DEF Decisive
<1>3. W \subseteq Claims(b, n)
  BY DEF Winners
<1>4. \A k \in W : k.dom = d /\ k.rank = r
  BY <1>0, <1>1
<1>5. \A w \in W : W = {w} <=> H = {w.prof}
  <2> SUFFICES ASSUME NEW w \in W PROVE W = {w} <=> H = {w.prof}
    OBVIOUS
  <2> HIDE DEF W, H
  <2>1. ASSUME W = {w} PROVE H = {w.prof}
    <3>1. \A p \in H : p = w.prof
      BY <1>0, <1>1, <2>1
    <3>q. QED  BY <1>1, <3>1
  <2>2. ASSUME H = {w.prof} PROVE W = {w}
    <3>1. \A k \in W : k = ClaimOf(d, r, w.prof)
      BY <1>1, <2>2
    <3>q. QED  BY <3>1
  <2>q. QED  BY <2>1, <2>2
<1>6. Chosen(b, n) = {k.prof : k \in {w \in W :
            /\ W = {w}
            /\ w.prof \in Running(b)
            /\ w.rank = 3 => \E o \in Offers(b.report[w.prof]) : DNSContains(o, w.dom)}}
  BY DEF Chosen
<1>7. Forwards(b, n) <=> \E k \in W :
        \/ k.rank = 3 /\ \E c \in coveringDNSRoute(k.dom, dnsRoutesForStatus(b.report[k.prof])) : c.res # NoList
        \/ k.rank = 2 /\ Offer(b.report[k.prof], k.dom).res # NoList
        \/ k.rank = 1 /\ k.dom = Root /\ k.prof \in ExitProfile(b)
  BY DEF Forwards
<1> HIDE DEF W, H
<1>8. ASSUME NEW p
      PROVE  p \in Chosen(b, n) <=>
                 /\ H = {p}
                 /\ p \in Running(b)
                 /\ r = 3 => \E o \in Offers(b.report[p]) : DNSContains(o, d)
  <2>1. p \in Chosen(b, n) <=> \E w \in W :
            /\ p = w.prof
            /\ W = {w}
            /\ p \in Running(b)
            /\ w.rank = 3 => \E o \in Offers(b.report[p]) : DNSContains(o, w.dom)
    BY <1>6
  <2>2. H = {p} => ClaimOf(d, r, p) \in W /\ W = {ClaimOf(d, r, p)}
    BY <1>0, <1>1, <1>5
  <2>q. QED  BY <1>0, <1>4, <1>5, <2>1, <2>2
<1>9. Forwards(b, n) <=> \E p \in H :
                 \/ r = 3 /\ \E c \in coveringDNSRoute(d, dnsRoutesForStatus(b.report[p])) : c.res # NoList
                 \/ r = 2 /\ Offer(b.report[p], d).res # NoList
                 \/ r = 1 /\ d = Root /\ p \in ExitProfile(b)
  <2> DEFINE Fw(x, s, p) ==
         \/ s = 3 /\ \E c \in coveringDNSRoute(x, dnsRoutesForStatus(b.report[p])) : c.res # NoList
         \/ s = 2 /\ Offer(b.report[p], x).res # NoList
         \/ s = 1 /\ x = Root /\ p \in ExitProfile(b)
  <2>1. Forwards(b, n) <=> \E k \in W : Fw(k.dom, k.rank, k.prof)
    BY <1>7
  <2> HIDE DEF Fw
  <2>2. Forwards(b, n) <=> \E p \in H : Fw(d, r, p)
    BY <1>0, <1>1, <1>4, <2>1
  <2>q. QED  BY <2>2 DEF Fw
<1>q. QED  BY <1>1, <1>2, <1>3, <1>4, <1>8, <1>9 DEF W, H

\* The longest entry that covers the name, with the rank of its tier, is decisive.
LEMMA DecisiveEntry ==
    ASSUME NEW b \in Bases, NEW n \in Domains \cup Names,
           NEW e \in Covering(n, PolicyEntries(BuildDNS(b))),
           \A f \in Covering(n, PolicyEntries(BuildDNS(b))) : f # e => Len(f.dom) < Len(e.dom),
           NEW r \in {1, 2, 3}, Holders(b, e.dom, r) # {},
           \A s \in {1, 2, 3} : Holders(b, e.dom, s) # {} => s <= r
    PROVE  Decisive(b, n, e.dom, r)
<1> DEFINE E == PolicyEntries(BuildDNS(b))
<1>1. OneEach(E) /\ Doms(E) = Bound(b) \cup Imported(b) \cup Automatic(b)
  BY PlanRoutes
<1> HIDE DEF E
<1>2. DNSContains(e.dom, n) /\ e \in E
  BY DEF Covering, E
<1>3. ASSUME NEW x, NEW s, Holders(b, x, s) # {}, DNSContains(x, n), x # e.dom
      PROVE  Len(x) < Len(e.dom) /\ ~(Len(e.dom) < Len(x))
  <2>1. x \in Doms(E)
    BY <1>1, <1>3, HolderSets
  <2>2. PICK f \in E : f.dom = x
    BY <2>1 DEF Doms
  <2>3. f \in Covering(n, E) /\ f # e
    BY <1>3, <2>2 DEF Covering
  <2>4. Len(x) < Len(e.dom)
    BY <2>2, <2>3 DEF E
  <2>5. Len(x) \in Nat /\ Len(e.dom) \in Nat
    BY <1>1, <1>2, <2>2, DomainLen DEF OneEach
  <2>q. QED  BY <2>4, <2>5
<1>q. QED  BY <1>2, <1>3 DEF Decisive

\* The entry that decides on a name agrees with what the policy means: it is active when
\* one profile is chosen, names that profile, and needs a forwarder when its route does.
Agrees(b, n, e) ==
    /\ Claims(b, n) # {}
    /\ \A k \in Winners(b, n) : k.dom = e.dom
    /\ Winners(b, n) # {}
    /\ Chosen(b, n) = IF e.active THEN {e.prof} ELSE {}
    /\ e.active => (Forwards(b, n) <=> (e.profileDNS \/ e.res # NoList))

\* The longest entry that covers a name agrees with the policy.
LEMMA ChosenIsEntry ==
    ASSUME NEW b \in Bases, NEW n \in Domains \cup Names,
           NEW e \in Covering(n, PolicyEntries(BuildDNS(b))),
           \A f \in Covering(n, PolicyEntries(BuildDNS(b))) : f # e => Len(f.dom) < Len(e.dom)
    PROVE  Agrees(b, n, e)
<1> DEFINE d == e.dom
           E == PolicyEntries(BuildDNS(b))
           F(p, r) == \/ r = 3 /\ \E c \in coveringDNSRoute(d, dnsRoutesForStatus(b.report[p])) : c.res # NoList
                      \/ r = 2 /\ Offer(b.report[p], d).res # NoList
                      \/ r = 1 /\ d = Root /\ p \in ExitProfile(b)
           Has(p) == \E o \in Offers(b.report[p]) : DNSContains(o, d)
<1>1. /\ OneEach(E)
      /\ Doms(E) = Bound(b) \cup Imported(b) \cup Automatic(b)
      /\ e \in E
      /\ e.dom \in Bound(b) => e = exactEntry(b, e.dom)
      /\ e.dom \in Imported(b) \ Bound(b) => IsSlot(ImportOffers(b), {}, e.dom, e)
      /\ e.dom \in Automatic(b) \ (Bound(b) \cup Imported(b)) => IsSlot(AutomaticOffers(b), {}, e.dom, e)
  <2>1. e \in E
    BY DEF Covering
  <2>q. QED  BY <2>1, PlanRoutes
<1>2. d \in Domains /\ Len(d) \in Nat /\ d \in Bound(b) \cup Imported(b) \cup Automatic(b)
  BY <1>1, DomainLen DEF OneEach, Doms
<1> HIDE DEF d, E, F, Has
<1>3. ASSUME NEW r \in {1, 2, 3}, Holders(b, d, r) # {},
             \A s \in {1, 2, 3} : Holders(b, d, s) # {} => s <= r
      PROVE  /\ Claims(b, n) # {}
             /\ \A k \in Winners(b, n) : k.dom = d
             /\ Winners(b, n) # {}
             /\ \A p : p \in Chosen(b, n) <=>
                   Holders(b, d, r) = {p} /\ p \in Running(b) /\ (r = 3 => Has(p))
             /\ Forwards(b, n) <=> \E p \in Holders(b, d, r) : F(p, r)
  <2>1. Decisive(b, n, d, r)
    BY <1>3, DecisiveEntry DEF d
  <2>q. QED  BY <1>2, <2>1, ChosenAt DEF F, Has
<1>4. CASE d \in Bound(b)
  <2> DEFINE p == b.policy.bind[d]
  <2>1. Holders(b, d, 3) = {p}
    BY <1>4, HolderSets
  <2>2. /\ e.prof = p
        /\ e.active <=> p \in Running(b) /\ Has(p)
        /\ e.active => /\ ~e.profileDNS
                       /\ e.res # NoList <=> F(p, 3)
    <3>1. e = exactEntry(b, d)
      BY <1>1, <1>4 DEF d
    <3>2. LET x == exactEntry(b, d) IN
          /\ x.prof = p
          /\ x.active <=> p \in Running(b) /\ Has(p)
          /\ x.active => /\ ~x.profileDNS
                         /\ x.res # NoList <=> \E c \in coveringDNSRoute(d, dnsRoutesForStatus(b.report[p])) : c.res # NoList
      BY <1>4, ExactEntryFacts DEF Has
    <3>3. F(p, 3) <=> \E c \in coveringDNSRoute(d, dnsRoutesForStatus(b.report[p])) : c.res # NoList
      BY DEF F
    <3>q. QED  BY <3>1, <3>2, <3>3
  <2> HIDE DEF p
  <2>3. /\ Claims(b, n) # {} /\ Winners(b, n) # {} /\ \A k \in Winners(b, n) : k.dom = d
        /\ \A q : q \in Chosen(b, n) <=> Holders(b, d, 3) = {q} /\ q \in Running(b) /\ Has(q)
        /\ Forwards(b, n) <=> \E q \in Holders(b, d, 3) : F(q, 3)
    <3>1. Holders(b, d, 3) # {} /\ 3 \in {1, 2, 3} /\ \A s \in {1, 2, 3} : s <= 3
      BY <2>1
    <3>q. QED  BY <1>3, <3>1
  <2>4. \A q : q \in Chosen(b, n) <=> q = p /\ e.active
    BY <2>1, <2>2, <2>3
  <2>q. QED  BY <2>1, <2>2, <2>3, <2>4 DEF Agrees, d
<1>5. CASE d \in Imported(b) \ Bound(b)
  <2> DEFINE H == Holders(b, d, 2)
  <2>1. /\ Claims(b, n) # {} /\ Winners(b, n) # {} /\ \A k \in Winners(b, n) : k.dom = d
        /\ \A q : q \in Chosen(b, n) <=> H = {q} /\ q \in Running(b)
        /\ Forwards(b, n) <=> \E q \in H : F(q, 2)
    <3>1. Holders(b, d, 2) # {} /\ 2 \in {1, 2, 3} /\ \A s \in {1, 2, 3} : Holders(b, d, s) # {} => s <= 2
      BY <1>5, HolderSets
    <3>q. QED  BY <1>3, <3>1
  <2>2. /\ H \subseteq Running(b)
        /\ H = Offering(ImportOffers(b), d)
        /\ e.active <=> \E p : H = {p}
        /\ \A p : H = {p} => e = ImportOffers(b)[p][d]
    <3>1. IsSlot(ImportOffers(b), {}, d, e)
      BY <1>1, <1>5 DEF d
    <3>2. H = Offering(ImportOffers(b), d) /\ H \subseteq Running(b)
      BY HolderSets DEF Holders
    <3>q. QED  BY <3>1, <3>2 DEF IsSlot
  <2>3. ASSUME NEW p, H = {p}
        PROVE  e.prof = p /\ ~e.profileDNS /\ (e.res # NoList <=> F(p, 2))
    <3>1. p \in b.policy.accept \cap Running(b) /\ d \in Offers(b.report[p])
      BY <2>3, HolderSets
    <3>2. ImportOffers(b)[p][d] = LET o == Offer(b.report[p], d) IN Entry(d, p, o.source, FALSE, o.res)
      BY <3>1 DEF ImportOffers
    <3>q. QED  BY <2>2, <2>3, <3>2 DEF Entry, F
  <2> HIDE DEF H
  <2>4. \A q : q \in Chosen(b, n) <=> H = {q}
    BY <2>1, <2>2
  <2>5. Chosen(b, n) = IF e.active THEN {e.prof} ELSE {}
    <3>1. CASE ~\E p : H = {p}
      BY <2>2, <2>4, <3>1
    <3>2. ASSUME NEW p, H = {p} PROVE Chosen(b, n) = {e.prof} /\ e.active
      <4>1. \A q : H = {q} <=> q = p
        BY <3>2
      <4>2. Chosen(b, n) = {p}
        BY <2>4, <4>1
      <4>q. QED  BY <2>2, <2>3, <3>2, <4>2
    <3>q. QED  BY <3>1, <3>2
  <2>6. e.active => (Forwards(b, n) <=> (e.profileDNS \/ e.res # NoList))
    BY <2>1, <2>2, <2>3
  <2>q. QED  BY <2>1, <2>5, <2>6 DEF Agrees, d
<1>6. CASE d \in Automatic(b) \ (Bound(b) \cup Imported(b))
  <2> DEFINE H == Holders(b, d, 1)
  <2>1. /\ Claims(b, n) # {} /\ Winners(b, n) # {} /\ \A k \in Winners(b, n) : k.dom = d
        /\ \A q : q \in Chosen(b, n) <=> H = {q} /\ q \in Running(b)
        /\ Forwards(b, n) <=> \E q \in H : F(q, 1)
    <3>1. Holders(b, d, 1) # {} /\ 1 \in {1, 2, 3} /\ \A s \in {1, 2, 3} : Holders(b, d, s) # {} => s <= 1
      BY <1>6, HolderSets
    <3>q. QED  BY <1>3, <3>1
  <2>2. /\ H \subseteq Running(b)
        /\ H = Offering(AutomaticOffers(b), d)
        /\ e.active <=> \E p : H = {p}
        /\ \A p : H = {p} => e = AutomaticOffers(b)[p][d]
    <3>1. IsSlot(AutomaticOffers(b), {}, d, e)
      BY <1>1, <1>6 DEF d
    <3>2. H = Offering(AutomaticOffers(b), d) /\ H \subseteq Running(b)
      BY HolderSets DEF Holders
    <3>q. QED  BY <3>1, <3>2 DEF IsSlot
  <2>3. ASSUME NEW p, H = {p}
        PROVE  e.prof = p /\ ((e.profileDNS \/ e.res # NoList) <=> F(p, 1))
    <3>1. p \in Running(b) /\ d \in AutomaticDomains(b, p)
      BY <2>3, HolderSets
    <3>2. AutomaticOffers(b)[p][d] = IF d = Root /\ p \in ExitProfile(b) THEN Entry(d, p, "exit-node", TRUE, NoList)
                                                ELSE Entry(d, p, "magicdns", FALSE, NoList)
      BY <3>1 DEF AutomaticOffers
    <3>3. F(p, 1) <=> d = Root /\ p \in ExitProfile(b)
      BY DEF F
    <3>q. QED  BY <2>2, <2>3, <3>2, <3>3 DEF Entry
  <2> HIDE DEF H
  <2>4. \A q : q \in Chosen(b, n) <=> H = {q}
    BY <2>1, <2>2
  <2>5. Chosen(b, n) = IF e.active THEN {e.prof} ELSE {}
    <3>1. CASE ~\E p : H = {p}
      BY <2>2, <2>4, <3>1
    <3>2. ASSUME NEW p, H = {p} PROVE Chosen(b, n) = {e.prof} /\ e.active
      <4>1. \A q : H = {q} <=> q = p
        BY <3>2
      <4>2. Chosen(b, n) = {p}
        BY <2>4, <4>1
      <4>q. QED  BY <2>2, <2>3, <3>2, <4>2
    <3>q. QED  BY <3>1, <3>2
  <2>6. e.active => (Forwards(b, n) <=> (e.profileDNS \/ e.res # NoList))
    BY <2>1, <2>2, <2>3
  <2>q. QED  BY <2>1, <2>5, <2>6 DEF Agrees, d
<1>q. QED  BY <1>2, <1>4, <1>5, <1>6

\* Whether a name is claimed at all.
LEMMA ClaimedIsCovered ==
    ASSUME NEW b \in Bases, NEW n \in Domains \cup Names
    PROVE  Claims(b, n) = {} <=> Covering(n, PolicyEntries(BuildDNS(b))) = {}
<1> DEFINE E == PolicyEntries(BuildDNS(b))
<1>1. Doms(E) = Bound(b) \cup Imported(b) \cup Automatic(b)
  BY PlanRoutes
<1>2. \A d : d \in Doms(E) <=> \E r : Holders(b, d, r) # {}
  BY <1>1, HolderSets
<1> HIDE DEF E
<1>3. ASSUME NEW k \in Claims(b, n) PROVE Covering(n, E) # {}
  <2>1. k.dom \in Doms(E) /\ DNSContains(k.dom, n)
    BY <1>2, ClaimFacts
  <2>q. QED  BY <2>1 DEF Doms, Covering
<1>4. ASSUME NEW e \in Covering(n, E) PROVE Claims(b, n) # {}
  <2>1. e.dom \in Doms(E) /\ DNSContains(e.dom, n)
    BY DEF Doms, Covering
  <2>2. PICK r : Holders(b, e.dom, r) # {}
    BY <1>2, <2>1
  <2>q. QED  BY <2>1, <2>2, ClaimFacts
<1>q. QED  BY <1>3, <1>4 DEF E

----------------------------------------------------------------------------
(* DNSPolicy: records, routes and forwarders.                              *)

\* What Resolve finds: nothing when nothing claims the name, else the entry that agrees
\* with the policy.
LEMMA ResolveFacts ==
    ASSUME NEW b \in Bases, NEW n \in Domains \cup Names
    PROVE  \/ /\ Claims(b, n) = {}
              /\ Covering(n, PolicyEntries(BuildDNS(b))) = {}
              /\ Resolve(BuildDNS(b), n) = {}
           \/ \E e \in Covering(n, PolicyEntries(BuildDNS(b))) :
                 /\ Resolve(BuildDNS(b), n) = {e}
                 /\ \A f \in Covering(n, PolicyEntries(BuildDNS(b))) : f # e => Len(f.dom) < Len(e.dom)
                 /\ Agrees(b, n, e)
<1> DEFINE E == PolicyEntries(BuildDNS(b))
           R == Resolve(BuildDNS(b), n)
<1>1. Best(n, E, R)
  BY PlanRoutes
<1>2. Claims(b, n) = {} <=> Covering(n, E) = {}
  BY ClaimedIsCovered
<1>3. ASSUME NEW e \in Covering(n, E), \A f \in Covering(n, E) : f # e => Len(f.dom) < Len(e.dom)
      PROVE  Agrees(b, n, e)
  BY <1>3, ChosenIsEntry
<1> HIDE DEF E, R
<1>q. QED  BY <1>1, <1>2, <1>3 DEF Best, E, R

\* The nodes that the profiles report.
LEMMA CandidateFacts ==
    ASSUME NEW b \in Bases
    PROVE  /\ \A c \in Candidates(b) : c = [name |-> c.name, prof |-> c.prof] /\ c.name \in Names
           /\ \A n : Knowing(b, n) \subseteq Profiles /\ IsFiniteSet(Knowing(b, n))
           /\ \A n, p : p \in Knowing(b, n) <=> [name |-> n, prof |-> p] \in Candidates(b)
<1>1. \A p \in Running(b) : p \in Profiles /\ b.report[p].names \subseteq Names
  BY RunningStatus DEF Statuses, Running
<1>2. \A c \in Candidates(b) : c = [name |-> c.name, prof |-> c.prof] /\ c.name \in Names /\ c.prof \in Profiles
  BY <1>1 DEF Candidates
<1>3. \A n : Knowing(b, n) \subseteq Profiles
  BY <1>2 DEF Knowing
<1>4. \A n : IsFiniteSet(Knowing(b, n))
  BY <1>3, DNSPolicyAssumption, FS_Subset
<1>5. ASSUME NEW n, NEW p
      PROVE  p \in Knowing(b, n) <=> [name |-> n, prof |-> p] \in Candidates(b)
  <2>1. p \in Knowing(b, n) <=> \E c \in Candidates(b) : c.name = n /\ c.prof = p
    BY DEF Knowing
  <2>q. QED  BY <1>2, <2>1
<1>q. QED  BY <1>2, <1>3, <1>4, <1>5

\* The profiles whose records hold a name.
HostsOf(cfg, n) == {c.prof : c \in {r \in cfg.records : r.name = n}}

\* The records agree with the policy: a name that nothing claims has its only owner, and
\* any other the chosen profile, if that one knows the name.
LEMMA RecordFacts ==
    ASSUME NEW b \in Bases, NEW n \in Names
    PROVE  /\ Claims(b, n) = {} =>
                 HostsOf(tunDNSLiveConfig(b), n) = IF Cardinality(Knowing(b, n)) = 1 THEN Knowing(b, n) ELSE {}
           /\ Claims(b, n) # {} => HostsOf(tunDNSLiveConfig(b), n) = Chosen(b, n) \cap Knowing(b, n)
<1> DEFINE cfg == tunDNSLiveConfig(b)
           R == Resolve(BuildDNS(b), n)
           C == Candidates(b)
           K == Knowing(b, n)
           rec(p) == [name |-> n, prof |-> p]
<1>1. \A r : r \in cfg.records <=>
          /\ r \in C
          /\ \/ Resolve(BuildDNS(b), r.name) = {} /\ \A q \in C : q.name = r.name => q = r
             \/ \E e \in Resolve(BuildDNS(b), r.name) : e.active /\ e.prof = r.prof
  BY DEF tunDNSLiveConfig
<1>2. /\ \A c \in C : c = [name |-> c.name, prof |-> c.prof]
      /\ IsFiniteSet(K)
      /\ \A p : p \in K <=> rec(p) \in C
  BY CandidateFacts
<1>3. \A p : rec(p).name = n /\ rec(p).prof = p
  OBVIOUS
<1> HIDE DEF cfg, R, C, K, rec
<1>4. \A p : p \in HostsOf(cfg, n) <=> rec(p) \in cfg.records
  <2>1. \A p : p \in HostsOf(cfg, n) <=> \E r \in cfg.records : r.name = n /\ r.prof = p
    BY DEF HostsOf
  <2>2. \A r \in cfg.records : r = [name |-> r.name, prof |-> r.prof]
    BY <1>1, <1>2
  <2>q. QED  BY <1>3, <2>1, <2>2 DEF rec
<1>5. \A p : p \in HostsOf(cfg, n) <=>
          /\ p \in K
          /\ \/ R = {} /\ \A q \in C : q.name = n => q = rec(p)
             \/ \E e \in R : e.active /\ e.prof = p
  BY <1>1, <1>2, <1>3, <1>4 DEF R
<1>6. \A p \in K : (\A q \in C : q.name = n => q = rec(p)) <=> K = {p}
  <2> SUFFICES ASSUME NEW p \in K PROVE (\A q \in C : q.name = n => q = rec(p)) <=> K = {p}
    OBVIOUS
  <2>1. ASSUME \A q \in C : q.name = n => q = rec(p) PROVE K = {p}
    <3>1. \A x \in K : x = p
      BY <1>2, <1>3, <2>1
    <3>q. QED  BY <3>1
  <2>2. ASSUME K = {p}, NEW q \in C, q.name = n PROVE q = rec(p)
    <3>1. q = rec(q.prof)
      BY <1>2, <2>2 DEF rec
    <3>q. QED  BY <1>2, <2>2, <3>1
  <2>q. QED  BY <2>1, <2>2
<1>7. CASE Claims(b, n) = {}
  <2>1. R = {}
    BY <1>7, ResolveFacts DEF R, Agrees
  <2>2. \A p : p \in HostsOf(cfg, n) <=> K = {p}
    BY <1>5, <1>6, <2>1
  <2>3. Cardinality(K) = 1 => \E p : K = {p}
    BY <1>2, FS_Singleton
  <2>4. (\E p : K = {p}) => Cardinality(K) = 1
    BY FS_Singleton
  <2>5. CASE Cardinality(K) = 1
    <3>1. PICK p : K = {p}
      BY <2>3, <2>5
    <3>2. \A q : K = {q} <=> q = p
      BY <3>1
    <3>3. HostsOf(cfg, n) = K
      BY <2>2, <3>1, <3>2
    <3>q. QED  BY <1>7, <2>5, <3>3 DEF K, cfg
  <2>6. CASE Cardinality(K) # 1
    <3>1. HostsOf(cfg, n) = {}
      BY <2>2, <2>4, <2>6
    <3>q. QED  BY <1>7, <2>6, <3>1 DEF K, cfg
  <2>q. QED  BY <2>5, <2>6
<1>8. CASE Claims(b, n) # {}
  <2>1. PICK e : R = {e} /\ Agrees(b, n, e)
    BY <1>8, ResolveFacts DEF R
  <2>2. \A p : p \in HostsOf(cfg, n) <=> p \in K /\ e.active /\ e.prof = p
    BY <1>5, <2>1
  <2>3. \A p : p \in Chosen(b, n) <=> e.active /\ e.prof = p
    BY <2>1 DEF Agrees
  <2>4. HostsOf(cfg, n) = Chosen(b, n) \cap K
    BY <2>2, <2>3
  <2>q. QED  BY <1>8, <2>4 DEF K, cfg
<1>q. QED  BY <1>7, <1>8

\* The routes of a configuration and those that need a forwarder.
LEMMA RouteFacts ==
    ASSUME NEW b \in Bases
    PROVE  /\ Forwarded(tunDNSLiveConfig(b)) =
                  {e \in PolicyEntries(BuildDNS(b)) : e.active /\ (e.profileDNS \/ e.res # NoList)}
           /\ \A d \in Doms(tunDNSLiveConfig(b).routes) \cup ExactRoutes(tunDNSLiveConfig(b)) :
                 \/ d \in Doms(PolicyEntries(BuildDNS(b)))
                 \/ /\ \E c \in Candidates(b) : c.name = d
                    /\ \E c \in tunDNSLiveConfig(b).records : c.name = d
           /\ Doms(PolicyEntries(BuildDNS(b))) \subseteq Doms(tunDNSLiveConfig(b).routes)
<1> DEFINE cfg == tunDNSLiveConfig(b)
           E == PolicyEntries(BuildDNS(b))
           C == Candidates(b)
           shared == {c \in C : /\ Resolve(BuildDNS(b), c.name) = {}
                                /\ \A q \in C : q.name = c.name => q = c}
<1>1. /\ cfg.routes = E \cup {Inactive(c.name, None) : c \in shared}
      /\ cfg.records \subseteq C
      /\ shared \subseteq cfg.records
  BY DEF tunDNSLiveConfig
<1>2. \A n : Inactive(n, None).dom = n /\ ~Inactive(n, None).active
  BY DEF Inactive
<1> HIDE DEF cfg, E, C, shared
<1>3. Forwarded(cfg) = {e \in E : e.active /\ (e.profileDNS \/ e.res # NoList)}
  BY <1>1, <1>2 DEF Forwarded
<1>4. Doms(cfg.routes) = Doms(E) \cup {c.name : c \in shared}
  BY <1>1, <1>2 DEF Doms
<1>5. ExactRoutes(cfg) \subseteq {c.name : c \in cfg.records}
  BY DEF ExactRoutes
<1>q. QED  BY <1>1, <1>3, <1>4, <1>5 DEF cfg, E, C

\* Among the suffixes of a name that have a route there is a longest.
LEMMA LongestRoute ==
    ASSUME NEW n \in Domains \cup Names, NEW S, S \subseteq Domains \cup Names, S # {},
           \A d \in S : DNSContains(d, n)
    PROVE  \E d \in S : \A e \in S : Len(e) <= Len(d)
<1> DEFINE L == {Len(d) : d \in S}
<1>1. \A d \in S : Len(d) \in Nat /\ Len(d) <= Len(n)
  BY DomainLen DEF DNSContains
<1>2. L \in SUBSET Nat /\ L # {} /\ \A x \in L : x <= Len(n)
  BY <1>1
<1>3. PICK x \in L : \A y \in L : y <= x
  <2> HIDE DEF L
  <2>q. QED  BY <1>2, DomainLen, Greatest
<1>q. QED  BY <1>3

----------------------------------------------------------------------------
(* DNSPolicy: the answer to a name.                                        *)

Nobody == [by |-> "nobody", of |-> {}]

\* The resolver answers a name as the policy says, unless the name is below a node's or
\* only a root without resolvers claims it.
LEMMA AnswerFollows ==
    ASSUME NEW b \in Bases, NEW cfg, cfg = tunDNSLiveConfig(b),
           NEW ports \in [Doms(Forwarded(cfg)) -> Ports],
           NEW c, c = configForService(cfg, ports),
           \A r \in Forwarded(cfg) : live[ports[r.dom]].prof = r.prof,
           NEW n \in Names
    PROVE  \/ Answer(c, n) = PolicyAnswer(b, n)
           \/ BelowNode(b, n) /\ Answer(c, n) = Nobody
           \/ RootWaits(b, n) /\ Answer(c, n).of = {}
<1> DEFINE E == PolicyEntries(BuildDNS(b))
           K == Knowing(b, n)
           who == Chosen(b, n)
           D == (Doms(cfg.routes) \cup ExactRoutes(cfg)) \ {Root}
           S == {d \in D : DNSContains(d, n)}
           best == CHOOSE d \in S : \A e \in S : Len(e) <= Len(d)
           F(k) == [by |-> "forwarder", of |-> {live[k].prof}]
           machine == [by |-> "machine", of |-> {}]
           H == HostsOf(cfg, n)
           port(d) == IF d \in DOMAIN ports THEN ports[d] ELSE None
<1>1. /\ c.hosts = [m \in {r.name : r \in cfg.records} |-> HostsOf(cfg, m)]
      /\ c.routes = [d \in D |-> port(d)]
      /\ c.default = port(Root)
  BY DEF configForService, HostsOf
<1>2. /\ n \in DOMAIN c.hosts <=> H # {}
      /\ n \in DOMAIN c.hosts => c.hosts[n] = H
  <2>1. DOMAIN c.hosts = {r.name : r \in cfg.records}
    BY <1>1
  <2>2. n \in {r.name : r \in cfg.records} <=> H # {}
    BY DEF HostsOf
  <2>q. QED  BY <1>1, <2>1, <2>2
<1>3. /\ DOMAIN c.routes = D
      /\ \A d \in D : c.routes[d] = port(d)
  BY <1>1
<1>6. OneEach(E) /\ Doms(E) \subseteq Domains
  BY PlanRoutes DEF OneEach, Doms
<1>7. /\ Forwarded(cfg) = {e \in E : e.active /\ (e.profileDNS \/ e.res # NoList)}
      /\ \A d \in D : \/ d \in Doms(E)
                      \/ /\ \E x \in Candidates(b) : x.name = d
                         /\ \E x \in cfg.records : x.name = d
      /\ Doms(E) \ {Root} \subseteq D
  BY RouteFacts
<1>8. D \subseteq Domains \cup Names
  BY <1>6, <1>7, CandidateFacts
<1>e. S # {} => best \in D /\ DNSContains(best, n) /\ best # Root /\ \A e \in S : Len(e) <= Len(best)
  <2> SUFFICES ASSUME S # {}
               PROVE  best \in D /\ DNSContains(best, n) /\ best # Root /\ \A e \in S : Len(e) <= Len(best)
    OBVIOUS
  <2>1. Root \notin D
    OBVIOUS
  <2> HIDE DEF D, best, S
  <2>2. best \in S /\ \A e \in S : Len(e) <= Len(best)
    <3>1. n \in Domains \cup Names /\ S \subseteq Domains \cup Names /\ \A d \in S : DNSContains(d, n)
      BY <1>8 DEF S
    <3>2. \E d \in S : \A e \in S : Len(e) <= Len(d)
      BY <3>1, LongestRoute
    <3>q. QED  BY <3>2 DEF best
  <2>q. QED  BY <2>1, <2>2 DEF S
<1>4. Answer(c, n) =
        IF H # {} THEN [by |-> "hosts", of |-> H]
        ELSE IF S # {} /\ port(best) # None THEN F(port(best))
        ELSE IF S # {} THEN Nobody
        ELSE IF port(Root) # None THEN F(port(Root))
        ELSE machine
  <2> DEFINE T == {d \in DOMAIN c.routes : DNSContains(d, n)}
             tbest == CHOOSE d \in T : \A e \in T : Len(e) <= Len(d)
  <2>1. Answer(c, n) =
        IF n \in DOMAIN c.hosts THEN [by |-> "hosts", of |-> c.hosts[n]]
        ELSE IF T # {} /\ c.routes[tbest] # None THEN F(c.routes[tbest])
        ELSE IF T # {} THEN Nobody
        ELSE IF c.default # None THEN F(c.default)
        ELSE machine
    BY DEF Answer, Nobody
  <2>2. T = S
    BY <1>3
  <2>3. tbest = best
    BY <2>2
  <2>4. S # {} => c.routes[best] = port(best)
    BY <1>3, <1>e
  <2> HIDE DEF T, tbest, F, S, best, port, machine
  <2>5. c.default = port(Root)
    BY <1>1 DEF D
  <2> HIDE DEF D, H
  <2>6. CASE H # {}
    BY <1>2, <2>1, <2>6
  <2>7. CASE H = {}
    <3>1. n \notin DOMAIN c.hosts
      BY <1>2, <2>7
    <3>q. QED  BY <2>1, <2>2, <2>3, <2>4, <2>5, <2>7, <3>1
  <2>q. QED  BY <2>6, <2>7
<1>5. DOMAIN ports = Doms(Forwarded(cfg)) /\ \A d \in DOMAIN ports : ports[d] # None
  BY DNSPolicyAssumption
<1>9. \/ Claims(b, n) = {} /\ Covering(n, E) = {}
      \/ \E e \in Covering(n, E) :
            /\ \A f \in Covering(n, E) : f # e => Len(f.dom) < Len(e.dom)
            /\ Agrees(b, n, e)
  BY ResolveFacts
<1>10. PolicyAnswer(b, n) =
         IF Claims(b, n) = {}
            THEN IF Cardinality(K) = 1 THEN [by |-> "hosts", of |-> K] ELSE machine
         ELSE IF who \cap K # {} THEN [by |-> "hosts", of |-> who]
         ELSE IF who # {} /\ Forwards(b, n) THEN [by |-> "forwarder", of |-> who]
         ELSE Nobody
  BY DEF PolicyAnswer, Nobody
<1>11. /\ Claims(b, n) = {} => H = IF Cardinality(K) = 1 THEN K ELSE {}
       /\ Claims(b, n) # {} => H = who \cap K
  BY RecordFacts
<1>13. \A d : d \in Doms(E) /\ DNSContains(d, n) => d = Root \/ d \in S
  BY <1>7
<1>14. ASSUME NEW e \in Forwarded(cfg) PROVE live[ports[e.dom]].prof = e.prof
  OBVIOUS
<1>15. \A e \in E : e.dom \in DOMAIN ports <=> e \in Forwarded(cfg)
  BY <1>5, <1>6, <1>7 DEF OneEach, Doms
<1>16. \A x \in cfg.records : x.name = n => H # {}
  BY DEF HostsOf
<1>17. \A d : port(d) # None <=> d \in DOMAIN ports
  BY <1>5
<1>18. \A d : d \in DOMAIN ports => port(d) = ports[d] /\ d \in Doms(E)
  BY <1>5, <1>7 DEF Doms
<1> HIDE DEF E, K, who, D, S, best, F, machine, H, port
\* A record answers.
<1>20. CASE H # {}
  <2>1. Answer(c, n) = [by |-> "hosts", of |-> H]
    BY <1>4, <1>20
  <2>2. CASE Claims(b, n) = {}
    BY <1>10, <1>11, <1>20, <2>1, <2>2
  <2>3. CASE Claims(b, n) # {}
    <3>1. H = who \cap K
      BY <1>11, <2>3
    <3>2. \E e : Agrees(b, n, e)
      BY <1>9, <2>3
    <3>3. H = who
      BY <1>20, <3>1, <3>2 DEF Agrees, who
    <3>q. QED  BY <1>10, <1>20, <2>1, <2>3, <3>1, <3>3
  <2>q. QED  BY <2>2, <2>3
\* The route of a node's name hides what is around it.
<1>21. CASE H = {} /\ S # {} /\ best \notin Doms(E)
  <2>1. port(best) = None
    BY <1>17, <1>18, <1>21
  <2>2. Answer(c, n) = Nobody
    BY <1>4, <1>21, <2>1
  <2>3. PICK x \in Candidates(b) : x.name = best
    BY <1>7, <1>e, <1>21
  <2>4. best # n
    BY <1>7, <1>e, <1>16, <1>21
  <2>q. QED  BY <1>e, <1>21, <2>2, <2>3, <2>4 DEF BelowNode
\* A route of the plan decides, other than that of the root.
<1>22. CASE H = {} /\ S # {} /\ best \in Doms(E)
  <2>1. PICK f \in E : f.dom = best
    BY <1>22 DEF Doms
  <2>2. f \in Covering(n, E)
    BY <1>e, <1>22, <2>1 DEF Covering
  <2>3. PICK e \in Covering(n, E) :
            /\ \A g \in Covering(n, E) : g # e => Len(g.dom) < Len(e.dom)
            /\ Agrees(b, n, e)
    BY <1>9, <2>2
  <2>4. e \in E /\ e.dom \in Domains /\ f.dom \in Domains /\ DNSContains(e.dom, n)
    BY <1>6, <2>1, <2>3 DEF Covering, OneEach
  <2>5. Len(e.dom) \in Nat /\ Len(f.dom) \in Nat /\ (Len(f.dom) = 0 => f.dom = Root) /\ Len(Root) = 0
    BY <2>4, DomainLen DEF Root
  <2>6. e = f
    <3> SUFFICES ASSUME e # f PROVE FALSE
      OBVIOUS
    <3>1. Len(f.dom) < Len(e.dom)
      BY <2>2, <2>3
    <3>2. e.dom # Root /\ e.dom \in Doms(E)
      BY <2>4, <2>5, <3>1 DEF Doms
    <3>3. Len(e.dom) <= Len(f.dom)
      BY <1>e, <1>13, <1>22, <2>1, <2>4, <3>2
    <3>q. QED  BY <2>5, <3>1, <3>3
  <2>7. /\ Claims(b, n) # {} /\ who \cap K = {}
        /\ ~\A k \in Winners(b, n) : k.dom = Root
        /\ who = IF e.active THEN {e.prof} ELSE {}
        /\ e.active => (Forwards(b, n) <=> (e.profileDNS \/ e.res # NoList))
    BY <1>11, <1>e, <1>22, <2>1, <2>3, <2>6 DEF Agrees, who
  <2>8. CASE e \in Forwarded(cfg)
    <3>1. e.active /\ who = {e.prof} /\ Forwards(b, n)
      BY <1>7, <2>7, <2>8
    <3>2. best \in DOMAIN ports /\ port(best) = ports[e.dom]
      BY <1>15, <1>18, <2>1, <2>4, <2>6, <2>8
    <3>3. Answer(c, n) = F(ports[e.dom])
      BY <1>4, <1>17, <1>22, <3>2
    <3>4. F(ports[e.dom]) = [by |-> "forwarder", of |-> {e.prof}]
      BY <1>14, <2>8 DEF F
    <3>q. QED  BY <1>10, <2>7, <3>1, <3>3, <3>4
  <2>9. CASE e \notin Forwarded(cfg)
    <3>1. ~(who # {} /\ Forwards(b, n))
      BY <1>7, <2>4, <2>7, <2>9
    <3>2. port(best) = None
      BY <1>15, <1>17, <2>1, <2>4, <2>6, <2>9
    <3>3. Answer(c, n) = Nobody
      BY <1>4, <1>22, <3>2
    <3>q. QED  BY <1>10, <2>7, <3>1, <3>3
  <2>q. QED  BY <2>8, <2>9
\* Only the root claims the name, or nothing.
<1>23. CASE H = {} /\ S = {}
  <2>1. Answer(c, n) = IF port(Root) # None THEN F(port(Root)) ELSE machine
    BY <1>4, <1>23
  <2>2. \A e \in Covering(n, E) : e \in E /\ e.dom = Root
    BY <1>13, <1>23 DEF Covering, Doms
  <2>3. CASE Claims(b, n) = {} /\ Covering(n, E) = {}
    <3>1. Root \notin Doms(E)
      <4>1. DNSContains(Root, n)
        BY DomainLen
      <4>q. QED  BY <2>3, <4>1 DEF Doms, Covering
    <3>2. port(Root) = None
      BY <1>17, <1>18, <3>1
    <3>3. Cardinality(K) # 1
      <4> SUFFICES ASSUME Cardinality(K) = 1 PROVE FALSE
        OBVIOUS
      <4>1. K = {}
        BY <1>11, <1>23, <2>3
      <4>q. QED  BY <4>1, FS_EmptySet
    <3>q. QED  BY <1>10, <2>1, <2>3, <3>2, <3>3
  <2>4. ASSUME NEW e \in Covering(n, E), Agrees(b, n, e)
        PROVE  \/ Answer(c, n) = PolicyAnswer(b, n)
               \/ RootWaits(b, n) /\ Answer(c, n).of = {}
    <3>1. e \in E /\ e.dom = Root
      BY <2>2
    <3>2. /\ Claims(b, n) # {} /\ who \cap K = {}
          /\ \A k \in Winners(b, n) : k.dom = Root
          /\ who = IF e.active THEN {e.prof} ELSE {}
          /\ e.active => (Forwards(b, n) <=> (e.profileDNS \/ e.res # NoList))
      BY <1>11, <1>23, <2>4, <3>1 DEF Agrees, who
    <3>3. CASE e \in Forwarded(cfg)
      <4>1. e.active /\ who = {e.prof} /\ Forwards(b, n)
        BY <1>7, <3>2, <3>3
      <4>2. Root \in DOMAIN ports /\ port(Root) = ports[e.dom]
        BY <1>15, <1>18, <3>1, <3>3
      <4>3. Answer(c, n) = F(ports[e.dom])
        BY <1>17, <2>1, <4>2
      <4>4. F(ports[e.dom]) = [by |-> "forwarder", of |-> {e.prof}]
        BY <1>14, <3>3 DEF F
      <4>q. QED  BY <1>10, <3>2, <4>1, <4>3, <4>4
    <3>4. CASE e \notin Forwarded(cfg)
      <4>1. ~(who # {} /\ Forwards(b, n))
        BY <1>7, <3>1, <3>2, <3>4
      <4>2. port(Root) = None
        BY <1>15, <1>17, <3>1, <3>4
      <4>3. Answer(c, n).of = {}
        BY <2>1, <4>2 DEF machine
      <4>4. PolicyAnswer(b, n).by = "nobody"
        BY <1>10, <3>2, <4>1 DEF Nobody
      <4>q. QED  BY <3>2, <4>3, <4>4 DEF RootWaits
    <3>q. QED  BY <3>3, <3>4
  <2>q. QED  BY <1>9, <2>3, <2>4
<1>q. QED  BY <1>20, <1>21, <1>22, <1>23

----------------------------------------------------------------------------
(* DNSPolicy: the choice of the SOCKS mode.                                *)

\* A profile's own suffix is always offered as MagicDNS.
LEMMA SuffixIsMagic ==
    ASSUME NEW b \in Bases, NEW p \in Running(b), b.report[p].suffix # None
    PROVE  b.report[p].suffix \in MagicDomains(b.report[p])
<1> DEFINE s == b.report[p]
           d == s.suffix
           R == dnsRoutesForStatus(s)
<1>1. s \in Statuses
  BY RunningStatus
<1>2. PICK m \in DOMAIN R : R[m].dom = d /\ R[m].source = "magicdns"
  BY <1>1, RouteDomains
<1>3. d \in Offers(s)
  BY <1>2 DEF Offers
<1>4. PICK i \in DOMAIN R : Offer(s, d) = R[i] /\ Priority[R[i].source] <= Priority[R[m].source]
  BY <1>1, <1>2, <1>3, OfferIsRoute
<1>5. R[i].source \in Sources
  BY <1>1, RoutesOfStatus
<1> HIDE DEF R
<1>6. R[i].source = "magicdns"
  BY <1>2, <1>4, <1>5 DEF Priority, Sources
<1>q. QED  BY <1>3, <1>4, <1>6 DEF MagicDomains

\* A name under the suffix of a running profile is covered by the automatic tier.
LEMMA SuffixIsAutomatic ==
    ASSUME NEW b \in Bases, NEW p \in Running(b), b.report[p].suffix # None,
           NEW n \in Names, DNSContains(b.report[p].suffix, n)
    PROVE  \E d \in Automatic(b) : DNSContains(d, n)
<1> DEFINE d == b.report[p].suffix
<1>1. d \in MagicDomains(b.report[p])
  BY SuffixIsMagic
<1>2. CASE d # Root \/ ExitProfile(b) = {}
  <2>1. d \in AutomaticDomains(b, p)
    BY <1>1, <1>2 DEF AutomaticDomains
  <2>2. Holders(b, d, 1) # {}
    BY <2>1, HolderSets
  <2>q. QED  BY <2>2, HolderSets
<1>3. CASE d = Root /\ ExitProfile(b) # {}
  <2>1. PICK q : q \in ExitProfile(b)
    BY <1>3
  <2>2. q \in Running(b) /\ Root \in AutomaticDomains(b, q)
    BY <2>1 DEF AutomaticDomains, ExitProfile
  <2>3. Holders(b, Root, 1) # {}
    BY <2>2, HolderSets
  <2>q. QED  BY <1>3, <2>3, HolderSets
<1>q. QED  BY <1>2, <1>3

\* The exit node's route that the router adds is in the plan already, unless the root is
\* bound or imported.
LEMMA ExitInAutomatic ==
    ASSUME NEW b \in Bases, NEW p \in ExitProfile(b), Root \notin Bound(b) \cup Imported(b)
    PROVE  Entry(Root, p, "exit-node", TRUE, NoList) \in BuildDNS(b).automatic
<1>1. p \in Running(b) /\ p = b.policy.exit /\ Root \in AutomaticDomains(b, p)
  BY DEF ExitProfile, AutomaticDomains
<1>2. \A q : Root \in AutomaticDomains(b, q) => q = p
  BY <1>1 DEF ExitProfile, AutomaticDomains
<1>3. Holders(b, Root, 1) = {p} /\ Root \in Automatic(b)
  <2>1. Holders(b, Root, 1) = {q \in Running(b) : Root \in AutomaticDomains(b, q)}
    BY HolderSets
  <2>2. Holders(b, Root, 1) = {p}
    BY <1>1, <1>2, <2>1
  <2>q. QED  BY <2>2, HolderSets
<1>4. Offering(AutomaticOffers(b), Root) = {p}
  BY <1>3 DEF Holders
<1>5. PICK e \in BuildDNS(b).automatic : e.dom = Root
  <2>1. Root \in Doms(BuildDNS(b).automatic)
    BY <1>3, PlanTiers
  <2>q. QED  BY <2>1 DEF Doms
<1>6. IsSlot(AutomaticOffers(b), Bound(b) \cup Imported(b), Root, e)
  BY <1>5, PlanTiers
<1>7. e = AutomaticOffers(b)[p][Root]
  BY <1>4, <1>6 DEF IsSlot
<1>8. AutomaticOffers(b)[p][Root] = Entry(Root, p, "exit-node", TRUE, NoList)
  BY <1>1 DEF AutomaticOffers
<1>q. QED  BY <1>5, <1>7, <1>8

\* A tier whose matches become routes, none of them shorter than a match elsewhere.
LEMMA TierChoice ==
    ASSUME NEW b \in Bases, NEW n \in Names, NEW T, OneEach(T), Covering(n, T) # {},
           Covering(n, T) \subseteq PolicyEntries(BuildDNS(b)),
           \A x \in Covering(n, T), e \in Covering(n, PolicyEntries(BuildDNS(b))) :
               e \in T \/ ~(Len(x.dom) < Len(e.dom))
    PROVE  {e.prof : e \in {f \in longestDNSMatch(n, T) : f.active}} = Chosen(b, n)
<1> DEFINE E == PolicyEntries(BuildDNS(b))
<1>1. PICK x \in Covering(n, T) : /\ longestDNSMatch(n, T) = {x}
                                  /\ \A f \in Covering(n, T) : f # x => Len(f.dom) < Len(x.dom)
  BY OneLongest DEF OneEach
<1>2. x \in Covering(n, E)
  BY <1>1 DEF Covering
<1>3. PICK e \in Covering(n, E) : /\ \A f \in Covering(n, E) : f # e => Len(f.dom) < Len(e.dom)
                                  /\ Agrees(b, n, e)
  BY <1>2, ResolveFacts
<1>4. x.dom \in Domains /\ e.dom \in Domains
  <2>1. OneEach(E) /\ x \in E /\ e \in E
    BY <1>2, PlanRoutes DEF Covering
  <2>q. QED  BY <2>1 DEF OneEach
<1> HIDE DEF E
<1>5. Len(x.dom) \in Nat /\ Len(e.dom) \in Nat
  BY <1>4, DomainLen
<1>6. x = e
  <2> SUFFICES ASSUME x # e PROVE FALSE
    OBVIOUS
  <2>1. Len(x.dom) < Len(e.dom)
    BY <1>2, <1>3
  <2>2. e \in T
    BY <1>1, <1>3, <2>1 DEF E
  <2>3. e \in Covering(n, T)
    BY <1>3, <2>2 DEF Covering
  <2>4. Len(e.dom) < Len(x.dom)
    BY <1>1, <2>3
  <2>q. QED  BY <1>5, <2>1, <2>4
<1>7. {f \in longestDNSMatch(n, T) : f.active} = IF e.active THEN {e} ELSE {}
  BY <1>1, <1>6
<1>8. Chosen(b, n) = IF e.active THEN {e.prof} ELSE {}
  BY <1>3 DEF Agrees
<1>q. QED  BY <1>7, <1>8

\* The SOCKS mode chooses as the resolver does while no tier is overruled by a longer
\* suffix in a later one.
LEMMA SocksChoice ==
    ASSUME NEW b \in Bases, NEW n \in Names
    PROVE  SocksInOrder(b, SocksTiers(b), n)
<1> DEFINE plan == BuildDNS(b)
           E == PolicyEntries(plan)
           X == {Entry(Root, p, "exit-node", TRUE, NoList) : p \in ExitProfile(b)}
           last == plan.automatic \cup X
           tiers == SocksTiers(b)
           hits == {t \in 1 .. 3 : Covering(n, tiers[t]) # {}}
           first == CHOOSE t \in hits : \A u \in hits : t <= u
           Own(p) == b.report[p].suffix # None /\ b.report[p].suffix # n /\ DNSContains(b.report[p].suffix, n)
           own == {p \in Running(b) : Own(p) /\ \A q \in Running(b) :
                    Own(q) => \/ Len(b.report[q].suffix) < Len(b.report[p].suffix)
                              \/ q = p}
           pick(T) == {e.prof : e \in {f \in longestDNSMatch(n, T) : f.active}}
<1> SUFFICES ASSUME \A j, k \in Claims(b, n) : j.rank > k.rank => Len(j.dom) >= Len(k.dom)
             PROVE  SocksResolve(b, tiers, n) = Chosen(b, n)
  BY DEF SocksInOrder
<1>1. SocksResolve(b, tiers, n) = IF hits # {} THEN pick(tiers[first]) ELSE own
  BY DEF SocksResolve
<1>2. tiers[1] = plan.exact /\ tiers[2] = plan.imported /\ tiers[3] = last
  BY DEF SocksTiers
<1>3. n \in Domains \cup Names /\ DNSContains(Root, n)
  BY DomainLen
<1>4. /\ OneEach(plan.exact) /\ Doms(plan.exact) = Bound(b)
      /\ OneEach(plan.imported) /\ Doms(plan.imported) = Imported(b)
      /\ OneEach(plan.automatic) /\ Doms(plan.automatic) = Automatic(b)
  BY PlanTiers
<1>5. /\ \A e \in E : \/ e \in plan.exact
                      \/ e \in plan.imported /\ e.dom \notin Bound(b)
                      \/ e \in plan.automatic /\ e.dom \notin Bound(b) \cup Imported(b)
      /\ plan.exact \subseteq E
      /\ \A e \in plan.imported : e.dom \notin Bound(b) => e \in E
      /\ \A e \in plan.automatic : e.dom \notin Bound(b) \cup Imported(b) => e \in E
  BY <1>4 DEF PolicyEntries
<1>6. /\ \A e \in plan.exact : Holders(b, e.dom, 3) # {} /\ e.dom \in Bound(b)
      /\ \A e \in plan.imported : Holders(b, e.dom, 2) # {} /\ e.dom \in Imported(b)
      /\ \A e \in plan.automatic : Holders(b, e.dom, 1) # {} /\ e.dom \in Automatic(b)
  BY <1>4, HolderSets DEF Doms
<1>7. ASSUME NEW d, NEW r \in {1, 2, 3}, Holders(b, d, r) # {}, DNSContains(d, n), d \in Domains,
             NEW x, NEW s \in {1, 2, 3}, Holders(b, x, s) # {}, DNSContains(x, n), x \in Domains, r > s
      PROVE  ~(Len(d) < Len(x))
  <2>1. PICK p, q : p \in Holders(b, d, r) /\ q \in Holders(b, x, s)
    BY <1>7
  <2>2. ClaimOf(d, r, p) \in Claims(b, n) /\ ClaimOf(x, s, q) \in Claims(b, n)
    BY <1>7, <2>1, ClaimFacts
  <2>3. /\ ClaimOf(d, r, p).dom = d /\ ClaimOf(d, r, p).rank = r
        /\ ClaimOf(x, s, q).dom = x /\ ClaimOf(x, s, q).rank = s
    BY DEF ClaimOf
  <2>4. Len(d) >= Len(x)
    BY <1>7, <2>2, <2>3
  <2>q. QED  BY <1>7, <2>4, DomainLen
<1>8. \A T, e : e \in Covering(n, T) <=> e \in T /\ DNSContains(e.dom, n)
  BY DEF Covering
<1>9. \A e \in plan.exact \cup plan.imported \cup plan.automatic : e.dom \in Domains
  BY <1>4 DEF OneEach
<1>10. \A T : OneEach(T) /\ Covering(n, T) # {} /\ Covering(n, T) \subseteq E
              /\ (\A x \in Covering(n, T), e \in Covering(n, E) : e \in T \/ ~(Len(x.dom) < Len(e.dom)))
              => pick(T) = Chosen(b, n)
  BY TierChoice
<1>11. Root \notin Bound(b) \cup Imported(b) => last = plan.automatic
  BY ExitInAutomatic
<1>12. /\ Covering(n, plan.exact) = {} => \A d \in Bound(b) : ~DNSContains(d, n)
       /\ Covering(n, plan.imported) = {} => \A d \in Imported(b) : ~DNSContains(d, n)
       /\ Covering(n, plan.automatic) = {} => \A d \in Automatic(b) : ~DNSContains(d, n)
  <2>1. \A T : Covering(n, T) = {} => \A d \in Doms(T) : ~DNSContains(d, n)
    <3>1. \A T : \A e \in T : DNSContains(e.dom, n) => e \in Covering(n, T)
      BY <1>8
    <3>2. ASSUME NEW T, Covering(n, T) = {}, NEW d \in Doms(T) PROVE ~DNSContains(d, n)
      <4>1. PICK e \in T : d = e.dom
        BY DEF Doms
      <4>q. QED  BY <3>1, <3>2, <4>1
    <3>q. QED  BY <3>2
  <2>q. QED  BY <1>4, <2>1
<1> HIDE DEF E, last, tiers, pick, own, plan
<1>13. CASE Covering(n, plan.exact) # {}
  <2>1. hits # {} /\ first = 1
    <3>1. \A t : t \in hits => t \in 1 .. 3
      OBVIOUS
    <3>2. 1 \in hits
      BY <1>2, <1>13
    <3> HIDE DEF hits
    <3>q. QED  BY <3>1, <3>2
  <2>2. Covering(n, plan.exact) \subseteq E
    BY <1>5, <1>8
  <2>3. ASSUME NEW x \in Covering(n, plan.exact), NEW e \in Covering(n, E), e \notin plan.exact
        PROVE  ~(Len(x.dom) < Len(e.dom))
    <3>1. Holders(b, x.dom, 3) # {} /\ DNSContains(x.dom, n) /\ x.dom \in Domains
      BY <1>6, <1>8, <1>9
    <3>2. \/ Holders(b, e.dom, 2) # {} /\ DNSContains(e.dom, n) /\ e.dom \in Domains
          \/ Holders(b, e.dom, 1) # {} /\ DNSContains(e.dom, n) /\ e.dom \in Domains
      BY <1>5, <1>6, <1>8, <1>9, <2>3
    <3>q. QED  BY <1>7, <3>1, <3>2
  <2>4. pick(plan.exact) = Chosen(b, n)
    BY <1>4, <1>10, <1>13, <2>2, <2>3
  <2>q. QED  BY <1>1, <1>2, <2>1, <2>4
<1>14. CASE Covering(n, plan.exact) = {} /\ Covering(n, plan.imported) # {}
  <2>1. hits # {} /\ first = 2
    <3>1. \A t : t \in hits => t \in 1 .. 3 /\ t # 1
      BY <1>2, <1>14
    <3>2. 2 \in hits
      BY <1>2, <1>14
    <3> HIDE DEF hits
    <3>q. QED  BY <3>1, <3>2
  <2>2. Covering(n, plan.imported) \subseteq E
    BY <1>5, <1>8, <1>12, <1>14
  <2>3. ASSUME NEW x \in Covering(n, plan.imported), NEW e \in Covering(n, E), e \notin plan.imported
        PROVE  ~(Len(x.dom) < Len(e.dom))
    <3>1. Holders(b, x.dom, 2) # {} /\ DNSContains(x.dom, n) /\ x.dom \in Domains
      BY <1>6, <1>8, <1>9
    <3>2. Holders(b, e.dom, 1) # {} /\ DNSContains(e.dom, n) /\ e.dom \in Domains
      BY <1>5, <1>6, <1>8, <1>9, <1>14, <2>3
    <3>q. QED  BY <1>7, <3>1, <3>2
  <2>4. pick(plan.imported) = Chosen(b, n)
    BY <1>4, <1>10, <1>14, <2>2, <2>3
  <2>q. QED  BY <1>1, <1>2, <2>1, <2>4
<1>15. CASE Covering(n, plan.exact) = {} /\ Covering(n, plan.imported) = {}
  <2>0. last = plan.automatic
    BY <1>3, <1>11, <1>12, <1>15
  <2>1. CASE Covering(n, plan.automatic) # {}
    <3>1. hits # {} /\ first = 3
      <4>1. \A t : t \in hits => t \in 1 .. 3 /\ t # 1 /\ t # 2
        BY <1>2, <1>15
      <4>2. 3 \in hits
        BY <1>2, <2>0, <2>1
      <4> HIDE DEF hits
      <4>q. QED  BY <4>1, <4>2
    <3>2. Covering(n, plan.automatic) \subseteq E
      BY <1>5, <1>8, <1>12, <1>15
    <3>3. \A e \in Covering(n, E) : e \in plan.automatic
      BY <1>5, <1>8, <1>15
    <3>4. pick(plan.automatic) = Chosen(b, n)
      BY <1>4, <1>10, <2>1, <3>2, <3>3
    <3>q. QED  BY <1>1, <1>2, <2>0, <3>1, <3>4
  <2>2. CASE Covering(n, plan.automatic) = {}
    <3>1. hits = {}
      <4>1. \A t \in 1 .. 3 : t = 1 \/ t = 2 \/ t = 3
        OBVIOUS
      <4>q. QED  BY <1>2, <1>15, <2>0, <2>2, <4>1
    <3>2. \A p \in Running(b) : ~Own(p)
      BY <1>12, <2>2, SuffixIsAutomatic
    <3>3. own = {}
      BY <3>2 DEF own
    <3>4. Covering(n, E) = {}
      BY <1>5, <1>8, <1>15, <2>2
    <3>5. Claims(b, n) = {}
      BY <1>3, <3>4, ClaimedIsCovered DEF E, plan
    <3>6. Chosen(b, n) = {}
      BY <3>5 DEF Chosen, Winners
    <3>q. QED  BY <1>1, <3>1, <3>3, <3>6
  <2>q. QED  BY <2>1, <2>2
<1>q. QED  BY <1>13, <1>14, <1>15

----------------------------------------------------------------------------
(* DNSPolicy: names.                                                       *)

\* A search domain is configured for a chosen profile.
LEMMA SearchChosen ==
    ASSUME NEW b \in Bases, NEW d \in tunDNSLiveConfig(b).search
    PROVE  Chosen(b, d) # {}
<1>1. d \in b.policy.search /\ \E e \in Resolve(BuildDNS(b), d) : e.active
  BY DEF tunDNSLiveConfig
<1>2. d \in Domains \cup Names
  BY <1>1 DEF Bases, Policies
<1>3. PICK e : e.active /\ Agrees(b, d, e)
  BY <1>1, <1>2, ResolveFacts
<1>q. QED  BY <1>3 DEF Agrees

----------------------------------------------------------------------------
(* DNSPolicy: reconciliations, from the first start to the last retirement. *)

\* The forwarders on these ports run for the routes of the configuration.
Runs(ports, cfg) ==
    \A r \in Forwarded(cfg) : r.dom \in DOMAIN ports => live[ports[r.dom]] = [prof |-> r.prof, res |-> r.res]

KeptOn(ports) ==
    /\ Runs(ports, tunDNSLiveConfig(basis))
    /\ dnsForwarders = Values(ports)
    /\ half \/ installed = configForService(tunDNSLiveConfig(basis), ports)

\* The forwarders that are kept, and the resolver unless it failed half-way, are those
\* of one complete reconciliation.
Kept == \E ports \in [Doms(Forwarded(tunDNSLiveConfig(basis))) -> Ports] : KeptOn(ports)

\* The forwarders of the reconciliation under way: started apart from those that are
\* kept, and whichever it ends, never one of these.
Underway ==
    /\ nextForwarders \in [DOMAIN nextForwarders -> Ports]
    /\ DOMAIN nextForwarders \subseteq Doms(Forwarded(tunDNSLiveConfig(Current)))
    /\ Runs(nextForwarders, tunDNSLiveConfig(Current))
    /\ leaving = {}
    /\ DOMAIN live = dnsForwarders \cup Values(nextForwarders)
    /\ dnsForwarders \cap Values(nextForwarders) = {}

Ended ==
    /\ nextForwarders = NoPorts
    /\ DOMAIN live = dnsForwarders \cup leaving
    /\ dnsForwarders \cap leaving = {}

ForwardersInv ==
    /\ PolTypeOK
    /\ Kept
    /\ (at = "start" /\ Underway) \/ (at = "end" /\ Ended)

LEMMA ServesAsKept == ForwardersInv => ForwardersServe
<1> SUFFICES ASSUME ForwardersInv PROVE ForwardersServe
  OBVIOUS
<1> DEFINE cfg == tunDNSLiveConfig(basis)
<1>1. basis \in Bases
  BY DEF ForwardersInv, PolTypeOK, Bases
<1>2. PICK ports \in [Doms(Forwarded(cfg)) -> Ports] : KeptOn(ports)
  BY DEF ForwardersInv, Kept
<1>3. /\ \A r \in Forwarded(cfg) : live[ports[r.dom]] = [prof |-> r.prof, res |-> r.res]
      /\ dnsForwarders = Values(ports)
      /\ ~half => installed = configForService(cfg, ports)
  BY <1>2 DEF KeptOn, Runs, Doms
<1>4. /\ dnsForwarders \subseteq DOMAIN live
      /\ Unlocked => DOMAIN live = dnsForwarders
  BY DEF ForwardersInv, Underway, Ended, Unlocked
<1>5. ~half => dnsForwarders = (Values(installed.routes) \cup {installed.default}) \ {None}
  <2> HIDE DEF cfg
  <2>q. QED  BY <1>3, ConfiguredPorts
<1>6. ASSUME NEW k \in dnsForwarders
      PROVE  /\ live[k].prof \in Running(basis)
             /\ IF live[k].res = NoList THEN live[k].prof \in ExitProfile(basis)
                ELSE \E i \in DOMAIN basis.report[live[k].prof].routes :
                        basis.report[live[k].prof].routes[i].res = live[k].res
  <2>1. PICK d \in Doms(Forwarded(cfg)) : k = ports[d]
    BY <1>3 DEF Values
  <2>2. PICK r \in Forwarded(cfg) : r.dom = d
    BY DEF Doms
  <2>3. live[k] = [prof |-> r.prof, res |-> r.res]
    BY <1>3, <2>1, <2>2
  <2>4. Sound(basis, r) /\ (r.profileDNS \/ r.res # NoList)
    BY <1>1, ForwardedSound
  <2>5. live[k].prof = r.prof /\ live[k].res = r.res
    BY <2>3
  <2>q. QED  BY <2>4, <2>5 DEF Sound
<1>q. QED  BY <1>4, <1>5, <1>6 DEF ForwardersServe

\* A resolver that is configured as a whole answers as the policy says.
LEMMA ConfiguredFollows == ForwardersInv => NamesFollowPolicy
<1> SUFFICES ASSUME ForwardersInv PROVE NamesFollowPolicy
  OBVIOUS
<1>1. basis \in Bases
  BY DEF ForwardersInv, PolTypeOK, Bases
<1>2. \A n \in Names : SocksInOrder(basis, SocksTiers(basis), n)
  BY <1>1, SocksChoice
<1>3. ASSUME ~half
      PROVE  /\ \A d \in installed.search : Chosen(basis, d) # {}
             /\ \A n \in Names : \/ Answer(installed, n) = PolicyAnswer(basis, n)
                                 \/ BelowNode(basis, n) /\ Answer(installed, n) = Nobody
                                 \/ RootWaits(basis, n) /\ Answer(installed, n).of = {}
  <2> DEFINE cfg == tunDNSLiveConfig(basis)
  <2>1. PICK ports \in [Doms(Forwarded(cfg)) -> Ports] : KeptOn(ports)
    BY DEF ForwardersInv, Kept
  <2>2. installed = configForService(cfg, ports)
    BY <1>3, <2>1 DEF KeptOn
  <2>3. \A r \in Forwarded(cfg) : live[ports[r.dom]].prof = r.prof
    <3>1. \A r \in Forwarded(cfg) : live[ports[r.dom]] = [prof |-> r.prof, res |-> r.res]
      BY <2>1 DEF KeptOn, Runs, Doms
    <3>2. \A r : [prof |-> r.prof, res |-> r.res].prof = r.prof
      OBVIOUS
    <3> HIDE DEF cfg
    <3>q. QED  BY <3>1, <3>2, Zenon
  <2>4. installed.search = cfg.search
    BY <2>2 DEF configForService
  <2>5. \A d \in installed.search : Chosen(basis, d) # {}
    BY <1>1, <2>4, SearchChosen
  <2>6. \A n \in Names : \/ Answer(installed, n) = PolicyAnswer(basis, n)
                         \/ BelowNode(basis, n) /\ Answer(installed, n) = Nobody
                         \/ RootWaits(basis, n) /\ Answer(installed, n).of = {}
    BY <1>1, <2>2, <2>3, AnswerFollows
  <2>q. QED  BY <2>5, <2>6
<1>q. QED  BY <1>2, <1>3 DEF NamesFollowPolicy, Nobody

\* Before any profile runs nothing is configured, which is what there is to configure.
LEMMA NothingConfigured ==
    ASSUME Init
    PROVE  Kept
<1> DEFINE cfg == tunDNSLiveConfig(basis)
<1>1. /\ Running(basis) = {}
      /\ basis.policy.bind = NoPorts /\ basis.policy.search = {} /\ basis.policy.accept = {}
  BY DEF Init, Running, NoPorts
<1>2. Bound(basis) = {} /\ OfferedIn(ImportOffers(basis)) = {} /\ OfferedIn(AutomaticOffers(basis)) = {}
  BY <1>1 DEF Bound, OfferedIn, ImportOffers, AutomaticOffers, NoPorts
<1>3. basis \in Bases
  BY PolInitial DEF PolTypeOK, Bases
<1>4. Doms(PolicyEntries(BuildDNS(basis))) = {}
  BY <1>2, <1>3, PlanRoutes DEF Imported, Automatic
<1>5. Candidates(basis) = {}
  BY <1>1 DEF Candidates
<1>6. cfg.records = {} /\ cfg.routes = {} /\ cfg.search = {}
  <2>1. PolicyEntries(BuildDNS(basis)) = {}
    BY <1>4 DEF Doms
  <2>q. QED  BY <1>1, <1>5, <2>1 DEF tunDNSLiveConfig
<1> HIDE DEF cfg
<1>7. Forwarded(cfg) = {} /\ Doms(Forwarded(cfg)) = {} /\ Doms(cfg.routes) = {} /\ ExactRoutes(cfg) = {}
  BY <1>6 DEF Forwarded, Doms, ExactRoutes
<1>8. NoPorts \in [Doms(Forwarded(cfg)) -> Ports] /\ DOMAIN NoPorts = {}
  BY <1>7 DEF NoPorts
<1>9. configForService(cfg, NoPorts) = Empty
  <2>1. (Doms(cfg.routes) \cup ExactRoutes(cfg)) \ {Root} = {} /\ {c.name : c \in cfg.records} = {}
    BY <1>6, <1>7
  <2>q. QED  BY <1>6, <1>8, <2>1 DEF configForService, Empty
<1>10. dnsForwarders = Values(NoPorts)
  BY <1>8 DEF Init, Values
<1>11. KeptOn(NoPorts)
  BY <1>7, <1>9, <1>10 DEF Init, KeptOn, Runs, cfg
<1>q. QED  BY <1>8, <1>11 DEF Kept, cfg

LEMMA ForwardersInitially == Init => ForwardersInv
<1> SUFFICES ASSUME Init PROVE ForwardersInv
  OBVIOUS
<1>1. Ended
  BY DEF Init, Ended
<1>2. at = "end"
  BY DEF Init
<1>q. QED  BY <1>1, <1>2, PolInitial, NothingConfigured DEF ForwardersInv

\* What is kept stays kept while the forwarders on its ports run on.
LEMMA KeptStays ==
    ASSUME Kept, UNCHANGED <<basis, dnsForwarders>>, half' \/ UNCHANGED <<half, installed>>,
           \A k \in dnsForwarders : live'[k] = live[k]
    PROVE  Kept'
<1> DEFINE cfg == tunDNSLiveConfig(basis)
<1>1. PICK ports \in [Doms(Forwarded(cfg)) -> Ports] : KeptOn(ports)
  BY DEF Kept
<1>2. cfg' = cfg
  OBVIOUS
<1>3. \A d \in DOMAIN ports : ports[d] \in dnsForwarders
  BY <1>1 DEF KeptOn, Values
<1>4. Runs(ports, cfg) /\ dnsForwarders = Values(ports) /\ (half \/ installed = configForService(cfg, ports))
  BY <1>1 DEF KeptOn
<1> HIDE DEF cfg
<1>5. \A r \in Forwarded(cfg) : r.dom \in DOMAIN ports => live'[ports[r.dom]] = [prof |-> r.prof, res |-> r.res]
  BY <1>3, <1>4 DEF Runs
<1>6. dnsForwarders' = Values(ports) /\ (half' \/ installed' = configForService(cfg, ports))
  BY <1>4
<1>7. tunDNSLiveConfig(basis)' = cfg
  BY <1>2 DEF cfg
<1>8. KeptOn(ports)'
  BY <1>5, <1>6, <1>7 DEF KeptOn, Runs
<1>q. QED  BY <1>7, <1>8 DEF Kept

\* A handler begins: nothing runs but what is kept.
LEMMA BeginStep ==
    ASSUME ForwardersInv, Unlocked, at' = "start", UNCHANGED <<resolver, running>>
    PROVE  Kept' /\ at' = "start" /\ Underway'
<1>1. Kept /\ Ended /\ leaving = {}
  BY DEF ForwardersInv, Unlocked
<1>2. UNCHANGED <<installed, basis, half, live, dnsForwarders, nextForwarders, leaving>>
  BY DEF resolver, running
<1>3. Kept'
  BY <1>1, <1>2, KeptStays
<1>4. nextForwarders' = NoPorts /\ DOMAIN NoPorts = {} /\ NoPorts \in [{} -> Ports]
  BY <1>1, <1>2 DEF Ended, NoPorts
<1>5. Values(nextForwarders)' = {}
  BY <1>4 DEF Values
<1>6. leaving' = {} /\ DOMAIN live' = dnsForwarders'
  BY <1>1, <1>2 DEF Ended
<1>7. DOMAIN nextForwarders' = {}
  BY <1>4
<1>8. Runs(nextForwarders, tunDNSLiveConfig(Current))'
  BY <1>7 DEF Runs
<1>q. QED  BY <1>3, <1>4, <1>5, <1>6, <1>7, <1>8 DEF Underway

\* One more forwarder, on a port of its own.
LEMMA StartStep ==
    ASSUME ForwardersInv, at = "start", StartForwarder(tunDNSLiveConfig(Current))
    PROVE  Kept' /\ at' = "start" /\ Underway'
<1> DEFINE cfg == tunDNSLiveConfig(Current)
<1>0. Current \in Bases
  BY DEF ForwardersInv, PolTypeOK, Bases, Current
<1>1. Kept /\ Underway
  BY DEF ForwardersInv
<1>2. PICK r \in OneOf(ToStart(cfg)), k \in OneOf(Ports \ DOMAIN live) :
          /\ nextForwarders' = With(nextForwarders, [d \in {r.dom} |-> k])
          /\ live' = With(live, [x \in {k} |-> [prof |-> r.prof, res |-> r.res]])
  BY DEF StartForwarder
<1>3. \A S : OneOf(S) \subseteq S
  BY DEF OneOf
<1>4. r \in Forwarded(cfg) /\ r.dom \notin DOMAIN nextForwarders
  BY <1>2, <1>3 DEF ToStart
<1>5. k \in Ports /\ k \notin DOMAIN live
  BY <1>2, <1>3
<1>6. /\ UNCHANGED <<policy, report, installed, basis, half, dnsForwarders, leaving>> /\ at' = "start"
  BY DEF StartForwarder, resolver
<1>7. tunDNSLiveConfig(Current)' = cfg
  BY <1>6 DEF Current
<1> DEFINE w == [prof |-> r.prof, res |-> r.res]
<1> HIDE DEF cfg, w
<1>8. /\ DOMAIN live' = DOMAIN live \cup {k} /\ live'[k] = w
      /\ \A x \in DOMAIN live : live'[x] = live[x]
  BY <1>2, <1>5 DEF With, w
<1>9. /\ DOMAIN nextForwarders' = DOMAIN nextForwarders \cup {r.dom} /\ nextForwarders'[r.dom] = k
      /\ \A d \in DOMAIN nextForwarders : nextForwarders'[d] = nextForwarders[d]
      /\ nextForwarders' = [d \in DOMAIN nextForwarders' |-> nextForwarders'[d]]
  BY <1>2, <1>4 DEF With
<1>10. Kept'
  <2>1. dnsForwarders \subseteq DOMAIN live
    BY <1>1 DEF Underway
  <2>q. QED  BY <1>1, <1>6, <1>8, <2>1, KeptStays
<1>11. \A f, g \in Forwarded(cfg) : f.dom = g.dom => f = g
  <2>1. OneEach(PolicyEntries(BuildDNS(Current))) /\ Forwarded(cfg) \subseteq PolicyEntries(BuildDNS(Current))
    BY <1>0, PlanRoutes, RouteFacts DEF cfg
  <2>q. QED  BY <2>1 DEF OneEach
<1>12. /\ \A d \in DOMAIN nextForwarders : nextForwarders[d] \in Ports /\ nextForwarders[d] \in DOMAIN live
       /\ DOMAIN nextForwarders \subseteq Doms(Forwarded(cfg))
       /\ \A f \in Forwarded(cfg) : f.dom \in DOMAIN nextForwarders =>
             live[nextForwarders[f.dom]] = [prof |-> f.prof, res |-> f.res]
  BY <1>1 DEF Underway, Runs, Values, cfg
<1>13. nextForwarders' \in [DOMAIN nextForwarders' -> Ports]
  BY <1>5, <1>9, <1>12
<1>14. DOMAIN nextForwarders' \subseteq Doms(Forwarded(cfg))
  BY <1>4, <1>9, <1>12 DEF Doms
<1>15. \A f \in Forwarded(cfg) : f.dom \in DOMAIN nextForwarders' =>
           live'[nextForwarders'[f.dom]] = [prof |-> f.prof, res |-> f.res]
  <2> TAKE f \in Forwarded(cfg)
  <2>1. CASE f.dom = r.dom
    BY <1>4, <1>8, <1>9, <1>11, <2>1 DEF w
  <2>2. CASE f.dom \in DOMAIN nextForwarders
    BY <1>8, <1>9, <1>12, <2>2
  <2>q. QED  BY <1>9, <2>1, <2>2
<1>16. Values(nextForwarders)' = Values(nextForwarders) \cup {k}
  BY <1>4, <1>9 DEF Values
<1>17. /\ DOMAIN live' = dnsForwarders' \cup Values(nextForwarders)'
       /\ dnsForwarders' \cap Values(nextForwarders)' = {}
       /\ leaving' = {}
  <2>1. /\ leaving = {} /\ DOMAIN live = dnsForwarders \cup Values(nextForwarders)
        /\ dnsForwarders \cap Values(nextForwarders) = {}
    BY <1>1 DEF Underway
  <2>q. QED  BY <1>5, <1>6, <1>8, <1>16, <2>1
<1>q. QED  BY <1>6, <1>7, <1>10, <1>13, <1>14, <1>15, <1>17 DEF Underway, Runs

\* An error return keeps what was kept and ends what was started.
LEMMA FailStep ==
    ASSUME ForwardersInv, at = "start", closeForwarders, UNCHANGED <<basis, live, dnsForwarders>>,
           half' \/ UNCHANGED <<half, installed>>
    PROVE  Kept' /\ at' = "end" /\ Ended'
<1>1. Kept /\ Underway
  BY DEF ForwardersInv
<1>2. Kept'
  BY <1>1, KeptStays
<1>q. QED  BY <1>1, <1>2 DEF Underway, Ended, closeForwarders

\* The new forwarders take over from the old ones, which are to end.
LEMMA ConfigureStep ==
    ASSUME ForwardersInv, at = "start", Configure(tunDNSLiveConfig(Current))
    PROVE  Kept' /\ at' = "end" /\ Ended'
<1> DEFINE cfg == tunDNSLiveConfig(Current)
<1>1. Underway
  BY DEF ForwardersInv
<1>2. /\ ToStart(cfg) = {} /\ installed' = configForService(cfg, nextForwarders) /\ basis' = Current
      /\ dnsForwarders' = Values(nextForwarders) /\ leaving' = dnsForwarders
      /\ nextForwarders' = NoPorts /\ at' = "end" /\ live' = live
  BY DEF Configure
<1>3. /\ nextForwarders \in [DOMAIN nextForwarders -> Ports]
      /\ DOMAIN nextForwarders \subseteq Doms(Forwarded(cfg))
      /\ Runs(nextForwarders, cfg)
  BY <1>1 DEF Underway
<1>4. tunDNSLiveConfig(basis)' = cfg
  BY <1>2
<1> HIDE DEF cfg
<1>5. DOMAIN nextForwarders = Doms(Forwarded(cfg))
  BY <1>2, <1>3 DEF ToStart, Doms
<1>6. nextForwarders \in [Doms(Forwarded(cfg)) -> Ports]
  BY <1>3, <1>5
<1> DEFINE ports == nextForwarders
<1>7. \A r \in Forwarded(cfg) : r.dom \in DOMAIN ports => live'[ports[r.dom]] = [prof |-> r.prof, res |-> r.res]
  BY <1>2, <1>3 DEF Runs
<1>8. \E f \in [Doms(Forwarded(cfg)) -> Ports] :
         /\ \A r \in Forwarded(cfg) : r.dom \in DOMAIN f => live'[f[r.dom]] = [prof |-> r.prof, res |-> r.res]
         /\ dnsForwarders' = Values(f)
         /\ installed' = configForService(cfg, f)
  BY <1>2, <1>6, <1>7
<1>9. Kept'
  BY <1>4, <1>8 DEF Kept, KeptOn, Runs
<1>q. QED  BY <1>1, <1>2, <1>9 DEF Underway, Ended

\* Every step keeps the forwarders of the latest complete reconciliation.
LEMMA ForwardersStep == ForwardersInv /\ [Next]_vars => ForwardersInv'
<1> SUFFICES ASSUME ForwardersInv, [Next]_vars
             PROVE  Kept' /\ ((at' = "start" /\ Underway') \/ (at' = "end" /\ Ended'))
  BY PolStep DEF ForwardersInv
<1>1. CASE configureDNSLocked
  <2>1. /\ at = "start"
        /\ \/ StartForwarder(tunDNSLiveConfig(Current)) \/ StartFails(tunDNSLiveConfig(Current))
           \/ Configure(tunDNSLiveConfig(Current)) \/ ConfigureFails(tunDNSLiveConfig(Current))
    BY <1>1 DEF configureDNSLocked
  <2>2. CASE StartForwarder(tunDNSLiveConfig(Current))
    BY <2>1, <2>2, StartStep, Zenon
  <2>3. CASE StartFails(tunDNSLiveConfig(Current))
    BY <2>1, <2>3, FailStep DEF StartFails, resolver
  <2>4. CASE Configure(tunDNSLiveConfig(Current))
    BY <2>1, <2>4, ConfigureStep, Zenon
  <2>5. CASE ConfigureFails(tunDNSLiveConfig(Current))
    BY <2>1, <2>5, FailStep DEF ConfigureFails
  <2>q. QED  BY <2>1, <2>2, <2>3, <2>4, <2>5
<1>2. CASE EndForwarder
  <2>1. Kept /\ Ended
    BY <1>2 DEF ForwardersInv, EndForwarder
  <2>2. PICK k \in leaving : live' = Without(live, {k}) /\ leaving' = leaving \ {k}
    BY <1>2 DEF EndForwarder, OneOf
  <2>3. UNCHANGED <<installed, basis, half, dnsForwarders, nextForwarders>> /\ at' = "end"
    BY <1>2 DEF EndForwarder, resolver
  <2>4. DOMAIN live' = DOMAIN live \ {k} /\ \A x \in DOMAIN live \ {k} : live'[x] = live[x]
    BY <2>2 DEF Without
  <2>5. \A x \in dnsForwarders : x \in DOMAIN live \ {k}
    BY <2>1, <2>2 DEF Ended
  <2>6. Kept'
    BY <2>1, <2>3, <2>4, <2>5, KeptStays
  <2>7. Ended'
    BY <2>1, <2>2, <2>3, <2>4, <2>5 DEF Ended
  <2>q. QED  BY <2>3, <2>6, <2>7
<1>3. CASE UNCHANGED vars
  <2>1. UNCHANGED <<installed, basis, half, live, dnsForwarders, nextForwarders, leaving, at, policy, report>>
    BY <1>3 DEF vars, resolver, running
  <2>2. Kept'
    BY <2>1, KeptStays DEF ForwardersInv
  <2>3. Underway => Underway'
    BY <2>1 DEF Underway, Runs, Values, Current
  <2>4. Ended => Ended'
    BY <2>1 DEF Ended
  <2>q. QED  BY <2>1, <2>2, <2>3, <2>4 DEF ForwardersInv
<1>4. CASE Unlocked /\ at' = "start" /\ UNCHANGED <<resolver, running>>
  BY <1>4, BeginStep, Zenon
<1>q. QED
  BY <1>1, <1>2, <1>3, <1>4 DEF Next, Observe, PatchDNSRoutes, ReplaceDNSRoutes, ClearDNSRoutes, ReplaceSearchDomains,
     PatchSearchDomains, ClearSearchDomains, SelectExit, Commit

\* From the first start of a reconciliation to its last retirement, and however starts
\* and configurations fail, the forwarders that are kept run and are those whose ports
\* the resolver was given, each for a profile that ran when it was configured, with the
\* resolvers that profile reported or, for the exit node, its own DNS; between
\* reconciliations no other runs (configureDNSLocked in cmd/tailmixd/supervisor.go,
\* BuildDNS in routingpolicy/policy.go).
THEOREM ForwardersFollowPlan == Spec => []ForwardersServe
  BY ForwardersInitially, ForwardersStep, ServesAsKept, PTL DEF Spec

\* However statuses, bindings, imports and search lists change and reconciliations fail,
\* every name is answered as the policy says it is to be, or by no profile where only a
\* root without resolvers claims it: the records, routes and forwarders that are computed
\* apart agree on the one profile of the longest suffix and the highest tier, search
\* domains have a profile, and the SOCKS mode chooses alike where its order of tiers
\* allows (Resolve in routingpolicy/policy.go, tunDNSLiveConfig in cmd/tailmixd/main.go,
\* configForService in dns/service.go, socksproxy/router.go).
THEOREM NamesAreAnswered == Spec => []NamesFollowPolicy
  BY ForwardersInitially, ForwardersStep, ConfiguredFollows, PTL DEF Spec
=============================================================================
