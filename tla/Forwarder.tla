------------------------------ MODULE Forwarder ------------------------------
(***************************************************************************)
(* src/dns/forwarder.go: a loopback DNS endpoint whose queries go through  *)
(* one profile.  Goroutines: the UDP loop, the TCP loop, one per UDP query *)
(* and one per TCP connection, all counted by wg, and the calls of a       *)
(* legacy queryer, which cannot be cancelled and are counted by querySlots *)
(* alone.  Retire, Close and the parent context end the forwarder at any   *)
(* moment.  Every section under mu is one step.                            *)
(*                                                                         *)
(* job says where the goroutine of a query or a connection is:             *)
(*   away, sent        not read yet: not sent, in the socket               *)
(*   check, reading    a connection, before and in the read of a query     *)
(*   asking, calling   in exchange; in a call of the legacy queryer        *)
(*   reply             has a response to write                             *)
(*   answered, lost    a UDP query whose response was written or was not   *)
(*   ended             dropped unread, not parsable, or connection closed  *)
(***************************************************************************)
EXTENDS Naturals, FiniteSets

CONSTANTS Queries,      \* UDP queries, one datagram each
          Conns,        \* TCP connections, any number of queries each
          Resolvers,    \* the number of resolvers of the route
          Slots,        \* capacity of querySlots
          Attempts      \* forwarderListenAttempts

ASSUME ForwarderAssumption ==
    /\ Queries \cap Conns = {}
    /\ {"read", "end"} \cap (Queries \cup Conns) = {}
    /\ IsFiniteSet(Queries) /\ IsFiniteSet(Conns)
    /\ Resolvers \in Nat \ {0}
    /\ Slots \in Nat \ {0}
    /\ Attempts \in Nat \ {0}

VARIABLES
    kind,        \* "resolvers", or "legacy" for a queryer without contexts
    phase,       \* "listening", "failed" or "serving"
    attempt,     \* listen attempts left
    sockets,     \* open sockets
    parent,      \* the startup context is cancelled
    retired, stopped, done,
    writeExpired,   \* the write deadline that Retire gives the UDP socket has passed
    forced,      \* history: stop was called from outside
    udpLoop, tcpLoop,   \* "read", "end", or the client just read and not yet admitted
    job,
    try,         \* the resolver a job asks
    deadline,    \* a connection's read deadline has passed
    slots,       \* tokens in querySlots
    calls        \* legacy calls that have not returned

served == <<udpLoop, tcpLoop, job, try, deadline, slots, calls>>
ending == <<parent, retired, stopped, done, forced, writeExpired>>
fwdVars == <<kind, phase, attempt, sockets, ending, served>>

Clients == Queries \cup Conns

----------------------------------------------------------------------------
(* startForwarder and listenForwarder.                                     *)

FailToListen ==
    /\ phase' = "failed"
    /\ sockets' = {}
    /\ UNCHANGED <<kind, attempt, ending, served>>

\* The context is cancelled, or no UDP socket.
ListenUDP ==
    /\ phase = "listening"
    /\ "udp" \notin sockets
    /\ \/ FailToListen
       \/ /\ ~parent
          /\ attempt > 0
          /\ sockets' = {"udp"}
          /\ UNCHANGED <<kind, phase, attempt, ending, served>>

\* The TCP port of the same number: free, in use (try another), or an error.
ListenTCP ==
    /\ phase = "listening"
    /\ "udp" \in sockets
    /\ \/ FailToListen
       \/ /\ phase' = "serving"
          /\ sockets' = {"udp", "tcp"}
          /\ udpLoop' = "read"
          /\ tcpLoop' = "read"
          /\ UNCHANGED <<kind, attempt, ending, job, try, deadline, slots, calls>>
       \/ /\ attempt' = attempt - 1
          /\ sockets' = {}
          /\ UNCHANGED <<kind, phase, ending, served>>

----------------------------------------------------------------------------
(* Clients (external).                                                     *)

Send(c) ==
    /\ phase = "serving"
    /\ job[c] = "away"
    /\ (IF c \in Queries THEN "udp" ELSE "tcp") \in sockets
    /\ job' = [job EXCEPT ![c] = "sent"]
    /\ UNCHANGED <<kind, phase, attempt, sockets, ending, udpLoop, tcpLoop, try, deadline, slots, calls>>

----------------------------------------------------------------------------
(* serveUDP and serveTCP.                                                  *)

\* A read fails when the socket is closed or, of UDP, its deadline has passed.
UDPRead ==
    /\ udpLoop = "read"
    /\ \/ /\ "udp" \in sockets /\ ~retired
          /\ \E c \in Queries : job[c] = "sent" /\ udpLoop' = c
       \/ /\ retired
          /\ udpLoop' = "end"
    /\ UNCHANGED <<kind, phase, attempt, sockets, ending, tcpLoop, job, try, deadline, slots, calls>>

UDPAdmit ==
    /\ udpLoop \in Queries
    /\ IF retired
          THEN udpLoop' = "end" /\ job' = [job EXCEPT ![udpLoop] = "ended"]
          ELSE udpLoop' = "read" /\ job' = [job EXCEPT ![udpLoop] = "asking"]
    /\ UNCHANGED <<kind, phase, attempt, sockets, ending, tcpLoop, try, deadline, slots, calls>>

TCPAccept ==
    /\ tcpLoop = "read"
    /\ \/ /\ "tcp" \in sockets
          /\ \E c \in Conns : job[c] = "sent" /\ tcpLoop' = c
       \/ /\ "tcp" \notin sockets
          /\ tcpLoop' = "end"
    /\ UNCHANGED <<kind, phase, attempt, sockets, ending, udpLoop, job, try, deadline, slots, calls>>

TCPAdmit ==
    /\ tcpLoop \in Conns
    /\ IF retired
          THEN tcpLoop' = "end" /\ job' = [job EXCEPT ![tcpLoop] = "ended"]
          ELSE tcpLoop' = "read" /\ job' = [job EXCEPT ![tcpLoop] = "check"]
    /\ UNCHANGED <<kind, phase, attempt, sockets, ending, udpLoop, try, deadline, slots, calls>>

Becomes(c, where) ==
    /\ job' = [job EXCEPT ![c] = where]
    /\ UNCHANGED <<kind, phase, attempt, sockets, ending, udpLoop, tcpLoop>>

\* The head of a connection's loop: retired, or a new read deadline.
ConnCheck(c) ==
    /\ job[c] = "check"
    /\ Becomes(c, IF retired THEN "ended" ELSE "reading")
    /\ deadline' = IF retired THEN deadline ELSE [deadline EXCEPT ![c] = FALSE]
    /\ UNCHANGED <<try, slots, calls>>

\* A query arrives on a connection; one that cannot be parsed ends it.
ConnRead(c) ==
    /\ job[c] = "reading"
    /\ ~deadline[c] /\ ~stopped
    /\ Becomes(c, "asking")
    /\ UNCHANGED <<try, deadline, slots, calls>>

\* The read deadline passes, the client hangs up or the connection is closed.
ConnEnd(c) ==
    /\ job[c] = "reading"
    /\ Becomes(c, "ended")
    /\ UNCHANGED <<try, deadline, slots, calls>>

----------------------------------------------------------------------------
(* answer, exchange, exchangeProfileDNS.                                   *)

\* parseQuery fails: no response at all.
Malformed(c) ==
    /\ job[c] = "asking" /\ try[c] = 1
    /\ Becomes(c, "ended")
    /\ UNCHANGED <<try, deadline, slots, calls>>

\* A resolver answers with a response that validates.
Answered(c) ==
    /\ kind = "resolvers"
    /\ job[c] = "asking"
    /\ Becomes(c, "reply")
    /\ try' = [try EXCEPT ![c] = 1]
    /\ UNCHANGED <<deadline, slots, calls>>

\* It does not: the next resolver, and after the last a failure response.
NextResolver(c) ==
    /\ kind = "resolvers"
    /\ job[c] = "asking"
    /\ Becomes(c, IF try[c] < Resolvers THEN "asking" ELSE "reply")
    /\ try' = [try EXCEPT ![c] = IF @ < Resolvers THEN @ + 1 ELSE 1]
    /\ UNCHANGED <<deadline, slots, calls>>

\* A legacy call needs a slot.
Call(c) ==
    /\ kind = "legacy"
    /\ job[c] = "asking"
    /\ slots < Slots
    /\ slots' = slots + 1
    /\ calls' = calls + 1
    /\ Becomes(c, "calling")
    /\ UNCHANGED <<try, deadline>>

\* It returns to the job that waits for it, and gives the slot back.
Return(c) ==
    /\ job[c] = "calling"
    /\ slots' = slots - 1
    /\ calls' = calls - 1
    /\ Becomes(c, "reply")
    /\ UNCHANGED <<try, deadline>>

\* A call nobody waits for returns (external: it may never do).
ReturnLate ==
    /\ calls > Cardinality({c \in Clients : job[c] = "calling"})
    /\ slots' = slots - 1
    /\ calls' = calls - 1
    /\ UNCHANGED <<kind, phase, attempt, sockets, ending, udpLoop, tcpLoop, job, try, deadline>>

\* Mutant: a job that stops waiting gives the slot back.
TimeoutFreesSlot(c) ==
    /\ job[c] \in {"asking", "calling"}
    /\ Becomes(c, "reply")
    /\ slots' = IF job[c] = "calling" THEN slots - 1 ELSE slots
    /\ try' = [try EXCEPT ![c] = 1]
    /\ UNCHANGED <<deadline, calls>>

\* requestTimeout, or stop cancels the context: a failure response; the slot of a
\* call stays taken until the call returns.
Timeout(c) ==
    /\ job[c] \in {"asking", "calling"}
    /\ Becomes(c, "reply")
    /\ try' = [try EXCEPT ![c] = 1]
    /\ UNCHANGED <<deadline, slots, calls>>

\* The response is written, or the write fails: on a closed socket, past its deadline,
\* or because the client of a connection does not read.
Reply(c) ==
    /\ job[c] = "reply"
    /\ Becomes(c, IF c \in Conns THEN "check"
                  ELSE IF "udp" \in sockets /\ ~writeExpired THEN "answered" ELSE "lost")
    /\ UNCHANGED <<try, deadline, slots, calls>>

ReplyFails(c) ==
    /\ c \in Conns
    /\ job[c] = "reply"
    /\ Becomes(c, "ended")
    /\ UNCHANGED <<try, deadline, slots, calls>>

----------------------------------------------------------------------------
(* Retire, stop, Close, the parent context, and the goroutine that waits.  *)

\* f.conns: the connections whose goroutine has not ended.
Open == {c \in Conns : job[c] \in {"check", "reading", "asking", "calling", "reply"}}

\* Mutant: Retire closes the UDP socket as stop does.
RetireCloses ==
    /\ phase = "serving" /\ ~retired
    /\ retired' = TRUE
    /\ sockets' = {}
    /\ deadline' = [c \in Conns |-> deadline[c] \/ c \in Open]
    /\ UNCHANGED <<kind, phase, attempt, parent, stopped, done, forced, writeExpired, udpLoop, tcpLoop, job, try, slots, calls>>

Retire ==
    /\ phase = "serving" /\ ~retired
    /\ retired' = TRUE
    /\ sockets' = sockets \ {"tcp"}
    /\ deadline' = [c \in Conns |-> deadline[c] \/ c \in Open]
    /\ UNCHANGED <<kind, phase, attempt, parent, stopped, done, forced, writeExpired, udpLoop, tcpLoop, job, try, slots, calls>>

stop ==
    /\ stopped' = TRUE
    /\ retired' = TRUE
    /\ sockets' = {}
    /\ deadline' = [c \in Conns |-> deadline[c] \/ c \in Open]
    /\ UNCHANGED <<kind, phase, attempt, parent, writeExpired, udpLoop, tcpLoop, job, try, slots, calls>>

\* Close, or the startup context's AfterFunc; Close then waits for done.
Close ==
    /\ phase = "serving" /\ ~stopped
    /\ stop
    /\ forced' = TRUE
    /\ UNCHANGED done

CancelParent ==
    /\ ~parent
    /\ parent' = TRUE
    /\ UNCHANGED <<kind, phase, attempt, sockets, retired, stopped, done, forced, writeExpired, served>>

StopWithParent ==
    /\ phase = "serving" /\ parent /\ ~stopped
    /\ stop
    /\ forced' = TRUE
    /\ UNCHANGED done

\* wg counts the two loops and the goroutines of queries and connections.
Working ==
    {c \in Clients : job[c] \in {"check", "reading", "asking", "calling", "reply"}}

\* Time passes: requestTimeout and 100 ms after Retire, by when every query that began
\* to be answered before it has met its own timeout.  A step of its own only when a
\* query has not been answered yet.
WriteDeadline ==
    /\ retired /\ ~stopped /\ ~writeExpired
    /\ Working \cap Queries # {}
    /\ writeExpired' = TRUE
    /\ UNCHANGED <<kind, phase, attempt, sockets, parent, retired, stopped, done, forced, served>>

Finish ==
    /\ phase = "serving" /\ ~done
    /\ udpLoop = "end" /\ tcpLoop = "end" /\ Working = {}
    /\ stop
    /\ done' = TRUE
    /\ UNCHANGED forced

----------------------------------------------------------------------------
FwdInit ==
    /\ kind \in {"resolvers", "legacy"}
    /\ phase = "listening"
    /\ attempt = Attempts
    /\ sockets = {}
    /\ parent = FALSE /\ retired = FALSE /\ stopped = FALSE /\ done = FALSE /\ forced = FALSE
    /\ writeExpired = FALSE
    /\ udpLoop = "end" /\ tcpLoop = "end"
    /\ job = [c \in Clients |-> "away"]
    /\ try = [c \in Clients |-> 1]
    /\ deadline = [c \in Conns |-> FALSE]
    /\ slots = 0
    /\ calls = 0

\* The steps that the forwarder takes by itself: its goroutines run, and a timer
\* that is set fires.
JobStep(c) ==
    \/ Malformed(c) \/ Answered(c) \/ NextResolver(c) \/ Call(c) \/ Return(c)
    \/ Timeout(c) \/ Reply(c) \/ ReplyFails(c)

ConnStep(c) == ConnCheck(c) \/ ConnRead(c) \/ ConnEnd(c)

FwdNext ==
    \/ ListenUDP \/ ListenTCP
    \/ UDPRead \/ UDPAdmit \/ TCPAccept \/ TCPAdmit
    \/ \E c \in Clients : Send(c) \/ JobStep(c)
    \/ \E c \in Conns : ConnStep(c)
    \/ ReturnLate
    \/ Retire \/ Close \/ CancelParent \/ StopWithParent \/ WriteDeadline \/ Finish

\* The scheduler runs every goroutine, every read ends when its deadline passes,
\* and a request ends at the latest with its timeout.  Nothing is assumed of the
\* clients, of the resolvers, of a legacy call, or of Retire and Close.
FwdFairness ==
    /\ WF_fwdVars(UDPRead /\ retired) /\ WF_fwdVars(UDPAdmit)
    /\ WF_fwdVars(TCPAccept /\ retired) /\ WF_fwdVars(TCPAdmit)
    /\ \A c \in Clients : WF_fwdVars(Timeout(c)) /\ WF_fwdVars(Reply(c))
    /\ \A c \in Conns : WF_fwdVars(ConnCheck(c)) /\ WF_fwdVars(ConnEnd(c) /\ deadline[c])
    /\ WF_fwdVars(StopWithParent)
    /\ WF_fwdVars(Finish)

FwdSpec == FwdInit /\ [][FwdNext]_fwdVars /\ FwdFairness

----------------------------------------------------------------------------
(* Properties.                                                             *)

\* Once wg is at zero nothing of the forwarder is left: no goroutine that could
\* still write, no socket; and a query that was admitted was answered, unless
\* Close or the parent context forced the end, or the answer came later than the
\* write deadline that Retire sets.  Retire by itself loses no answer.
DoneMeansAnswered ==
    /\ done \/ phase = "failed" => sockets = {} /\ Working = {} /\ udpLoop = "end" /\ tcpLoop = "end"
    /\ \A c \in Queries : job[c] = "lost" => forced \/ writeExpired

\* Abandoned legacy calls never exceed the slots, however often requests time out.
CallsBounded == calls <= Slots

\* A retired forwarder ends, whatever its clients and resolvers do.
RetiredEnds == retired ~> done
=============================================================================
