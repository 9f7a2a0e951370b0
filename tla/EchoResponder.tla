---------------------------- MODULE EchoResponder ----------------------------
(***************************************************************************)
(* The TR-143 UDPEcho and UDPEchoPlus responder of internal/tr143/echo.go: *)
(* one goroutine that reads from one UDP socket whose receive queue the    *)
(* kernel bounds.  A request p is [allowed, plus]: whether cfg.Allow takes *)
(* its source address, and whether it is long enough to be an UDPEchoPlus. *)
(***************************************************************************)
EXTENDS Integers, Sequences

CONSTANTS Packets,           \* the kinds of requests that may arrive
          QueueLen,          \* what the socket's receive queue holds
          Word,              \* 2^width of the counters, 2^32 in the code
          HaveKernTS,        \* SO_TIMESTAMPNS and SO_RXQ_OVFL are available
          MaxArrivals        \* bound: requests that reach the socket

VARIABLES epc, pkt,                      \* Serve's loop
          received, responses, failures, lastDrops,   \* EchoServer
          queue, drops, closed,         \* the socket
          replies,                      \* what was sent: the fields of each reply
          arrived, refused              \* ghosts: valid requests that reached the
                                        \* socket; the others

server == <<received, responses, failures, lastDrops>>
echoVars == <<epc, pkt, server, queue, drops, closed, replies, arrived, refused>>

PacketType == [allowed : BOOLEAN, plus : BOOLEAN]
QueuedType == [p : PacketType, drops : Nat]

ASSUME EchoAssumption ==
    /\ Packets \subseteq PacketType /\ QueueLen \in Nat /\ MaxArrivals \in Nat
    /\ Word \in Nat \ {0} /\ HaveKernTS \in BOOLEAN

NoPacket == [allowed |-> FALSE, plus |-> FALSE]
Valid(p) == p.allowed /\ p.plus

EchoInit ==
    /\ epc = "read" /\ pkt = NoPacket
    /\ received = 0 /\ responses = 0 /\ failures = 0 /\ lastDrops = 0
    /\ queue = <<>> /\ drops = 0 /\ closed = FALSE
    /\ replies = <<>> /\ arrived = 0 /\ refused = 0

\* The kernel queues a request with the number of those it has dropped so
\* far, or drops it.
Arrive(p) ==
    /\ arrived + refused < MaxArrivals /\ ~closed
    /\ arrived' = arrived + (IF Valid(p) THEN 1 ELSE 0)
    /\ refused' = refused + (IF Valid(p) THEN 0 ELSE 1)
    /\ IF Len(queue) < QueueLen
       THEN queue' = Append(queue, [p |-> p, drops |-> drops]) /\ UNCHANGED drops
       ELSE drops' = (drops + 1) % Word /\ UNCHANGED queue
    /\ UNCHANGED <<epc, pkt, server, closed, replies>>

\* Kernel drops since the last request; none when the counter went back.
DropsSince(d) == IF d > lastDrops THEN d - lastDrops ELSE 0

FailuresAfter(d) == (failures + DropsSince(d)) % Word

\* One pass of Serve up to respond: the socket's drop counter, then cfg.Allow.
Receive ==
    /\ epc = "read" /\ ~closed /\ queue # <<>>
    /\ LET q == Head(queue) IN
       /\ queue' = Tail(queue) /\ pkt' = q.p
       /\ failures' = IF HaveKernTS THEN FailuresAfter(q.drops) ELSE failures
       /\ lastDrops' = IF HaveKernTS THEN q.drops ELSE lastDrops
       /\ received' = IF q.p.allowed THEN received + 1 ELSE received
       /\ epc' = IF q.p.allowed THEN "respond" ELSE "read"
    /\ UNCHANGED <<responses, drops, closed, replies, arrived, refused>>

\* Fault: the sequence number is that of the request, whose reply may fail.
NextSN_OnReceive == received % Word

\* sn in respond
NextSN == (responses + 1) % Word

\* The reply goes out; only an UDPEchoPlus one carries and counts a number.
Respond ==
    /\ epc = "respond" /\ ~closed
    /\ IF pkt.plus
       THEN /\ replies' = Append(replies, [sn |-> NextSN, failures |-> failures])
            /\ responses' = (responses + 1) % Word
       ELSE UNCHANGED <<replies, responses>>
    /\ epc' = "read"
    /\ UNCHANGED <<pkt, received, failures, lastDrops, queue, drops, closed,
                   arrived, refused>>

\* Fault: a reply that could not be sent is not counted.
RespondFails_Silent ==
    /\ epc = "respond" /\ epc' = "read"
    /\ UNCHANGED <<pkt, server, queue, drops, closed, replies, arrived, refused>>

\* WriteToUDPAddrPort returns an error: always once the socket is closed.
RespondFails ==
    /\ epc = "respond" /\ failures' = (failures + 1) % Word /\ epc' = "read"
    /\ UNCHANGED <<pkt, received, responses, lastDrops, queue, drops, closed,
                   replies, arrived, refused>>

\* The daemon shuts down: the socket is closed under the loop.
CloseConn ==
    /\ ~closed /\ closed' = TRUE
    /\ UNCHANGED <<epc, pkt, server, queue, drops, replies, arrived, refused>>

\* The read fails, as it always does once the socket is closed: Serve ends.
Return ==
    /\ epc = "read" /\ epc' = "returned"
    /\ UNCHANGED <<pkt, server, queue, drops, closed, replies, arrived, refused>>

EchoNext ==
    \/ \E p \in Packets : Arrive(p)
    \/ Receive \/ Respond \/ RespondFails \/ CloseConn \/ Return

EchoSpec == EchoInit /\ [][EchoNext]_echoVars

-----------------------------------------------------------------------------
(* Properties                                                              *)

\* TestRespSN numbers the replies that were really sent 1, 2, 3 and so on:
\* failed sends, plain echoes and refused peers in between leave no gap, so a
\* gap the client sees is a reply lost on the way back.
RepliesAreNumbered ==
    \A i \in 1..Len(replies) : replies[i].sn = i % Word

InHand == IF epc = "respond" THEN 1 ELSE 0

\* With kernel accounting and none but valid requests, every request that
\* reached the socket is answered, counted as a failure, still being handled,
\* or a drop the next queued request will report: server overload can be told
\* from network loss.
EveryRequestAccounted ==
    HaveKernTS /\ refused = 0 /\ arrived < Word =>
        arrived = responses + failures + InHand + Len(queue) + (drops - lastDrops)
==============================================================================
