---------------------------- MODULE Tr143Proofs -----------------------------
(* Proofs about the two services of TR-143: the UDP echo responder and the  *)
(* HTTP transfers, for every value of their constants.                      *)
EXTENDS EchoResponder, HttpTransfers, FiniteSetTheorems, TLAPS

-----------------------------------------------------------------------------
(* The echo responder                                                      *)

\* A number below the modulus is its own remainder.
LEMMA Remainder ==
    ASSUME NEW m \in Nat \ {0}, NEW q \in Nat, NEW r \in 0..m - 1
    PROVE  (m * q + r) % m = r
OBVIOUS

\* Counting modulo m: the successor of the remainder is the remainder of the
\* successor.
LEMMA CountModulo ==
    ASSUME NEW m \in Nat \ {0}, NEW a \in Nat
    PROVE  ((a % m) + 1) % m = (a + 1) % m
<1> DEFINE q == a \div m
           r == a % m
<1>1. a = m * q + r /\ q \in Nat /\ r \in 0..m - 1
  OBVIOUS
<1> HIDE DEF q, r
<1>2. CASE r + 1 < m
  <2>1. (m * q + (r + 1)) % m = r + 1 /\ (m * 0 + (r + 1)) % m = r + 1
    BY <1>1, <1>2, Remainder
  <2> QED
    BY <1>1, <1>2, <2>1 DEF r
<1>3. CASE r + 1 = m
  <2>1. (m * (q + 1) + 0) % m = 0 /\ (m * 1 + 0) % m = 0
    BY <1>1, Remainder
  <2>2. a + 1 = m * (q + 1) + 0 /\ r + 1 = m * 1 + 0
    BY <1>1, <1>3
  <2> QED
    BY <2>1, <2>2, Zenon DEF r
<1> QED
  BY <1>1, <1>2, <1>3

-----------------------------------------------------------------------------
(* The values of the loop, the socket and the ghosts.                      *)

EchoTypeOK ==
    /\ epc \in {"read", "respond", "returned"} /\ pkt \in PacketType
    /\ received \in Nat /\ responses \in Nat /\ failures \in Nat /\ lastDrops \in Nat
    /\ queue \in Seq(QueuedType) /\ drops \in Nat
    /\ replies \in Seq([sn : Nat, failures : Nat])
    /\ arrived \in Nat /\ refused \in Nat

\* responses is the number of the last reply.
NumberInv == responses = Len(replies) % Word /\ RepliesAreNumbered

\* NewEchoServer: typed, and no reply sent.
LEMMA InitTypeNumber == EchoInit => EchoTypeOK /\ NumberInv
<1> SUFFICES ASSUME EchoInit PROVE EchoTypeOK /\ NumberInv
  BY Zenon
<1>1. queue = <<>> /\ replies = <<>>
  BY Zenon DEF EchoInit
<1>2. EchoTypeOK
  BY <1>1 DEF EchoInit, EchoTypeOK, NoPacket, PacketType
<1>3. 0 % Word = 0
  BY EchoAssumption
<1> QED
  BY <1>1, <1>2, <1>3 DEF EchoInit, NumberInv, RepliesAreNumbered

\* Every step of Serve, of the kernel and of Close keeps the types.
LEMMA StepTypeOK == EchoTypeOK /\ [EchoNext]_echoVars => EchoTypeOK'
<1> SUFFICES ASSUME EchoTypeOK, [EchoNext]_echoVars PROVE EchoTypeOK'
  BY Zenon
<1> USE DEF EchoTypeOK
<1>0. \A x \in Nat : x % Word \in Nat
  BY EchoAssumption
<1>1. ASSUME NEW q \in Packets, Arrive(q) PROVE EchoTypeOK'
  <2>1. [p |-> q, drops |-> drops] \in QueuedType
    BY EchoAssumption, Zenon DEF QueuedType
  <2>2. Append(queue, [p |-> q, drops |-> drops]) \in Seq(QueuedType)
    BY <2>1
  <2>3. (drops + 1) % Word \in Nat
    BY <1>0, SMTT(30)
  <2>4. queue' \in Seq(QueuedType) /\ drops' \in Nat
    BY <1>1, <2>2, <2>3, Zenon DEF Arrive
  <2> QED
    BY <1>1, <2>4 DEF Arrive, server
<1>2. CASE Receive
  <2>1. Head(queue) \in QueuedType /\ Tail(queue) \in Seq(QueuedType)
    BY <1>2 DEF Receive
  <2> DEFINE q == Head(queue)
  <2>2. q.p \in PacketType /\ q.drops \in Nat
    BY <2>1, Zenon DEF QueuedType
  <2> HIDE DEF q
  <2>3. FailuresAfter(q.drops) \in Nat
    <3>1. DropsSince(q.drops) \in Nat
      BY <2>2 DEF DropsSince
    <3>2. failures + DropsSince(q.drops) \in Nat
      BY <3>1
    <3> QED
      BY <1>0, <3>2, Zenon DEF FailuresAfter
  <2>4. /\ failures' \in Nat /\ lastDrops' \in Nat /\ received' \in Nat
        /\ queue' \in Seq(QueuedType) /\ pkt' \in PacketType
        /\ epc' \in {"read", "respond"}
    BY <1>2, <2>1, <2>2, <2>3 DEF Receive, q
  <2> QED
    BY <1>2, <2>4, Zenon DEF Receive
<1>3. CASE Respond
  <2>1. NextSN \in Nat /\ (responses + 1) % Word \in Nat
    BY <1>0, SMTT(30) DEF NextSN
  <2>2. [sn |-> NextSN, failures |-> failures] \in [sn : Nat, failures : Nat]
    BY <2>1, Zenon
  <2>3. Append(replies, [sn |-> NextSN, failures |-> failures])
          \in Seq([sn : Nat, failures : Nat])
    BY <2>2
  <2>4. replies' \in Seq([sn : Nat, failures : Nat]) /\ responses' \in Nat
    BY <1>3, <2>1, <2>3, Zenon DEF Respond
  <2> QED
    BY <1>3, <2>4, Zenon DEF Respond
<1>4. CASE RespondFails
  BY <1>0, <1>4 DEF RespondFails
<1>5. CASE CloseConn \/ Return \/ UNCHANGED echoVars
  BY <1>5, Zenon DEF CloseConn, Return, echoVars, server
<1> QED
  BY <1>1, <1>2, <1>3, <1>4, <1>5, Zenon DEF EchoNext

\* Only respond appends a reply, and it counts it with the same step.
LEMMA StepNumber ==
    EchoTypeOK /\ NumberInv /\ [EchoNext]_echoVars => NumberInv'
<1> SUFFICES ASSUME EchoTypeOK, NumberInv, [EchoNext]_echoVars PROVE NumberInv'
  BY Zenon
<1>1. CASE UNCHANGED <<responses, replies>>
  BY <1>1, Zenon DEF NumberInv, RepliesAreNumbered
<1>2. CASE Respond /\ pkt.plus
  <2> DEFINE e == [sn |-> NextSN, failures |-> failures]
             n == Len(replies)
  <2>1. replies' = Append(replies, e) /\ responses' = (responses + 1) % Word
    BY <1>2, Zenon DEF Respond
  <2>2. n \in Nat /\ replies \in Seq([sn : Nat, failures : Nat])
    BY DEF EchoTypeOK
  <2>3. NextSN = (n + 1) % Word /\ responses' = (n + 1) % Word
    BY <2>1, <2>2, EchoAssumption, CountModulo, Zenon DEF NumberInv, NextSN
  <2>4. e.sn = (n + 1) % Word
    BY <2>3, Zenon
  <2> HIDE DEF e
  <2>5. /\ Len(replies') = n + 1 /\ replies'[n + 1] = e
        /\ \A i \in 1..n : replies'[i] = replies[i]
    BY <2>1, <2>2
  <2>6. ASSUME NEW i \in 1..Len(replies') PROVE replies'[i].sn = i % Word
    <3>1. CASE i \in 1..n
      BY <2>5, <3>1, Zenon DEF NumberInv, RepliesAreNumbered
    <3>2. CASE i = n + 1
      BY <2>4, <2>5, <3>2, Zenon
    <3> QED
      BY <2>2, <2>5, <2>6, <3>1, <3>2
  <2> QED
    BY <2>3, <2>5, <2>6, Zenon DEF NumberInv, RepliesAreNumbered
<1> QED
  BY <1>1, <1>2, Zenon DEF EchoNext, Arrive, Receive, Respond, RespondFails, CloseConn,
     Return, echoVars, server

\* TestRespSN of the replies sent is 1, 2, 3 and so on, for every width of the
\* counter and whatever sends fail and requests are refused in between.
THEOREM RepliesNumbered == EchoSpec => []RepliesAreNumbered
<1>1. NumberInv => RepliesAreNumbered
  BY Zenon DEF NumberInv
<1> QED
  BY <1>1, InitTypeNumber, StepTypeOK, StepNumber, PTL DEF EchoSpec

-----------------------------------------------------------------------------
(* Every request that reached the socket.                                  *)

\* The queue holds valid requests, stamped with counts of drops that grow from
\* the one Serve has seen last to the kernel's.
QueueInv ==
    /\ \A i \in 1..Len(queue) :
          Valid(queue[i].p) /\ queue[i].drops \in lastDrops..drops
    /\ \A i, j \in 1..Len(queue) : i <= j => queue[i].drops <= queue[j].drops

\* No counter has wrapped: a drop that was seen is a failure.
AccountInv ==
    HaveKernTS /\ refused = 0 /\ arrived < Word =>
        /\ QueueInv
        /\ lastDrops <= drops /\ lastDrops <= failures
        /\ epc = "respond" => pkt.plus
        /\ arrived = responses + failures + InHand + Len(queue) + (drops - lastDrops)

\* NewEchoServer: nothing has arrived.
LEMMA InitAccount == EchoInit => AccountInv
BY DEF EchoInit, AccountInv, QueueInv, InHand

\* The kernel queues a request or counts a drop.
LEMMA ArriveAccount ==
    ASSUME EchoTypeOK, AccountInv, NEW q \in Packets, Arrive(q) PROVE AccountInv'
<1> SUFFICES ASSUME HaveKernTS, refused' = 0, arrived' < Word
             PROVE  /\ QueueInv'
                    /\ lastDrops' <= drops' /\ lastDrops' <= failures'
                    /\ epc' = "respond" => pkt'.plus
                    /\ arrived' = responses' + failures' + InHand' + Len(queue')
                                    + (drops' - lastDrops')
  BY Zenon DEF AccountInv
<1>1. Valid(q) /\ refused = 0 /\ arrived' = arrived + 1
  BY DEF Arrive, EchoTypeOK
<1>2. /\ QueueInv /\ lastDrops <= drops /\ lastDrops <= failures
      /\ epc = "respond" => pkt.plus
      /\ arrived = responses + failures + InHand + Len(queue) + (drops - lastDrops)
  BY <1>1, EchoAssumption DEF AccountInv, EchoTypeOK
<1>3. InHand \in Nat /\ InHand' = InHand /\ Len(queue) \in Nat
      /\ responses \in Nat /\ failures \in Nat /\ drops \in Nat /\ lastDrops \in Nat
  BY DEF InHand, Arrive, EchoTypeOK
<1>4. UNCHANGED <<responses, failures, lastDrops, epc, pkt>>
  BY Zenon DEF Arrive, server
<1>5. CASE Len(queue) < QueueLen
  <2> DEFINE e == [p |-> q, drops |-> drops]
  <2>1. queue' = Append(queue, e) /\ drops' = drops
    BY <1>5, Zenon DEF Arrive
  <2>2. e \in QueuedType /\ e.p = q /\ e.drops = drops
    BY EchoAssumption, Zenon DEF QueuedType, EchoTypeOK
  <2> HIDE DEF e
  <2>3. /\ Len(queue') = Len(queue) + 1 /\ queue'[Len(queue) + 1] = e
        /\ \A i \in 1..Len(queue) : queue'[i] = queue[i]
    BY <2>1, <2>2 DEF EchoTypeOK
  <2>4. QueueInv'
    <3>1. \A i \in 1..Len(queue') : i \in 1..Len(queue) \/ queue'[i] = e
      BY <1>3, <2>3
    <3>2. \A i \in 1..Len(queue') :
             Valid(queue'[i].p) /\ queue'[i].drops \in lastDrops..drops
      BY <1>1, <1>2, <1>3, <2>2, <2>3, <3>1 DEF QueueInv
    <3>3. \A i, j \in 1..Len(queue') : i <= j => queue'[i].drops <= queue'[j].drops
      <4> SUFFICES ASSUME NEW i \in 1..Len(queue'), NEW j \in 1..Len(queue'), i <= j
                   PROVE  queue'[i].drops <= queue'[j].drops
        BY Zenon
      <4>1. CASE j = Len(queue) + 1
        BY <1>3, <2>2, <2>3, <3>2, <4>1
      <4>2. CASE j \in 1..Len(queue)
        BY <1>2, <1>3, <2>3, <4>2 DEF QueueInv
      <4> QED
        BY <1>3, <2>3, <4>1, <4>2
    <3> QED
      BY <1>4, <2>1, <3>2, <3>3, Zenon DEF QueueInv
  <2>5. Len(queue') = Len(queue) + 1
    BY <2>3, Zenon
  <2> QED
    BY <1>1, <1>2, <1>3, <1>4, <2>1, <2>4, <2>5
<1>6. CASE ~(Len(queue) < QueueLen)
  <2>1. drops' = (drops + 1) % Word /\ queue' = queue
    BY <1>6, Zenon DEF Arrive
  <2>2. drops + 1 \in 0..Word - 1
    BY <1>1, <1>2, <1>3, EchoAssumption DEF EchoTypeOK
  <2>3. drops' = drops + 1
    BY <2>1, <2>2, EchoAssumption
  <2>4. QueueInv'
    BY <1>2, <1>4, <2>1, <2>3 DEF QueueInv, EchoTypeOK
  <2> QED
    BY <1>1, <1>2, <1>3, <1>4, <2>1, <2>3, <2>4
<1> QED
  BY <1>5, <1>6, Zenon

\* Serve takes the next request and counts the drops it reports.
LEMMA ReceiveAccount ==
    ASSUME EchoTypeOK, AccountInv, Receive PROVE AccountInv'
<1> SUFFICES ASSUME HaveKernTS, refused = 0, arrived < Word
             PROVE  /\ QueueInv'
                    /\ lastDrops' <= drops' /\ lastDrops' <= failures'
                    /\ epc' = "respond" => pkt'.plus
                    /\ arrived' = responses' + failures' + InHand' + Len(queue')
                                    + (drops' - lastDrops')
  BY Zenon DEF AccountInv, Receive
<1> DEFINE q == Head(queue)
           n == Len(queue)
<1>1. /\ QueueInv /\ lastDrops <= drops /\ lastDrops <= failures
      /\ arrived = responses + failures + InHand + n + (drops - lastDrops)
  BY Zenon DEF AccountInv
<1>2. /\ n \in Nat \ {0} /\ q = queue[1] /\ q \in QueuedType
      /\ queue' = Tail(queue) /\ Len(queue') = n - 1
      /\ \A i \in 1..n - 1 : queue'[i] = queue[i + 1]
  BY DEF Receive, EchoTypeOK
<1>3. Valid(q.p) /\ q.drops \in lastDrops..drops
  BY <1>1, <1>2 DEF QueueInv
<1>4. InHand = 0 /\ InHand' = 1 /\ pkt' = q.p /\ epc' = "respond"
  BY <1>3, Zenon DEF InHand, Receive, Valid
<1>5. lastDrops' = q.drops /\ failures' = FailuresAfter(q.drops)
      /\ UNCHANGED <<drops, responses, arrived>>
  BY Zenon DEF Receive
<1> HIDE DEF q, n
<1>6. q.drops \in Nat /\ failures \in Nat /\ responses \in Nat /\ drops \in Nat
      /\ lastDrops \in Nat /\ arrived \in Nat
      /\ n \in Nat \ {0} /\ Len(queue') = n - 1
  BY <1>2, Zenon DEF QueuedType, EchoTypeOK
<1>7. DropsSince(q.drops) = q.drops - lastDrops
  BY <1>3, <1>6 DEF DropsSince
<1>8. failures + (q.drops - lastDrops) \in 0..Word - 1
  BY <1>1, <1>3, <1>4, <1>6, EchoAssumption
<1>9. failures' = failures + (q.drops - lastDrops)
  BY <1>5, <1>7, <1>8, EchoAssumption DEF FailuresAfter
<1>10. QueueInv'
  <2>1. ASSUME NEW i \in 1..Len(queue')
        PROVE  Valid(queue'[i].p) /\ queue'[i].drops \in lastDrops'..drops'
    <3>1. i + 1 \in 1..n /\ 1 \in 1..n /\ queue'[i] = queue[i + 1] /\ 1 <= i + 1
      BY <1>2, <2>1
    <3>2. queue[1].drops <= queue[i + 1].drops
      BY <1>1, <3>1, Zenon DEF QueueInv, n
    <3>3. Valid(queue[i + 1].p) /\ queue[i + 1].drops \in lastDrops..drops
      BY <1>1, <3>1, Zenon DEF QueueInv, n
    <3> QED
      BY <1>2, <1>5, <1>6, <3>1, <3>2, <3>3
  <2>2. ASSUME NEW i \in 1..Len(queue'), NEW j \in 1..Len(queue'), i <= j
        PROVE  queue'[i].drops <= queue'[j].drops
    <3>1. i + 1 \in 1..n /\ j + 1 \in 1..n /\ i + 1 <= j + 1
      BY <1>2, <2>2
    <3> QED
      BY <1>1, <1>2, <2>2, <3>1, Zenon DEF QueueInv, n
  <2> QED
    BY <2>1, <2>2, Zenon DEF QueueInv
<1> QED
  <2>1. pkt'.plus
    BY <1>3, <1>4, Zenon DEF Valid
  <2>2. lastDrops' <= drops' /\ lastDrops' <= failures'
    BY <1>1, <1>3, <1>5, <1>6, <1>9
  <2>3. arrived' = responses' + failures' + InHand' + Len(queue') + (drops' - lastDrops')
    <3>1. arrived = responses + failures + 0 + n + (drops - lastDrops)
      BY <1>1, <1>4, Zenon
    <3>2. arrived = responses + (failures + (q.drops - lastDrops)) + 1 + (n - 1)
                      + (drops - q.drops)
      BY <1>6, <3>1, SMTT(30)
    <3> QED
      BY <1>4, <1>5, <1>6, <1>9, <3>2, Zenon
  <2> QED
    BY <1>10, <2>1, <2>2, <2>3, Zenon

\* The request in hand becomes a response or a failure.
LEMMA RespondAccount ==
    ASSUME EchoTypeOK, AccountInv, Respond \/ RespondFails PROVE AccountInv'
<1> SUFFICES ASSUME HaveKernTS, refused = 0, arrived < Word
             PROVE  /\ QueueInv'
                    /\ lastDrops' <= drops' /\ lastDrops' <= failures'
                    /\ epc' = "respond" => pkt'.plus
                    /\ arrived' = responses' + failures' + InHand' + Len(queue')
                                    + (drops' - lastDrops')
  BY Zenon DEF AccountInv, Respond, RespondFails
<1>1. /\ QueueInv /\ lastDrops <= drops /\ lastDrops <= failures /\ pkt.plus
      /\ arrived = responses + failures + InHand + Len(queue) + (drops - lastDrops)
      /\ InHand = 1 /\ InHand' = 0 /\ epc' = "read"
      /\ UNCHANGED <<queue, drops, lastDrops, arrived>>
  BY Zenon DEF AccountInv, Respond, RespondFails, InHand
<1>2. Len(queue) \in Nat /\ responses \in Nat /\ failures \in Nat /\ drops \in Nat
      /\ lastDrops \in Nat /\ arrived \in Nat
  BY DEF EchoTypeOK
<1>3. responses + 1 \in 0..Word - 1 /\ failures + 1 \in 0..Word - 1
  BY <1>1, <1>2, EchoAssumption
<1>4. (responses + 1) % Word = responses + 1 /\ (failures + 1) % Word = failures + 1
  BY <1>3, EchoAssumption
<1>5. \/ responses' = responses + 1 /\ failures' = failures
      \/ responses' = responses /\ failures' = failures + 1
  BY <1>1, <1>4, Zenon DEF Respond, RespondFails
<1> QED
  BY <1>1, <1>2, <1>5 DEF QueueInv

\* A request changes hands in every step and is never in two.
LEMMA StepAccount ==
    EchoTypeOK /\ AccountInv /\ [EchoNext]_echoVars => AccountInv'
<1> SUFFICES ASSUME EchoTypeOK, AccountInv, [EchoNext]_echoVars PROVE AccountInv'
  OBVIOUS
<1>1. CASE CloseConn \/ UNCHANGED echoVars
  BY <1>1, Zenon DEF CloseConn, echoVars, server, AccountInv, QueueInv, InHand
<1>2. CASE Return
  BY <1>2, Zenon DEF Return, server, AccountInv, QueueInv, InHand
<1> QED
  BY <1>1, <1>2, ArriveAccount, ReceiveAccount, RespondAccount, Zenon DEF EchoNext

\* With kernel accounting, valid requests and no more of them than the counters
\* can count, each is answered, a failure, in hand, queued or a drop not yet seen.
THEOREM RequestsAccounted == EchoSpec => []EveryRequestAccounted
<1>1. AccountInv => EveryRequestAccounted
  BY Zenon DEF AccountInv, EveryRequestAccounted
<1> QED
  BY <1>1, InitTypeNumber, StepTypeOK, InitAccount, StepAccount, PTL DEF EchoSpec

-----------------------------------------------------------------------------
(* HTTP transfers                                                          *)

Labels == Holding \cup {"new", "closed"}
Finished == {"release", "free", "closed"}
Registered == {"run", "store", "last", "count", "done"}

\* The values of the goroutines' state, of the registry and of the clock.
HttpTypeOK ==
    /\ pc \in [Transfers -> Labels]
    /\ req \in [Transfers -> RequestType \cup {NoRequest}]
    /\ sent \in [Transfers -> Nat] /\ complete \in [Transfers -> BOOLEAN]
    /\ deadline \in [Transfers -> Nat]
    /\ sem \in Int /\ active \in Int
    /\ entries \in SUBSET Transfers /\ bytes \in [Transfers -> Nat]
    /\ ended \in [Transfers -> Nat \cup {NotDone}]
    /\ now \in Nat /\ lastPoll \in Nat /\ seen \in SUBSET Transfers

\* A size that was asked for is an integer of its width.
LEMMA SizeType == ASSUME NEW r \in RequestType PROVE Size(r) \in Int
<1>1. r.n \in Nat /\ Multiplier[r.unit] \in Nat
  BY HttpAssumption, Zenon DEF RequestType
<1>2. r.n * Multiplier[r.unit] \in Nat
  BY <1>1
<1>3. (r.n * Multiplier[r.unit]) % SizeWord \in Int
  BY <1>2, HttpAssumption
<1> QED
  BY <1>3, HttpAssumption DEF Size

\* What a goroutine holds of its own: a request since its admission, no bytes
\* before its registration, and never more than a size asked for.
AskedInv(t) ==
    /\ pc[t] \notin {"new", "closed"} => req[t] \in RequestType
    /\ pc[t] \in {"new", "slot", "begin"} => sent[t] = 0
    /\ req[t].kind = "sized" => sent[t] = 0 \/ sent[t] <= Size(req[t])

\* What the next Write moves fits in what is left.
LEMMA ChunkFits ==
    ASSUME HttpTypeOK, NEW t \in Transfers, AskedInv(t), pc[t] = "run", More(t)
    PROVE  /\ Chunk(t) \in Nat /\ req[t] \in RequestType
           /\ req[t].kind = "sized" =>
                 Size(req[t]) \in Int /\ sent[t] + Chunk(t) <= Size(req[t])
<1>1. req[t] \in RequestType /\ sent[t] \in Nat
  BY Zenon DEF AskedInv, HttpTypeOK
<1>2. Size(req[t]) \in Int
  BY <1>1, SizeType, Zenon
<1>3. req[t].kind = "sized" => sent[t] < Size(req[t])
  BY Zenon DEF More
<1> QED
  BY <1>1, <1>2, <1>3, HttpAssumption DEF Chunk

-----------------------------------------------------------------------------
(* Types                                                                   *)

TransferInv(t) ==
    /\ AskedInv(t)
    /\ pc[t] \notin {"store", "last"} => bytes[t] = sent[t]
    /\ pc[t] \in {"last", "count", "done"} =>
          /\ req[t].kind = "sized" => (complete[t] <=> sent[t] = Size(req[t]))
          /\ req[t].kind = "timed" /\ complete[t] => now >= deadline[t]
    /\ pc[t] \in Registered => t \in entries
    /\ ended[t] # NotDone => pc[t] \in Finished /\ ended[t] <= now

HttpInv == HttpTypeOK /\ \A t \in Transfers : TransferInv(t)

\* A goroutine's step leaves the others' state alone.
Others(t) ==
    \A x \in Transfers \ {t} :
        /\ pc'[x] = pc[x] /\ req'[x] = req[x] /\ sent'[x] = sent[x]
        /\ complete'[x] = complete[x] /\ deadline'[x] = deadline[x]
        /\ bytes'[x] = bytes[x] /\ ended'[x] = ended[x]
        /\ x \in entries => x \in entries'

\* What a goroutine does not touch keeps the invariant.
LEMMA OthersKeepInv ==
    ASSUME HttpInv, NEW t \in Transfers, Others(t), now' = now
    PROVE  \A x \in Transfers \ {t} : TransferInv(x)'
BY DEF HttpInv, Others, TransferInv, AskedInv

\* NewHTTPHandler: no transfer, an empty registry.
LEMMA InitHttpInv == Init => HttpInv
<1> SUFFICES ASSUME Init PROVE HttpInv
  BY Zenon
<1>1. HttpTypeOK
  BY DEF Init, HttpTypeOK, Labels, NotDone
<1>2. ASSUME NEW t \in Transfers PROVE TransferInv(t)
  BY Zenon DEF Init, TransferInv, AskedInv, Registered, NotDone, NoRequest
<1> QED
  BY <1>1, <1>2, Zenon DEF HttpInv

\* Admission.
LEMMA AdmitHttpInv ==
    ASSUME HttpInv, NEW t \in Transfers, NEW r \in Requests,
           Refuse(t, r) \/ Reject(t, r) \/ Acquire(t, r)
    PROVE  HttpInv'
<1>0. HttpTypeOK /\ TransferInv(t) /\ r \in RequestType
  BY HttpAssumption, Zenon DEF HttpInv
<1>1. /\ pc[t] = "new" /\ req' = [req EXCEPT ![t] = r]
      /\ \E l \in {"slot", "closed"} : pc' = [pc EXCEPT ![t] = l]
      /\ (sem' = sem \/ sem' = sem + 1)
      /\ UNCHANGED <<complete, deadline, sent, active, registry, clock>>
  BY Zenon DEF Refuse, Reject, Acquire, Goto, counts
<1>2. HttpTypeOK'
  BY <1>0, <1>1 DEF HttpTypeOK, Labels, Holding, registry, clock
<1>3. Others(t) /\ now' = now
  BY <1>0, <1>1, Zenon DEF Others, HttpTypeOK, registry, clock
<1>4. TransferInv(t)'
  BY <1>0, <1>1, Zenon DEF TransferInv, AskedInv, HttpTypeOK, registry, clock,
     Registered, Finished
<1> QED
  BY <1>2, <1>3, <1>4, OthersKeepInv, Zenon DEF HttpInv

\* The steps of a handler that move no bytes.
LEMMA QuietHttpInv ==
    ASSUME HttpInv, NEW t \in Transfers,
           AddActive(t) \/ Begin(t) \/ Count(t) \/ Done(t) \/ SubActive(t) \/ FreeSlot(t)
    PROVE  HttpInv'
<1>0. HttpTypeOK /\ TransferInv(t)
  BY Zenon DEF HttpInv
<1>1. CASE AddActive(t) \/ Count(t) \/ SubActive(t) \/ FreeSlot(t)
  <2>1. HttpTypeOK'
    BY <1>0, <1>1 DEF AddActive, Count, SubActive, FreeSlot, Goto, HttpTypeOK, Labels,
       Holding, Counted, locals, registry, clock
  <2>2. Others(t) /\ now' = now
    BY <1>0, <1>1, Zenon DEF AddActive, Count, SubActive, FreeSlot, Goto, Others,
       HttpTypeOK, locals, registry, clock
  <2>3. TransferInv(t)'
    BY <1>0, <1>1 DEF AddActive, Count, SubActive, FreeSlot, Goto, TransferInv, AskedInv,
       HttpTypeOK, locals, registry, clock, Registered, Finished
  <2> QED
    BY <2>1, <2>2, <2>3, OthersKeepInv, Zenon DEF HttpInv
<1>2. CASE Begin(t)
  <2>1. req[t].n \in Nat
    BY <1>0, <1>2, Zenon DEF Begin, TransferInv, AskedInv, RequestType
  <2>2. HttpTypeOK'
    BY <1>0, <1>2, <2>1 DEF Begin, Goto, HttpTypeOK, Labels, Holding, Counted, counts, clock
  <2>3. Others(t) /\ now' = now
    BY <1>0, <1>2, Zenon DEF Begin, Goto, Others, HttpTypeOK, counts, clock
  <2>4. TransferInv(t)'
    BY <1>0, <1>2, Zenon DEF Begin, Goto, TransferInv, AskedInv, HttpTypeOK, counts,
       clock, Registered, Finished
  <2> QED
    BY <2>2, <2>3, <2>4, OthersKeepInv DEF HttpInv
<1>3. CASE Done(t)
  <2>1. HttpTypeOK'
    BY <1>0, <1>3, Zenon DEF Done, Goto, HttpTypeOK, Labels, Holding, Counted, locals,
       counts, clock
  <2>2. Others(t) /\ now' = now
    BY <1>0, <1>3, Zenon DEF Done, Goto, Others, HttpTypeOK, locals, counts, clock
  <2>3. TransferInv(t)'
    BY <1>0, <1>3 DEF Done, Goto, TransferInv, AskedInv, HttpTypeOK, locals, counts,
       clock, Registered, Finished
  <2> QED
    BY <2>1, <2>2, <2>3, OthersKeepInv DEF HttpInv
<1> QED
  BY <1>1, <1>2, <1>3, Zenon

\* Bytes move and are stored.
LEMMA MoveHttpInv ==
    ASSUME HttpInv, NEW t \in Transfers, Move(t) \/ Torn(t) PROVE HttpInv'
<1>0. HttpTypeOK /\ TransferInv(t) /\ AskedInv(t)
  BY Zenon DEF HttpInv, TransferInv
<1>1. /\ Chunk(t) \in Nat /\ req[t] \in RequestType
      /\ req[t].kind = "sized" =>
            Size(req[t]) \in Int /\ sent[t] + Chunk(t) <= Size(req[t])
  BY <1>0, ChunkFits, Zenon DEF Move, Torn
<1>2. PICK n \in 0..Chunk(t) : sent' = [sent EXCEPT ![t] = @ + n]
  BY <1>1, SMTT(30) DEF Move, Torn
<1>3. /\ sent[t] \in Nat /\ sent'[t] = sent[t] + n /\ sent' \in [Transfers -> Nat]
      /\ req[t].kind = "sized" => sent'[t] <= Size(req[t])
  BY <1>0, <1>1, <1>2 DEF HttpTypeOK
<1>4. CASE Move(t)
  <2>1. HttpTypeOK'
    BY <1>0, <1>3, <1>4, Zenon DEF Move, Goto, HttpTypeOK, Labels, Holding, Counted,
       locals, counts, registry, clock
  <2>2. Others(t) /\ now' = now
    BY <1>0, <1>2, <1>4, Zenon DEF Move, Goto, Others, HttpTypeOK, locals, registry, clock
  <2>3. TransferInv(t)'
    BY <1>0, <1>1, <1>3, <1>4, Zenon DEF Move, Goto, TransferInv, AskedInv, HttpTypeOK,
       locals, registry, clock, Registered, Finished
  <2> QED
    BY <2>1, <2>2, <2>3, OthersKeepInv, Zenon DEF HttpInv
<1>5. CASE Torn(t)
  <2>0. (req[t].kind = "sized" /\ sent'[t] = Size(req[t])) \in BOOLEAN
    BY Zenon
  <2>1. HttpTypeOK'
    <3>1. complete' \in [Transfers -> BOOLEAN]
      BY <1>0, <1>5, Zenon DEF Torn, HttpTypeOK
    <3> QED
      BY <1>0, <1>3, <1>5, <3>1, Zenon DEF Torn, Goto, HttpTypeOK, Labels, Holding,
         Counted, counts, registry, clock
  <2>2. Others(t) /\ now' = now
    BY <1>0, <1>2, <1>5, Zenon DEF Torn, Goto, Others, HttpTypeOK, registry, clock
  <2>3. TransferInv(t)'
    BY <1>0, <1>1, <1>3, <1>5, Zenon DEF Torn, Goto, TransferInv, AskedInv, HttpTypeOK,
       registry, clock, Registered, Finished
  <2> QED
    BY <2>1, <2>2, <2>3, OthersKeepInv DEF HttpInv
<1> QED
  BY <1>4, <1>5, Zenon

\* The final byte count is stored before done is, so done implies it.
LEMMA StoreHttpInv ==
    ASSUME HttpInv, NEW t \in Transfers, Store(t) \/ Complete(t) PROVE HttpInv'
<1>0. HttpTypeOK /\ TransferInv(t)
  BY Zenon DEF HttpInv
<1>1. CASE Store(t)
  <2>1. HttpTypeOK'
    BY <1>0, <1>1, Zenon DEF Store, Goto, HttpTypeOK, Labels, Holding, Counted, locals,
       counts, clock
  <2>2. Others(t) /\ now' = now
    BY <1>0, <1>1, Zenon DEF Store, Goto, Others, HttpTypeOK, locals, clock
  <2>3. TransferInv(t)'
    BY <1>0, <1>1, Zenon DEF Store, Goto, TransferInv, AskedInv, HttpTypeOK, locals,
       clock, Registered, Finished
  <2> QED
    BY <2>1, <2>2, <2>3, OthersKeepInv, Zenon DEF HttpInv
<1>2. CASE Complete(t)
  <2>1. HttpTypeOK'
    <3>1. complete' \in [Transfers -> BOOLEAN]
      BY <1>0, <1>2, Zenon DEF Complete, HttpTypeOK
    <3> QED
      BY <1>0, <1>2, <3>1, Zenon DEF Complete, Goto, HttpTypeOK, Labels, Holding,
         Counted, counts, registry, clock
  <2>2. Others(t) /\ now' = now
    BY <1>0, <1>2, Zenon DEF Complete, Goto, Others, HttpTypeOK, registry, clock
  <2>3. req[t].kind = "timed" => now >= deadline[t]
    BY <1>0, <1>2 DEF Complete, More, HttpTypeOK
  <2>4. TransferInv(t)'
    BY <1>0, <1>2, <2>3, Zenon DEF Complete, Goto, TransferInv, AskedInv, HttpTypeOK,
       registry, clock, Registered, Finished
  <2> QED
    BY <2>1, <2>2, <2>4, OthersKeepInv DEF HttpInv
<1> QED
  BY <1>1, <1>2, Zenon

\* Expiry of live entries and the passing of time touch no transfer.
LEMMA LiveHttpInv == HttpInv /\ (Poll \/ Tick \/ UNCHANGED vars) => HttpInv'
<1> SUFFICES ASSUME HttpInv, Poll \/ Tick \/ UNCHANGED vars PROVE HttpInv'
  BY Zenon
<1>0. HttpTypeOK
  BY Zenon DEF HttpInv
<1>1. /\ UNCHANGED <<pc, locals, sent, counts, bytes, ended>>
      /\ now' \in Nat /\ now <= now' /\ lastPoll' \in Nat /\ seen' \in SUBSET Transfers
      /\ entries' \in SUBSET Transfers
      /\ \A t \in entries : ended[t] = NotDone => t \in entries'
  BY <1>0 DEF Poll, Tick, vars, registry, clock, HttpTypeOK, Expired
<1>2. HttpTypeOK'
  BY <1>0, <1>1, Zenon DEF HttpTypeOK, locals, counts
<1>3. ASSUME NEW t \in Transfers PROVE TransferInv(t)'
  <2>1. TransferInv(t)
    BY Zenon DEF HttpInv
  <2>2. pc[t] \in Registered => ended[t] = NotDone
    BY <2>1, Zenon DEF TransferInv, Registered, Finished
  <2>3. deadline[t] \in Nat /\ ended[t] \in Int /\ now \in Nat
    BY <1>0 DEF HttpTypeOK, NotDone
  <2> QED
    BY <1>1, <2>1, <2>2, <2>3, SMTT(30) DEF TransferInv, AskedInv, locals
<1> QED
  BY <1>2, <1>3, Zenon DEF HttpInv

\* Every step keeps the invariant of the transfers.
LEMMA StepHttpInv == HttpInv /\ [Next]_vars => HttpInv'
BY AdmitHttpInv, QuietHttpInv, MoveHttpInv, StoreHttpInv, LiveHttpInv, Zenon DEF Next,
   Handle

\* The invariant of the transfers.
LEMMA HttpInvariant == Spec => []HttpInv
BY InitHttpInv, StepHttpInv, PTL DEF Spec

\* What is served has passed the limits, with the size the loop counts up to.
WithinLimit(t) == pc[t] \notin {"new", "closed"} \/ sent[t] > 0 => ~OverLimit(req[t])

LimitInv == \A t \in Transfers : WithinLimit(t)

\* Admission compares the very size that is served, overflown or not.
LEMMA StepLimitInv == HttpInv /\ LimitInv /\ [Next]_vars => LimitInv'
<1> SUFFICES ASSUME HttpInv, LimitInv, [Next]_vars, NEW x \in Transfers
             PROVE  WithinLimit(x)'
  BY Zenon DEF LimitInv
<1>0. HttpTypeOK /\ WithinLimit(x) /\ AskedInv(x)
  BY Zenon DEF HttpInv, LimitInv, TransferInv
<1>a. ASSUME req'[x] = req[x], pc'[x] = pc[x], sent'[x] = sent[x]
      PROVE  WithinLimit(x)'
  BY <1>0, <1>a, Zenon DEF WithinLimit, OverLimit, Size
<1>1. ASSUME NEW t \in Transfers, NEW r \in Requests,
             Refuse(t, r) \/ Reject(t, r) \/ Acquire(t, r)
      PROVE  WithinLimit(x)'
  <2>1. /\ pc[t] = "new" /\ req' = [req EXCEPT ![t] = r] /\ sent' = sent
        /\ \/ pc' = [pc EXCEPT ![t] = "slot"] /\ ~OverLimit(r)
           \/ pc' = [pc EXCEPT ![t] = "closed"]
    BY <1>1, Zenon DEF Refuse, Reject, Acquire, Goto
  <2>2. CASE x = t
    <3>1. sent'[x] = 0 /\ req'[x] = r
      BY <1>0, <2>1, <2>2, Zenon DEF AskedInv, HttpTypeOK
    <3>2. pc'[x] = "closed" \/ ~OverLimit(r)
      BY <1>0, <2>1, <2>2, Zenon DEF HttpTypeOK
    <3> QED
      BY <3>1, <3>2 DEF WithinLimit, OverLimit, Size
  <2>3. CASE x # t
    BY <1>0, <1>a, <2>1, <2>3, Zenon DEF HttpTypeOK
  <2> QED
    BY <2>2, <2>3, Zenon
<1>2. ASSUME NEW t \in Transfers, Handle(t) PROVE WithinLimit(x)'
  <2>1. /\ req' = req /\ pc[t] \notin {"new", "closed"}
        /\ \E l \in Labels : pc' = [pc EXCEPT ![t] = l]
    BY <1>2, Zenon DEF Handle, AddActive, Begin, Move, Torn, Store, Complete, Count, Done,
       SubActive, FreeSlot, Goto, locals, Labels, Holding, Counted
  <2>2. \A y \in Transfers \ {t} : sent'[y] = sent[y]
    BY <1>0, <1>2, Zenon DEF Handle, AddActive, Begin, Move, Torn, Store, Complete,
       Count, Done, SubActive, FreeSlot, HttpTypeOK
  <2>3. CASE x = t
    BY <1>0, <2>1, <2>3, Zenon DEF WithinLimit, OverLimit, Size
  <2>4. CASE x # t
    BY <1>0, <1>a, <2>1, <2>2, <2>4, Zenon DEF HttpTypeOK
  <2> QED
    BY <2>3, <2>4, Zenon
<1>3. CASE Poll \/ Tick \/ UNCHANGED vars
  BY <1>3, <1>a, Zenon DEF Poll, Tick, vars, locals
<1> QED
  BY <1>1, <1>2, <1>3, Zenon DEF Next

\* A sized download sends no more than its size and than the operator's limit,
\* whatever its name overflows to, and is complete exactly when it sent all of its
\* size; a time-based one that is complete ran as long as it was asked to.
THEOREM DownloadsKept == Spec => []DownloadsAsAsked
<1>1. HttpInv /\ LimitInv => DownloadsAsAsked
  <2> SUFFICES ASSUME HttpInv, LimitInv, NEW t \in Transfers, req[t].kind = "sized",
                      MaxDownloadBytes > 0
               PROVE  sent[t] <= MaxDownloadBytes
    BY Zenon DEF HttpInv, TransferInv, AskedInv, DownloadsAsAsked
  <2>1. req[t] \in RequestType \cup {NoRequest} /\ sent[t] \in Nat /\ AskedInv(t)
    BY Zenon DEF HttpInv, HttpTypeOK, TransferInv
  <2>2. req[t] \in RequestType
    <3>1. NoRequest.kind = "none"
      BY Zenon DEF NoRequest
    <3> QED
      BY <2>1, <3>1, Zenon
  <2>3. Size(req[t]) \in Int
    BY <2>2, SizeType, Zenon
  <2>4. sent[t] > 0 => ~(Size(req[t]) > MaxDownloadBytes)
    BY Zenon DEF LimitInv, WithinLimit, OverLimit
  <2> QED
    BY <2>1, <2>3, <2>4, HttpAssumption DEF AskedInv
<1>2. Init => LimitInv
  BY DEF Init, LimitInv, WithinLimit
<1> QED
  BY <1>1, <1>2, StepLimitInv, HttpInvariant, PTL DEF Spec

\* /live shows of a finished transfer every byte it moved.
THEOREM FinalBytesAreFinal == Spec => []FinalBytesShown
<1>1. HttpInv => FinalBytesShown
  BY Zenon DEF HttpInv, HttpTypeOK, TransferInv, FinalBytesShown, Finished
<1> QED
  BY <1>1, HttpInvariant, PTL

-----------------------------------------------------------------------------
(* The poller                                                              *)

\* What the poller has not seen of a finished transfer is still in the registry,
\* and it finished after the last poll.
PollInv ==
    /\ lastPoll <= now /\ now - lastPoll <= PollGap
    /\ \A t \in Transfers : ended[t] # NotDone =>
          t \in seen \/ (t \in entries /\ lastPoll <= ended[t])

\* No transfer has ended before the first poll.
LEMMA InitPollInv == Init => PollInv
BY HttpAssumption DEF Init, PollInv

\* An entry expires liveGrace after its end, so a poll comes before it goes.
LEMMA StepPollInv ==
    ASSUME PollGap <= Grace, HttpInv, PollInv, [Next]_vars PROVE PollInv'
<1>0. HttpTypeOK /\ PollGap \in Nat /\ Grace \in Nat
  BY HttpAssumption, Zenon DEF HttpInv
<1>1. ASSUME entries \subseteq entries', UNCHANGED <<ended, clock>> PROVE PollInv'
  BY <1>1, Zenon DEF PollInv, clock
<1>2. ASSUME NEW t \in Transfers, NEW r \in Requests,
             Refuse(t, r) \/ Reject(t, r) \/ Acquire(t, r)
      PROVE  PollInv'
  BY <1>1, <1>2, Zenon DEF Refuse, Reject, Acquire, registry
<1>3. ASSUME NEW t \in Transfers, Handle(t), ~Done(t) PROVE PollInv'
  BY <1>1, <1>3, Zenon DEF Handle, AddActive, Begin, Move, Torn, Store, Complete, Count,
     SubActive, FreeSlot, registry
<1>4. ASSUME NEW t \in Transfers, Done(t) PROVE PollInv'
  <2>1. t \in entries
    BY <1>4, Zenon DEF HttpInv, TransferInv, Done, Registered
  <2> QED
    BY <1>0, <1>4, <2>1, Zenon DEF Done, PollInv, HttpTypeOK, clock
<1>5. CASE Poll
  <2>1. ASSUME NEW t \in Transfers, ended[t] # NotDone, t \notin seen PROVE t \in seen'
    <3>1. t \in entries /\ lastPoll <= ended[t] /\ now - lastPoll <= PollGap
      BY <2>1, Zenon DEF PollInv
    <3>2. ended[t] \in Nat /\ now \in Nat /\ lastPoll \in Nat
      BY <1>0, <2>1, Zenon DEF HttpTypeOK
    <3>3. ~Expired(t)
      BY <1>0, <3>1, <3>2 DEF Expired
    <3> QED
      BY <1>5, <2>1, <3>1, <3>3, Zenon DEF Poll
  <2>2. lastPoll' = now' /\ now' \in Nat /\ ended' = ended /\ seen \subseteq seen'
    BY <1>0, <1>5, Zenon DEF Poll, HttpTypeOK
  <2>3. lastPoll' <= now' /\ now' - lastPoll' <= PollGap
    <3>1. \A x \in Nat : x <= x /\ x - x <= PollGap
      BY <1>0
    <3> QED
      BY <2>2, <3>1, Zenon
  <2>4. \A t \in Transfers : ended'[t] # NotDone => t \in seen'
    BY <2>1, <2>2, Zenon
  <2> QED
    BY <2>3, <2>4, Zenon DEF PollInv
<1>6. CASE Tick
  BY <1>0, <1>6 DEF Tick, PollInv, HttpTypeOK, registry
<1>7. CASE UNCHANGED vars
  BY <1>1, <1>7, Zenon DEF vars, registry
<1> QED
  BY <1>2, <1>3, <1>4, <1>5, <1>6, <1>7, Zenon DEF Next

\* A poller that never waits longer than liveGrace sees the final figures of every
\* transfer, whatever the other transfers do and wherever its polls fall.
THEOREM FinalsAreSeen == ASSUME PollGap <= Grace PROVE Spec => []NoFinalLost
<1>1. PollInv => NoFinalLost
  BY Zenon DEF PollInv, NoFinalLost
<1>2. HttpInv /\ PollInv /\ [Next]_vars => PollInv'
  BY StepPollInv, Zenon
<1> QED
  BY <1>1, <1>2, InitPollInv, HttpInvariant, PTL DEF Spec

-----------------------------------------------------------------------------
(* The slots                                                               *)

\* Counting the transfers that hold a slot.
LEMMA TransfersCounted ==
    ASSUME NEW S \in SUBSET Transfers
    PROVE  /\ IsFiniteSet(S) /\ Cardinality(S) \in Nat
           /\ \A t : t \notin S => Cardinality(S \cup {t}) = Cardinality(S) + 1
           /\ \A t \in S : Cardinality(S \ {t}) = Cardinality(S) - 1
<1>1. IsFiniteSet(S)
  BY HttpAssumption, FS_Subset, Zenon
<1> QED
  BY <1>1, FS_CardinalityType, FS_AddElement, FS_RemoveElement, Zenon

SlotInv ==
    /\ active = Cardinality(CountedIn)
    /\ MaxConcurrent > 0 => sem = Cardinality(Holders) /\ sem <= MaxConcurrent

\* NewHTTPHandler: the semaphore is empty and nothing is active.
LEMMA InitSlotInv == Init => SlotInv
<1> SUFFICES ASSUME Init PROVE SlotInv
  OBVIOUS
<1>1. CountedIn = {} /\ Holders = {}
  BY Zenon DEF Init, CountedIn, Holders, Counted, Holding
<1> QED
  BY <1>1, FS_EmptySet, HttpAssumption DEF Init, SlotInv

\* acquire, release and the active gauge follow the goroutines that hold them.
LEMMA StepSlotInv == HttpTypeOK /\ SlotInv /\ [Next]_vars => SlotInv'
<1> SUFFICES ASSUME HttpTypeOK, SlotInv, [Next]_vars PROVE SlotInv'
  OBVIOUS
<1>a. /\ pc \in [Transfers -> Labels] /\ sem \in Int /\ active \in Int
      /\ Holders \in SUBSET Transfers /\ CountedIn \in SUBSET Transfers
      /\ MaxConcurrent \in Nat
  BY HttpAssumption, Zenon DEF HttpTypeOK, Holders, CountedIn
<1>b. Cardinality(Holders) \in Nat /\ Cardinality(CountedIn) \in Nat
  BY <1>a, TransfersCounted, Zenon
<1>c. ASSUME Holders' = Holders, CountedIn' = CountedIn, UNCHANGED <<sem, active>>
      PROVE  SlotInv'
  BY <1>c, Zenon DEF SlotInv
<1>d. ASSUME NEW t \in Transfers, NEW l, Goto(t, l), pc[t] \in Counted <=> l \in Counted,
             pc[t] \in Holding <=> l \in Holding
      PROVE  Holders' = Holders /\ CountedIn' = CountedIn
  BY <1>a, <1>d, Zenon DEF Goto, Holders, CountedIn
<1>1. ASSUME NEW t \in Transfers, NEW r \in Requests, Refuse(t, r) \/ Reject(t, r)
      PROVE  SlotInv'
  BY <1>1, <1>c, <1>d, Zenon DEF Refuse, Reject, counts, Counted, Holding
<1>2. ASSUME NEW t \in Transfers, NEW r \in Requests, Acquire(t, r) PROVE SlotInv'
  <2>1. /\ Holders' = Holders \cup {t} /\ t \notin Holders /\ CountedIn' = CountedIn
    BY <1>a, <1>2, Zenon DEF Acquire, Goto, Holders, CountedIn, Counted, Holding
  <2>2. Cardinality(Holders') = Cardinality(Holders) + 1
    BY <1>a, <2>1, TransfersCounted, Zenon
  <2> QED
    BY <1>a, <1>b, <1>2, <2>1, <2>2 DEF Acquire, SlotFree, SlotInv
<1>3. ASSUME NEW t \in Transfers, AddActive(t) PROVE SlotInv'
  <2>1. /\ CountedIn' = CountedIn \cup {t} /\ t \notin CountedIn /\ Holders' = Holders
    BY <1>a, <1>3, Zenon DEF AddActive, Goto, Holders, CountedIn, Counted, Holding
  <2>2. Cardinality(CountedIn') = Cardinality(CountedIn) + 1
    BY <1>a, <2>1, TransfersCounted, Zenon
  <2> QED
    BY <1>a, <1>b, <1>3, <2>1, <2>2, Zenon DEF AddActive, SlotInv
<1>4. ASSUME NEW t \in Transfers, Begin(t) \/ Move(t) \/ Torn(t) \/ Done(t) PROVE SlotInv'
  BY <1>4, <1>c, <1>d, Zenon DEF Begin, Move, Torn, Done, counts, Counted, Holding
<1>5. ASSUME NEW t \in Transfers, Store(t) \/ Complete(t) \/ Count(t) PROVE SlotInv'
  BY <1>5, <1>c, <1>d, Zenon DEF Store, Complete, Count, counts, Counted, Holding
<1>6. ASSUME NEW t \in Transfers, SubActive(t) PROVE SlotInv'
  <2>1. /\ CountedIn' = CountedIn \ {t} /\ t \in CountedIn /\ Holders' = Holders
    BY <1>a, <1>6, Zenon DEF SubActive, Goto, Holders, CountedIn, Counted, Holding
  <2>2. Cardinality(CountedIn') = Cardinality(CountedIn) - 1
    BY <1>a, <2>1, TransfersCounted, Zenon
  <2> QED
    BY <1>a, <1>b, <1>6, <2>1, <2>2, Zenon DEF SubActive, SlotInv
<1>7. ASSUME NEW t \in Transfers, FreeSlot(t) PROVE SlotInv'
  <2>1. /\ Holders' = Holders \ {t} /\ t \in Holders /\ CountedIn' = CountedIn
    BY <1>a, <1>7, Zenon DEF FreeSlot, Goto, Holders, CountedIn, Counted, Holding
  <2>2. Cardinality(Holders') = Cardinality(Holders) - 1
    BY <1>a, <2>1, TransfersCounted, Zenon
  <2> QED
    BY <1>a, <1>b, <1>7, <2>1, <2>2 DEF FreeSlot, SlotInv
<1>8. CASE Poll \/ Tick \/ UNCHANGED vars
  BY <1>8, <1>c, Zenon DEF Poll, Tick, vars, counts, Holders, CountedIn
<1> QED
  BY <1>1, <1>2, <1>3, <1>4, <1>5, <1>6, <1>7, <1>8, Zenon DEF Next, Handle

\* Slots and the active gauge are those of the transfers under way, and never
\* more than MaxConcurrent.
THEOREM SlotsAreHeld == Spec => []SlotsMatchHolders
<1>1. SlotInv => SlotsMatchHolders
  <2>1. /\ Holders \in SUBSET Transfers /\ CountedIn \subseteq Holders
        /\ IsFiniteSet(Holders)
    BY TransfersCounted, Zenon DEF Holders, CountedIn, Holding
  <2>2. Cardinality(CountedIn) <= Cardinality(Holders)
    BY <2>1, FS_Subset, Zenon
  <2> QED
    BY <2>2, Zenon DEF SlotInv, SlotsMatchHolders
<1>2. HttpInv => HttpTypeOK
  BY Zenon DEF HttpInv
<1> QED
  BY <1>1, <1>2, InitSlotInv, StepSlotInv, HttpInvariant, PTL DEF Spec

-----------------------------------------------------------------------------
(* How long a sized download can hold its slot                             *)

\* The bytes a sized download has still to send.
BytesLeft(t) == IF Size(req[t]) > sent[t] THEN Size(req[t]) - sent[t] ELSE 0

\* The steps its handler has still to take, at a Write of one byte at a time.
StepsLeft(t) ==
    CASE pc[t] = "free" -> 1
      [] pc[t] = "release" -> 2
      [] pc[t] = "done" -> 3
      [] pc[t] = "count" -> 4
      [] pc[t] = "last" -> 5
      [] pc[t] = "run" -> 6 + 2 * BytesLeft(t)
      [] pc[t] \in {"begin", "store"} -> 7 + 2 * BytesLeft(t)
      [] pc[t] = "slot" -> 8 + 2 * BytesLeft(t)
      [] OTHER -> 0

\* Every step of the handler of a sized download brings its slot nearer to being
\* free, and nothing any other goroutine does puts that off: HEAD, a torn
\* connection and a size that overflowed included.
DownloadsWindDown ==
    [][\A t \in Transfers :
          req[t].kind = "sized" /\ pc[t] # "new" =>
             /\ StepsLeft(t)' \in Nat
             /\ Handle(t) => StepsLeft(t)' < StepsLeft(t)
             /\ ~Handle(t) => StepsLeft(t)' = StepsLeft(t)]_vars

\* A handler that sends nothing moves on.
LEMMA QuietStepsLeft ==
    ASSUME HttpInv, NEW t \in Transfers, req[t] \in RequestType, req[t].kind = "sized",
           AddActive(t) \/ Begin(t) \/ Store(t) \/ Complete(t) \/ Count(t) \/ Done(t)
              \/ SubActive(t) \/ FreeSlot(t)
    PROVE  StepsLeft(t)' \in Nat /\ StepsLeft(t)' < StepsLeft(t)
<1>0. HttpTypeOK /\ Size(req[t]) \in Int /\ sent[t] \in Nat /\ t \in DOMAIN pc
  BY SizeType, Zenon DEF HttpInv, HttpTypeOK
<1>1. req' = req /\ sent' = sent
  BY Zenon DEF AddActive, Begin, Store, Complete, Count, Done, SubActive, FreeSlot, locals
<1>2. BytesLeft(t)' = BytesLeft(t) /\ BytesLeft(t) \in Nat
  <2>1. \A a, b \in Int : (IF a > b THEN a - b ELSE 0) \in Nat
    BY ONLY SMT
  <2>2. BytesLeft(t)' = BytesLeft(t)
    BY <1>1, Zenon DEF BytesLeft, Size
  <2>3. sent[t] \in Int
    BY <1>0
  <2> QED
    BY <1>0, <2>1, <2>2, <2>3, Zenon DEF BytesLeft
<1>3. \/ pc[t] = "slot" /\ pc'[t] \in {"begin", "release"}
      \/ pc[t] = "begin" /\ pc'[t] = "run"
      \/ pc[t] = "store" /\ pc'[t] = "run"
      \/ pc[t] = "last" /\ pc'[t] = "count"
      \/ pc[t] = "run" /\ pc'[t] = "count"
      \/ pc[t] = "count" /\ pc'[t] = "done"
      \/ pc[t] = "done" /\ pc'[t] = "release"
      \/ pc[t] = "release" /\ pc'[t] = "free"
      \/ pc[t] = "free" /\ pc'[t] = "closed"
  BY <1>0, Zenon DEF AddActive, Begin, Store, Complete, Count, Done, SubActive,
     FreeSlot, Goto
<1> QED
  BY <1>2, <1>3 DEF StepsLeft

\* A Write leaves less to send, or ends the loop.
LEMMA MoveStepsLeft ==
    ASSUME HttpInv, NEW t \in Transfers, req[t].kind = "sized", Move(t) \/ Torn(t)
    PROVE  StepsLeft(t)' \in Nat /\ StepsLeft(t)' < StepsLeft(t)
<1>0. HttpTypeOK /\ AskedInv(t) /\ pc[t] = "run" /\ More(t) /\ req' = req
  BY Zenon DEF HttpInv, TransferInv, Move, Torn, locals
<1>1. /\ Size(req[t]) \in Int /\ sent[t] + Chunk(t) <= Size(req[t]) /\ Chunk(t) \in Nat
      /\ sent[t] \in Nat /\ t \in DOMAIN pc /\ t \in DOMAIN sent
  BY <1>0, ChunkFits, Zenon DEF HttpTypeOK
<1>2. sent[t] < Size(req[t])
  BY <1>0, Zenon DEF More
<1>3. StepsLeft(t) = 6 + 2 * (Size(req[t]) - sent[t])
  BY <1>0, <1>1, <1>2, Zenon DEF StepsLeft, BytesLeft
<1>4. CASE Move(t)
  <2>1. pc'[t] = "store" /\ sent'[t] = sent[t] + Chunk(t)
    BY <1>1, <1>4, Zenon DEF Move, Goto
  <2>2. Chunk(t) >= 1
    BY <1>1, <1>2, HttpAssumption DEF Chunk
  <2>3. BytesLeft(t)' \in Nat /\ BytesLeft(t)' <= Size(req[t]) - sent[t] - 1
    <3>1. BytesLeft(t)' = IF Size(req[t]) > sent'[t] THEN Size(req[t]) - sent'[t] ELSE 0
      BY <1>0, Zenon DEF BytesLeft, Size
    <3> QED
      BY <1>1, <1>2, <2>1, <2>2, <3>1
  <2>4. StepsLeft(t)' = 7 + 2 * BytesLeft(t)'
    BY <2>1, Zenon DEF StepsLeft
  <2>5. \A x, b \in Int :
           b >= 0 /\ b <= x - 1 => 7 + 2 * b \in Nat /\ 7 + 2 * b < 6 + 2 * x
    BY ONLY SMT
  <2>6. Size(req[t]) - sent[t] \in Int /\ BytesLeft(t)' \in Int /\ BytesLeft(t)' >= 0
    BY <1>1, <2>3
  <2> QED
    BY <1>3, <2>3, <2>4, <2>5, <2>6, Zenon
<1>5. CASE Torn(t)
  <2>1. pc'[t] = "last"
    BY <1>1, <1>5, Zenon DEF Torn, Goto
  <2>2. StepsLeft(t)' = 5
    BY <2>1, Zenon DEF StepsLeft
  <2> QED
    BY <1>1, <1>2, <1>3, <2>2
<1> QED
  BY <1>4, <1>5, Zenon

\* What SlotsComeBack rests on for sized downloads: the slot of one is held for
\* a number of its own steps that its size bounds.
THEOREM SizedDownloadsEnd == Spec => DownloadsWindDown
<1> DEFINE Winds(t) ==
             /\ StepsLeft(t)' \in Nat
             /\ Handle(t) => StepsLeft(t)' < StepsLeft(t)
             /\ ~Handle(t) => StepsLeft(t)' = StepsLeft(t)
           All == \A t \in Transfers : req[t].kind = "sized" /\ pc[t] # "new" => Winds(t)
<1>1. HttpInv /\ [Next]_vars => [All]_vars
  <2> SUFFICES ASSUME HttpInv, Next, NEW t \in Transfers, req[t].kind = "sized",
                      pc[t] # "new"
               PROVE  Winds(t)
    BY Zenon
  <2>0. HttpTypeOK /\ AskedInv(t)
    BY Zenon DEF HttpInv, TransferInv
  <2>a. req[t] \in RequestType
    <3>1. NoRequest.kind = "none" /\ req[t] \in RequestType \cup {NoRequest}
      BY <2>0, Zenon DEF NoRequest, HttpTypeOK
    <3> QED
      BY <3>1, Zenon
  <2>1. CASE Handle(t)
    <3>1. StepsLeft(t)' \in Nat /\ StepsLeft(t)' < StepsLeft(t)
      BY <2>1, <2>a, QuietStepsLeft, MoveStepsLeft, Zenon DEF Handle
    <3> QED
      BY <2>1, <3>1, Zenon
  <2>2. CASE ~Handle(t)
    <3>1. pc'[t] = pc[t] /\ req'[t] = req[t] /\ sent'[t] = sent[t]
      <4>1. ASSUME NEW u \in Transfers, NEW r \in Requests,
                   Refuse(u, r) \/ Reject(u, r) \/ Acquire(u, r)
            PROVE  pc'[t] = pc[t] /\ req'[t] = req[t] /\ sent'[t] = sent[t]
        BY <2>0, <4>1, Zenon DEF Refuse, Reject, Acquire, Goto, HttpTypeOK
      <4>2. ASSUME NEW u \in Transfers, Handle(u)
            PROVE  pc'[t] = pc[t] /\ req'[t] = req[t] /\ sent'[t] = sent[t]
        <5>1. u # t
          BY <2>2, <4>2, Zenon
        <5>2. /\ req' = req
              /\ \E l \in Labels : pc' = [pc EXCEPT ![u] = l]
          BY <4>2, Zenon DEF Handle, AddActive, Begin, Move, Torn, Store, Complete,
             Count, Done, SubActive, FreeSlot, Goto, locals, Labels, Holding, Counted
        <5>3. sent'[t] = sent[t]
          BY <2>0, <4>2, <5>1, Zenon DEF Handle, AddActive, Begin, Move, Torn, Store,
             Complete, Count, Done, SubActive, FreeSlot, HttpTypeOK
        <5> QED
          BY <2>0, <5>1, <5>2, <5>3, Zenon DEF HttpTypeOK
      <4>3. CASE Poll \/ Tick
        BY <4>3, Zenon DEF Poll, Tick, locals
      <4> QED
        BY <4>1, <4>2, <4>3, Zenon DEF Next
    <3>2. StepsLeft(t)' = StepsLeft(t)
      BY <3>1, Zenon DEF StepsLeft, BytesLeft, Size
    <3>3. StepsLeft(t) \in Nat
      <4>1. Size(req[t]) \in Int /\ sent[t] \in Nat
        BY <2>0, <2>a, SizeType, Zenon DEF HttpTypeOK
      <4>2. BytesLeft(t) \in Nat
        BY <4>1 DEF BytesLeft
      <4> QED
        BY <4>2 DEF StepsLeft
    <3> QED
      BY <2>2, <3>2, <3>3, Zenon
  <2> QED
    BY <2>1, <2>2, Zenon
<1> QED
  BY <1>1, HttpInvariant, PTL DEF Spec, DownloadsWindDown
=============================================================================
