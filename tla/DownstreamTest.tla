--------------------------- MODULE DownstreamTest ---------------------------
(***************************************************************************)
(* session.runDownstream: three goroutines share the rate index, the stop  *)
(* flag and the done channel.  The receiver feeds the client's status      *)
(* messages to the rate search and ends the test, sendLoop paces bursts of *)
(* load datagrams, a timer raises stop.  Real time is left out: a deadline *)
(* may pass at any moment, so every order of the three is considered.      *)
(***************************************************************************)
EXTENDS RateControl

CONSTANTS Trials,      \* measurements a status message can report
          Row,         \* Row[i]: datagrams per burst of each transmitter
          CatchUp,     \* bursts a late transmitter may catch up in one pass
          MaxSeq,      \* bound: datagrams the kernel accepts
          MaxStatus    \* bound: status messages of the client

VARIABLES rpc, rate, stop, done, statuses,               \* receiver, shared
          spc, row, caught, resume, burst, sent, seq,    \* sendLoop
          act, wire, lastAct   \* burst's action; ghosts: accepted, last action

receiver == <<rpc, statuses>>
sender == <<spc, row, caught, resume, burst, sent, seq, act, wire, lastAct>>
vars == <<rcVars, receiver, rate, stop, done, sender>>

Pairs == [t1 : Nat, t2 : Nat]
ASSUME SenderAssumption ==
    /\ Row \in [0..MaxIdx -> Pairs]
    /\ CatchUp \in Nat \ {0} /\ MaxSeq \in Nat /\ MaxStatus \in Nat
    /\ Trials \subseteq TrialType

Init ==
    /\ RcInit
    /\ rpc = "read" /\ rate = index /\ stop = FALSE /\ done = FALSE
    /\ statuses = 0
    /\ spc = "top" /\ row = 0 /\ caught = 0 /\ resume = "top"
    /\ burst = 0 /\ sent = 0 /\ seq = 0 /\ act = "test"
    /\ wire = 0 /\ lastAct = "test"

-----------------------------------------------------------------------------
(* The receiver and the timer                                              *)

\* A status of the running test: adjust, then publish the index.
RecvStatus(in, subIntSeqNo) ==
    /\ rpc = "read" /\ statuses < MaxStatus
    /\ statuses' = statuses + 1
    /\ Adjust(in, subIntSeqNo)
    /\ rate' = index'
    /\ UNCHANGED <<rpc, stop, done, sender>>

\* A status that confirms the stop, the watchdog, or a socket error.
LeaveLoop ==
    /\ rpc = "read" /\ rpc' = "leave"
    /\ UNCHANGED <<rcVars, statuses, rate, stop, done, sender>>

CloseDone ==
    /\ rpc = "leave" /\ rpc' = "join" /\ done' = TRUE
    /\ UNCHANGED <<rcVars, statuses, rate, stop, sender>>

Join ==
    /\ rpc = "join" /\ spc = "ended" /\ rpc' = "summary"
    /\ UNCHANGED <<rcVars, statuses, rate, stop, done, sender>>

\* The deferred stopTimer.Stop, then run's deferred conn.Close.
CloseConn ==
    /\ rpc = "summary" /\ rpc' = "closed"
    /\ UNCHANGED <<rcVars, statuses, rate, stop, done, sender>>

StopTimer ==
    /\ ~stop /\ rpc # "closed" /\ stop' = TRUE
    /\ UNCHANGED <<rcVars, receiver, rate, done, sender>>

-----------------------------------------------------------------------------
(* sendLoop                                                                *)

senderIdle == <<rcVars, receiver, rate, stop, done>>

\* Fault: done is looked at only in the waits.
CheckDone_Never ==
    /\ spc = "top" /\ spc' = "check"
    /\ UNCHANGED <<senderIdle, row, caught, resume, burst, sent, seq, act, wire,
                   lastAct>>

\* The loop's first select.
CheckDone ==
    /\ spc = "top" /\ spc' = IF done THEN "ended" ELSE "check"
    /\ UNCHANGED <<senderIdle, row, caught, resume, burst, sent, seq, act, wire,
                   lastAct>>

Active(r) == Row[r].t1 > 0 \/ Row[r].t2 > 0

\* Fault: load may go on after the stop flag is set.
CheckStop_Ignored ==
    /\ spc = "check" /\ spc' = "load"
    /\ UNCHANGED <<senderIdle, row, caught, resume, burst, sent, seq, act, wire,
                   lastAct>>

\* stop.Load; the flag may be raised before the index is loaded.
CheckStop ==
    /\ spc = "check" /\ ~stop /\ spc' = "load"
    /\ UNCHANGED <<senderIdle, row, caught, resume, burst, sent, seq, act, wire,
                   lastAct>>

LoadRow ==
    /\ spc = "load"
    /\ row' = rate /\ caught' = 0
    /\ spc' = IF Active(rate) THEN "t1" ELSE "pause"
    /\ UNCHANGED <<senderIdle, resume, burst, sent, seq, act, wire, lastAct>>

\* sendBurst numbers its n datagrams before any of them is written.
SendBurst(n, a, back) ==
    /\ burst' = n /\ sent' = 0 /\ seq' = seq + n /\ act' = a
    /\ resume' = back
    /\ spc' = IF n = 0 THEN back ELSE "write"
    /\ UNCHANGED <<senderIdle, row, wire, lastAct>>

SendStop == spc = "check" /\ stop /\ SendBurst(1, "stop2", "pause") /\ UNCHANGED caught

\* A due burst of the first or of the second transmitter.
SendDue1 ==
    /\ spc = "t1" /\ Row[row].t1 > 0 /\ caught < CatchUp
    /\ caught' = caught + 1 /\ SendBurst(Row[row].t1, "test", "t1")
SendDue2 ==
    /\ spc = "t2" /\ Row[row].t2 > 0 /\ caught < CatchUp
    /\ caught' = caught + 1 /\ SendBurst(Row[row].t2, "test", "t2")

\* No further burst of the transmitter is due.
Caught ==
    /\ spc \in {"t1", "t2"} /\ spc' = (IF spc = "t1" THEN "t2" ELSE "top")
    /\ caught' = 0
    /\ UNCHANGED <<senderIdle, row, resume, burst, sent, seq, act, wire, lastAct>>

\* The waits that done can cut short.
Pause ==
    /\ spc = "pause" /\ spc' = IF done THEN "ended" ELSE "top"
    /\ UNCHANGED <<senderIdle, row, caught, resume, burst, sent, seq, act, wire,
                   lastAct>>

\* WriteBatch accepts the next n datagrams of the burst.
WriteSome(n) ==
    /\ spc = "write" /\ n \in 1..burst - sent /\ wire + n <= MaxSeq
    /\ sent' = sent + n /\ wire' = wire + n /\ lastAct' = act
    /\ spc' = IF sent + n = burst THEN resume ELSE "write"
    /\ UNCHANGED <<senderIdle, row, caught, resume, burst, seq, act>>

\* Fault: the whole burst is rolled back, accepted datagrams included.
RollBack_Burst == seq - burst

RollBack == seq - (burst - sent)

\* WriteBatch fails: the numbers the kernel did not accept are used again.
WriteFails ==
    /\ spc = "write" /\ seq' = RollBack /\ burst' = 0 /\ sent' = 0
    /\ spc' = resume
    /\ UNCHANGED <<senderIdle, row, caught, resume, act, wire, lastAct>>

SendLoop ==
    \/ CheckDone \/ CheckStop \/ LoadRow \/ SendStop \/ SendDue1 \/ SendDue2 \/ Caught
    \/ Pause \/ (\E n \in 1..burst : WriteSome(n)) \/ WriteFails

Receiver ==
    \/ \E in \in Trials, n \in 0..MaxStatus : RecvStatus(in, n)
    \/ LeaveLoop \/ CloseDone \/ Join \/ CloseConn

Finished == rpc = "closed" /\ spc = "ended" /\ UNCHANGED vars

Next == Receiver \/ StopTimer \/ SendLoop \/ Finished

Spec == Init /\ [][Next]_vars

\* Both goroutines are scheduled; when the receiver leaves its loop is up to the
\* client, whose datagrams put the watchdog off.
FairSpec == Spec /\ WF_vars(SendLoop) /\ WF_vars(CloseDone \/ Join \/ CloseConn)

-----------------------------------------------------------------------------
\* The shared index always names a row; the burst counters have their types.
DownTypeOK ==
    /\ rate \in 0..MaxIdx /\ row \in 0..MaxIdx
    /\ burst \in Nat /\ sent \in 0..burst /\ seq \in Nat /\ wire \in Nat

\* Sequence numbers: the next datagram the kernel accepts always carries the
\* number after the last accepted one, however writes fail, so every gap the
\* client sees is loss on the path.
NumbersAreConsecutive == seq = wire + (burst - sent)

\* The load stream ends with stop indications: no test datagram is sent once
\* a stop datagram has been.
NoTestAfterStop == [][lastAct = "stop2" => lastAct' = "stop2"]_vars

\* The socket is closed only when sendLoop has returned, so no write meets a
\* closed socket.
SenderEndsFirst == rpc = "closed" => spc = "ended"

\* A test that was left comes to its end: once the receiver has left its loop the
\* sender stops, is joined and the socket is closed.
TestFinishes == rpc = "leave" ~> rpc = "closed"
=============================================================================
