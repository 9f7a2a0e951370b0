-------------------------- MODULE DownstreamProofs --------------------------
(* Proofs about the goroutines of a downstream test, for every rate table  *)
(* and however writes fail, timers fire and the client behaves.            *)
EXTENDS DownstreamTest, RateControlProofs

\* Outside the write loop a burst is written or rolled back completely.
WholeBursts ==
    /\ resume \in {"top", "pause", "t1", "t2"}
    /\ spc # "write" => sent = burst

\* The published rate is the search's.
RateInv ==
    /\ RcInv /\ DownTypeOK /\ rate = index
    /\ NumbersAreConsecutive /\ WholeBursts

USE DEF receiver, sender, senderIdle

\* A row of the table asks for a natural number of datagrams.
LEMMA BurstSize ==
    ASSUME NEW r \in 0..MaxIdx PROVE Row[r].t1 \in Nat /\ Row[r].t2 \in Nat
BY SenderAssumption, Zenon DEF Pairs

\* The receiver starts at a row of the table.
LEMMA InitRateInv == Init => RateInv
<1> SUFFICES ASSUME Init PROVE RateInv
  BY Zenon
<1>1. RcInv /\ index \in 0..MaxIdx
  BY InitRcInv, Zenon DEF Init, RcInv, IndexInTable
<1> QED
  BY <1>1, TableAssumption
     DEF Init, RateInv, DownTypeOK, NumbersAreConsecutive, WholeBursts

\* No step of receiver, sender or timer takes the shared index out of the table.
LEMMA StepRateInv == RateInv /\ [Next]_vars => RateInv'
<1> SUFFICES ASSUME RateInv, [Next]_vars PROVE RateInv'
  BY Zenon
<1>0. RcInv /\ DownTypeOK /\ rate = index /\ NumbersAreConsecutive /\ WholeBursts
  BY Zenon DEF RateInv
<1>1. ASSUME NEW in \in Trials, NEW n \in 0..MaxStatus, RecvStatus(in, n)
      PROVE  RateInv'
  <2>1. RcInv' /\ index' \in 0..MaxIdx
    BY <1>0, <1>1, AdjustKeepsRcInv, Zenon DEF RecvStatus, RcInv, IndexInTable
  <2> QED
    BY <1>0, <1>1, <2>1, Zenon
       DEF RecvStatus, RateInv, DownTypeOK, NumbersAreConsecutive, WholeBursts
<1>2. CASE LeaveLoop \/ CloseDone \/ Join \/ CloseConn \/ StopTimer
           \/ UNCHANGED vars
  <2>1. UNCHANGED <<rcVars, rate, sender>>
    BY <1>2, Zenon DEF LeaveLoop, CloseDone, Join, CloseConn, StopTimer, vars
  <2>2. RcInv' /\ index' = index
    BY <1>0, <2>1, FrameKeepsRcInv, Zenon DEF rcVars, rcState
  <2> QED
    BY <1>0, <2>1, <2>2, Zenon DEF RateInv, DownTypeOK, NumbersAreConsecutive, WholeBursts
<1>3. CASE SendLoop
  <2>1. UNCHANGED <<rcVars, rate>>
    BY <1>3, Zenon DEF SendLoop, CheckDone, CheckStop, LoadRow, SendStop,
       SendDue1, SendDue2, SendBurst, Caught, Pause, WriteSome, WriteFails
  <2>2. RcInv' /\ rate' = index'
    BY <1>0, <2>1, FrameKeepsRcInv, Zenon DEF rcVars, rcState
  <2>3. CASE CheckDone \/ CheckStop \/ LoadRow \/ Caught \/ Pause
    BY <1>0, <2>1, <2>2, <2>3, Zenon DEF CheckDone, CheckStop, LoadRow, Caught, Pause,
       RateInv, DownTypeOK, NumbersAreConsecutive, WholeBursts
  \* A burst starts only when the one before is written or rolled back.
  <2>4. CASE SendStop \/ SendDue1 \/ SendDue2
    <3>0. row \in 0..MaxIdx
      BY <1>0, Zenon DEF DownTypeOK
    <3>1. PICK k \in Nat, a \in {"test", "stop2"}, back \in {"pause", "t1", "t2"} :
             SendBurst(k, a, back)
      BY <3>0, <2>4, BurstSize, Zenon DEF SendStop, SendDue1, SendDue2
    <3>2. sent = burst
      BY <1>0, <2>4, Zenon DEF SendStop, SendDue1, SendDue2, WholeBursts
    <3> QED
      BY <1>0, <2>2, <3>1, <3>2 DEF SendBurst, RateInv, DownTypeOK,
         NumbersAreConsecutive, WholeBursts
  <2>5. ASSUME NEW n \in 1..burst, WriteSome(n) PROVE RateInv'
    BY <1>0, <2>1, <2>2, <2>5 DEF WriteSome, RateInv, DownTypeOK,
       NumbersAreConsecutive, WholeBursts
  <2>6. CASE WriteFails
    BY <1>0, <2>1, <2>2, <2>6 DEF WriteFails, RollBack, RateInv, DownTypeOK,
       NumbersAreConsecutive, WholeBursts
  <2> QED
    BY <1>3, <2>3, <2>4, <2>5, <2>6, Zenon DEF SendLoop
<1> QED
  BY <1>1, <1>2, <1>3, Zenon DEF Next, Receiver, Finished

\* The invariant of the shared index.
LEMMA RateInvariant == Spec => []RateInv
BY InitRateInv, StepRateInv, PTL DEF Spec

\* The shared index and the row sendLoop copied from it are rows of the table.
THEOREM SharedRateIsARow == Spec => []DownTypeOK
BY RateInvariant, PTL DEF RateInv

\* sendLoop's numbering: every number is used for exactly one accepted
\* datagram and none is skipped, whatever part of a burst the kernel refuses.
THEOREM NumberingIsGapFree == Spec => []NumbersAreConsecutive
BY RateInvariant, PTL DEF RateInv

-----------------------------------------------------------------------------
\* The receiver goes on to its summary only when it has joined the sender.
JoinInv == rpc \in {"summary", "closed"} => spc = "ended"

\* The socket outlives the sender.
THEOREM SocketOutlivesSender == Spec => []SenderEndsFirst
<1>1. Init => JoinInv
  BY Zenon DEF Init, JoinInv
<1>2. JoinInv /\ [Next]_vars => JoinInv'
  BY Zenon DEF JoinInv, vars, Next, Receiver, RecvStatus, LeaveLoop, CloseDone, Join,
     CloseConn, StopTimer, Finished, SendLoop, CheckDone, CheckStop, LoadRow, SendStop,
     SendDue1, SendDue2, SendBurst, Caught, Pause, WriteSome, WriteFails
<1>3. JoinInv => SenderEndsFirst
  BY Zenon DEF JoinInv, SenderEndsFirst
<1> QED
  BY <1>1, <1>2, <1>3, PTL DEF Spec

-----------------------------------------------------------------------------
\* Once a stop datagram is being written the sender only pauses, checks and
\* writes further stop datagrams.
StopInv ==
    /\ act \in {"test", "stop2"} /\ lastAct \in {"test", "stop2"}
    /\ spc \in {"load", "t1", "t2"} => lastAct = "test"
    /\ spc = "write" /\ act = "test" => lastAct = "test"
    /\ spc = "write" /\ act = "stop2" => resume = "pause"

\* The flag that makes the sender stop is never lowered.
FlagInv ==
    /\ stop \in BOOLEAN
    /\ lastAct = "stop2" \/ (spc = "write" /\ act = "stop2") => stop

\* A stop datagram is prepared only under the stop flag, which is never lowered.
LEMMA StepFlagInv == FlagInv /\ [Next]_vars => FlagInv'
<1> SUFFICES ASSUME FlagInv, [Next]_vars PROVE FlagInv'
  OBVIOUS
<1>1. CASE Receiver \/ StopTimer \/ UNCHANGED vars
  BY <1>1, Zenon DEF FlagInv, Receiver, RecvStatus, LeaveLoop, CloseDone, Join,
     CloseConn, StopTimer, vars
<1>2. CASE SendStop
  BY <1>2, Zenon DEF FlagInv, SendStop, SendBurst
<1>3. CASE SendDue1 \/ SendDue2
  BY <1>3, Zenon DEF FlagInv, SendDue1, SendDue2, SendBurst
<1>4. CASE CheckDone \/ CheckStop \/ LoadRow \/ Caught \/ Pause
  BY <1>4, Zenon DEF FlagInv, CheckDone, CheckStop, LoadRow, Caught, Pause
<1>5. CASE WriteFails \/ \E n \in 1..burst : WriteSome(n)
  BY <1>5, Zenon DEF FlagInv, WriteSome, WriteFails
<1> QED
  BY <1>1, <1>2, <1>3, <1>4, <1>5, Zenon DEF Next, SendLoop, Finished

\* After a stop datagram no test burst is prepared.
LEMMA StepStopInv ==
    FlagInv /\ StopInv /\ WholeBursts /\ [Next]_vars => StopInv'
<1> SUFFICES ASSUME FlagInv, StopInv, WholeBursts, [Next]_vars PROVE StopInv'
  BY Zenon
<1>1. CASE UNCHANGED sender
  BY <1>1, Zenon DEF StopInv
<1>2. CASE CheckStop
  <2>1. lastAct # "stop2"
    BY <1>2, Zenon DEF CheckStop, FlagInv
  <2> QED
    BY <1>2, <2>1, Zenon DEF CheckStop, StopInv
<1>3. CASE SendStop \/ SendDue1 \/ SendDue2
  BY <1>3, Zenon DEF StopInv, SendStop, SendDue1, SendDue2, SendBurst
<1>4. CASE CheckDone \/ LoadRow \/ Caught \/ Pause
  BY <1>4, Zenon DEF StopInv, CheckDone, LoadRow, Caught, Pause
<1>5. CASE WriteFails \/ \E n \in 1..burst : WriteSome(n)
  BY <1>5, Zenon DEF StopInv, WholeBursts, WriteSome, WriteFails
<1> QED
  BY <1>1, <1>2, <1>3, <1>4, <1>5, Zenon DEF Next, SendLoop, Finished, Receiver,
     RecvStatus, LeaveLoop, CloseDone, Join, CloseConn, StopTimer, vars

\* The client never sees a test datagram numbered after a stop datagram.
THEOREM StreamEndsWithStop == Spec => NoTestAfterStop
<1>1. Init => FlagInv
  BY Zenon DEF Init, FlagInv
<1>2. Init => StopInv
  BY Zenon DEF Init, StopInv
<1>3. Spec => [](FlagInv /\ StopInv /\ WholeBursts)
  <2>1. RateInv => WholeBursts
    BY Zenon DEF RateInv
  <2> QED
    BY <1>1, <1>2, <2>1, StepFlagInv, StepStopInv, RateInvariant, PTL DEF Spec
<1>4. StopInv /\ [Next]_vars => [lastAct = "stop2" => lastAct' = "stop2"]_vars
  <2> SUFFICES ASSUME StopInv, Next, lastAct = "stop2" PROVE lastAct' = "stop2"
    BY Zenon
  <2>1. CASE \E n \in 1..burst : WriteSome(n)
    BY <2>1, Zenon DEF WriteSome, StopInv
  <2> QED
    BY <2>1, Zenon DEF Next, Receiver, RecvStatus, LeaveLoop, CloseDone, Join, CloseConn,
       StopTimer, Finished, vars, SendLoop, CheckDone, CheckStop, LoadRow, SendStop,
       SendDue1, SendDue2, SendBurst, Caught, Pause, WriteFails
<1> QED
  BY <1>3, <1>4, PTL DEF Spec, NoTestAfterStop

-----------------------------------------------------------------------------
\* The receiver touches the search only through adjust, fed with what a status
\* message of the client reports; sender and timer never do.
THEOREM DownstreamDrivesSearch == Spec => SearchRuns
<1>1. Init => RcInit
  BY Zenon DEF Init
<1>2. [Next]_vars => [AnyAdjust]_rcVars
  <2> SUFFICES ASSUME [Next]_vars PROVE [AnyAdjust]_rcVars
    BY Zenon
  <2>1. ASSUME NEW in \in Trials, NEW n \in 0..MaxStatus, RecvStatus(in, n)
        PROVE  AnyAdjust
    <3>1. in \in TrialType /\ n \in Nat /\ Adjust(in, n)
      BY <2>1, SenderAssumption DEF RecvStatus
    <3> QED
      BY ONLY <3>1, Zenon DEF AnyAdjust
  <2>2. CASE LeaveLoop \/ CloseDone \/ Join \/ CloseConn \/ StopTimer \/ Finished
             \/ UNCHANGED vars
    BY <2>2, Zenon DEF LeaveLoop, CloseDone, Join, CloseConn, StopTimer, Finished, vars
  <2>3. CASE SendLoop
    BY <2>3, Zenon DEF SendLoop, CheckDone, CheckStop, LoadRow, SendStop,
       SendDue1, SendDue2, SendBurst, Caught, Pause, WriteSome, WriteFails
  <2> QED
    BY <2>1, <2>2, <2>3, Zenon DEF Next, Receiver
<1> QED
  BY <1>1, <1>2, PTL DEF Spec, SearchRuns

\* What sendLoop reads is the index of the search, after every adjust.
PublishedDiscipline == RateIsDisciplined /\ [](rate = index)

\* So the published rate jumps only as the algorithm allows, under every
\* interleaving of receiver, sender and timer.
THEOREM DownstreamIsDisciplined == Spec => PublishedDiscipline
<1>1. RateInv => rate = index
  BY Zenon DEF RateInv
<1> QED
  BY <1>1, RateInvariant, DownstreamDrivesSearch, RunsAreDisciplined, PTL
     DEF PublishedDiscipline

-----------------------------------------------------------------------------
(* How much sendLoop still does when done is closed                        *)

\* The steps of one burst of at most M datagrams.
BurstSteps(M) == M + 2

\* The steps to the end of sendLoop from a label outside the write loop, had
\* done been closed: what is left of the pass over both transmitters.
StepsFrom(l, M) ==
    CASE l \in {"top", "pause"} -> 1
      [] l = "t2" -> 2 + (CatchUp - caught) * BurstSteps(M)
      [] l = "t1" -> 3 + CatchUp * BurstSteps(M) + (CatchUp - caught) * BurstSteps(M)
      [] l = "load" -> 4 + CatchUp * BurstSteps(M) + CatchUp * BurstSteps(M)
      [] l = "check" -> 5 + CatchUp * BurstSteps(M) + CatchUp * BurstSteps(M)
      [] OTHER -> 0

SendRank(M) ==
    IF spc = "write" THEN StepsFrom(resume, M) + (burst - sent) ELSE StepsFrom(spc, M)

\* Once done is closed every step of sendLoop brings its end nearer, and no
\* other goroutine's puts it off: it finishes the pass it is in, whatever
\* writes succeed or fail, and starts no other.
SenderWindsDown(M) ==
    [][done =>
          /\ done' /\ SendRank(M)' \in Nat
          /\ SendLoop => SendRank(M)' < SendRank(M)
          /\ ~SendLoop => SendRank(M)' = SendRank(M)]_vars

\* Where the sender can be.
SendLabels == {"top", "check", "load", "pause", "t1", "t2", "write", "ended"}

\* A burst is written only while something of it is left, and the bursts of a
\* pass are counted.
PassInv ==
    /\ spc \in SendLabels /\ resume \in {"top", "pause", "t1", "t2"}
    /\ caught \in 0..CatchUp
    /\ spc = "write" => sent < burst
    /\ spc = "t1" \/ spc = "t2" \/ spc = "write" => row \in 0..MaxIdx

\* No step leaves the pass without a count.
LEMMA StepPassInv == RateInv /\ PassInv /\ [Next]_vars => PassInv'
<1> SUFFICES ASSUME RateInv, PassInv, [Next]_vars PROVE PassInv'
  BY Zenon
<1>0. DownTypeOK /\ CatchUp \in Nat \ {0}
  BY SenderAssumption, Zenon DEF RateInv
<1>1. CASE UNCHANGED sender
  BY <1>1, Zenon DEF PassInv
<1>2. CASE SendStop \/ SendDue1 \/ SendDue2
  BY <1>0, <1>2 DEF PassInv, SendLabels, SendStop, SendDue1, SendDue2, SendBurst,
     DownTypeOK
<1>3. CASE CheckDone \/ CheckStop \/ LoadRow \/ Caught \/ Pause
  BY <1>0, <1>3 DEF PassInv, SendLabels, CheckDone, CheckStop, LoadRow, Caught, Pause,
     DownTypeOK
<1>4. CASE WriteFails \/ \E n \in 1..burst : WriteSome(n)
  BY <1>0, <1>4 DEF PassInv, SendLabels, WriteSome, WriteFails, DownTypeOK
<1> QED
  BY <1>1, <1>2, <1>3, <1>4, Zenon DEF Next, SendLoop, Finished, Receiver,
     RecvStatus, LeaveLoop, CloseDone, Join, CloseConn, StopTimer, vars

\* The products of the rank, unfolded by one burst.
LEMMA PassProducts ==
    ASSUME NEW M \in Nat, NEW c \in 0..CatchUp, CatchUp \in Nat
    PROVE  /\ CatchUp * BurstSteps(M) \in Nat
           /\ (CatchUp - c) * BurstSteps(M) \in Nat
           /\ c < CatchUp => (CatchUp - (c + 1)) * BurstSteps(M) + BurstSteps(M)
                               = (CatchUp - c) * BurstSteps(M)
<1> DEFINE b == BurstSteps(M)
           d == CatchUp - c
<1>1. b \in Nat /\ d \in Nat
  BY DEF BurstSteps
<1>2. CatchUp - (c + 1) = d - 1
  OBVIOUS
<1> HIDE DEF b, d
<1>3. (d - 1) * b + b = d * b /\ CatchUp * b \in Nat /\ d * b \in Nat
  BY <1>1
<1> QED
  BY <1>2, <1>3, Zenon DEF b, d

\* Each step of sendLoop after done lowers the rank.
LEMMA RankFalls ==
    ASSUME NEW M \in Nat, \A r \in 0..MaxIdx : Row[r].t1 <= M /\ Row[r].t2 <= M,
           PassInv, DownTypeOK, done = TRUE, SendLoop
    PROVE  SendRank(M)' < SendRank(M)
<1> DEFINE b == BurstSteps(M)
           whole == CatchUp * b
           left == (CatchUp - caught) * b
<1>1. CatchUp \in Nat \ {0} /\ caught \in 0..CatchUp /\ b = M + 2
  BY SenderAssumption, Zenon DEF PassInv, BurstSteps
<1>2. whole \in Nat /\ left \in Nat
  BY <1>1, PassProducts, Zenon
<1>3. caught < CatchUp => (CatchUp - (caught + 1)) * b + b = left
  BY <1>1, PassProducts, Zenon
<1>4. caught < CatchUp => (CatchUp - (caught + 1)) * b \in Nat
  BY <1>1, PassProducts, SMTT(30)
<1>5. (CatchUp - 0) * b = whole
  BY <1>1
<1> HIDE DEF b, whole, left
<1>6. /\ StepsFrom("top", M) = 1 /\ StepsFrom("pause", M) = 1
      /\ StepsFrom("t2", M) = 2 + left /\ StepsFrom("t1", M) = 3 + whole + left
      /\ StepsFrom("check", M) = 5 + whole + whole
      /\ StepsFrom("load", M) = 4 + whole + whole /\ StepsFrom("ended", M) = 0
  BY Zenon DEF StepsFrom, b, whole, left
<1>7. CASE CheckDone \/ Pause
  <2>1. spc' = "ended" /\ spc \in {"top", "pause"}
    BY <1>7, Zenon DEF CheckDone, Pause
  <2>2. SendRank(M)' = 0
    BY <2>1, Zenon DEF SendRank, StepsFrom
  <2> QED
    BY <1>6, <2>1, <2>2 DEF SendRank
<1>8. CASE LoadRow
  <2>1. spc = "load" /\ spc' \in {"t1", "pause"} /\ caught' = 0
    BY <1>8, Zenon DEF LoadRow
  <2>2. SendRank(M)' \in {1, 3 + whole + whole}
    BY <1>5, <2>1, Zenon DEF SendRank, StepsFrom, b, whole
  <2> QED
    BY <1>2, <1>6, <2>1, <2>2 DEF SendRank
<1>9. CASE SendStop
  <2>1. spc = "check" /\ spc' = "write" /\ resume' = "pause" /\ burst' = 1 /\ sent' = 0
    BY <1>9 DEF SendStop, SendBurst
  <2>2. SendRank(M)' = 2
    BY <2>1 DEF SendRank, StepsFrom
  <2> QED
    BY <1>2, <1>6, <2>1, <2>2 DEF SendRank
<1>10. CASE SendDue1
  <2>1. /\ spc = "t1" /\ spc' = "write" /\ resume' = "t1" /\ caught' = caught + 1
        /\ burst' = Row[row].t1 /\ sent' = 0 /\ caught < CatchUp
    BY <1>10 DEF SendDue1, SendBurst
  <2>2. Row[row].t1 \in Nat /\ Row[row].t1 <= M
    BY BurstSize, Zenon DEF DownTypeOK
  <2>3. SendRank(M)' = 3 + whole + (CatchUp - (caught + 1)) * b + Row[row].t1
    BY <2>1, <2>2 DEF SendRank, StepsFrom, b, whole
  <2> QED
    BY <1>1, <1>2, <1>3, <1>4, <1>6, <2>1, <2>2, <2>3 DEF SendRank
<1>11. CASE SendDue2
  <2>1. /\ spc = "t2" /\ spc' = "write" /\ resume' = "t2" /\ caught' = caught + 1
        /\ burst' = Row[row].t2 /\ sent' = 0 /\ caught < CatchUp
    BY <1>11 DEF SendDue2, SendBurst
  <2>2. Row[row].t2 \in Nat /\ Row[row].t2 <= M
    BY BurstSize, Zenon DEF DownTypeOK
  <2>3. SendRank(M)' = 2 + (CatchUp - (caught + 1)) * b + Row[row].t2
    BY <2>1, <2>2 DEF SendRank, StepsFrom, b
  <2> QED
    BY <1>1, <1>2, <1>3, <1>4, <1>6, <2>1, <2>2, <2>3 DEF SendRank
<1>12. CASE Caught
  <2>1. caught' = 0 /\ ((spc = "t1" /\ spc' = "t2") \/ (spc = "t2" /\ spc' = "top"))
    BY <1>12, Zenon DEF Caught
  <2>2. CASE spc = "t1"
    <3>1. SendRank(M)' = 2 + whole
      BY <1>5, <2>1, <2>2, Zenon DEF SendRank, StepsFrom, b
    <3> QED
      BY <1>2, <1>6, <2>2, <3>1 DEF SendRank
  <2>3. CASE spc = "t2"
    <3>1. SendRank(M)' = 1
      BY <2>1, <2>3, Zenon DEF SendRank, StepsFrom
    <3> QED
      BY <1>2, <1>6, <2>3, <3>1 DEF SendRank
  <2> QED
    BY <2>1, <2>2, <2>3, Zenon
<1>13. CASE spc = "write" /\ (WriteFails \/ \E n \in 1..burst : WriteSome(n))
  <2>1. /\ spc = "write" /\ resume \in {"top", "pause", "t1", "t2"} /\ sent < burst
        /\ burst \in Nat /\ sent \in Nat
    BY <1>13 DEF PassInv, DownTypeOK
  <2>2. StepsFrom(resume, M) \in Nat
    BY <1>2, <1>6, <2>1
  <2>3. UNCHANGED <<resume, caught>>
    BY <1>13, Zenon DEF WriteFails, WriteSome
  <2>4. StepsFrom(resume, M)' = StepsFrom(resume, M)
    BY <2>1, <2>3, Zenon DEF StepsFrom
  <2>5. SendRank(M) = StepsFrom(resume, M) + (burst - sent)
    BY <2>1, Zenon DEF SendRank
  <2>6. CASE spc' = resume
    <3>1. SendRank(M)' = StepsFrom(resume, M)
      BY <2>1, <2>3, <2>4, <2>6, Zenon DEF SendRank
    <3> QED
      BY <2>1, <2>2, <2>5, <3>1
  <2>7. CASE spc' # resume
    <3>1. PICK n \in 1..burst : WriteSome(n)
      BY <1>13, <2>7, Zenon DEF WriteFails
    <3>2. spc' = "write" /\ burst' = burst /\ sent' = sent + n
      BY <2>7, <3>1, Zenon DEF WriteSome
    <3>3. SendRank(M)' = StepsFrom(resume, M) + (burst - (sent + n))
      BY <2>4, <3>2, Zenon DEF SendRank
    <3> QED
      BY <2>1, <2>2, <2>5, <3>1, <3>3
  <2> QED
    BY <2>6, <2>7, Zenon
<1>14. CASE CheckStop
  <2>1. spc = "check" /\ spc' = "load"
    BY <1>14, Zenon DEF CheckStop
  <2>2. SendRank(M)' = 4 + whole + whole
    BY <2>1, Zenon DEF SendRank, StepsFrom, b, whole
  <2> QED
    BY <1>2, <1>6, <2>1, <2>2 DEF SendRank
<1>15. WriteFails \/ (\E n \in 1..burst : WriteSome(n)) => spc = "write"
  BY Zenon DEF WriteFails, WriteSome
<1> QED
  BY <1>7, <1>8, <1>9, <1>10, <1>11, <1>12, <1>13, <1>14, <1>15,
     Zenon DEF SendLoop

\* What TestFinishes rests on: a receiver that waits for sendLoop waits for a
\* bounded number of its steps, for every rate table of bursts of at most M.
THEOREM SenderIsBounded ==
    ASSUME NEW M \in Nat, \A r \in 0..MaxIdx : Row[r].t1 <= M /\ Row[r].t2 <= M
    PROVE  Spec => SenderWindsDown(M)
<1>1. Init => PassInv
  BY SenderAssumption DEF Init, PassInv, SendLabels
<1>2. RateInv /\ PassInv /\ PassInv' /\ DownTypeOK' /\ [Next]_vars =>
         [done => /\ done' /\ SendRank(M)' \in Nat
                  /\ SendLoop => SendRank(M)' < SendRank(M)
                  /\ ~SendLoop => SendRank(M)' = SendRank(M)]_vars
  <2> SUFFICES ASSUME RateInv, PassInv, PassInv', DownTypeOK', Next, done = TRUE
               PROVE  /\ done' = TRUE /\ SendRank(M)' \in Nat
                      /\ SendLoop => SendRank(M)' < SendRank(M)
                      /\ ~SendLoop => SendRank(M)' = SendRank(M)
    BY Zenon
  <2>1. done' = TRUE
    BY Zenon DEF Next, Receiver, RecvStatus, LeaveLoop, CloseDone, Join, CloseConn,
       StopTimer, Finished, vars, SendLoop, CheckDone, CheckStop, LoadRow, SendStop,
       SendDue1, SendDue2, SendBurst, Caught, Pause, WriteSome, WriteFails
  <2>2. SendRank(M)' \in Nat
    <3>1. CatchUp \in Nat /\ caught' \in 0..CatchUp
      BY SenderAssumption, Zenon DEF PassInv
    <3>2. CatchUp * BurstSteps(M) \in Nat /\ (CatchUp - caught') * BurstSteps(M) \in Nat
      BY <3>1, PassProducts, Zenon
    <3> QED
      BY <3>2 DEF SendRank, StepsFrom, PassInv, SendLabels, DownTypeOK
  <2>3. SendLoop => SendRank(M)' < SendRank(M)
    BY RankFalls, Zenon DEF RateInv
  <2>4. ~SendLoop => SendRank(M)' = SendRank(M)
    <3> SUFFICES ASSUME ~SendLoop PROVE SendRank(M)' = SendRank(M)
      BY Zenon
    <3>1. UNCHANGED sender
      BY Zenon DEF Next, Receiver, RecvStatus, LeaveLoop, CloseDone, Join, CloseConn,
         StopTimer, Finished, vars
    <3> QED
      BY <3>1, Zenon DEF SendRank, StepsFrom
  <2> QED
    BY <2>1, <2>2, <2>3, <2>4, Zenon
<1>3. RateInv => DownTypeOK
  BY Zenon DEF RateInv
<1> QED
  BY <1>1, <1>2, <1>3, StepPassInv, RateInvariant, PTL DEF Spec, SenderWindsDown
=============================================================================
