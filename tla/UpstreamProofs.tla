--------------------------- MODULE UpstreamProofs ---------------------------
(* Proofs about the receive loop of an upstream test, whatever the network  *)
(* loses, repeats or reorders and however the clock interleaves with it.    *)
EXTENDS UpstreamTest, RateControlProofs

USE DEF clock, client, engine, rxVars, rcVars, rcState, streamVars, delayVars, subVars

\* The counters of a trial that has seen no datagram are those of a new one.
TrialInv ==
    /\ DOMAIN trial = DOMAIN ZeroStats /\ trial.rx \in Nat
    /\ trial.rx = 0 => trial = ZeroStats

LoopInv == RcInv /\ statusSeq \in Nat /\ TrialInv

\* recordLoad counts the datagram, whatever else it finds about it.
LEMMA CountedDatagram ==
    ASSUME NEW c, NEW d, DOMAIN c = DOMAIN ZeroStats, c.rx \in Nat
    PROVE  DOMAIN Counted(c, d) = DOMAIN ZeroStats /\ Counted(c, d).rx = c.rx + 1
<1>1. /\ DOMAIN SeqCounted(c, d.seq) = DOMAIN ZeroStats
      /\ SeqCounted(c, d.seq).rx = c.rx + 1
  BY Zenon DEF SeqCounted, ZeroStats
<1>2. ASSUME NEW e, DOMAIN e = DOMAIN ZeroStats, NEW v
      PROVE  DOMAIN DelayCounted(e, v) = DOMAIN ZeroStats /\ DelayCounted(e, v).rx = e.rx
  BY <1>2, Zenon DEF DelayCounted, ZeroStats
<1> QED
  BY <1>1, <1>2, Zenon DEF Counted

\* Every step of loop, clock and client keeps the search in its table and the
\* counters of an empty trial empty.
LEMMA StepLoopInv == LoopInv /\ [Next]_vars => LoopInv'
<1> SUFFICES ASSUME LoopInv, [Next]_vars PROVE LoopInv'
  BY Zenon
<1>0. RcInv /\ statusSeq \in Nat /\ TrialInv
  BY Zenon DEF LoopInv
<1>a. ASSUME UNCHANGED rcVars, trial' = trial, statusSeq' = statusSeq PROVE LoopInv'
  BY <1>0, <1>a, FrameKeepsRcInv, Zenon DEF LoopInv, TrialInv
<1>1. CASE LoopStatus
  <2>1. RcInv'
    BY <1>0, <1>1, AdjustKeepsRcInv, Zenon DEF LoopStatus, SendStatus
  <2>2. trial' = ZeroStats /\ statusSeq' = statusSeq + 1
    BY <1>1, Zenon DEF LoopStatus, SendStatus, ResetTrial
  <2>3. TrialInv'
    BY <2>2, Zenon DEF TrialInv, ZeroStats
  <2> QED
    BY <1>0, <2>1, <2>2, <2>3 DEF LoopInv
<1>2. ASSUME NEW m \in net, RecvLoad(m) PROVE LoopInv'
  <2>1. PICK d : RecordLoad(d)
    BY <1>2, Zenon DEF RecvLoad
  <2>2. trial' = Counted(trial, d)
    BY <2>1, Zenon DEF RecordLoad
  <2>3. TrialInv'
    BY <1>0, <2>2, CountedDatagram DEF TrialInv
  <2>4. UNCHANGED rcVars /\ statusSeq' = statusSeq
    BY <1>2, Zenon DEF RecvLoad
  <2> QED
    BY <1>0, <2>3, <2>4, FrameKeepsRcInv, Zenon DEF LoopInv
<1>3. CASE WatchdogBreak \/ LoopNoStatus \/ ReadDeadline \/ ReadError \/ RecvOther
            \/ EndBatch \/ Fold
  BY <1>3, <1>a, Zenon DEF WatchdogBreak, LoopNoStatus, ReadDeadline, ReadError,
     RecvOther, EndBatch, Fold
<1>4. CASE Tick \/ ClientSends \/ ClientStops \/ UNCHANGED vars
  BY <1>4, <1>a, Zenon DEF Tick, ClientSends, ClientStops, vars
<1> QED
  BY <1>1, <1>2, <1>3, <1>4, Zenon DEF Next

\* The invariant of the loop.
LEMMA LoopInvariant == Spec => []LoopInv
<1>1. Init => LoopInv
  <2> SUFFICES ASSUME Init PROVE LoopInv
    BY Zenon
  <2>1. TrialInv
    BY Zenon DEF Init, RxInit, TrialInv, ZeroStats
  <2> QED
    BY <2>1, InitRcInv, Zenon DEF Init, LoopInv
<1> QED
  BY <1>1, StepLoopInv, PTL DEF Spec

\* The rate the loop announces is a row of the table, in every status of every
\* upstream test.
THEOREM UpstreamRateInTable == Spec => []IndexInTable
<1>1. LoopInv => IndexInTable
  BY Zenon DEF LoopInv, RcInv
<1> QED
  BY <1>1, LoopInvariant, PTL

-----------------------------------------------------------------------------
\* A trial without datagrams is neither good nor bad, unless a round-trip sample
\* of an earlier one makes it so.
LEMMA EmptyTrialVerdict ==
    ASSUME RcInv, trial = ZeroStats
    PROVE  /\ Good(TrialInput) => SampleKept /\ rttVarSample < p.lowThresh
           /\ Bad(TrialInput) => SampleKept /\ rttVarSample > p.upperThresh
<1> DEFINE in == TrialInput
<1>1. /\ in.loss = 0 /\ in.ooo = 0 /\ in.dup = 0 /\ in.dvCnt = 0 /\ in.ce = 0
      /\ in.rtt = rttVarSample
  BY Zenon DEF TrialInput, ZeroStats
<1>2. /\ p.lowThresh \in Nat /\ p.upperThresh \in Nat /\ p.seqErrThresh \in Nat
      /\ p.lowThresh <= p.upperThresh
  BY ThresholdAssumption, TableAssumption, Zenon DEF RcInv, RcTypeOK, ParamType
<1> HIDE DEF in
<1>3. IF SampleKept THEN Delay(in) = rttVarSample ELSE Delay(in) = p.lowThresh
  <2>1. ~(in.dvCnt > 0)
    BY <1>1
  <2> QED
    BY <1>1, <2>1, Zenon DEF Delay, SampleKept
<1>4. SeqErr(in) = 0
  BY <1>1, WordAssumption DEF SeqErr
<1>5. ~CEExceeded(in)
  BY <1>1 DEF CEExceeded
<1>6. /\ Good(in) => Delay(in) < p.lowThresh
      /\ Bad(in) => Delay(in) > p.upperThresh
  BY <1>2, <1>4, <1>5 DEF Good, Bad
<1>7. ~(p.lowThresh < p.lowThresh) /\ ~(p.lowThresh > p.upperThresh)
  BY <1>2
<1> QED
  BY <1>3, <1>6, <1>7, Zenon DEF in

\* A search step with a verdict that is not good does not raise the index, and one
\* with a verdict that is not bad does not lower it.
LEMMA VerdictMoves ==
    ASSUME RcInv, NEW in, NEW n, Adjust(in, n), ~Static
    PROVE  (index' > index => Good(in)) /\ (index' < index => Bad(in))
<1>0. /\ index \in Nat /\ index <= MaxIdx /\ MaxIdx \in Nat /\ HighSpeedThresh \in Nat
      /\ p.highSpeedDelta \in Nat
  BY TableAssumption DEF RcInv, RcTypeOK, IndexInTable, ParamType
<1>1. CASE AdjustSuppressed(n)
  BY <1>0, <1>1 DEF AdjustSuppressed
<1>2. CASE AdjustSearch(in, n) /\ Good(in)
  <2>1. GoodB \/ GoodC
    BY <1>2, Zenon DEF AdjustSearch
  <2>2. ~(index' < index)
    BY <1>0, <2>1 DEF GoodB, GoodC, FastRegion, RampB, StepUpB, RampC, StepUpC, SmallerOf
  <2> QED
    BY <1>2, <2>2, Zenon
<1>3. CASE AdjustSearch(in, n) /\ ~Good(in) /\ Bad(in)
  <2>1. BadB \/ BadC
    BY <1>3, Zenon DEF AdjustSearch
  <2>2. ~(index' > index)
    BY <1>0, <2>1 DEF BadB, BadC, FastBackOff, BackOff, StepDownC
  <2> QED
    BY <1>3, <2>2, Zenon
<1>4. CASE AdjustSearch(in, n) /\ ~Good(in) /\ ~Bad(in)
  <2>1. index' = index
    BY <1>4, Zenon DEF AdjustSearch, Deferred
  <2> QED
    BY <1>0, <2>1
<1> QED
  BY <1>1, <1>2, <1>3, <1>4, Zenon DEF Adjust, AdjustStatic

\* A trial in which nothing arrived moves the rate only as the round-trip sample
\* kept from an earlier one says, for every table, every policed parameter set
\* and every history of the test.
THEOREM EmptyTrialsMoveBySample == Spec => EmptyTrialsFollowSample
<1> DEFINE Empty == statusSeq' # statusSeq /\ trial.rx = 0 /\ ~Static
           Follows == /\ index' > index => SampleKept /\ rttVarSample < p.lowThresh
                      /\ index' < index => SampleKept /\ rttVarSample > p.upperThresh
<1>1. LoopInv /\ [Next]_vars => [Empty => Follows]_vars
  <2> SUFFICES ASSUME LoopInv, Next, Empty PROVE Follows
    BY Zenon
  <2>1. LoopStatus
    BY Zenon DEF Next, WatchdogBreak, LoopNoStatus, ReadDeadline, ReadError, RecvLoad,
           RecvOther, EndBatch, Fold, Tick, ClientSends, ClientStops, vars
  <2>2. Adjust(TrialInput, subIntSeq)
    BY <2>1, Zenon DEF LoopStatus, SendStatus
  <2>3. RcInv /\ trial = ZeroStats
    BY Zenon DEF LoopInv, TrialInv
  <2> QED
    BY <2>2, <2>3, EmptyTrialVerdict, VerdictMoves, Zenon
<1> QED
  BY <1>1, LoopInvariant, PTL DEF Spec, EmptyTrialsFollowSample

-----------------------------------------------------------------------------
(* The search the loop drives                                              *)

\* The counters adjust is fed are those of a trial.
CountFields(c) ==
    /\ DOMAIN c = DOMAIN ZeroStats
    /\ c.rx \in Nat /\ c.loss \in Nat /\ c.ooo \in Nat /\ c.dup \in Nat
    /\ c.dvSum \in Nat /\ c.dvCnt \in Nat

\* What the trial's measurement is computed from: counters, the numbers of the
\* stream, the clock offset and the round trips.
InputInv ==
    /\ CountFields(trial) /\ seq \in Nat /\ subIntSeq \in Nat
    /\ clockDeltaMin \in Int
    /\ rttMin \in Nat \cup {NoDelay} /\ rttVarSample \in Nat \cup {NoDelay}
    /\ cseq \in Nat /\ \A m \in net : m.seq \in Nat

\* recordLoad keeps the counters natural numbers, whatever wraps.
LEMMA CountedFields ==
    ASSUME InputInv, NEW d, d.seq \in Nat, d.delta \in Int PROVE CountFields(Counted(trial, d))
<1> DEFINE c == trial
           n == d.seq
           x == SeqCounted(c, n)
           v == DelayVar(d.delta)
<1>0. CountFields(c) /\ seq \in Int /\ n \in Int
  BY DEF InputInv
<1>1. \A k \in Int : k % Word \in Nat
  BY WordAssumption
<1>2. v \in Nat
  <2>1. NewClockMin(d.delta) \in Int
    BY Zenon DEF NewClockMin, InputInv
  <2>2. d.delta - NewClockMin(d.delta) \in Int
    BY <2>1
  <2> QED
    BY <1>1, <2>2, Zenon DEF DelayVar
<1>3. CountFields(x)
  <2>1. (c.loss + Gap(n)) % Word \in Nat
    <3>1. (n - seq - 1) % Word \in Nat
      BY <1>0, <1>1
    <3>2. c.loss + Gap(n) \in Int
      BY <1>0, <3>1 DEF Gap, CountFields
    <3> QED
      BY <1>1, <3>2, Zenon
  <2>2. TakeBack(c.loss) \in Nat /\ c.rx + 1 \in Nat /\ c.ooo + 1 \in Nat /\ c.dup + 1 \in Nat
    BY <1>0 DEF TakeBack, CountFields
  <2>3. CASE Advances(n)
    BY <1>0, <2>1, <2>2, <2>3, Zenon DEF SeqCounted, CountFields, ZeroStats
  <2>4. CASE ~Advances(n) /\ InHistory(n)
    BY <1>0, <2>2, <2>4, Zenon DEF SeqCounted, CountFields, ZeroStats
  <2>5. CASE ~Advances(n) /\ ~InHistory(n)
    BY <1>0, <2>2, <2>5, Zenon DEF SeqCounted, CountFields, ZeroStats
  <2> QED
    BY <2>3, <2>4, <2>5, Zenon
<1> HIDE DEF x, v
<1>4. CountFields(DelayCounted(x, v))
  <2>1. (x.dvSum + v) % Word \in Nat /\ x.dvCnt + 1 \in Nat
    BY <1>1, <1>2, <1>3 DEF CountFields
  <2> QED
    BY <1>3, <2>1, Zenon DEF DelayCounted, CountFields, ZeroStats
<1> QED
  BY <1>3, <1>4, Zenon DEF Counted, x, v

\* Every step of loop, clock and client keeps what a measurement is made of.
LEMMA StepInputInv == InputInv /\ [Next]_vars => InputInv'
<1> SUFFICES ASSUME InputInv, [Next]_vars PROVE InputInv'
  OBVIOUS
<1>a. ASSUME UNCHANGED <<trial, streamVars, delayVars, subIntSeq, net, cseq>>
      PROVE  InputInv'
  BY <1>a, Zenon DEF InputInv, CountFields
<1>1. CASE LoopStatus
  <2>1. /\ trial' = ZeroStats /\ subIntSeq' \in {subIntSeq, subIntSeq + 1}
        /\ UNCHANGED <<streamVars, delayVars, net, cseq>>
    BY <1>1, Zenon DEF LoopStatus, SendStatus, MaybeRoll, ResetTrial
  <2>2. CountFields(ZeroStats)
    BY Zenon DEF CountFields, ZeroStats
  <2>3. subIntSeq' \in Nat
    BY <2>1 DEF InputInv
  <2> QED
    BY <2>1, <2>2, <2>3, Zenon DEF InputInv
<1>2. ASSUME NEW m \in net, RecvLoad(m) PROVE InputInv'
  <2>1. PICK d \in [seq : {m.seq}, delta : Deltas, echo : 0..statusSeq, rtt : Rtts] :
           RecordLoad(d)
    BY <1>2, Zenon DEF RecvLoad
  <2>2. d.seq \in Nat /\ d.delta \in Int /\ d.rtt \in Int
    BY <2>1, TimeAssumption, Zenon DEF InputInv
  <2>3. CountFields(trial')
    BY <2>1, <2>2, CountedFields, Zenon DEF RecordLoad
  <2>4. seq' \in Nat /\ subIntSeq' = subIntSeq
    BY <2>1, <2>2, Zenon DEF RecordLoad, RecordSeq, InputInv
  <2>5. /\ clockDeltaMin' \in Int
        /\ rttMin' \in Nat \cup {NoDelay} /\ rttVarSample' \in Nat \cup {NoDelay}
    <3>1. CASE Advances(d.seq)
      <4>1. RecordDelay(d) /\ RecordRTT(d)
        BY <2>1, <3>1, Zenon DEF RecordLoad
      <4>2. clockDeltaMin' \in Int
        BY <2>2, <4>1, Zenon DEF RecordDelay, NewClockMin, InputInv
      <4>3. rttMin' \in Nat \cup {NoDelay} /\ rttVarSample' \in Nat \cup {NoDelay}
        BY <2>2, <4>1 DEF RecordRTT, InputInv, NoDelay
      <4> QED
        BY <4>2, <4>3, Zenon
    <3>2. CASE ~Advances(d.seq)
      BY <2>1, <3>2, Zenon DEF RecordLoad, InputInv
    <3> QED
      BY <3>1, <3>2, Zenon
  <2>6. cseq' = cseq /\ net' \subseteq net
    BY <1>2, Zenon DEF RecvLoad
  <2> QED
    BY <2>3, <2>4, <2>5, <2>6, Zenon DEF InputInv
<1>3. CASE WatchdogBreak \/ LoopNoStatus \/ ReadDeadline \/ ReadError \/ RecvOther
            \/ EndBatch
  BY <1>3, <1>a, Zenon DEF WatchdogBreak, LoopNoStatus, ReadDeadline, ReadError,
     RecvOther, EndBatch
<1>4. CASE Fold
  <2>1. /\ subIntSeq' \in {subIntSeq, subIntSeq + 1}
        /\ UNCHANGED <<trial, streamVars, delayVars, net, cseq>>
    BY <1>4, Zenon DEF Fold, FinalRoll, MaybeRoll
  <2> QED
    BY <2>1 DEF InputInv, CountFields
<1>5. CASE ClientSends
  <2>1. UNCHANGED <<trial, streamVars, delayVars, subIntSeq>>
    BY <1>5, Zenon DEF ClientSends
  <2>2. cseq' \in Nat /\ \A m \in net' : m.seq \in Nat
    BY <1>5 DEF ClientSends, InputInv
  <2> QED
    BY <2>1, <2>2, Zenon DEF InputInv, CountFields
<1>6. CASE Tick \/ ClientStops \/ UNCHANGED vars
  BY <1>6, <1>a, Zenon DEF Tick, ClientStops, vars
<1> QED
  BY <1>1, <1>2, <1>3, <1>4, <1>5, <1>6, Zenon DEF Next

\* The receive loop touches its search only through adjust, fed with the
\* counters of the trial that ends: whatever arrives, and whatever wraps.
THEOREM UpstreamDrivesSearch == Spec => SearchRuns
<1>1. Init => InputInv /\ RcInit
  BY DEF Init, RxInit, InputInv, CountFields, ZeroStats
<1>2. InputInv /\ [Next]_vars => [AnyAdjust]_rcVars
  <2> SUFFICES ASSUME InputInv, [Next]_vars PROVE [AnyAdjust]_rcVars
    BY Zenon
  <2>1. CASE LoopStatus
    <3>1. TrialInput \in TrialType
      BY Zenon DEF TrialInput, TrialType, InputInv, CountFields
    <3>2. subIntSeq \in Nat /\ Adjust(TrialInput, subIntSeq)
      BY <2>1, Zenon DEF InputInv, LoopStatus, SendStatus
    <3>3. AnyAdjust
      BY ONLY <3>1, <3>2, Zenon DEF AnyAdjust
    <3> QED
      BY <3>3, Zenon
  <2>2. CASE Next /\ ~LoopStatus
    BY <2>2, Zenon DEF Next, WatchdogBreak, LoopNoStatus, ReadDeadline, ReadError,
       RecvLoad, RecvOther, EndBatch, Fold, Tick, ClientSends, ClientStops, vars
  <2> QED
    BY <2>1, <2>2, Zenon DEF vars
<1> QED
  BY <1>1, <1>2, StepInputInv, PTL DEF Spec, SearchRuns

\* So the rate of an upstream test jumps only as the algorithm allows.
THEOREM UpstreamIsDisciplined == Spec => RateIsDisciplined
BY UpstreamDrivesSearch, RunsAreDisciplined, PTL
=============================================================================
