----------------------------- MODULE RateControl -----------------------------
(***************************************************************************)
(* The sending rate search of internal/udpst/algo.go: one adjust per trial *)
(* interval moves the index into the rate table.  p is the session's       *)
(* policed parameters, fixed for the test.                                 *)
(***************************************************************************)
EXTENDS UdpstNumbers

CONSTANTS HighSpeedThresh,  \* RateTable.HighSpeedThresh
          MaxIdx,           \* len(Rows) - 1
          Params            \* the parameter records police can produce

VARIABLES p, index, slowAdjCount, retryCount, retryThresh, update

rcState == <<index, slowAdjCount, retryCount, retryThresh, update>>
rcVars == <<p, rcState>>

ParamType ==
    [algo : {"B", "C"}, srIndexConf : -1..MaxIdx, indexIsStart : BOOLEAN,
     highSpeedDelta : Nat \ {0}, slowAdjThresh : Nat \ {0}, seqErrThresh : Nat,
     lowThresh : Nat, upperThresh : Nat, useOwDelVar : BOOLEAN,
     ignoreOooDup : BOOLEAN, ecnCEThresh : Nat, srAdjSupp : Nat]

ASSUME TableAssumption ==
    /\ HighSpeedThresh \in Nat /\ HighSpeedThresh >= 2
    /\ MaxIdx \in Nat /\ MaxIdx >= HighSpeedThresh
    /\ Params \subseteq ParamType

\* session.initialIndex
InitialIndex(q) == IF q.srIndexConf >= 0 THEN q.srIndexConf ELSE 0

\* newRateController
RcInit ==
    /\ p \in Params
    /\ index = InitialIndex(p)
    /\ slowAdjCount = 0 /\ retryCount = 0 /\ retryThresh = 0 /\ update = FALSE

-----------------------------------------------------------------------------
(* The verdict on a trial: in holds the counters of trialInput.            *)

TrialType == [loss : Nat, ooo : Nat, dup : Nat, dvSum : Nat, dvCnt : Nat,
              rtt : Nat \cup {NoDelay}, rx : Nat, ce : Nat]

SeqErr(in) ==
    in.loss + (IF p.ignoreOooDup THEN 0 ELSE (in.ooo + in.dup) % Word)

\* Without data the delay is lowThresh, which is neither good nor bad.
Delay(in) ==
    IF p.useOwDelVar
    THEN IF in.dvCnt > 0
         THEN RoundedMean(in.dvSum, in.dvCnt)
         ELSE p.lowThresh
    ELSE IF in.rtt # NoDelay THEN in.rtt ELSE p.lowThresh

CEExceeded(in) ==
    /\ p.ecnCEThresh > 0 /\ in.ce > 0
    /\ in.ce > ((((((p.ecnCEThresh - 1) * in.rx * 10) % Word) \div 255) + 5)
                    % Word) \div 10

Good(in) ==
    SeqErr(in) <= p.seqErrThresh /\ Delay(in) < p.lowThresh /\ ~CEExceeded(in)
Bad(in) ==
    SeqErr(in) > p.seqErrThresh \/ Delay(in) > p.upperThresh \/ CEExceeded(in)

Suppressed(sub) == p.srAdjSupp > 0 /\ sub < p.srAdjSupp
Static == p.srIndexConf >= 0 /\ ~p.indexIsStart

-----------------------------------------------------------------------------
(* adjust and adjustAlgoC, one action per outcome.                         *)

\* The search has not yet been slowed down by congestion.
FastRegion == index < HighSpeedThresh /\ slowAdjCount < p.slowAdjThresh

SmallerOf(a, b) == IF a < b THEN a ELSE b

\* Fault: the ramp is not stopped at the table's high-speed threshold.
RampB_Unclamped ==
    /\ index' = index + p.highSpeedDelta /\ slowAdjCount' = 0
    /\ UNCHANGED <<retryCount, retryThresh, update>>

RampB ==
    /\ index' = SmallerOf(index + p.highSpeedDelta, HighSpeedThresh)
    /\ slowAdjCount' = 0
    /\ UNCHANGED <<retryCount, retryThresh, update>>

\* Faults: slow climbing forgives earlier congestion, or stops where the fast
\* region ends.
StepUpB_ResetsCount ==
    /\ index' = SmallerOf(index + 1, MaxIdx) /\ slowAdjCount' = 0
    /\ UNCHANGED <<retryCount, retryThresh, update>>

StepUpB_StopsEarly ==
    /\ index' = SmallerOf(index + 1, HighSpeedThresh)
    /\ UNCHANGED <<slowAdjCount, retryCount, retryThresh, update>>

StepUpB ==
    /\ index' = SmallerOf(index + 1, MaxIdx)
    /\ UNCHANGED <<slowAdjCount, retryCount, retryThresh, update>>

GoodB == (FastRegion /\ RampB) \/ (~FastRegion /\ StepUpB)

\* The back-off both algorithms share: three deltas at once when the count of
\* bad trials reaches the threshold, one row otherwise.
BackOff(i) == IF i > p.highSpeedDelta * 3 THEN i - p.highSpeedDelta * 3 ELSE 0
FastBackOff == index < HighSpeedThresh /\ slowAdjCount + 1 = p.slowAdjThresh

\* Above the threshold only the comparisons with it matter, so the count of
\* bad trials is kept up to it.
CountBad == SmallerOf(slowAdjCount + 1, p.slowAdjThresh)

\* Fault: the lowest row is not reached.
BadB_StopsAtOne ==
    /\ slowAdjCount' = CountBad
    /\ index' = IF FastBackOff THEN BackOff(index)
                ELSE IF index > 1 THEN index - 1 ELSE index
    /\ UNCHANGED <<retryCount, retryThresh, update>>

BadB ==
    /\ slowAdjCount' = CountBad
    /\ index' = IF FastBackOff THEN BackOff(index)
                ELSE IF index > 0 THEN index - 1 ELSE 0
    /\ UNCHANGED <<retryCount, retryThresh, update>>

\* retryThresh as adjustAlgoC sees it: 0 stands for 5.
Thresh == IF retryThresh = 0 THEN 5 ELSE retryThresh

\* Doubling on alternate trials.
RampC ==
    /\ IF index * 2 > HighSpeedThresh
       THEN index' = HighSpeedThresh /\ update' = update
       ELSE LET from == IF index = 0 THEN 1 ELSE index
            IN  index' = (IF update THEN from * 2 ELSE from) /\ update' = ~update
    /\ slowAdjCount' = 0 /\ retryThresh' = Thresh
    /\ UNCHANGED retryCount

StepUpC ==
    LET count == IF index < MaxIdx THEN retryCount + 1 ELSE retryCount
        again == count >= Thresh
    IN  /\ index' = SmallerOf(index + 1, MaxIdx)
        /\ slowAdjCount' = IF again THEN 0 ELSE slowAdjCount
        /\ retryCount' = IF again THEN 0 ELSE count
        /\ retryThresh' = IF again THEN Thresh + 5 ELSE Thresh
        /\ UNCHANGED update

GoodC == (FastRegion /\ RampC) \/ (~FastRegion /\ StepUpC)

StepDownC ==
    LET again == retryCount + 1 >= Thresh
    IN  /\ index' = index - 1
        /\ slowAdjCount' = IF again THEN 0 ELSE CountBad
        /\ retryCount' = IF again THEN 0 ELSE retryCount + 1

BadC ==
    /\ \/ /\ FastBackOff
          /\ index' = BackOff(index) /\ slowAdjCount' = CountBad
          /\ UNCHANGED retryCount
       \/ ~FastBackOff /\ index > 0 /\ StepDownC
       \/ /\ ~FastBackOff /\ index = 0
          /\ slowAdjCount' = CountBad /\ UNCHANGED <<index, retryCount>>
    /\ retryThresh' = Thresh
    /\ UNCHANGED update

\* Between the thresholds the decision is deferred.
Deferred ==
    /\ retryThresh' = IF p.algo = "C" THEN Thresh ELSE retryThresh
    /\ UNCHANGED <<index, slowAdjCount, retryCount, update>>

AdjustSuppressed(sub) ==
    /\ Suppressed(sub)
    /\ index' = IF Static THEN 0 ELSE index
    /\ UNCHANGED <<slowAdjCount, retryCount, retryThresh, update>>

AdjustStatic(sub) ==
    /\ ~Suppressed(sub) /\ Static
    /\ index' = p.srIndexConf
    /\ UNCHANGED <<slowAdjCount, retryCount, retryThresh, update>>

AdjustSearch(in, sub) ==
    /\ ~Suppressed(sub) /\ ~Static
    /\ \/ Good(in) /\ p.algo = "B" /\ GoodB
       \/ Good(in) /\ p.algo = "C" /\ GoodC
       \/ ~Good(in) /\ Bad(in) /\ p.algo = "B" /\ BadB
       \/ ~Good(in) /\ Bad(in) /\ p.algo = "C" /\ BadC
       \/ ~Good(in) /\ ~Bad(in) /\ Deferred

\* in is the trial's measurement, sub its sub-interval number.
Adjust(in, sub) ==
    /\ AdjustSuppressed(sub) \/ AdjustStatic(sub) \/ AdjustSearch(in, sub)
    /\ UNCHANGED p

\* What a test may do to its search: start it and call adjust, nothing else.
AnyAdjust == \E in \in TrialType, n \in Nat : Adjust(in, n)
SearchRuns == RcInit /\ [][AnyAdjust]_rcVars

-----------------------------------------------------------------------------
(* Properties                                                              *)

\* The values the state of the rate search takes.
RcTypeOK ==
    /\ p \in Params /\ index \in Int
    /\ slowAdjCount \in Nat /\ retryCount \in Nat /\ retryThresh \in Nat
    /\ update \in BOOLEAN

\* The index never leaves the rate table, so no use of Rows[rc.index] fails.
IndexInTable == index \in 0..MaxIdx

\* Algorithm C: the trials towards the next fast retry never pass the limit,
\* which starts at 5 and grows by 5.
RetryWithinLimit ==
    /\ retryCount < Thresh
    /\ retryThresh % 5 = 0
=============================================================================
