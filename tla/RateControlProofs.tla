------------------------- MODULE RateControlProofs --------------------------
(* What one call of adjust preserves, for every table, every policed        *)
(* parameter set and every measurement, and what the rate search does over  *)
(* a whole test.                                                            *)
EXTENDS RateSearch, TLAPS

RcInv == RcTypeOK /\ IndexInTable /\ RetryWithinLimit

\* The session's parameters have the types police gives them.
LEMMA PolicedType ==
    ASSUME p \in Params
    PROVE  /\ p.algo \in {"B", "C"} /\ p.srIndexConf \in -1..MaxIdx
           /\ p.highSpeedDelta \in Nat \ {0} /\ p.slowAdjThresh \in Nat \ {0}
BY TableAssumption, Zenon DEF ParamType

\* newRateController starts in the table.
LEMMA InitRcInv == RcInit => RcInv
<1> SUFFICES ASSUME RcInit PROVE RcInv
  BY Zenon
<1>1. p \in Params /\ index = InitialIndex(p) /\ retryThresh = 0 /\ retryCount = 0
  BY Zenon DEF RcInit
<1>2. IndexInTable
  BY <1>1, PolicedType, TableAssumption DEF InitialIndex, IndexInTable
<1>3. RetryWithinLimit
  BY <1>1 DEF RetryWithinLimit, Thresh
<1>4. index \in Int /\ slowAdjCount \in Nat
  BY <1>2, TableAssumption DEF RcInit, IndexInTable
<1>5. update \in BOOLEAN
  BY Zenon DEF RcInit
<1>6. RcTypeOK
  BY <1>1, <1>4, <1>5, Zenon DEF RcTypeOK
<1> QED
  BY <1>2, <1>3, <1>6, Zenon DEF RcInv

\* What one adjust does to the index and the counters, whatever it was fed.
RowStep ==
    /\ index' \in 0..MaxIdx
    /\ slowAdjCount' \in Nat /\ retryCount' \in Nat /\ retryThresh' \in Nat
    /\ update' \in BOOLEAN
    /\ retryCount' < IF retryThresh' = 0 THEN 5 ELSE retryThresh'
    /\ retryThresh' % 5 = 0

\* Each outcome of adjust keeps the index in the table and the retries bounded.
LEMMA SearchRowStep ==
    ASSUME RcInv, NEW in, NEW n, AdjustSearch(in, n) PROVE RowStep
<1> USE PolicedType, TableAssumption
    DEF RcInv, RcTypeOK, IndexInTable, RetryWithinLimit, Thresh
<1>1. CASE RampB
  BY <1>1 DEF RampB, SmallerOf, RowStep
<1>2. CASE StepUpB
  BY <1>2 DEF StepUpB, SmallerOf, RowStep
<1>3. CASE BadB
  BY <1>3 DEF BadB, CountBad, BackOff, SmallerOf, RowStep
<1>4. CASE RampC
  <2>1. index' \in 0..MaxIdx
    BY <1>4 DEF RampC
  <2>2. slowAdjCount' = 0 /\ retryThresh' = Thresh /\ retryCount' = retryCount
    BY <1>4, Zenon DEF RampC
  <2>3. update' \in BOOLEAN
    BY <1>4, Zenon DEF RampC
  <2> QED
    BY <2>1, <2>2, <2>3 DEF RowStep
<1>5. CASE StepUpC
  BY <1>5 DEF StepUpC, SmallerOf, RowStep
<1>6. CASE BadC
  <2>1. CASE ~FastBackOff /\ index > 0 /\ StepDownC
    BY <1>6, <2>1 DEF BadC, StepDownC, CountBad, BackOff, SmallerOf, RowStep
  <2> QED
    BY <1>6, <2>1 DEF BadC, CountBad, BackOff, SmallerOf, RowStep
<1>7. CASE Deferred
  BY <1>7 DEF Deferred, RowStep
<1> QED
  BY <1>1, <1>2, <1>3, <1>4, <1>5, <1>6, <1>7, Zenon DEF AdjustSearch, GoodB, GoodC

\* Whatever the trial showed, adjust keeps the invariant of the search.
LEMMA AdjustKeepsRcInv == ASSUME NEW in, NEW n PROVE RcInv /\ Adjust(in, n) => RcInv'
<1> SUFFICES ASSUME RcInv, Adjust(in, n) PROVE RcInv'
  BY Zenon
<1> USE DEF RcInv, RcTypeOK, IndexInTable, RetryWithinLimit, Thresh
<1>1. p' = p
  BY Zenon DEF Adjust
<1>2. CASE AdjustSuppressed(n) \/ AdjustStatic(n)
  BY <1>1, <1>2, PolicedType, TableAssumption
     DEF AdjustSuppressed, AdjustStatic, Static
<1>3. CASE AdjustSearch(in, n)
  BY <1>1, <1>3, SearchRowStep DEF RowStep
<1> QED
  BY <1>2, <1>3, Zenon DEF Adjust

\* Steps that leave the search alone keep its invariant.
LEMMA FrameKeepsRcInv == RcInv /\ UNCHANGED rcVars => RcInv'
BY Zenon DEF RcInv, RcTypeOK, IndexInTable, RetryWithinLimit, Thresh, rcVars, rcState

-----------------------------------------------------------------------------
(* The search over a whole test                                            *)

SearchInv == RcInv /\ subNo \in Nat

\* A trial keeps the invariant of the search.
LEMMA StepSearchInv == SearchInv /\ [SearchNext]_searchVars => SearchInv'
<1> SUFFICES ASSUME SearchInv, [SearchNext]_searchVars PROVE SearchInv'
  BY Zenon
<1> USE DEF SearchInv
<1>1. ASSUME NEW in \in Measurements, Trial(in) PROVE SearchInv'
  BY <1>1, AdjustKeepsRcInv, Zenon DEF Trial
<1>2. CASE RollSub
  BY <1>2, FrameKeepsRcInv DEF RollSub
<1>3. CASE UNCHANGED searchVars
  BY <1>3, FrameKeepsRcInv, Zenon DEF searchVars
<1> QED
  BY <1>1, <1>2, <1>3, Zenon DEF SearchNext

\* The invariant of the search.
LEMMA SearchInvariant == SearchSpec => []SearchInv
<1>1. SearchInit => SearchInv
  BY InitRcInv DEF SearchInit, SearchInv
<1> QED
  BY <1>1, StepSearchInv, PTL DEF SearchSpec

\* The rate index of adjust always names a row of the table.
THEOREM IndexNeverLeavesTable == SearchSpec => []IndexInTable
BY SearchInvariant, PTL DEF SearchInv, RcInv

\* Algorithm C's retry counter stays below its limit, a multiple of five.
THEOREM RetryIsBounded == SearchSpec => []RetryWithinLimit
BY SearchInvariant, PTL DEF SearchInv, RcInv

-----------------------------------------------------------------------------
\* The index moves with the verdict: up only on a good trial, down only on a
\* bad one.
THEOREM SearchReacts == SearchSpec => ReactsToVerdict
<1> DEFINE Reacts == \A in \in Measurements :
             Trial(in) /\ ~Static => /\ ~Good(in) => index' <= index
                                     /\ ~Bad(in) => index' >= index
<1>1. SearchInv => Reacts
  <2> SUFFICES ASSUME SearchInv, NEW in \in Measurements, Trial(in), ~Static
               PROVE  /\ ~Good(in) => index' <= index
                      /\ ~Bad(in) => index' >= index
    BY Zenon
  <2> USE PolicedType, TableAssumption
      DEF SearchInv, RcInv, RcTypeOK, IndexInTable
  <2>1. CASE AdjustSuppressed(subNo)
    BY <2>1 DEF AdjustSuppressed
  <2>2. (FastRegion /\ (RampB \/ RampC)) \/ StepUpB \/ StepUpC => index' >= index
    BY DEF FastRegion, RampB, RampC, StepUpB, StepUpC, SmallerOf
  <2>3. BadB \/ BadC => index' <= index
    BY DEF BadB, BadC, StepDownC, BackOff
  <2>4. Deferred => index' = index
    BY Zenon DEF Deferred
  <2> QED
    BY <2>1, <2>2, <2>3, <2>4 DEF Trial, Adjust, AdjustStatic, AdjustSearch,
       GoodB, GoodC
<1>2. SearchInv /\ [SearchNext]_searchVars => [Reacts]_searchVars
  BY <1>1, Zenon
<1> QED
  BY <1>2, SearchInvariant, PTL DEF SearchSpec, ReactsToVerdict

\* Algorithm B leaves its fast mode for good at the slowAdjThresh-th bad trial.
THEOREM FastModeEndsForGood == SearchSpec => FastBackOffOnce
<1> DEFINE Slow == p.algo = "B" /\ ~Static /\ slowAdjCount >= p.slowAdjThresh
           Stays == /\ slowAdjCount' >= p.slowAdjThresh
                    /\ index' - index \in -1..1
<1>1. SearchInv /\ [SearchNext]_searchVars => [Slow => Stays]_searchVars
  <2> SUFFICES ASSUME SearchInv, SearchNext, Slow PROVE Stays
    BY Zenon
  <2> USE PolicedType, TableAssumption
      DEF SearchInv, RcInv, RcTypeOK, IndexInTable
  <2>1. ASSUME NEW in \in Measurements, Trial(in) PROVE Stays
    <3>1. CASE AdjustSuppressed(subNo)
      BY <3>1 DEF AdjustSuppressed
    <3>2. ~FastRegion /\ ~FastBackOff
      BY DEF FastRegion, FastBackOff
    <3>3. StepUpB \/ BadB \/ Deferred => Stays
      BY <3>2 DEF StepUpB, BadB, Deferred, CountBad, SmallerOf
    <3> QED
      BY <2>1, <3>1, <3>2, <3>3, Zenon DEF Trial, Adjust, AdjustStatic, AdjustSearch,
         GoodB
  <2>2. CASE RollSub
    BY <2>2 DEF RollSub, rcVars, rcState
  <2> QED
    BY <2>1, <2>2, Zenon DEF SearchNext
<1> QED
  BY <1>1, SearchInvariant, PTL DEF SearchSpec, FastBackOffOnce
-----------------------------------------------------------------------------
(* How far a run of good or of bad trials can be from its end              *)

\* The good trials that are left to the top row: algorithm C's ramp moves on
\* every second of them, update telling which.
ClimbRank == 2 * (MaxIdx - index) + (IF update THEN 0 ELSE 1)

\* A trial the search acts on.
Heeded == ~Static /\ ~Suppressed(subNo)

\* Each good trial brings the top nearer and none leaves it, each bad trial
\* brings the bottom nearer and none leaves it, and a trial between the
\* thresholds takes nothing back: ClimbRank good trials or index bad ones are
\* enough, from any state of the search and with any number of trials between
\* the thresholds among them.
EveryTrialCounts ==
    [][\A in \in Measurements : Trial(in) /\ Heeded =>
          /\ Good(in) => \/ index = MaxIdx /\ index' = MaxIdx
                         \/ index < MaxIdx /\ ClimbRank' < ClimbRank
          /\ ~Good(in) /\ Bad(in) => \/ index = 0 /\ index' = 0
                                     \/ index > 0 /\ index' < index
          /\ ~Good(in) /\ ~Bad(in) => index' = index /\ ClimbRank' = ClimbRank
      ]_searchVars

\* A good trial ends nearer to the top.
LEMMA GoodClimbs ==
    ASSUME RcInv, (p.algo = "B" /\ GoodB) \/ (p.algo = "C" /\ GoodC), p' = p
    PROVE  \/ index = MaxIdx /\ index' = MaxIdx
           \/ index < MaxIdx /\ ClimbRank' < ClimbRank
<1> USE PolicedType, TableAssumption DEF RcInv, RcTypeOK, IndexInTable
<1>1. CASE FastRegion /\ RampB
  <2>1. index < MaxIdx /\ index' \in Int /\ index' > index
    BY <1>1 DEF FastRegion, RampB, SmallerOf
  <2>2. update' = update
    BY <1>1, Zenon DEF RampB
  <2>3. 2 * (MaxIdx - index') + 0 < 2 * (MaxIdx - index) + 0
        /\ 2 * (MaxIdx - index') + 1 < 2 * (MaxIdx - index) + 1
    <3>1. \A i, j, m \in Int : j > i =>
             2 * (m - j) + 0 < 2 * (m - i) + 0 /\ 2 * (m - j) + 1 < 2 * (m - i) + 1
      BY ONLY SMT
    <3>2. index \in Int /\ MaxIdx \in Int
      OBVIOUS
    <3> QED
      BY ONLY <2>1, <3>1, <3>2, Zenon
  <2>4. ClimbRank' < ClimbRank
    BY ONLY <2>2, <2>3, Zenon DEF ClimbRank
  <2> QED
    BY <2>1, <2>4, Zenon
<1>2. CASE FastRegion /\ RampC
  <2>0. index \in Nat /\ index < HighSpeedThresh /\ index < MaxIdx
    BY <1>2 DEF FastRegion
  <2>1. CASE index * 2 > HighSpeedThresh
    <3>1. index' = HighSpeedThresh /\ update' = update
      BY <1>2, <2>1, Zenon DEF RampC
    <3> QED
      BY <2>0, <3>1 DEF ClimbRank
  <2>2. CASE ~(index * 2 > HighSpeedThresh) /\ update = TRUE
    <3>1. update' = FALSE
      BY <1>2, <2>2, Zenon DEF RampC
    <3>2. index' = (IF index = 0 THEN 1 ELSE index) * 2
      BY <1>2, <2>2, Zenon DEF RampC
    <3> QED
      BY <2>0, <2>2, <3>1, <3>2 DEF ClimbRank
  <2>3. CASE ~(index * 2 > HighSpeedThresh) /\ update = FALSE
    <3>1. update' = TRUE
      BY <1>2, <2>3, Zenon DEF RampC
    <3>2. index' = IF index = 0 THEN 1 ELSE index
      BY <1>2, <2>3, Zenon DEF RampC
    <3> QED
      BY <2>0, <2>3, <3>1, <3>2 DEF ClimbRank
  <2> QED
    BY <2>1, <2>2, <2>3, Zenon
<1>3. CASE StepUpB \/ StepUpC
  <2>1. index' = SmallerOf(index + 1, MaxIdx) /\ update' = update
    BY <1>3, Zenon DEF StepUpB, StepUpC
  <2> QED
    BY <2>1 DEF SmallerOf, ClimbRank
<1> QED
  BY <1>1, <1>2, <1>3, Zenon DEF GoodB, GoodC

\* A bad trial ends nearer to the bottom.
LEMMA BadFalls ==
    ASSUME RcInv, BadB \/ BadC
    PROVE  (index = 0 /\ index' = 0) \/ (index > 0 /\ index' < index)
<1> USE PolicedType, TableAssumption DEF RcInv, RcTypeOK, IndexInTable
<1>1. index > 0 => BackOff(index) < index
  BY DEF BackOff
<1>2. index = 0 => BackOff(index) = 0
  BY DEF BackOff
<1> QED
  BY <1>1, <1>2 DEF BadB, BadC, StepDownC

\* What ClimbsToTop and FallsToBottom rest on, for every table, every policed
\* parameter set and every sequence of measurements.
THEOREM TrialsCount == SearchSpec => EveryTrialCounts
<1> DEFINE Counts(in) ==
             /\ Good(in) => \/ index = MaxIdx /\ index' = MaxIdx
                            \/ index < MaxIdx /\ ClimbRank' < ClimbRank
             /\ ~Good(in) /\ Bad(in) => \/ index = 0 /\ index' = 0
                                        \/ index > 0 /\ index' < index
             /\ ~Good(in) /\ ~Bad(in) => index' = index /\ ClimbRank' = ClimbRank
           All == \A in \in Measurements : Trial(in) /\ Heeded => Counts(in)
<1>1. SearchInv => All
  <2> SUFFICES ASSUME SearchInv, NEW in \in Measurements, Trial(in), Heeded
               PROVE  Counts(in)
    BY Zenon
  <2>1. RcInv /\ p' = p /\ AdjustSearch(in, subNo)
    BY Zenon DEF SearchInv, Trial, Adjust, Heeded, AdjustSuppressed, AdjustStatic
  <2>2. CASE Good(in)
    <3>1. (p.algo = "B" /\ GoodB) \/ (p.algo = "C" /\ GoodC)
      BY <2>1, <2>2, Zenon DEF AdjustSearch
    <3> QED
      BY <2>1, <2>2, <3>1, GoodClimbs, Zenon
  <2>3. CASE ~Good(in) /\ Bad(in)
    <3>1. BadB \/ BadC
      BY <2>1, <2>3, Zenon DEF AdjustSearch
    <3> QED
      BY <2>1, <2>3, <3>1, BadFalls, Zenon
  <2>4. CASE ~Good(in) /\ ~Bad(in)
    <3>1. Deferred
      BY <2>1, <2>4, Zenon DEF AdjustSearch
    <3> QED
      BY <2>4, <3>1, Zenon DEF Deferred, ClimbRank
  <2> QED
    BY <2>2, <2>3, <2>4, Zenon
<1>2. SearchInv /\ [SearchNext]_searchVars => [All]_searchVars
  BY <1>1, Zenon
<1> QED
  BY <1>2, SearchInvariant, PTL DEF SearchSpec, EveryTrialCounts

-----------------------------------------------------------------------------
(* Whatever test drives the search                                         *)

\* The index jumps up only before the first congestion, and no further than the
\* high-speed threshold; it jumps down only at the slowAdjThresh-th bad trial;
\* under algorithm B it never jumps again after that.
Discipline ==
    ~Static =>
       /\ index' > index + 1 =>
             FastRegion /\ index' <= HighSpeedThresh /\ slowAdjCount' = 0
       /\ index' < index - 1 => FastBackOff /\ slowAdjCount' = p.slowAdjThresh
       /\ p.algo = "B" /\ slowAdjCount >= p.slowAdjThresh =>
             slowAdjCount' >= p.slowAdjThresh /\ index' - index \in -1..1

RateIsDisciplined == [][Discipline]_rcVars

\* One adjust, whatever it is fed, keeps the discipline.
LEMMA AdjustDisciplined ==
    ASSUME RcInv, NEW in, NEW n, Adjust(in, n) PROVE Discipline
<1> SUFFICES ASSUME ~Static PROVE Discipline
  BY Zenon DEF Discipline
<1> USE PolicedType, TableAssumption DEF RcInv, RcTypeOK, IndexInTable
<1>1. CASE AdjustSuppressed(n)
  BY <1>1 DEF AdjustSuppressed, Discipline
<1>2. CASE FastRegion /\ RampB
  BY <1>2 DEF FastRegion, RampB, SmallerOf, Discipline
<1>3. CASE FastRegion /\ p.algo = "C" /\ RampC
  <2>1. index' \in Int /\ index' >= index /\ index' <= HighSpeedThresh
    BY <1>3 DEF FastRegion, RampC
  <2>2. slowAdjCount' = 0
    BY <1>3, Zenon DEF RampC
  <2> QED
    BY <1>3, <2>1, <2>2 DEF Discipline
<1>4. CASE StepUpB
  BY <1>4 DEF StepUpB, SmallerOf, Discipline
<1>5. CASE p.algo = "C" /\ StepUpC
  <2>1. index' = SmallerOf(index + 1, MaxIdx)
    BY <1>5, Zenon DEF StepUpC
  <2> QED
    BY <1>5, <2>1 DEF SmallerOf, Discipline
<1>6. CASE BadB
  <2>1. slowAdjCount' = CountBad /\ FastBackOff => slowAdjCount' = p.slowAdjThresh
    BY Zenon DEF FastBackOff, CountBad, SmallerOf
  <2>2. index' \in Int /\ index' <= index
    BY <1>6 DEF BadB, BackOff
  <2>3. slowAdjCount >= p.slowAdjThresh => ~FastBackOff /\ CountBad >= p.slowAdjThresh
    BY DEF FastBackOff, CountBad, SmallerOf
  <2>4. ~FastBackOff => index' >= index - 1
    BY <1>6 DEF BadB
  <2> QED
    BY <1>6, <2>1, <2>2, <2>3, <2>4 DEF BadB, Discipline
<1>7. CASE p.algo = "C" /\ BadC
  <2>1. index' \in Int /\ index' <= index
    BY <1>7 DEF BadC, StepDownC, BackOff
  <2>2. ~FastBackOff => index' >= index - 1
    BY <1>7 DEF BadC, StepDownC
  <2>3. FastBackOff => slowAdjCount' = CountBad /\ CountBad = p.slowAdjThresh
    BY <1>7, Zenon DEF BadC, FastBackOff, CountBad, SmallerOf
  <2> QED
    BY <1>7, <2>1, <2>2, <2>3 DEF Discipline
<1>8. CASE Deferred
  BY <1>8 DEF Deferred, Discipline
<1> QED
  BY <1>1, <1>2, <1>3, <1>4, <1>5, <1>6, <1>7, <1>8, Zenon
     DEF Adjust, AdjustStatic, AdjustSearch, GoodB, GoodC

\* The search of any test that only starts it and calls adjust.
LEMMA RunsInvariant == SearchRuns => []RcInv
<1>1. RcInv /\ [AnyAdjust]_rcVars => RcInv'
  BY AdjustKeepsRcInv, FrameKeepsRcInv, Zenon DEF AnyAdjust
<1> QED
  BY <1>1, InitRcInv, PTL DEF SearchRuns

\* A test that only starts its search and calls adjust has a rate in the table,
\* bounded retries and a disciplined rate.
THEOREM RunsAreDisciplined ==
    SearchRuns => [](IndexInTable /\ RetryWithinLimit) /\ RateIsDisciplined
<1>1. RcInv => IndexInTable /\ RetryWithinLimit
  BY Zenon DEF RcInv
<1>2. RcInv /\ [AnyAdjust]_rcVars => [Discipline]_rcVars
  BY AdjustDisciplined, Zenon DEF AnyAdjust
<1> QED
  BY <1>1, <1>2, RunsInvariant, PTL DEF SearchRuns, RateIsDisciplined

\* RateSearch, the search under the bounds of its run, is such a test.
THEOREM SearchIsARun == SearchSpec => SearchRuns
<1>1. [SearchNext]_searchVars /\ SearchInv => [AnyAdjust]_rcVars
  <2> SUFFICES ASSUME SearchInv, [SearchNext]_searchVars PROVE [AnyAdjust]_rcVars
    BY Zenon
  <2>1. ASSUME NEW in \in Measurements, Trial(in) PROVE AnyAdjust
    BY <2>1, SearchAssumption, Zenon DEF SearchInv, Trial, AnyAdjust
  <2> QED
    BY <2>1, Zenon DEF SearchNext, RollSub, searchVars
<1> QED
  BY <1>1, SearchInvariant, PTL DEF SearchSpec, SearchInit, SearchRuns
=============================================================================
