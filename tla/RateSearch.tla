----------------------------- MODULE RateSearch -----------------------------
(***************************************************************************)
(* RateControl driven by whatever the network reports: one adjust per      *)
(* trial interval, and a sub-interval number that only grows.              *)
(***************************************************************************)
EXTENDS RateControl

CONSTANTS Measurements, \* the measurements a trial interval can produce
          MaxSub,       \* bound: sub-intervals in a behaviour
          RetryBound    \* bound: no bad trial once retryThresh has passed it

VARIABLE subNo          \* subIntSeqNo of the last completed sub-interval

searchVars == <<rcVars, subNo>>

ASSUME SearchAssumption ==
    Measurements \subseteq TrialType /\ MaxSub \in Nat /\ RetryBound \in Nat

SearchInit == RcInit /\ subNo = 0

Trial(in) ==
    /\ Bad(in) => retryThresh <= RetryBound
    /\ Adjust(in, subNo)
    /\ UNCHANGED subNo

RollSub == subNo < MaxSub /\ subNo' = subNo + 1 /\ UNCHANGED rcVars

SearchNext == (\E in \in Measurements : Trial(in)) \/ RollSub

SearchSpec == SearchInit /\ [][SearchNext]_searchVars

\* The sub-intervals of a running test end.
FairSearchSpec == SearchSpec /\ WF_searchVars(RollSub)

-----------------------------------------------------------------------------
\* The search reacts in the right direction: a trial that is not good never
\* raises the rate, one that is not bad never lowers it.
ReactsToVerdict ==
    [][\A in \in Measurements :
          Trial(in) /\ ~Static => /\ ~Good(in) => index' <= index
                                  /\ ~Bad(in) => index' >= index]_searchVars

\* Algorithm B backs off by several rows at most once in a test: when the bad
\* trials have reached slowAdjThresh the search stays in single steps.
FastBackOffOnce ==
    [][p.algo = "B" /\ ~Static /\ slowAdjCount >= p.slowAdjThresh =>
          /\ slowAdjCount' >= p.slowAdjThresh
          /\ index' - index \in -1..1]_searchVars

GoodTrial == \E in \in Measurements : Good(in) /\ Trial(in)
BadTrial == \E in \in Measurements : ~Good(in) /\ Bad(in) /\ Trial(in)

\* When trials go on and every one is good from some point on, the search
\* reaches the top row, whatever congestion it has seen before.
ClimbsToTop ==
    WF_searchVars(GoodTrial) =>
    \/ []<><<~(GoodTrial \/ RollSub)>>_searchVars
    \/ <>[](Static \/ index = MaxIdx)

\* When trials go on and every one is bad from some point on, it reaches the
\* bottom row.  Bad is what algo.go takes for it, and that includes a trial whose
\* only fault are CE marks over the threshold of the request, which README.md
\* says "never triggers a rate reduction".  A behaviour in which the threshold of
\* algorithm C outgrows RetryBound is not followed to its end.
FallsToBottom ==
    WF_searchVars(BadTrial) =>
    \/ []<><<~(BadTrial \/ RollSub)>>_searchVars
    \/ <>[](Static \/ index = 0 \/ retryThresh > RetryBound)
=============================================================================
