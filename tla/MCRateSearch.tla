---------------------------- MODULE MCRateSearch ----------------------------
(* Small instances of RateSearch.                                          *)
EXTENDS RateSearch

BaseParams ==
    [algo |-> "B", srIndexConf |-> -1, indexIsStart |-> FALSE,
     highSpeedDelta |-> 1, slowAdjThresh |-> 2, seqErrThresh |-> 1,
     lowThresh |-> 3, upperThresh |-> 6, useOwDelVar |-> FALSE,
     ignoreOooDup |-> FALSE, ecnCEThresh |-> 0, srAdjSupp |-> 0]

\* Every combination of algorithm, step, threshold and start.
SearchParams ==
    {[BaseParams EXCEPT !.algo = a, !.highSpeedDelta = d, !.slowAdjThresh = t,
                        !.srIndexConf = c, !.indexIsStart = (c >= 0),
                        !.useOwDelVar = o]
        : a \in {"B", "C"}, d \in {1, 2, 7}, t \in {1, 2, 3}, c \in {-1, 5},
          o \in BOOLEAN}
\* Fixed rates and suppression, with the other ways to be congested.
OtherParams ==
    {[BaseParams EXCEPT !.algo = a, !.srIndexConf = c, !.srAdjSupp = n,
                        !.ignoreOooDup = g, !.ecnCEThresh = e]
        : a \in {"B", "C"}, c \in {-1, 3, 8}, n \in {0, 2}, g \in BOOLEAN,
          e \in {0, 128}}
AllParams == SearchParams \cup OtherParams

Quiet == [loss |-> 0, ooo |-> 0, dup |-> 0, dvSum |-> 0, dvCnt |-> 2,
          rtt |-> 0, rx |-> 2, ce |-> 0]
MCTrials ==
    {Quiet,                                        \* good
     [Quiet EXCEPT !.dvCnt = 0, !.rtt = NoDelay],  \* no delay data
     [Quiet EXCEPT !.rtt = 4, !.dvSum = 9],        \* between the thresholds
     [Quiet EXCEPT !.rtt = 7, !.dvSum = 14],       \* late
     [Quiet EXCEPT !.loss = 2],                    \* lossy
     [Quiet EXCEPT !.ooo = 1, !.dup = 1],          \* reordered
     [Quiet EXCEPT !.ce = 2]}                      \* marked
=============================================================================
