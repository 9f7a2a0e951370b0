-------------------------- MODULE MCDownstreamTest --------------------------
EXTENDS DownstreamTest

SearchParams ==
    {[algo |-> "B", srIndexConf |-> -1, indexIsStart |-> FALSE,
      highSpeedDelta |-> 1, slowAdjThresh |-> 2, seqErrThresh |-> 0,
      lowThresh |-> 3, upperThresh |-> 6, useOwDelVar |-> FALSE,
      ignoreOooDup |-> FALSE, ecnCEThresh |-> 0, srAdjSupp |-> 0]}

\* A row for each shape: one transmitter, both, a burst and an add-on.
Rows == <<[t1 |-> 0, t2 |-> 1], [t1 |-> 2, t2 |-> 0], [t1 |-> 1, t2 |-> 3]>>
MCRow == [i \in 0..MaxIdx |-> Rows[i + 1]]

Quiet == [loss |-> 0, ooo |-> 0, dup |-> 0, dvSum |-> 0, dvCnt |-> 1,
          rtt |-> 0, rx |-> 1, ce |-> 0]
MCTrials == {Quiet, [Quiet EXCEPT !.loss = 1]}
=============================================================================
