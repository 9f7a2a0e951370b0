--------------------------- MODULE MCUpstreamTest ---------------------------
EXTENDS UpstreamTest

\* A search that starts in the middle of the table, on either kind of delay.
RateParams ==
    {[algo |-> "B", srIndexConf |-> 2, indexIsStart |-> TRUE,
      highSpeedDelta |-> 1, slowAdjThresh |-> 1, seqErrThresh |-> 0,
      lowThresh |-> 3, upperThresh |-> 6, useOwDelVar |-> ow,
      ignoreOooDup |-> FALSE, ecnCEThresh |-> 0, srAdjSupp |-> 0]
        : ow \in BOOLEAN}
TwoDelays == {0, 7}
=============================================================================
