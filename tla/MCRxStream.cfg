SPECIFICATION Spec
CONSTANTS
    HistorySize = 2
    Word = 128
    MaxSeq = 4
    MaxArrivals = 5
    MaxStatus = 2
    Deltas <- MCDeltas
    Rtts <- TwoRtts
INVARIANTS
    LossNeverUnderstated
    LossIsExactUntilRoll
    DuplicatesAreExact
    SubCoversTrial
    DelaysAreOrdered
CHECK_DEADLOCK FALSE
