SPECIFICATION FairSearchSpec
CONSTANTS
    HighSpeedThresh = 6
    MaxIdx = 9
    Word = 65536
    Params <- AllParams
    Measurements <- MCTrials
    MaxSub = 2
    RetryBound = 10
INVARIANTS
    IndexInTable
PROPERTIES
    FastBackOffOnce
    ClimbsToTop
    FallsToBottom
