SPECIFICATION FairSpec
CONSTANTS
    HighSpeedThresh = 2
    MaxIdx = 3
    Word = 1024
    HistorySize = 1
    Params <- RateParams
    TrialInt = 2
    SubInt = 4
    Duration = 3
    Watchdog = 3
    MaxSeq = 2
    Deltas <- TwoDelays
    Rtts <- TwoDelays
PROPERTIES
    TestEnds
    EmptyTrialsFollowSample
