SPECIFICATION FairSpec
CONSTANTS
    t1 = t1
    t2 = t2
    Multiplier <- Units
    Block = 2
    Transfers <- TwoTransfers
    Requests <- MixedRequests
    MaxConcurrent = 1
    MaxDownloadBytes = 9
    MaxDuration = 3
    SizeWord = 256
    Grace = 1
    PollGap = 1
    MaxBody = 2
    MaxNow = 3
INVARIANTS
    SlotsMatchHolders
    FinalBytesShown
    NoFinalLost
    DownloadsAsAsked
PROPERTY SlotsComeBack
