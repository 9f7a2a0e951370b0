SPECIFICATION Spec
CONSTANTS
    t1 = t1
    t2 = t2
    Multiplier <- Units
    Block = 2
    Transfers <- TwoTransfers
    Requests <- ShortRequests
    MaxConcurrent = 0
    MaxDownloadBytes = 0
    MaxDuration = 0
    SizeWord = 256
    Grace = 1
    PollGap = 9
    MaxBody = 1
    MaxNow = 4
INVARIANT NothingSurvivesGrace
