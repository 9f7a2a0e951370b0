SPECIFICATION FairSpec
CONSTANTS
    HighSpeedThresh = 2
    MaxIdx = 2
    Word = 1024
    Params <- SearchParams
    Trials <- MCTrials
    Row <- MCRow
    CatchUp = 2
    MaxSeq = 7
    MaxStatus = 4
INVARIANTS
    NumbersAreConsecutive
PROPERTIES
    NoTestAfterStop
    TestFinishes
