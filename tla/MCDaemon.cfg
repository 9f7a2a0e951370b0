SPECIFICATION DSpec
CONSTANTS
    Keys = {}
    Jumbo = FALSE
    TraditionalMTU = FALSE
    MaxBandwidthMbps = 4
    Sessions = {s1, s2}
    Requests <- OneRequest
    MaxSessions = 2
    TestPortMin = 0
    TestPortMax = 0
    EphemeralPorts = {8, 9}
    MaxRequests = 2
    Settings <- MCSettings
    MaxTransfers = 1
INVARIANTS
    CleanExit
    OpsOutlivesTests
PROPERTIES
    StopsWhenTold
    OnlyTestsHoldOn
