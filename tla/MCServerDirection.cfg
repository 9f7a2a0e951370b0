SPECIFICATION Spec
CONSTANTS
    Keys = {}
    Jumbo = FALSE
    TraditionalMTU = FALSE
    MaxBandwidthMbps = 3
    Sessions = {s1, s2}
    Requests <- TwoWayRequests
    MaxSessions = 2
    TestPortMin = 5
    TestPortMax = 6
    EphemeralPorts = {8, 9}
    MaxRequests = 2
INVARIANTS
    RunningWithinBudget
