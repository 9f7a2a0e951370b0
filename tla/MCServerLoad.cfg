SPECIFICATION Spec
CONSTANTS
    Keys = {7}
    Jumbo = FALSE
    TraditionalMTU = FALSE
    MaxBandwidthMbps = 3
    Sessions = {s1, s2}
    Requests <- KeyedRequests
    MaxSessions = 2
    TestPortMin = 5
    TestPortMax = 6
    EphemeralPorts = {8, 9}
    MaxRequests = 3
SYMMETRY SessionSymmetry
INVARIANTS
    BandwidthLedger
    AdmittedWithinBudget
    SlotLedger
    SocketOwnership
    ScanIsExhaustive
    AtMostOneLateSession
    SessionsAreAuthenticated
PROPERTIES
    ImplementsAdmission
