SPECIFICATION Spec
CONSTANTS
    Rows = 1153
    WatchdogTimeout = 2
    Scenarios <- MCScenarios
INVARIANTS
    PolicedFits
    EndsAgree
    PolicingIsStable
    RowIsItsRate
    RowsFitBuffers
PROPERTIES
    SessionEnds
CHECK_DEADLOCK FALSE
