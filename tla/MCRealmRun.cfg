CONSTANTS
    Lengths = {0, 2}
    Sizes = {0, 1, 2}
    Offsets = {0, 1}
    PayloadLen = 1
    LogSize = 2
    MaxSessions = 2
    MaxLogs <- MCMaxLogs
    MaxRuns = 2
SPECIFICATION RRSpec
INVARIANTS
    SessionConsistent
    
    PlaneKnown
PROPERTIES
    ImplementsConnection
    RunReturns
CHECK_DEADLOCK FALSE
