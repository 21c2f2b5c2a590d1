SPECIFICATION Spec
CONSTANTS
    MaxRegions = 1
    MaxCalls = 3
    MeasLen = 1
    MeasMax = 1
INVARIANTS
    NoSilentLeak
    
    
CHECK_DEADLOCK FALSE
