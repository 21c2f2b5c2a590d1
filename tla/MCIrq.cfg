SPECIFICATION IrqSpec
CONSTANTS
    Cpus = {c0, c1}
    Primary = c0
    Spis = {s}
    Privates = {p}
    Null = null
    Spurious = spurious
    MaxCalls = 3
    MaxRaises = 2
INVARIANTS
    DispatchSound
PROPERTIES
    HandlersKept
    
CHECK_DEADLOCK FALSE
