SPECIFICATION Spec
CONSTANTS
    Topologies <- MCTopologies
    Root <- MCRoot
    Ecams <- MCEcams
    MaxDev = 3
    MaxFunc = 2
    MaxBus = 255
    MB = 4
    Starts <- MCStarts
    MaxBoots = 1
    MaxOps = 2
    MaxErrors = 1
    Field = {"f0", "f1"}
INVARIANTS
    BusTree
    
    DoeEachOnce
    BitfieldVerdict
    RangesDisjoint

    
