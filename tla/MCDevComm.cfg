CONSTANTS
    Objects = {certificate}
    OtherObject = measurements
    Capacity = 2
    ChunkLens = {0, 1}
    MaxRounds = 3
SPECIFICATION CommFairSpec
INVARIANTS
    CacheInOrder
    DoneMeansDone
    
PROPERTY
    Returns
