CONSTANTS
    PageSize = 2
    Entries = 2
    MinLvlBlock = 1
    NTables = 5
    MmapNum = 6
    VaSpace = 16
    PaSpace = 32
    Regime = "EL2"
    AddrMod = 64
    Widths = {8, 16, 32}
    Images <- MCImages
    Requests <- MCRequests
    MaxCount = 4
    Ranges <- MCRanges
    NewAttrs <- MCNewAttrs
SPECIFICATION Spec
INVARIANTS TablesAccounted NoAssertFails
PROPERTIES ImplementsAddressMap
CHECK_DEADLOCK FALSE
