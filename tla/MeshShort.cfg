SPECIFICATION StorageSpec
CONSTANTS
    Target = {0, 2}
    Dest = {0, 1, 2}
    Requests <- MCRequests
    Chunk = 2
    MaxXfer = 3
    CdbLen = 2
    SdtrLen = 2
    DATA_FIFO_DEPTH = 2
    XferMod = 3
    AtaCounts = {1, 3}
    AtaMultiple = {2}
    MaxUnits = 3
    CacheUnits = 2
    ShortData = TRUE
INVARIANT DataExact
CHECK_DEADLOCK FALSE
