SPECIFICATION MCSpec
CONSTANTS
    Page = {0, 1}
    Touched <- MCTouched
    PagesPerSegment = 1
    TLB_SIZE = 1
    TLB2_WAYS = 1
    Region <- MCRegion
    MsrValue <- MCMsrValue
    SrValue <- MCSrValue
    Sdr1Value = {0, 1}
    PteValues <- MCPteValues
    BatValue <- MCBatValue
    NumBats = 1
    Family = {FALSE, TRUE}
    Pages <- MCPages
    PerSegment = 2
    Sets = 1
    Vsids = {1, 2}
    Frames = {7}
    Stores = {0}
    Written <- MCWritten
INVARIANT TablesOK
INVARIANT NoStaleTranslation
INVARIANT TrackedOnce
INVARIANT NoLostInvalidation
PROPERTY SyncIsComplete
