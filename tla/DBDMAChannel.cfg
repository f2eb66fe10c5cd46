CONSTANTS
    LastAddr = 3
    Programs <- MCPrograms
    SBits = {"s6"}
    Selects <- MCOneSelect
    MaxReq = 2
    MAX_CMDS_PER_RUN = 5
    Connected = {TRUE, FALSE}
    DeviceChecks = TRUE
    WakePaused = FALSE
SPECIFICATION FairSpec
INVARIANTS  NoLostWork
PROPERTIES LoopEnds 
