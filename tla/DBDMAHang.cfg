CONSTANTS
    LastAddr = 3
    Programs <- MCWaiting
    SBits = {"s6"}
    Selects <- MCOneSelect
    MaxReq = 2
    MAX_CMDS_PER_RUN = 5
    Connected = {TRUE}
    DeviceChecks = TRUE
    WakePaused = FALSE
SPECIFICATION FairSpec
PROPERTIES LoopEnds
