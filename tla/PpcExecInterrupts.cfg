SPECIFICATION FairSpec
CONSTANTS
    LastAddr = 2
    PageLen = 2
    MsrBits = {"EE", "FP", "IR", "POW", "PR"}
    Thermal = TRUE
    FetchFaults = TRUE
    Restarts = TRUE
INVARIANT PreciseInterrupts
INVARIANT NoMissedInterrupt
PROPERTY SleepEnds
