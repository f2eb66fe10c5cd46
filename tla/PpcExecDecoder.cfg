SPECIFICATION Spec
CONSTANTS
    LastAddr = 3
    PageLen = 2
    MsrBits = {"EE", "FP"}
    Thermal = FALSE
    FetchFaults = FALSE
    Restarts = FALSE
INVARIANT DecoderFollowsMsr
