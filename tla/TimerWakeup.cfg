CONSTANTS
    CpuTimer = {1}
    AudioTimer = {2}
    ThermalTimer = {}
    Interval = {0, 1}
    Delay = {1}
    CallbackDelay = {1}
    PollInterval = 1
    MaxTime = 3
SPECIFICATION FairSpec
INVARIANT NoLostWakeup
PROPERTY InterruptDelivered
