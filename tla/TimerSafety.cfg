CONSTANTS
    CpuTimer = {1, 3}
    AudioTimer = {2}
    ThermalTimer = {1}
    Interval = {0, 2}
    Delay = {1, 2}
    CallbackDelay = {0, 2}
    PollInterval = 2
    MaxTime = 4
SPECIFICATION Spec
INVARIANTS TypeOK  PhaseKept
PROPERTIES CancelledNeverFires NoBurst
