SPECIFICATION MCSpec
CONSTANTS
    DefaultPeriod = 7
    MaxFactor = 5
    TIMER_POLL_INTERVAL_NS = 10
    SLACK = 1
    HostSteps = {5}
    Realtime = TRUE
    DecWidth = 3
    Frac = 8
    TickNum = 1
    TickDen = 5
    DecValues = {0, 2, 6}
    MaxTime = 16
INVARIANT TimersServed
PROPERTY SpeedKeepsTime
INVARIANT InstructionsExact
 
INVARIANT DecodersMatch
