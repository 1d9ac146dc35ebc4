SPECIFICATION ShutdownFairSpec
CONSTANTS
    t1 = t1
    t2 = t2
    Turn = {t1, t2}
    MaxSteps = 2
    Limits <- SomeLimits
    MaxFaults = 1
INVARIANT SpansAreAccounted
INVARIANT ClosedAfterTurns
PROPERTY ShutdownEnds
CHECK_DEADLOCK FALSE
