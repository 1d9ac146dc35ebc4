SPECIFICATION FairSpec
CONSTANTS
    d1 = d1
    d2 = d2
    Driver = {d1, d2}
    N = 2
    GatedSteps = {2}
    MaxGates = 4
    MaxTurns = 7
    MaxPauses = 1
    MaxOverlaps = 1
    MaxTroubles = 1
INVARIANT SendingIsGated
INVARIANT RunsAreWhole
PROPERTY RecordsStand
PROPERTY RunsEnd
CHECK_DEADLOCK FALSE
