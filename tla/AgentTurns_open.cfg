SPECIFICATION FairSpec
CONSTANTS
    c1 = c1
    c2 = c2
    c3 = c3
    k1 = k1
    s1 = s1
    w1 = w1
    w2 = w2
    None = None
    Session = {s1}
    Call = {c1, c2, c3}
    Worker = {w1, w2}
    Scope = {k1}
    Kind <- OneScope
    Invalid = {c3}
    Batches <- MixedBatches
    HasQueue = TRUE
    KeepsScope = TRUE
    MaxIterations = 1
    MaxMessages = 2
    MaxCrashes = 1
INVARIANT TypeOK
INVARIANT GatedNeedsApproval
INVARIANT TurnsFollowTheQueue
INVARIANT PausesAreServedOnce
PROPERTY ImplementsGate
PROPERTY PausesEnd
CHECK_DEADLOCK FALSE
