SPECIFICATION Spec
CONSTANTS
    w1 = w1
    w2 = w2
    p1 = p1
    p2 = p2
    None = None
    Worker = {w1, w2}
    Process = {p1, p2}
    ProcessOf <- Apart
    MaxTokens = 3
    MaxRejections = 1
    MaxCrashes = 1
INVARIANT TypeOK
INVARIANT OneDataKey
INVARIANT ConnectionsWork
INVARIANT SecretGoesWithRow
CHECK_DEADLOCK FALSE
