SPECIFICATION FairSpec
CONSTANTS
    t1 = t1
    t2 = t2
    n1 = n1
    x1 = x1
    x2 = x2
    b1 = b1
    b2 = b2
    w1 = w1
    w2 = w2
    Caller = {w1, w2}
    Tenant = {t1, t2}
    Connection = {x1, x2}
    Native = {n1}
    OwnerOf <- Owners
    Body = {b1, b2}
    Malformed = {}
    ToolCall <- SomeRequests
    Asks <- SomeAsks
    Deployments <- SomeDeployments
    MaxSessions = 1
    MaxOpened = 2
    MaxFaults = 1
    MaxRuns = 1
CHECK_DEADLOCK FALSE
INVARIANT WritesWereApproved
INVARIANT RepliesReflectTheQueue
PROPERTY DecisionsReachTheClient
