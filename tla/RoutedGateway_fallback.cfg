SPECIFICATION FairSpec
CONSTANTS
    m1 = m1
    m2 = m2
    p1 = p1
    p2 = p2
    w1 = w1
    w2 = w2
    t1 = t1
    t2 = t2
    Embedding = Embedding
    Worker = {w1}
    Tenant = {t1}
    Provider = {p1, p2}
    Model = {m1, m2}
    ProviderOf <- TwoModels
    Route <- TwoRoute
    Keyable = {p1, p2, Embedding}
    Attempts = 2
    Moving = {p1}
    Threshold = 2
    Cooldown = 1
    MaxCooldown = 2
    RetryAfters = {0}
INVARIANT FallbackIsOrderly
PROPERTY OwnKeysOnly
PROPERTY RequestsEnd
CHECK_DEADLOCK FALSE
