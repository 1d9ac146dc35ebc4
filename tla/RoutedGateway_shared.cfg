SPECIFICATION Spec
CONSTANTS
    m1 = m1
    m2 = m2
    p1 = p1
    p2 = p2
    w1 = w1
    w2 = w2
    t1 = t1
    t2 = t2
    Embedding = Embedding
    Worker = {w1, w2}
    Tenant = {t1, t2}
    Provider = {p1}
    Model = {m1}
    ProviderOf <- OneModel
    Route <- OneRoute
    Keyable = {}
    Attempts = 2
    Moving = {}
    Threshold = 2
    Cooldown = 1
    MaxCooldown = 2
    RetryAfters = {0, 3}
SYMMETRY Symmetry
INVARIANT TypeOK
INVARIANT CooldownBounded
PROPERTY NeighboursUnaffected
CHECK_DEADLOCK FALSE
