SPECIFICATION Spec
CONSTANTS
    c1 = c1
    c2 = c2
    top = top
    deep = deep
    None = None
    Caller = {c1, c2}
    Resource = {top, deep}
    Top = {top}
    Answers = {TRUE}
    MaxRefreshPages = 2
    MaxWrites = 1
SYMMETRY Symmetry
INVARIANT TypeOK
INVARIANT CacheKeepsUp
PROPERTY RefreshIsHonest
