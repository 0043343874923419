SPECIFICATION FairSpec
CONSTANTS
    Request = {c1, c2}
    Write = {w1, w2}
    PoolSize = 1
    MaxDepth = 3
    MaxCalls = 3
    MaxFaults = 2
    NestedDeadlines = FALSE
INVARIANTS
    TypeOK
    PromisedIsDurable
    ErrorIsAllOrNothing
PROPERTY EveryCallBegins
