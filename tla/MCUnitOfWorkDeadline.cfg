SPECIFICATION Spec
CONSTANTS
    Request = {c1}
    Write = {w1}
    PoolSize = 1
    MaxDepth = 2
    MaxCalls = 1
    MaxFaults = 1
    NestedDeadlines = TRUE
INVARIANT ErrorIsAllOrNothing
