SPECIFICATION FlowSpec
CONSTANTS
    r1 = r1
    r2 = r2
    Event <- ThreeEvents
    Relay <- TwoRelays
    Limit = 2
    OccurredAt <- DistinctTimes
    Aggregate <- AggregateOf
    Subscribed = {3}
    MaxFaults = 2
INVARIANTS
    LocksExclusive
    CopiesAccounted
    FlowAccounted
    CommandOrderKept
PROPERTIES
    ImplementsAtLeastOnce
    BatchKeepsAggregateOrder
    EventuallyHandled
