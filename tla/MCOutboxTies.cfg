SPECIFICATION FlowSpec
CONSTANTS
    r1 = r1
    r2 = r2
    Event <- ThreeEvents
    Relay <- OneRelay
    Limit = 2
    OccurredAt <- TiedTimes
    Aggregate <- AggregateOf
    Subscribed = {3}
    MaxFaults = 0
PROPERTY BatchKeepsAggregateOrder
