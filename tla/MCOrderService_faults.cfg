\* One worker and one instance, as docker-compose runs them; two orders
\* share the batches and the topics; a rollback, a handler error, a failed
\* offset commit and a rebalance or restart happen once each.
\* The system may stop: requests, answers and faults are bounded.
SPECIFICATION FairSpec
CONSTANTS
    o1 = o1
    o2 = o2
    i1 = i1
    w1 = w1
    Orders = {o1, o2}
    Items <- MCItems
    Workers = {w1}
    BatchSize = 2
    Instances = {i1}
    MaxResults = 1
    MaxFaults <- EveryFaultButAck
INVARIANTS
    TypeOK
    OutboxMatchesOrders
    SentIsPublished
    VerdictFromInventory
PROPERTIES
    FollowsFSM
    EveryEventIsSent
    ResultTakesEffect
CHECK_DEADLOCK FALSE
