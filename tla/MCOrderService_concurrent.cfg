\* Two workers share the outbox, two instances the consumer group; an
\* acknowledgement is lost and a rebalance leaves a zombie handler.
\* The system may stop: requests, answers and faults are bounded.
SPECIFICATION Spec
CONSTANTS
    o1 = o1
    o2 = o2
    i1 = i1
    i2 = i2
    w1 = w1
    w2 = w2
    Orders = {o1, o2}
    Items <- MCItems
    Workers = {w1, w2}
    BatchSize = 1
    Instances = {i1, i2}
    MaxResults = 1
    MaxFaults <- AckAndRebalance
SYMMETRY AllAlike
INVARIANTS
    CopiesBoundedByFaults
    RetryNeverExhausted
    IndInv
PROPERTIES
    ImplementsSaga
CHECK_DEADLOCK FALSE
