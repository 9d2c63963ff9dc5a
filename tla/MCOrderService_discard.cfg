\* No fault, one order, one worker, one instance.
\* The system may stop: requests and answers are bounded.
SPECIFICATION Spec
CONSTANTS
    o1 = o1
    i1 = i1
    w1 = w1
    Orders = {o1}
    Items <- MCItems
    Workers = {w1}
    BatchSize = 1
    Instances = {i1}
    MaxResults = 1
    MaxFaults <- NoFaults
INVARIANTS
    DiscardOnlyDuplicates
CHECK_DEADLOCK FALSE
