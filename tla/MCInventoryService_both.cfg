\* Two instances, one rebalance, nothing fails.
\* The system may stop: messages and faults are bounded.
SPECIFICATION Spec
CONSTANTS
    i1 = i1
    i2 = i2
    Orders = {"o1"}
    SKUs = {"s1", "s2"}
    Items <- Rivals
    InitialStock <- RivalStock
    Instances = {i1, i2}
    MaxMessages = 1
    MaxRestocks = 0
    MaxFaults <- OneRebalance
INVARIANTS
    NeverBothAnswers
CHECK_DEADLOCK FALSE
