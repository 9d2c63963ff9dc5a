\* One instance, one failing call.
\* The system may stop: messages and faults are bounded.
SPECIFICATION Spec
CONSTANTS
    i1 = i1
    Orders = {"o1", "o2"}
    SKUs = {"s1", "s2"}
    Items <- Rivals
    InitialStock <- RivalStock
    Instances = {i1}
    MaxMessages = 2
    MaxRestocks = 0
    MaxFaults <- OneError
INVARIANTS
    CommittedIsAnswered
CHECK_DEADLOCK FALSE
