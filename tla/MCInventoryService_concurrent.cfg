\* Two instances with a zombie handler, a failing call and a restock.
\* The system may stop: messages and faults are bounded.
SPECIFICATION Spec
CONSTANTS
    i1 = i1
    i2 = i2
    Orders = {"o1", "o2", "o3"}
    SKUs = {"s1", "s2"}
    Items <- Rivals
    InitialStock <- RivalStock
    Instances = {i1, i2}
    MaxMessages = 3
    MaxRestocks = 1
    MaxFaults <- Everything
INVARIANTS
    TypeOK
    ReservedIsDemanded
    UnitsPromisedOnce
    ReservedAnnouncedOnce
CHECK_DEADLOCK FALSE
