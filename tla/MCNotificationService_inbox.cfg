\* Two instances; duplicates, a zombie handler, a restart, a failed commit.
\* The system may stop: messages and faults are bounded.
SPECIFICATION FairSpec
CONSTANTS
    o1 = o1
    i1 = i1
    i2 = i2
    Orders = {o1}
    Instances = {i1, i2}
    MaxMessages <- Duplicated
    MaxFaults <- Every
INVARIANTS
    TypeOK
    RepeatedOnlyAfterRollback
    MarkedIsNotified
PROPERTIES
    EveryEventNotified
CHECK_DEADLOCK FALSE
