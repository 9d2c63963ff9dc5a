SPECIFICATION FairSpec
CONSTANTS
    Creates = {"o1"}
    Gets = {"g1"}
    TargetOf <- FirstOrder
    Carts <- SomeCarts
    Limit = 16
    PoolSize = 1
    MaxKinds = 2
INVARIANTS
    TypeOK
    CreatedIsStored
    TotalIsExact
    FailureIsExcused
PROPERTIES
    BegunIsAnswered
    ProcessesExit
CHECK_DEADLOCK FALSE
