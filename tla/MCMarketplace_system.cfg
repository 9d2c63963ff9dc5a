\* Two orders for two units through both services, with one fault on the way:
\* a rollback, a lost acknowledgement, a failed offset commit or a restart.
\* The system may stop once every order is answered.
SPECIFICATION FairSpec
CONSTANTS
    w1 = w1
    i1 = i1
    v1 = v1
    c1 = c1
    Orders = {"o1", "o2"}
    SKUs = {"s1"}
    Items <- Rivals
    InitialStock <- TwoUnits
    BatchSize = 2
    Workers = {w1}
    Instances = {i1}
    MaxFaults <- OrderFaults
    MaxResults = 6
    StockWorkers = {v1}
    MaxRelayFaults <- RelayFaults
    Consumers = {c1}
    MaxStockFaults <- StockFaults
    MaxRestocks = 0
    MaxMessages = 6
    MaxAllFaults = 1
INVARIANTS
    TypeOK
    VerdictMatchesStock
    NeverBothAnswers
    CommittedIsAnswered
PROPERTIES
    ServicesFit
    EveryOrderAnswered
CHECK_DEADLOCK FALSE
