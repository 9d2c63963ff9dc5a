\* Four orders of the customer and one of another one, stamped by clocks that
\* may tie or go back; pages of one, two (the default) and three orders.
\* The system may stop once all orders are placed and the list is read.
SPECIFICATION FairSpec
CONSTANTS
    c1 = c1
    Orders = {1, 2, 3, 4, 5}
    CustomerOf <- Owners
    Clients = {c1}
    ListOf <- Lists
    Times = {1, 2}
    Limits = {0, 1, 3, 4}
    DefaultLimit = 2
    MaxLimit = 3
INVARIANTS
    TypeOK
    ShownOnce
    NothingSkipped
PROPERTIES
    TraversalEnds
    ImplementsTraversal
CHECK_DEADLOCK FALSE
