\* One order, one instance, no fault.
\* The system may stop: messages are bounded.
SPECIFICATION Spec
CONSTANTS
    o1 = o1
    i1 = i1
    Orders = {o1}
    Instances = {i1}
    MaxMessages <- OneEach
    MaxFaults <- NoFaults
INVARIANTS
    EventsOfOrderInOrder
CHECK_DEADLOCK FALSE
