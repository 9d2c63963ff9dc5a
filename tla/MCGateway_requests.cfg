\* Three requests through two gateways, one with a clock that lags.
\* The system may stop: requests, versions and time are bounded.
SPECIFICATION Spec
CONSTANTS
    r1 = r1
    r2 = r2
    r3 = r3
    Requests = {r1, r2, r3}
    Gateways = {"g1", "g2"}
    Skew <- Behind
    Capacity = 2
    RefillRate = 1
    BucketTTL = 4
    MaxDelay = 1
    TTL = 2
    MaxFill = 1
    MaxTime = 5
    MaxVersion = 2
SYMMETRY RequestsAreAlike
INVARIANTS
    TypeOK
    WindowBounded
    RefusedForAReason
    ServedRecently
CHECK_DEADLOCK FALSE
