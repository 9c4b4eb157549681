CONSTANTS
    m1 = m1
    m2 = m2
    d1 = d1
    d2 = d2
    d3 = d3
    Null = Null
    Commands = {m1, m2}
    Services <- MCServices
    Deliveries <- MCDeliveries
    CommandOf <- MCCommandOf
    ExpectedOf <- MCExpectedOf
    TokenOf <- MCTokenOf
    Lease = 1
    Ttl = 2
    MaxTime = 3
SPECIFICATION Spec
INVARIANTS
    AppliedOnce
    SucceededMeansDone
    EventsAreReal
    CommandInv
