CONSTANTS
    s1 = s1
    s2 = s2
    r1 = r1
    r2 = r2
    Null = Null
    Sweepers = {s1, s2}
    Prompt = {s1}
    Records = {r1, r2}
    LeaseTtl = 5
    RenewEvery = 1
    RenewTtl = 4
    StayTime = 1
    FailingLeases = 2
    MaxTime = 9
    MaxToken = 12
SPECIFICATION FairSpec
INVARIANTS
    OneBeliever
    LeaseInv
    LeaseKept
PROPERTIES
    MarkedIsFinal
    EventuallyPublished
