CONSTANTS
    Threads = {h1, h2}
    Tasks = {a1, a2}
    Keys = {k}
    Values = {1, 2}
    Null = Null
    Writers = {w1, w2}
    Syncs = {"evict", "hydrate"}
    MaxCalls = 2
SPECIFICATION QSpec
INVARIANTS
    FlightInv
    InterruptsStayHome
    OneFill
    ReadAfterWrite
PROPERTIES
    FollowersServed
