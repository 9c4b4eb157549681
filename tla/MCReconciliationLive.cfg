CONSTANTS
    d1 = d1
    d2 = d2
    w1 = w1
    w2 = w2
    c1 = c1
    Null = Null
    Deliveries = {d1}
    Owners <- MCOwners
    OwnerOf <- MCOwnerOf
    Contents = {c1}
    ContentOf <- MCContentOf
    RoutingsOf <- MCRoutingsOf
    Governed <- MCNobody
    Workers = {w1, w2}
    WorkerOwner <- MCWorkerOwner
    Lease = 2
    Ttl = 0
    Deadline = 0
    ToolTimeout = 1
    RenewEvery = 1
    ConfirmFences = TRUE
    Faults = {"timeout", "infer", "drop", "bridge", "interrupt", "crash"}
    Prompt = TRUE
    Punctual = FALSE
    MaxTime = 5
    LeaseTtl = 2
    RenewTtl = 2
    ReplayFaults = {"raises", "unreported"}
    MaxToken = 6
SPECIFICATION RFairSpec
INVARIANTS
    OneReplay
    SettledTruthfully
PROPERTIES
    StuckIsResolved
