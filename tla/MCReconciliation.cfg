CONSTANTS
    d1 = d1
    d2 = d2
    w1 = w1
    w2 = w2
    c1 = c1
    Null = Null
    Deliveries = {d1, d2}
    Owners <- MCOwners
    OwnerOf <- MCOwnerOf
    Contents = {c1}
    ContentOf <- MCContentOf
    RoutingsOf <- MCRoutingsOf
    Governed <- MCNobody
    Workers = {w1, w2}
    WorkerOwner <- MCWorkerOwner
    Lease = 2
    Ttl = 0
    Deadline = 0
    ToolTimeout = 1
    RenewEvery = 1
    ConfirmFences = TRUE
    Faults = {"agent", "timeout", "interrupt", "crash"}
    Prompt = TRUE
    Punctual = TRUE
    MaxTime = 4
    LeaseTtl = 1
    RenewTtl = 1
    ReplayFaults = {"raises", "unconfirmed"}
    MaxToken = 3
SPECIFICATION RSpec
SYMMETRY MCSymmetry
INVARIANTS
    OneEffect
    ReconciliationInv
