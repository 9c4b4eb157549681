CONSTANTS
    c1 = c1
    c2 = c2
    c3 = c3
    Null = Null
    Clients = {c1, c2}
    Idempotent = {c1}
    Slots = 2
    SlotWait = 1
    Threshold = 2
    Reset = 1
    Token = 2
    Ratio = 1
    Cap = 4
    MaxRetries = 1
    Backoff = 1
    Patience = 2
    MaxCalls = 4
    MaxTime = 3
SPECIFICATION Spec
INVARIANTS
    ExactlyOneProbe
