CONSTANTS
    q1 = q1
    q2 = q2
    q3 = q3
    ta = ta
    tb = tb
    Null = Null
    Requests <- MCRequests
    Streams = {q3}
    Tenants = {ta, tb}
    TenantOf <- MCTenantOf
    Caps = {0, 1, 2}
    Pod = 2
    MaxRpm = 2
    RpmRate = 1
    MaxTpm = 3
    TpmRate = 1
    Conversations <- MCConversations
    Budget = 4
    MaxOut = 1
    Usages = {1, 4}
    Evict = 0
    MaxTime = 1
SPECIFICATION Spec
SYMMETRY MCSymmetry
INVARIANTS
    AdmissionInv
    TenantCapHolds
    QuotaConserved
