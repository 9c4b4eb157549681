CONSTANTS
    w1 = w1
    w2 = w2
    rc = rc
    oa = oa
    ob = ob
    oc = oc
    Null = Null
    Callers <- MCCallers
    Reconcilers <- MCReconcilers
    Owners <- MCOwners
    OwnerOf <- MCOwnerDistinct
    Keys = {k1}
    Fingerprints = {f1, f2}
    Results = {r1, r2}
    Lease = 2
    Ttl = 4
    MaxTime = 7
SPECIFICATION Spec
INVARIANTS
    LiveGrantExclusive
    StoreInv
PROPERTIES
    OnlyClaimantSettles
    OutcomeFinal
    RecoveryIsReconcilers
    ImplementsContract
