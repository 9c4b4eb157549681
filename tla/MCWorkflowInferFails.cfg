CONSTANTS
    d1 = d1
    d2 = d2
    d3 = d3
    oa = oa
    ob = ob
    oc = oc
    c1 = c1
    Null = Null
    Deliveries <- MCDeliveries
    Owners <- MCOwners
    OwnerOf <- MCOwnerOf
    Contents = {c1}
    ContentOf <- MCContentOf
    RoutingsOf <- MCCertain
    Governed <- MCNobody
    Lease = 2
    Ttl = 0
    Deadline = 0
    ToolTimeout = 1
    Faults = {"infer"}
    Prompt = FALSE
    MaxTime = 3
SPECIFICATION Spec
INVARIANT
    AtMostOneEffect
