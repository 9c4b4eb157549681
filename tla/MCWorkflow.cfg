CONSTANTS
    d1 = d1
    d2 = d2
    d3 = d3
    oa = oa
    ob = ob
    oc = oc
    c1 = c1
    Null = Null
    Deliveries <- MCDeliveries
    Owners <- MCOwners
    OwnerOf <- MCOwnerOf
    Contents = {c1}
    ContentOf <- MCContentOf
    RoutingsOf <- MCRoutingsOf
    Governed <- MCGoverned
    Lease = 2
    Ttl = 0
    Deadline = 2
    ToolTimeout = 1
    Faults <- MCFaults
    Prompt = FALSE
    MaxTime = 3
SPECIFICATION Spec
INVARIANTS
    WorkflowInv
    RepliesAgree
    CommittedIsReal
PROPERTIES
    OnlyLostCallsAreRepeated
