CONSTANTS
    b1 = b1
    b2 = b2
    b3 = b3
    g1 = g1
    g2 = g2
    ta = ta
    tb = tb
    Null = Null
    Builds = {b1, b2, b3}
    Keys = {g1, g2}
    KeyOf <- MCKeyOf
    Tenants = {ta, tb}
    TenantOf <- MCTenantOf
    WithA2C = {b3}
    BuildSlots = 2
    TenantSlots = 1
    MaxTries = 2
SPECIFICATION Spec
INVARIANTS
    BuildInv
    OneBuilder
    ScaffoldKept
    ReferenceKept
    OneDeleter
