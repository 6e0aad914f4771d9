SPECIFICATION CastSpec
CONSTANTS
    g1 = g1
    p1 = p1
    s1 = s1
    d1 = d1
    Gated <- OneGated
    Plain <- OnePlain
    Sealed <- OneSealed
    Demo <- OneDemo
    MaxActivations = 2
INVARIANTS
    ExclusiveUntilExpiry
PROPERTIES
    LeftLeaseIsReclaimed
    ResourcesAreGivenBack
CHECK_DEADLOCK FALSE
