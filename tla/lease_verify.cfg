SPECIFICATION Spec
CONSTANTS
    g1 = g1
    g2 = g2
    g3 = g3
    p1 = p1
    s1 = s1
    d1 = d1
    Gated <- OneGated
    Plain <- OnePlain
    Sealed <- OneSealed
    Demo <- NoOne
    MaxActivations = 2
INVARIANTS
    RecoveryMeetsNoOtherFault
CHECK_DEADLOCK FALSE
