SPECIFICATION Spec
CONSTANTS
    g1 = g1
    g2 = g2
    g3 = g3
    p1 = p1
    s1 = s1
    d1 = d1
    Gated <- ThreeGated
    Plain <- NoOne
    Sealed <- NoOne
    Demo <- NoOne
    MaxActivations = 4
INVARIANTS
    LiveLeasesExclude
CHECK_DEADLOCK FALSE
