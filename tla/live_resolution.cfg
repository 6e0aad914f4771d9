SPECIFICATION Spec
CONSTANTS
    e1 = e1
    e2 = e2
    e3 = e3
    e4 = e4
    e5 = e5
    e6 = e6
    e7 = e7
    e8 = e8
    r1 = r1
    c1 = c1
    Events <- SomeEvents
    Requests <- SomeRequests
    At <- GapTimes
    Infinite <- NoInfinite
    MaxAge = 36
    Temporal = 2
    Main = 12
    MaxStale = 4
    MaxSkew = 1
    Stride = 2
    Baseline = 6
    Tolerance = 0
    Persistence = 6
    Confirmation = 3
    MaxHistory = 100
    Subscribers <- OneClient
    MaxSubscribers = 50
    QueueSize = 32
    Batches <- GapBatches
PROPERTIES
    ResolutionHasMainDecision
CHECK_DEADLOCK FALSE
