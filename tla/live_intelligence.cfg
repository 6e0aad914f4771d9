SPECIFICATION Spec
CONSTANTS
    e1 = e1
    e2 = e2
    e3 = e3
    e4 = e4
    e5 = e5
    e6 = e6
    e7 = e7
    e8 = e8
    r1 = r1
    c1 = c1
    Events <- SomeEvents
    Requests <- SomeRequests
    At <- SomeTimes
    Infinite <- OneInfinite
    MaxAge = 10
    Temporal = 2
    Main = 6
    MaxStale = 4
    MaxSkew = 1
    Stride = 2
    Baseline = 4
    Tolerance = 1
    Persistence = 3
    Confirmation = 2
    MaxHistory = 1
    Subscribers <- OneClient
    MaxSubscribers = 1
    QueueSize = 2
    Batches <- SomeBatches
INVARIANTS
    BufferIsExact
    ReadyMeansObserved
    DrainedViewIsCurrent
PROPERTIES
    ResolvedIsConfirmed
CHECK_DEADLOCK FALSE
