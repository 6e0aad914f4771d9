SPECIFICATION AllSpec
CONSTANTS
    k1 = k1
    k2 = k2
    k3 = k3
    p1 = p1
    p2 = p2
    p3 = p3
    p4 = p4
    a1 = a1
    a2 = a2
    v1 = v1
    v2 = v2
    NoPilot = NoPilot
    Pilots <- SomePilots
    Assignments <- MixedKinds
    Controllers <- SomeControllers
    Attempts = {a1, a2}
    AttemptOf <- SomeAttempts
    ChildOf <- OwnChild
    DataRuns <- TwoRuns
    PlanVersions = {v1, v2}
    MaxAttempts = 4
    c1 = c1
    c2 = c2
    c3 = c3
    n1 = n1
    n2 = n2
    Captures = {c1, c2, c3}
    Nobody = Nobody
    Stranger = Stranger
    Slots = {n1, n2}
    Jobs <- SomeJobs
    q1 = q1
    q2 = q2
    w1 = w1
    Requests = {q1, q2}
    Watchers = {w1}
    Casts <- SomeCasts
    MaxAge = 1
    Width = 2
    Kept = 2
    Apart = 2
    Reach = 2
    Retention = 3
    MaxClock = 5
    ProgramsSeen <- SomePrograms
    Guard = 1
    Minute = 3
    Edge = 1
    Lifetime = 6
    MinRequests = 3
    MinAffected = 2
    MinEvents = 1
    Recoveries = 1
    MaxOdd = 1
    MaxNow = 7
    MinObserved = 10
    MaxObserved = 90
INVARIANTS
    OnePilotAtATime
    ReportedPlanIsWhole
    HalfDoneBlocks
    ObservedUnderOwnFault
    CapturesCleanUp
    ScoreRestsOnReceipts
    PostsOnce
    JudgedOnce
    ValidShowsTheFault
    AuditAgrees
    CorrectionHolds
PROPERTIES
    PilotsImplement
    UnlockedIsExact
CHECK_DEADLOCK FALSE
