SPECIFICATION StudySpec
CONSTANTS
    x1 = x1
    x2 = x2
    u = u
    v = v
    w = w
    Runs <- TwoRuns
    Requests <- AllRequests
    IdOf <- Ids
    RunOf <- RunOfRequest
    Plans <- ThreePlans
    MaxFaults = 1
    MaxConcurrency = 1
    MaxBefore = 5
    MaxCurrent = 5
    MaxRefused = 1
    Mixed <- AllSlow
INVARIANTS
    AnswersAreTrue
    OncePerRequest
    ManifestIsClean
    OriginLeads
CHECK_DEADLOCK FALSE
