SPECIFICATION CaseSpec
CONSTANTS
    k1 = k1
    k2 = k2
    A = A
    B = B
    e1 = e1
    e2 = e2
    normal = normal
    Keys <- OneKey
    Accounts <- TwoAccounts
    Source <- OneSource
    Destination <- OneDestination
    Amount <- OneAmount
    InitialBalance <- OneBalance
    MaxReviews = 1
    MaxFaults = 1
    Explainers <- TwoExplainers
    Assessments <- OneAssessment
    MaxEntries = 1
INVARIANTS
    CompletionIsObserved
SYMMETRY ExplainerSymmetry
CHECK_DEADLOCK FALSE
