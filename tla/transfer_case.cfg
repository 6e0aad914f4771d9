SPECIFICATION CampaignSpec
CONSTANTS
    k1 = k1
    k2 = k2
    A = A
    B = B
    e1 = e1
    e2 = e2
    normal = normal
    Keys <- TwoKeys
    Accounts <- TwoAccounts
    Source <- TwoSource
    Destination <- TwoDestination
    Amount <- TwoAmount
    InitialBalance <- OneBalance
    MaxReviews = 2
    MaxFaults = 2
    Explainers <- TwoExplainers
    Assessments <- OneAssessment
    MaxEntries = 1
INVARIANTS
    BalancesMatchJournal
    NegativeStatusIsTrue
    StatusIsBacked
    EvidenceAgrees
    AnswersFit
PROPERTIES
    ImplementsAtomicTransfer
    RetryNeedsReview
SYMMETRY ExplainerSymmetry
CHECK_DEADLOCK FALSE
