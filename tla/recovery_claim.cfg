SPECIFICATION Spec
CONSTANTS
    k1 = k1
    A = A
    B = B
    Keys <- OneKey
    Accounts <- TwoAccounts
    Source <- OneSource
    Destination <- OneDestination
    Amount <- OneAmount
    InitialBalance <- OneBalance
    MaxReviews = 1
    MaxFaults = 1
INVARIANTS
    RecoveryConfirmedMeansCompleted
CHECK_DEADLOCK FALSE
