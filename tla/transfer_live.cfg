SPECIFICATION PatientSpec
CONSTANTS
    k1 = k1
    A = A
    B = B
    Keys <- OneKey
    Accounts <- TwoAccounts
    Source <- OneSource
    Destination <- OneDestination
    Amount <- OneAmount
    InitialBalance <- OneBalance
    MaxReviews = 4
    MaxFaults = 2
PROPERTIES
    OperationsEnd
    ReceivedCompletes
CHECK_DEADLOCK FALSE
