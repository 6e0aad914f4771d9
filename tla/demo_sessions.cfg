SPECIFICATION ChallengeSpec
CONSTANTS
    b = b
    g = g
    n = n
    h1 = h1
    h2 = h2
    h3 = h3
    None = None
    Sessions <- ThreeSessions
    Blind <- BlindSessions
    Faulty <- FaultSessions
    Handlers <- ThreeHandlers
    ChallengeOnly = TRUE
    Durations <- ShortPhases
    Window = 2
    Short = 1
    Margin = 1
    Patience = 1
    Slow = 1
    Slowest = 4
    Term = 6
    MaxOthers = 1
INVARIANTS
    RecoversWithoutOwnFault
    SingleExecution
    SealedDuringChallenge
    DecisionRestsOnChallenge
    VerdictIsEarned
PROPERTIES
    BlindRunClears
SYMMETRY HandlerSymmetry
CHECK_DEADLOCK FALSE
