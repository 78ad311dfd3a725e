SPECIFICATION Spec
CONSTANTS
    Inf = 100000
    Stale = 77777
    Models <- MCModels
    MaxRounds = 10
    Unit = 72
    AggRowMax = 3
    AggFillMax = 8
    AggPasses = 8
    Multipliers <- MCMultipliers
    MaxSolves = 2
    Edits <- MCEdits
INVARIANTS
    AnswerHolds
    BasisHolds
    CertificateHolds
CHECK_DEADLOCK FALSE
