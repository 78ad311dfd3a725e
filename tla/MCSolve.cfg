SPECIFICATION Spec
CONSTANTS
    Plans <- AllPlans
    Limits = {2, 4, 6}
    ClockMayRunOut = TRUE
    UserMayStop = TRUE
    MaxCalls = 3
    MaxEdits = 1
INVARIANTS
    TypeOK
    ParkedWalkHolds
    ResumeIsExact
    SpentWithinLimit
    StartComesBack
    VerdictIsCertified
CHECK_DEADLOCK FALSE
