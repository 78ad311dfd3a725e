SPECIFICATION Spec
CONSTANTS
    NArms = 3
    Slice = 1
    Growth = 2
    MaxUnits = 4
    Plans <- OnceOrTwice
    Caps = {0}
    ThreadCounts = {3}
    UserMayStop = TRUE
    ClockMayRunOut = TRUE
    ThreadMayFail = TRUE
    CopyMayFail = TRUE
INVARIANTS
    TypeOK
    CancelledNeverWins
    StopReachesTheAnswer
    CallbackOnCaller
    ReadsAfterJoin
CHECK_DEADLOCK FALSE
