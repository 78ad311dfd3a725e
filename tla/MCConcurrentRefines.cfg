SPECIFICATION FairSpec
CONSTANTS
    NArms = 3
    Slice = 1
    Growth = 2
    MaxUnits = 4
    Plans <- OnceOrTwice
    Caps = {0, 1, 4}
    ThreadCounts <- OneThreadOrThree
    UserMayStop = FALSE
    ClockMayRunOut = FALSE
    ThreadMayFail = TRUE
    CopyMayFail = FALSE
PROPERTIES
    RaceOnOneThread
    Termination
CHECK_DEADLOCK FALSE
