SPECIFICATION FairSpec
CONSTANTS
    NArms = 3
    Slice = 1
    Growth = 2
    MaxUnits = 4
    Plans <- Uncertified
    Caps = {0}
    ThreadCounts <- OneThreadOrThree
    UserMayStop = FALSE
    ClockMayRunOut = FALSE
    ThreadMayFail = TRUE
    CopyMayFail = FALSE
PROPERTY RaceOnOneThread
CHECK_DEADLOCK FALSE
