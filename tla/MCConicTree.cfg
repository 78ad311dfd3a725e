SPECIFICATION Spec
CONSTANTS
    Points = {1, 2, 3, 4, 5}
    Inf = 5
    Slack <- OneWide
    Models <- AllModels
    Worlds <- AllWorlds
    Configs <- Calls
    Splits <- Cuts
    PieceSplits <- Pieces
    Relaxed = {1, 2, 3}
    Needs = {1, 4}
    ClockMayRunOut = TRUE
    UserMayStop = TRUE
    SolveMayFail = TRUE
    SolveMayErr = TRUE
INVARIANTS
    AnswerHolds
    EventBoundHolds
PROPERTIES
    IsTreeSearch
    Termination
CHECK_DEADLOCK FALSE
