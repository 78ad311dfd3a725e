SPECIFICATION Spec
CONSTANTS
    Points = {1, 2, 3, 4, 5}
    Inf = 5
    Slack <- OneWide
    Models <- CutoffModels
    Worlds <- CutoffWorlds
    Configs <- OneCall
    Splits <- Cuts
    PieceSplits <- Pieces
    Relaxed = {1, 2, 3}
    Needs = {1}
    ClockMayRunOut = FALSE
    UserMayStop = FALSE
    SolveMayFail = FALSE
    SolveMayErr = FALSE
INVARIANT InfeasibleMeansNoBetter
CHECK_DEADLOCK FALSE
