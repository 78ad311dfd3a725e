SPECIFICATION FairSpec
CONSTANTS
    Points = {1, 2, 3, 4}
    Inf = 4
    Slack <- NoGap
    Models <- AllModels
    Worlds <- AllWorlds
    Configs <- Calls
    Splits <- Cuts2
    PieceSplits <- Pieces
    Relaxed = {1, 2, 3}
    EstimateBoundEvery = 2
    NoIncDiveAfter = 3
    NoIncDiveBacktracks = 1
    SteerRounds = 3
    SolveMayFail = TRUE
    MemoryMayEnd = TRUE
INVARIANTS
    KeyHeapAgrees
    PoolHoldsTheBest
    IncumbentIsKept
PROPERTIES
    IsTreeSearch
    Termination
CHECK_DEADLOCK FALSE
