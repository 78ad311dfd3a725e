SPECIFICATION Spec
CONSTANTS
    NULL = NULL
    Starts <- Models
    NewCols <- Arrivals
    NewRows <- RowArrivals
    x = x
    Lists <- Groups
    Terms <- Quadratics
    Names = {x}
    MaxCalls = 3
    MemoryRunsOut = TRUE
    IndicatorsFail = FALSE
INVARIANTS
    TypeOK
    Integrity
    KeptIsOfThisModel
    KeptFits
PROPERTIES
    IsModelData
    FailureChangesNothing
CHECK_DEADLOCK FALSE
