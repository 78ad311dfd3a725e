SPECIFICATION Spec
CONSTANTS
    N = 7
    Leaf = 2
    Inputs <- MCInputs
    Trigger = 1
    Block = 3
    BlockWork = 1
INVARIANTS
    AnalysisHolds
    FactorIsCholesky
    SameAtAnyThreads
