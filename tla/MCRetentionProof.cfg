SPECIFICATION Spec
CONSTANTS
    MaxOps = 2
    LastPart = 2
    DataParts = 2
    MaxAttempts = 1
    MaxTroubles = 1
    Holds <- WholeRun
    AnyTarget = FALSE
INVARIANT CompletePointRemains
CHECK_DEADLOCK FALSE
