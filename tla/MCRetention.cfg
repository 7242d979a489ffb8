SPECIFICATION Spec
CONSTANTS
    MaxOps = 3
    LastPart = 2
    DataParts = 2
    MaxAttempts = 2
    MaxTroubles = 2
    Holds <- WholeRun
    AnyTarget = FALSE
INVARIANTS TypeOK HonestOutcome
PROPERTIES RecoveryPointKept RefusesUnresolved
CHECK_DEADLOCK FALSE
