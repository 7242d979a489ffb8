SPECIFICATION Spec
CONSTANTS
    Operations <- AfterBackup
    Deferred = {"forget"}
    Due <- Twice
    MaxMinute = 3
    MaxTroubles = 2
INVARIANTS OncePerOccurrence NothingDroppedSilently LookBackComplete
CHECK_DEADLOCK FALSE
