SPECIFICATION Spec
CONSTANTS
    MaxRevision = 3
    Bad <- BadRevisions
    MaxTroubles = 2
INVARIANT TypeOK
PROPERTY Settles
CHECK_DEADLOCK FALSE
