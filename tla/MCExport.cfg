SPECIFICATION Spec
CONSTANTS
    MaxChunks = 6
    Workers = 2
    PartUnits = 2
    Concurrency = 2
    MaximumUnits = 7
    PartURLs = 4
    PartAttempts = 2
    MaxTroubles = 1
INVARIANT TypeOK
INVARIANT BuffersBounded
INVARIANT ArchiveWhole
PROPERTY ExportEnds
CHECK_DEADLOCK FALSE
