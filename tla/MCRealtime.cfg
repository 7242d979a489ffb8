SPECIFICATION Spec
CONSTANTS
    Configs = {cfg1, silent}
    NoChannel = {silent}
    First = cfg1
    Conns = {1, 2, 3}
    Attempts = {1, 2, 3}
    None = None
    MaxDelay = 1
    MaxTroubles = 2
    MaxNews = 1
INVARIANTS
    TypeOK
    NoLeakedSocket
    ConnectionIsCurrent
    NeverStranded
    NeverDeaf
PROPERTIES
    NewsArrives
CHECK_DEADLOCK FALSE
