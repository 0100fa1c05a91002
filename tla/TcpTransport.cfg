SPECIFICATION FairSpec
CONSTANTS
    Socket = {s1, s2}
    NoSocket = NoSocket
    ConfigSyncStall = 1
    HeartbeatTimeout = 1
    StaleTimeout = 2
    BufferStale = 1
    MaxAge = 3
    MaxAttempts = 2
    Rungs = 3
INVARIANTS
    TypeOK
    LinkTruthful
    TimersTruthful
PROPERTIES
    KeepsPromise
    NeverStuck
