CONSTANTS
    Gateway = {g1, g2}
    MaxBackoff = 2
    MaxBrokers = 3
SPECIFICATION Spec
INVARIANTS
    TypeOK
    RetryAlive
    NothingLeft
    FollowsDeferred
PROPERTIES
    StopReturns
CHECK_DEADLOCK FALSE
