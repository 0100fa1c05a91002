CONSTANTS
    Gateway = {g1}
    MaxBackoff = 1
    MaxBrokers = 2
SPECIFICATION SafetySpec
INVARIANTS
    FollowsBroker
CHECK_DEADLOCK FALSE
