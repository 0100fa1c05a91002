SPECIFICATION FairSpec
CONSTANTS
    dm = dm
    dm2 = dm2
    bc = bc
    zh = zh
    NoMsg = NoMsg
    Msg = {dm, bc, zh}
    Loop = {l1, l2}
    ZeroHop = {zh}
    Channel = {bc}
    Override <- MCOverride
    AutoAckMaxAttempts = 2
    SEND_INTERVAL = 1
    RETRY_INTERVAL = 2
    PENDING_ACK_TIMEOUT = 3
    MaxExternal = 1
INVARIANTS
    TypeOK
    LoopFollowsWork
    MessageAccounted
    OneOutcomeUnlessRaced
PROPERTIES
    RateLimit
    EveryMessageReported
