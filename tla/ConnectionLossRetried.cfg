\* What follows a handshake whose send fails.
SPECIFICATION Spec
CONSTANTS
    Transport = {t1, t2}
    NoTransport = NoTransport
    Modes = {"plain"}
    MaxHandlers = 1
    MaxNotices = 1
    MaxCalls = 1
INVARIANTS
    LossIsRetried
CHECK_DEADLOCK FALSE
