\* Every mode; two transports in turn, two overlapping handshakes and three
\* calls from outside.  When these are spent, everything may be at rest.
SPECIFICATION Spec
CONSTANTS
    Transport = {t1, t2}
    NoTransport = NoTransport
    Modes = {"plain", "passive", "passive_vn"}
    MaxHandlers = 2
    MaxNotices = 1
    MaxCalls = 3
SYMMETRY TransportSymmetry
INVARIANTS
    TypeOK
    NoOrphan
    ResyncCovered
    StallWatchTruthful
PROPERTIES
    LateFailureSpares
CHECK_DEADLOCK FALSE
