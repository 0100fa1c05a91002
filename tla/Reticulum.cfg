\* Three sockets, one command, up to three reconnect timers at once.
CONSTANTS
    Socket = {s1, s2, s3}
    NoSocket = NoSocket
    Command = {status}
    MaxAttempts = 0
    MaxTimers = 2
SYMMETRY SocketSymmetry
SPECIFICATION Spec
INVARIANTS
    TypeOK
    RetryWhenOwed
    RequestsFollowSocket
PROPERTIES
    NoDialAfterDisconnect
CHECK_DEADLOCK FALSE
