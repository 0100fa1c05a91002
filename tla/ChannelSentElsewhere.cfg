CONSTANTS
    LastSlot = 3
    Channel = {a, b}
    Deleted = Deleted
    Empty = Empty
    Unknown = Unknown
    Sender = {s1}
    MaxReorders = 1
SPECIFICATION SafetySpec
INVARIANTS
    SentOnItsChannel
CHECK_DEADLOCK FALSE
