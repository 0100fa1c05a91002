CONSTANTS
    LastSlot = 3
    Channel = {a, b}
    Deleted = Deleted
    Empty = Empty
    Unknown = Unknown
    Sender = {s1}
    MaxReorders = 1
SPECIFICATION Spec
INVARIANTS
    SendsFollow
PROPERTIES
    ReorderEnds
CHECK_DEADLOCK FALSE
