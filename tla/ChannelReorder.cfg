CONSTANTS
    LastSlot = 4
    Channel = {a, b, c}
    Deleted = Deleted
    Empty = Empty
    Unknown = Unknown
    Sender = {}
    MaxReorders = 1
SPECIFICATION SafetySpec
INVARIANTS
    TypeOK
    HistoryFollows
PROPERTIES
    NoChannelLost
    OutcomeIsTrue
SYMMETRY ChannelSymmetry
CHECK_DEADLOCK FALSE
