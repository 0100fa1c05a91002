CONSTANTS
    Op = {o1, o2, o3}
    Contact = {c1, c2}
    None = None
SPECIFICATION Spec
INVARIANTS
    TypeOK
    StraysOnly
    StatusHeard
PROPERTIES
    Settles
CHECK_DEADLOCK FALSE
