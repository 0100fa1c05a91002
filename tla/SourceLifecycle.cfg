\* One source, three requests in flight beside the boot.  Sources meet only in the
\* boot's list and in the designation.
SPECIFICATION Spec
CONSTANTS
    Source = {s1}
    Request = {r1, r2, r3}
    NoSource = NoSource
    Boot = Boot
    MaxManagers = 4
SYMMETRY Symmetry
INVARIANTS
    TypeOK
    PrimaryIsServed
    NoOrphan
    RowsObeyed
