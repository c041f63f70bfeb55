\* Two shifts, two documents, two Zs. The device may be idle with everything delivered.
SPECIFICATION Spec
CONSTANTS
    MaxShift = 2
    MaxDoc = 2
    MaxZ = 2
    MaxStray = 0
    MaxParked = 2
    Foreign = {}
    Bucket = Bucket
    Carry = Carry
    None = None
INVARIANTS
    TypeOK
    NothingForgotten
    CloseIsWhole
    ZIsItsDocuments
    ZLeavesNothing
    NeverAdopted
PROPERTY
    RecordKept
CHECK_DEADLOCK FALSE
