\* Liveness: documents arrive and closes are accepted.
SPECIFICATION FairSpec
CONSTANTS
    MaxShift = 2
    MaxDoc = 1
    MaxZ = 0
    MaxStray = 0
    MaxParked = 1
    Foreign = {}
    Bucket = Bucket
    Carry = Carry
    None = None
PROPERTIES
    DocsArrive
    CloseAccepted
CHECK_DEADLOCK FALSE
