\* A request given up is served later; the third shift is another machine's.
SPECIFICATION Spec
CONSTANTS
    MaxShift = 3
    MaxDoc = 1
    MaxZ = 1
    MaxStray = 1
    MaxParked = 1
    Foreign = {3}
    Bucket = Bucket
    Carry = Carry
    None = None
INVARIANT
    NothingForgotten
PROPERTY
    ClosedIsFinal
CHECK_DEADLOCK FALSE
