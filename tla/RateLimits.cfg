SPECIFICATION Spec
CONSTANTS
    Requests = {r1, r2, r3, r4, r5}
    Capacity = 2
    Refill = 1
    Window = 2
    NoExpiry = NoExpiry
    MaxTime = 3
    MaxFaults = 5
INVARIANTS
    WindowBound
    BucketBound
    WindowRate
SYMMETRY Symmetry
CHECK_DEADLOCK FALSE
