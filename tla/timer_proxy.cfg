SPECIFICATION Spec
CONSTANTS
    Front = {f1, f2}
    Back = {b1, b2}
    NULL = NULL
    MaxConnection = 3
    Timeout = 1
    FreshIdx = {0, 1, 9}
    MaxNow = 3
SYMMETRY SlotSymmetry
INVARIANTS TypeOK IndexExact PairedUpstream
CHECK_DEADLOCK FALSE
