SPECIFICATION Spec
CONSTANTS
    Front = {f1, f2}
    Back = {b1, b2}
    NULL = NULL
    MaxConnection = 3
    Timeout = 1
    FreshIdx = {3}
    MaxNow = 4
INVARIANTS HeapNotEmpty
CHECK_DEADLOCK FALSE
