SPECIFICATION Spec
CONSTANTS
    Front = {f1}
    Back = {b1}
    NULL = NULL
    Timeout = 1
    Recognised <- AsWritten
    RbCap = 3
    SbCap = 2
    FileSize = 1
INVARIANTS RequestMayBegin
CHECK_DEADLOCK FALSE
