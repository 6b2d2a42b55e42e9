SPECIFICATION FairSpec
CONSTANTS
    Front = {f1}
    Back = {b1}
    NULL = NULL
    Timeout = 1
    Recognised <- AsWritten
    RbCap = 3
    SbCap = 2
    FileSize = 1
PROPERTIES UpstreamIsClosed
CHECK_DEADLOCK FALSE
