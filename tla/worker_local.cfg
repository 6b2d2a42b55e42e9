SPECIFICATION FairSpec
CONSTANTS
    Front = {f1, f2}
    Back = {}
    NULL = NULL
    Timeout = 1
    Recognised <- AsWritten
    RbCap = 2
    SbCap = 2
    FileSize = 1
INVARIANTS NoAbort HalfDuplex
PROPERTIES ExpiredIsClosed Answered
CHECK_DEADLOCK FALSE
