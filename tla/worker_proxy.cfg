SPECIFICATION FairSpec
CONSTANTS
    Front = {f1}
    Back = {b1}
    NULL = NULL
    Timeout = 1
    Recognised <- AsIntended
    RbCap = 3
    SbCap = 2
    FileSize = 1
INVARIANTS TypeOK NothingDangles FileOrUpstream
PROPERTIES ClearedAlone ExpiredForGood DeafIsClosed
CHECK_DEADLOCK FALSE
