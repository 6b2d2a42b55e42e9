SPECIFICATION Spec
CONSTANTS
    MaxFd = 4
    ChunkSize = 2
    ConnSize = 2
    RequestSize = 3
    MaxConnection = 2
INVARIANTS DescriptorsDistinct PoolsExact ObjectsApart
PROPERTIES NoOtherLeak
CHECK_DEADLOCK FALSE
