SPECIFICATION Spec
CONSTANTS
    Front = {f1, f2, f3}
    Back = {}
    NULL = NULL
    MaxConnection = 3
    Timeout = 1
    FreshIdx = {0}
    MaxNow = 4
INVARIANTS IndexExact ClampedHeapOrder SweptClean NeverRefused
PROPERTY TimerSpec
