SPECIFICATION Spec
CONSTANTS
    Start = {m1, m2}
    Workers = 2
INVARIANTS TypeOK HoldsTheFile
PROPERTIES StopStops
CHECK_DEADLOCK FALSE
