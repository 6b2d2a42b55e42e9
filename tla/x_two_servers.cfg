SPECIFICATION Spec
CONSTANTS
    Start = {m1, m2, m3}
    Workers = 2
SYMMETRY StartSymmetry
INVARIANTS OneServer
CHECK_DEADLOCK FALSE
