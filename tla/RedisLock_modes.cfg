SPECIFICATION Spec
CONSTANTS
    c1 = c1  c2 = c2  c3 = c3
    i1 = i1  i2 = i2
    Clients = {c1, c2, c3}
    Instances = {i1, i2}
    Home <- Paired
    Threshold = 2
    Modes <- AllModes
SYMMETRY PairSymmetry
INVARIANTS Exclusive RefCounted
CHECK_DEADLOCK FALSE
