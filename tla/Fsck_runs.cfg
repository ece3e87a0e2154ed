SPECIFICATION FairSpec
CONSTANTS
    n1 = n1  n2 = n2  x = x  y = y  z = z
    Nars = {n1, n2}
    Chunks = {x, y, z}
    Content <- MCContent
    Scenarios <- MCScenarios
INVARIANTS Repaired Clean
PROPERTIES StableKept RunEnds
CHECK_DEADLOCK FALSE
