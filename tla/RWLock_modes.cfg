SPECIFICATION RWFairSpec
CONSTANTS
    c1 = c1  c2 = c2  c3 = c3
    i1 = i1  i2 = i2
    Clients = {c1, c2, c3}
    Instances = {i1, i2}
    Home <- Paired
    RWModes <- AllModes
INVARIANTS WritersExclude WaitsForReaders
PROPERTIES NoForeignUnlock CallsReturn
CHECK_DEADLOCK FALSE
