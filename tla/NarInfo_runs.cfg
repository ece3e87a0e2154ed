SPECIFICATION FairSpec
CONSTANTS
    t1 = t1  t2 = t2  t3 = t3  i1 = i1  i2 = i2  a = a  b = b
    None = None  Stub = Stub  Bad = Bad  Guess = Guess
    Versions = {a, b}
    Tasks = {t1, t2, t3}
    Instances = {i1, i2}
    Home <- Paired
    Retries = 2
    Scenarios <- All
INVARIANTS PresentServed Backfilled
PROPERTIES NeverDropped CallsEnd
CHECK_DEADLOCK FALSE
