SPECIFICATION FairSpec
CONSTANTS
    a = a  b = b  c = c  n1 = n1  n2 = n2
    t1 = t1  t2 = t2  t3 = t3  t4 = t4  t5 = t5
    Infos = {a, b, c}
    Nars = {n1, n2}
    Tasks = {t1, t2, t3, t4, t5}
    NarOf <- Shared
    Size <- Sizes
    RefsOf <- Refs
    RefChars <- LongNames
    Loaded <- AllLoaded
    MaxSize = 2
    MaxDepth = 3
    Scenarios <- AllScenarios
INVARIANTS LinkedRowKept BytesAccounted
PROPERTIES EarlyPinsKept ColdestFirst Bounded
