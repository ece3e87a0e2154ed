SPECIFICATION FairSpec
CONSTANTS
    n1 = n1  n2 = n2  x = x  y = y  z = z
    t1 = t1  t2 = t2  t3 = t3
    Nars = {n1, n2}
    Chunks = {x, y, z}
    Tasks = {t1, t2, t3}
    Content <- MCContent
    Cut <- MCCut
    Rank <- MCRank
    MaxBatch = 2
    SweepBatch = 1
    Scenarios <- MCScenarios
INVARIANTS CompleteMeansWhole BodyWhole Backed NeverLost
PROPERTY Recovered
CHECK_DEADLOCK FALSE
