SPECIFICATION FairSpec
CONSTANTS
    u1 = u1  u2 = u2  h1 = h1  h2 = h2
    Upstreams = {u1, u2}
    Hashes = {h1, h2}
    Order <- MCOrder
    Scenes <- MCScenes
    Retries = 3
INVARIANT NoDangling
PROPERTIES Promise CollectsOnlyAbsent Rejoins
CHECK_DEADLOCK FALSE
