SPECIFICATION MigrateFairSpec
CONSTANTS
    p1 = p1  p2 = p2
    Pods = {p1, p2}
    Versions = {1, 2, 3}
    Rollouts <- MCRollouts
INVARIANTS VersionsKept DoneMeansCurrent
PROPERTIES Upgraded
CHECK_DEADLOCK FALSE
