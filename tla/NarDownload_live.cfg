SPECIFICATION FairSpec
CONSTANTS
    Clients = {c1}
    Configs <- MCConfigs
    MinBody = 1
    MaxBody = 2
    UpstreamMayFail = FALSE
    StoreMayFail = TRUE
    ClientMayCancel = TRUE
PROPERTIES EOFEndsStreams TempReclaimed
CHECK_DEADLOCK FALSE
