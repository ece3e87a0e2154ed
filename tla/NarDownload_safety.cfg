SPECIFICATION Spec
CONSTANTS
    Clients = {c1, c2}
    Configs <- MCConfigs
    MinBody = 0
    MaxBody = 2
    UpstreamMayFail = TRUE
    StoreMayFail = TRUE
    ClientMayCancel = TRUE
SYMMETRY Symmetry
INVARIANTS TempFileHeld CompleteBody StoredBeforeEOF
CHECK_DEADLOCK FALSE
