SPECIFICATION Spec
CONSTANTS
    r1 = r1  r2 = r2  r3 = r3
    i1 = i1  i2 = i2  i3 = i3
    Requests = {r1, r2, r3}
    Instances = {i1, i2}
    Home <- Paired
    Parts = 1
    MaxTicks = 1
    Modes <- AllModes
INVARIANTS LockCoversDownload
PROPERTIES NoRedundantDownload
CHECK_DEADLOCK FALSE
