CONSTANTS
    s1 = s1
    k1 = k1
    k2 = k2
    Stream = {s1}
    Kind = {k1, k2}
    Own = k1
    Filter = {{k1}, {k1, k2}}
    BatchSize = 2
    MaxAttempts = 3
    PauseThreshold = 4
    Outcomes = {"ok", "retry"}
    MaxLog = 4
    MaxDeliveries = 2
SPECIFICATION FairSpec
PROPERTIES
    CursorNeverRegresses
CHECK_DEADLOCK FALSE
