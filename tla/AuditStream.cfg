CONSTANTS
    s1 = s1
    k1 = k1
    k2 = k2
    Stream = {s1}
    Kind = {k1, k2}
    Own = k1
    Filter = {{k1}, {k2}, {k1, k2}}
    BatchSize = 1
    MaxAttempts = 3
    PauseThreshold = 4
    Outcomes = {"ok", "retry", "fatal", "slow"}
    MaxLog = 4
    MaxDeliveries = 2
SPECIFICATION FairSpec
INVARIANTS
    Consistent
    NoSilentGap
PROPERTIES
    EntriesEventuallyHandled
CHECK_DEADLOCK FALSE
