\* One gated call, resolved shortly before its pending timer fires.
SPECIFICATION Spec
CONSTANTS
    Ids = {a1}
    Watched = {}
    PendingTTL = 2
    ResolvedTTL = 1
    SweepInterval = 2
    MaxRecords = 1
    LastRequest = 1
    MaxTime = 4
PROPERTIES
    VerdictKeptForItsTTL
CHECK_DEADLOCK FALSE
