\* Two gated calls in a store with room for one record.
SPECIFICATION FairSpec
CONSTANTS
    Ids = {a1, a2}
    Watched = {a1}
    PendingTTL = 2
    ResolvedTTL = 1
    SweepInterval = 2
    MaxRecords = 1
    LastRequest = 2
    MaxTime = 4
INVARIANTS
    PendingBounded
    WokenWaitIsDecided
PROPERTIES
    EveryRecordExpires
    ImplementsApprovalService
CHECK_DEADLOCK FALSE
