\* Three starts of one server.
SPECIFICATION FairLifecycleSpec
CONSTANTS
    Tasks = {t1, t2, t3}
    NoTask = NoTask
INVARIANTS
    NoRunawayTask
    OnlyAbandonedTasksLinger
PROPERTIES
    StopEndsEveryTask
CHECK_DEADLOCK FALSE
