\* One task, one connection.
SPECIFICATION Spec
CONSTANTS
    Tasks = {t1}
    Keys = {k1}
    NoKey = NoKey
    NoTask = NoTask
    Requestable = {}
    Notices = {}
INVARIANT
    NoOrphanTask
CHECK_DEADLOCK FALSE
