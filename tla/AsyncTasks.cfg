\* Two tasks of one connection, or of none; a client asks to cancel one of them,
\* and one notification has the session swept while it may still be open.
SPECIFICATION FairSpec
CONSTANTS
    Tasks = {t1, t2}
    Keys = {k1}
    NoKey = NoKey
    NoTask = NoTask
    Requestable = {t1}
    Notices = {n1}
INVARIANTS
    SweepTouchesOwnTasks
    SinkOutlivesLiveTask
PROPERTIES
    DisconnectCancels
CHECK_DEADLOCK FALSE
