\* Two calls and two client-chosen ids they may share, in a table of two tokens.
SPECIFICATION Spec
CONSTANTS
    Calls = {c1, c2}
    GivenIds = {i1, i2}
    Sessions = {s1}
    NoSession = NoSession
    NoId = NoId
    Tombstone = Tombstone
    MaxTokens = 2
    Fallback = FALSE
INVARIANTS
    NoStaleCallback
    GatedCallCanAsk
PROPERTIES
    CancelIsExact
CHECK_DEADLOCK FALSE
