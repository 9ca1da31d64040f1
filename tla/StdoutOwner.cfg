\* Two scopes in one process, each with one tool call.
SPECIFICATION FairSpec
CONSTANTS
    Scopes = {o1, o2}
    Calls = {k1}
    Nobody = Nobody
INVARIANTS
    ProtocolReachesTheClient
    StdoutIsGivenBack
    QuietBeforeRelease
PROPERTIES
    ImplementsStdoutLock
    DroppedScopeLetsGo
    OrderlyEndReleases
CHECK_DEADLOCK FALSE
