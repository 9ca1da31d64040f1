\* Two calls and an outbound queue of one, which both may need at once.
SPECIFICATION FairSpec
CONSTANTS
    Sessions = {s1}
    Calls = {c1, c2}
    NoSession = NoSession
    Conn = s1
    OutboundCapacity = 1
INVARIANTS
    CleanReturnServesEveryCall
    TeardownLeavesNothing
PROPERTIES
    DrainEnds
    AnsweredCallIsServed
CHECK_DEADLOCK FALSE
