\* Two connections and one call, whose answer may be posted to either.
SPECIFICATION FairSpec
CONSTANTS
    Sessions = {s1, s2}
    Calls = {c1}
    NoSession = NoSession
    Slots = 1
    InboundCapacity = 2
    EventCapacity = 1
INVARIANTS
    NoLeakedEntry
    OpenWaiterIsReachable
    OutcomeIsHonest
    ClosedSessionHasNoWaiter
    AnswerCameOverOwnSession
PROPERTIES
    ImplementsElicitService
    AcceptedAnswerIsConsumed
    DisconnectDrains
CHECK_DEADLOCK FALSE
