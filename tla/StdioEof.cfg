\* Two calls.
SPECIFICATION Spec
CONSTANTS
    Sessions = {s1}
    Calls = {c1, c2}
    NoSession = NoSession
    Conn = s1
    OutboundCapacity = 1
INVARIANT
    EofLeavesNoWaiter
CHECK_DEADLOCK FALSE
