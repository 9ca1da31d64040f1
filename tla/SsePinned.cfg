\* One connection, two calls.
SPECIFICATION TimedSpec
CONSTANTS
    Sessions = {s1}
    Calls = {c1, c2}
    NoSession = NoSession
    Slots = 1
    InboundCapacity = 2
    EventCapacity = 1
PROPERTY SilentClientPinsNoCall
CHECK_DEADLOCK FALSE
