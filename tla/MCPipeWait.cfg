SPECIFICATION FairSpec
CONSTANTS
    Readers = {r1, r2}
    Writers = {w1, w2}
    ReadEnd = ReadEnd
    WriteEnd = WriteEnd
    Hangup = Hangup
    Capacity = 2
    Sizes = {2}
    ReadSizes = {1}
    Modes = {"block"}
    Mortal = {w1}
    MaxCalls = 1
    Traced = FALSE
    None = None
CHECK_DEADLOCK FALSE
INVARIANTS
    NoStuckWaiter
    HooksLive
    RingAlive
PROPERTIES
    CallsEnd
