SPECIFICATION FairSpec
CONSTANTS
    Threads = {t1}
    Producers = {p1}
    TimedThreads = {t1}
    Unwinders = {}
    Walks = {"kill", "latch", "stop debug", "stop job", "resume debug", "resume job"}
    Walker = walker
    Ticker = ticker
    None = None
INVARIANTS
    NothingLost
PROPERTIES
    StopSettles
    WaitsEnd
    DeathWinsOverStop
