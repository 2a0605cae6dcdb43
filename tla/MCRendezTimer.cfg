SPECIFICATION FairSpec
CONSTANTS
    Threads = {t1, t2}
    Producers = {p1}
    TimedThreads = {t1}
    Unwinders = {}
    Walks = {"latch"}
    Walker = walker
    Ticker = ticker
    None = None
INVARIANTS
    TypeOK
    NoExtinction
    NothingLost
    TimeoutIsReal
    NeverReadyOnCpu
PROPERTIES
    GroupDies
