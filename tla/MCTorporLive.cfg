SPECIFICATION FairSpec
CONSTANTS
    t1 = t1
    t2 = t2
    t3 = t3
    u1 = u1
    P = P
    Q = Q
    a1 = a1
    None = None
    Control = Control
    Procs = {P, Q}
    Waiters = {t1}
    Producers = {u1}
    ProcOf <- ProcOfOne
    Addrs = {a1}
    NBuckets = 2
    Hash <- HashOne
    Counts = {1}
    Controls = {"death", "stop", "resume"}
    Expects = {0}
    Deadlines = {"none", "now", "later"}
    Noted = {t1}
    Unmaps <- UnmapsLive
    MaxWaits = 1
    MaxWakes = 1
    MaxControls = 2
CHECK_DEADLOCK FALSE
INVARIANTS
    NoLostWake
    NoForgedWake
PROPERTIES
    WaitsEnd
    WalksEnd
