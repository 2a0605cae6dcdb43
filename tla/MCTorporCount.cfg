SPECIFICATION Spec
CONSTANTS
    t1 = t1
    t2 = t2
    t3 = t3
    u1 = u1
    P = P
    Q = Q
    a1 = a1
    None = None
    Control = Control
    Procs = {P, Q}
    Waiters = {t1, t2}
    Producers = {u1}
    ProcOf <- ProcOfLive
    Addrs = {a1}
    NBuckets = 2
    Hash <- HashOne
    Counts = {1}
    Controls = {}
    Expects = {0}
    Deadlines = {"later"}
    Noted = {}
    Unmaps = {}
    MaxWaits = 1
    MaxWakes = 1
    MaxControls = 0
CHECK_DEADLOCK FALSE
INVARIANTS
    WakesAtMostCount
