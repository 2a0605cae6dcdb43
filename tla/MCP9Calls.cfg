SPECIFICATION FairSpec
CONSTANTS
    t1 = t1
    t2 = t2
    t3 = t3
    a1 = a1
    f1 = f1
    f2 = f2
    f3 = f3
    Threads = {t1, t2, t3}
    Asyncs = {a1}
    Pumper = Pumper
    None = None
    Mixes <- AllMixes
    FidOf <- SomeFids
    OpsMax = 2
    AsyncMax = 1
    TagLimit = 2
    MaxFids = 2
    RingCap = 1
    ReplyCap = 1
    ServerMax = 2
    Mortal = {t1}
    Notable = {t1}
    Stoppable = {t3}
    Latched = {}
    Breaking <- BreakMixes
CHECK_DEADLOCK FALSE
INVARIANTS
    TagNamesOneOp
    OneReader
    
    IntrMeansNotRun
    SessionDiesForCause
PROPERTIES
    CompletedOnce
    CallsEnd
    AsyncsDelivered
