SPECIFICATION FairSpec
CONSTANTS
    t1 = t1
    t2 = t2
    t3 = t3
    Thread <- MCThread
    NoThread = NoThread
    WatchdogThread = t1
    Owner = t2
    Signalers = {t3}
    Duration = 2
    MaxTime = 3
    MaxBreak = 1
    Callers = {t1, t2}
    Main = t1
    Instances = {"part", "user", "logger", "lock"}
    Leaky = {"lock"}
    StaticMemory = {"logger"}
    Parts <- MCParts
    Flags = {1, 2, 3}
    NoFlag = 0
    References = {1, 2, 3}
INVARIANTS
    TypeOK
    EventsConserved
    NoSignalLost
    StaticsPromises
    WeakPromises
PROPERTIES
    ImplementsConditionVariable
    AlarmsOnlyWhenDue
    NobodyWaitsForever
CHECK_DEADLOCK FALSE
