SPECIFICATION Spec
CONSTANTS
    Thread = {main, idle, t1, t2}
    Main = main
    Idle = idle
    Lock = {tid_lock, lk}
    lk = lk
    TidLock = tid_lock
    Sema = {s}
    DeviceSema = {s}
    Cond = {c}
    CondLock <- MCCondLock
    None = None
    TimeSlice = 2
    MaxValue = 2
    MaxTid = 4
INVARIANTS
    ListsConsistent
    MutualExclusion
    NoLostWakeup
    SignalDelivered
PROPERTIES ReadyRuns
