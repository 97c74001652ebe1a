CONSTANTS
    Threads = {t1, t2, t3}
    Idle = idle_thread
    TIME_SLICE = 1
    Semas = {}
    l1 = l1
    Locks = {l1}
    Conds = {c1}
    CondLock <- MCCondLock
    NoThread = NoThread
    NoCond = NoCond
    MaxValue = 1
SPECIFICATION FairSpec
PROPERTIES WakeupProgress SignalledWakes ReadyRuns
