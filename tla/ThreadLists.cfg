CONSTANTS
    NULL = NULL
    Threads = {main, t1, t2, t3}
    Idle = idle
    Main = main
    MaxChildren = 2
SPECIFICATION Spec
INVARIANTS NoReadyThreadLost
