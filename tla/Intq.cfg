CONSTANTS
    Threads = {t1, t2, t3}
    NULL = NULL
    INTQ_BUFSIZE = 4
    Numbers = 5
SPECIFICATION FairSpec
INVARIANTS InOrder SleeperRegistered
PROPERTIES SleeperWoken
CHECK_DEADLOCK FALSE
