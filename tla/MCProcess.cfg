CONSTANTS
    Main = 1
    Procs = {5, 6, 7}
    Statuses <- MCStatuses
    Program <- MCProgram
    TASKS = 1
    BOOT_CHILDREN = 3
SPECIFICATION FairSpec
INVARIANTS ParentAwaitsLoad MainAwaitsExit
  
CHECK_DEADLOCK FALSE
