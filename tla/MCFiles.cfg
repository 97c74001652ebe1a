CONSTANTS
    Procs = {p1, p2}
    Paths <- MCPaths
    RmParent = {p2}
    NINODES = 3
    MAX_OPEN = 2
    DIR_MAX = 1
    PWD_ABOVE = 1
SPECIFICATION Spec
INVARIANTS NamesFormTree 
PROPERTIES OthersKeepFiles
CHECK_DEADLOCK FALSE
