CONSTANTS
    Names = {n1, n2}
    Files = {f1, f2}
    Bytes = {1}
    Sizes = {2}
    Offsets = {1, 3, 8}
    NSECTORS = 14
    SECTOR_SIZE = 2
    DIRECT = 1
    ENTRIES = 2
    MAX_CREATES = 2
    NULL = NULL
SYMMETRY FileSymmetry
SPECIFICATION Spec
INVARIANTS  OpenersCounted
 
CHECK_DEADLOCK FALSE
