CONSTANTS
    Threads = {t1, t2}
    Sizes = {3, 11}
    FREE_PAGES = 6
    USER_LIMIT = 2
    PGSIZE = 16
    HEADER = 6
    MIN_BLOCK = 4
    WORD = 8
    NOBODY = NOBODY
SPECIFICATION Spec
INVARIANTS PagesHeldOnce BlocksAccounted
SYMMETRY Symmetry
