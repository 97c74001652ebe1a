CONSTANTS
    NULL = NULL
    e1 = e1
    e2 = e2
    e3 = e3
    e4 = e4
    Elems = {e1, e2, e3, e4}
    Lists = {a, b}
    Key <- MCKey
    Items = {1, 2, 3, 4, 5}
    ItemKey <- MCItemKey
    Hash <- MCHash
    MIN_BUCKETS = 1
    BEST = 1
    BIT_CNT = 5
    ELEM_BITS = 3
    W = 3
    MAX_ARRAY = 5
    MAX_KEY = 4
    MEM = 7
SPECIFICATION LibSpec
INVARIANTS ListsCorrect TableCorrect BitsCorrect SortCorrect  StringsCorrect
