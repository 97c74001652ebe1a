CONSTANTS
    Threads = {t1, t2}
    N = 2
    Sectors = {s1, s2, s3}
    Values = {v1, v2}
    NoCall = NoCall
    None = None
    MaxTicks = 1
SYMMETRY CacheSymmetry
SPECIFICATION Spec
INVARIANTS CacheCoherent FlushDurable SemaAccounted
PROPERTIES CacheRefinement
