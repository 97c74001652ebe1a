--------------------------- MODULE MCBufferCache ----------------------------
EXTENDS BufferCache, TLC

(* Sectors, values and threads are interchangeable for the cache.           *)
CacheSymmetry ==
    Permutations(Sectors) \cup Permutations(Values) \cup Permutations(Threads)
=============================================================================
