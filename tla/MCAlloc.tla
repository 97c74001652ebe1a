------------------------------ MODULE MCAlloc -------------------------------
(* Alloc with three kernel pages and one user page: room for a big block    *)
(* of two pages beside an arena of two blocks, and not for more.            *)
EXTENDS Alloc, TLC

Symmetry == Permutations(Threads)
=============================================================================
