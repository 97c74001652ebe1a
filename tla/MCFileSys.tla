----------------------------- MODULE MCFileSys -----------------------------
(* FileSys for TLC: the names and the struct files are interchangeable.     *)
EXTENDS FileSys

FileSymmetry == Permutations(Names) \cup Permutations(Files)
=============================================================================
