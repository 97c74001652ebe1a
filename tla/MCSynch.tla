------------------------------ MODULE MCSynch -------------------------------
(* Constants for model-checking Synch: every condition uses the same lock. *)
EXTENDS Synch, TLC

CONSTANT l1

MCCondLock == [c \in Conds |-> l1]

ThreadSymmetry == Permutations(Threads)
=============================================================================
