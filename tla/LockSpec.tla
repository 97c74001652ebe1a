------------------------------ MODULE LockSpec ------------------------------
(***************************************************************************)
(* What a lock of threads/synch.h promises its callers: it is free or held *)
(* by one thread, only a free lock can be taken, and only the thread that  *)
(* took it gives it back.                                                  *)
(***************************************************************************)
CONSTANTS Threads, Locks, NoThread

VARIABLE owner   \* owner[l] is the thread between acquiring and releasing l

LockInit == owner = [l \in Locks |-> NoThread]

Acquire(t, l) ==
    /\ owner[l] = NoThread
    /\ owner' = [owner EXCEPT ![l] = t]

Release(t, l) ==
    /\ owner[l] = t
    /\ owner' = [owner EXCEPT ![l] = NoThread]

LockNext == \E t \in Threads, l \in Locks : Acquire(t, l) \/ Release(t, l)

Spec == LockInit /\ [][LockNext]_owner
=============================================================================
