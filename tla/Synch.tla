------------------------------- MODULE Synch --------------------------------
(***************************************************************************)
(* The semaphores, locks and condition variables of threads/synch.c, used  *)
(* by threads that the scheduler of module Thread runs.                    *)
(*                                                                         *)
(* sema_down, sema_try_down and sema_up run with interrupts off, so each   *)
(* is one step.  Between the two halves of lock_acquire, of lock_release   *)
(* and of cond_wait interrupts are on: another thread may run there, and   *)
(* the thread's position is kept in pc:                                    *)
(*   "run"     in client code                                              *)
(*   "down"    inside sema_down's loop on the semaphore op[t]              *)
(*   "hold"    in lock_acquire, after the sema_down of lock op[t]          *)
(*   "up"      in lock_release, before the sema_up of lock op[t]           *)
(*   "sleep"   in cond_wait, before the sema_down of its own semaphore     *)
(*   "relock"  in cond_wait, before lock_acquire                           *)
(*   "bcast"   in cond_broadcast's loop                                    *)
(*   "exited"  after thread_exit                                           *)
(*                                                                         *)
(* The clients are any threads that keep the functions' assertions: they   *)
(* acquire a lock they do not hold, and release, wait and signal only with *)
(* the lock held.                                                          *)
(***************************************************************************)
EXTENDS Thread

CONSTANTS Semas,      \* counting semaphores
          Locks,
          Conds,
          CondLock,   \* the one lock each condition variable is used with
          NoThread, NoCond,
          MaxValue    \* bound: clients do not raise a semaphore above it

(* The semaphores: the plain ones, the one inside each lock, and the one in *)
(* each thread's struct semaphore_elem, named by its thread.                *)
AllSemas == Semas \cup Locks \cup Threads

ASSUME SynchAssumption ==
    /\ Semas \cap Locks = {} /\ Semas \cap Threads = {} /\ Locks \cap Threads = {}
    /\ CondLock \in [Conds -> Locks]
    /\ NoThread \notin AllThreads
    /\ NoCond \notin Conds
    /\ MaxValue \in Nat

VARIABLES value, waiters,   \* struct semaphore
          holder,           \* struct lock
          cond_waiters,     \* struct condition: whose semaphores are on it
          pc, op,           \* where each thread is, on which semaphore
          cv,               \* the condition a thread waits for or broadcasts
          held              \* locks a thread has acquired and not released

semaVars == <<value, waiters>>
synchVars == <<value, waiters, holder, cond_waiters, pc, op, cv, held>>
vars == <<threadVars, synchVars>>

Labels == {"run", "down", "hold", "up", "sleep", "relock", "bcast", "exited"}

SynchInit ==
    /\ value = [s \in AllSemas |-> IF s \in Locks THEN 1 ELSE 0]
    /\ waiters = [s \in AllSemas |-> <<>>]
    /\ holder = [l \in Locks |-> NoThread]
    /\ cond_waiters = [c \in Conds |-> <<>>]
    /\ pc = [t \in Threads |-> "run"]
    /\ op = [t \in Threads |-> t]
    /\ cv = [t \in Threads |-> NoCond]
    /\ held = [t \in Threads |-> {}]

Init == ThreadInit /\ SynchInit
-----------------------------------------------------------------------------
At(t, label) == current = t /\ pc[t] = label

(* A thread that resumes inside sema_down does so with interrupts off.      *)
IntrOn == \A t \in Threads : ~At(t, "down")

Goto(t, label) == pc' = [pc EXCEPT ![t] = label]

(* Where the caller of sema_down continues.                                 *)
AfterDown(t, s) ==
    IF s \in Locks THEN "hold" ELSE IF s = t THEN "relock" ELSE "run"

(* One test of sema_down's loop: on entry and after every wakeup.           *)
sema_down(t, s) ==
    /\ op' = [op EXCEPT ![t] = s]
    /\ IF value[s] = 0
       THEN /\ waiters' = [waiters EXCEPT ![s] = Append(@, t)]
            /\ thread_block
            /\ Goto(t, "down")
            /\ UNCHANGED value
       ELSE /\ value' = [value EXCEPT ![s] = @ - 1]
            /\ Goto(t, AfterDown(t, s))
            /\ UNCHANGED <<waiters, threadVars>>

TryDownWithoutTest(t, s) ==
    /\ value' = [value EXCEPT ![s] = 0]
    /\ UNCHANGED <<waiters, threadVars>>

(* The successful case; a failed try changes nothing.                       *)
sema_try_down(t, s) ==
    /\ value[s] > 0
    /\ value' = [value EXCEPT ![s] = @ - 1]
    /\ UNCHANGED <<waiters, threadVars>>

UpWithoutWake(s) ==
    /\ value' = [value EXCEPT ![s] = @ + 1]
    /\ UNCHANGED <<waiters, threadVars>>

UpWakesOnlyFromZero(s) ==
    /\ value' = [value EXCEPT ![s] = @ + 1]
    /\ IF waiters[s] = <<>> \/ value[s] > 0
       THEN UNCHANGED <<waiters, threadVars>>
       ELSE /\ thread_unblock(Head(waiters[s]))
            /\ waiters' = [waiters EXCEPT ![s] = Tail(@)]

sema_up(s) ==
    /\ value' = [value EXCEPT ![s] = @ + 1]
    /\ IF waiters[s] = <<>>
       THEN UNCHANGED <<waiters, threadVars>>
       ELSE /\ thread_unblock(Head(waiters[s]))
            /\ waiters' = [waiters EXCEPT ![s] = Tail(@)]
-----------------------------------------------------------------------------
(* Client calls on counting semaphores.                                     *)
SemaDown(t, s) ==
    /\ At(t, "run")
    /\ sema_down(t, s)
    /\ UNCHANGED <<holder, cond_waiters, cv, held>>

SemaTryDown(t, s) ==
    /\ At(t, "run")
    /\ sema_try_down(t, s)
    /\ UNCHANGED <<holder, cond_waiters, pc, op, cv, held>>

SemaUp(t, s) ==
    /\ At(t, "run")
    /\ value[s] < MaxValue
    /\ sema_up(s)
    /\ UNCHANGED <<holder, cond_waiters, pc, op, cv, held>>

(* sema_up called by the handler of an external interrupt.                  *)
IntrSemaUp(s) ==
    /\ IntrOn
    /\ value[s] < MaxValue
    /\ sema_up(s)
    /\ UNCHANGED <<holder, cond_waiters, pc, op, cv, held>>

(* thread_block () in sema_down returns: the loop tests the value again.    *)
Retry(t) ==
    /\ At(t, "down")
    /\ sema_down(t, op[t])
    /\ UNCHANGED <<holder, cond_waiters, cv, held>>
-----------------------------------------------------------------------------
lock_acquire(t, l) ==
    /\ At(t, "run")
    /\ holder[l] # t
    /\ sema_down(t, l)
    /\ UNCHANGED <<holder, cond_waiters, cv, held>>

lock_try_acquire(t, l) ==
    /\ At(t, "run")
    /\ holder[l] # t
    /\ sema_try_down(t, l)
    /\ op' = [op EXCEPT ![t] = l]
    /\ Goto(t, "hold")
    /\ UNCHANGED <<holder, cond_waiters, cv, held>>

(* lock->holder = thread_current (): the end of lock_acquire, and of        *)
(* cond_wait when the thread was in one.                                    *)
SetHolder(t) ==
    /\ At(t, "hold")
    /\ holder' = [holder EXCEPT ![op[t]] = t]
    /\ held' = [held EXCEPT ![t] = @ \cup {op[t]}]
    /\ cv' = [cv EXCEPT ![t] = NoCond]
    /\ Goto(t, "run")
    /\ UNCHANGED <<threadVars, semaVars, cond_waiters, op>>

ClearHolder(t, l) ==
    /\ l \in held[t]
    /\ holder' = [holder EXCEPT ![l] = NoThread]
    /\ held' = [held EXCEPT ![t] = @ \ {l}]
    /\ op' = [op EXCEPT ![t] = l]
    /\ Goto(t, "up")

lock_release(t, l) ==
    /\ At(t, "run")
    /\ ClearHolder(t, l)
    /\ UNCHANGED <<threadVars, semaVars, cond_waiters, cv>>

ReleaseUp(t) ==
    /\ At(t, "up")
    /\ sema_up(op[t])
    /\ Goto(t, IF cv[t] = NoCond THEN "run" ELSE "sleep")
    /\ UNCHANGED <<holder, cond_waiters, op, cv, held>>
-----------------------------------------------------------------------------
(* cond_wait up to the first half of its lock_release.  The thread still    *)
(* has the lock's semaphore, so no one sees the queue and the holder        *)
(* between their two changes.                                               *)
cond_wait(t, c) ==
    /\ At(t, "run")
    /\ value' = [value EXCEPT ![t] = 0]
    /\ waiters' = [waiters EXCEPT ![t] = <<>>]
    /\ cond_waiters' = [cond_waiters EXCEPT ![c] = Append(@, t)]
    /\ cv' = [cv EXCEPT ![t] = c]
    /\ ClearHolder(t, CondLock[c])
    /\ UNCHANGED threadVars

SleepOnFreshSema(t) ==
    /\ At(t, "sleep")
    /\ op' = [op EXCEPT ![t] = t]
    /\ value' = [value EXCEPT ![t] = 0]
    /\ waiters' = [waiters EXCEPT ![t] = <<t>>]
    /\ thread_block
    /\ Goto(t, "down")
    /\ UNCHANGED <<holder, cond_waiters, cv, held>>

CondSleep(t) ==
    /\ At(t, "sleep")
    /\ sema_down(t, t)
    /\ UNCHANGED <<holder, cond_waiters, cv, held>>

CondRelock(t) ==
    /\ At(t, "relock")
    /\ sema_down(t, CondLock[cv[t]])
    /\ UNCHANGED <<holder, cond_waiters, cv, held>>

SignalOne(c) ==
    /\ cond_waiters[c] # <<>>
    /\ sema_up(Head(cond_waiters[c]))
    /\ cond_waiters' = [cond_waiters EXCEPT ![c] = Tail(@)]

(* With no waiter, cond_signal changes nothing.                             *)
cond_signal(t, c) ==
    /\ At(t, "run")
    /\ CondLock[c] \in held[t]
    /\ SignalOne(c)
    /\ UNCHANGED <<holder, pc, op, cv, held>>

cond_broadcast(t, c) ==
    /\ At(t, "run")
    /\ CondLock[c] \in held[t]
    /\ cv' = [cv EXCEPT ![t] = c]
    /\ Goto(t, "bcast")
    /\ UNCHANGED <<threadVars, semaVars, holder, cond_waiters, op, held>>

BroadcastNext(t) ==
    /\ At(t, "bcast")
    /\ \/ /\ SignalOne(cv[t])
          /\ UNCHANGED <<pc, cv>>
       \/ /\ cond_waiters[cv[t]] = <<>>
          /\ cv' = [cv EXCEPT ![t] = NoCond]
          /\ Goto(t, "run")
          /\ UNCHANGED <<threadVars, semaVars, cond_waiters>>
    /\ UNCHANGED <<holder, op, held>>
-----------------------------------------------------------------------------
Yield(t) == At(t, "run") /\ thread_yield /\ UNCHANGED synchVars

(* A thread that exits holds no lock.                                       *)
Exit(t) ==
    /\ At(t, "run")
    /\ held[t] = {}
    /\ thread_exit
    /\ Goto(t, "exited")
    /\ UNCHANGED <<semaVars, holder, cond_waiters, op, cv, held>>

Tick == IntrOn /\ thread_tick /\ UNCHANGED synchVars

IdleLoop == idle /\ UNCHANGED synchVars

(* The steps a thread takes once it is inside a function of synch.c.        *)
Continue(t) ==
    \/ Retry(t) \/ SetHolder(t) \/ ReleaseUp(t)
    \/ CondSleep(t) \/ CondRelock(t) \/ BroadcastNext(t)

ClientCall(t) ==
    \/ \E s \in Semas : SemaDown(t, s) \/ SemaTryDown(t, s) \/ SemaUp(t, s)
    \/ \E l \in Locks : lock_acquire(t, l) \/ lock_try_acquire(t, l)
                        \/ lock_release(t, l)
    \/ \E c \in Conds : cond_wait(t, c) \/ cond_signal(t, c)
                        \/ cond_broadcast(t, c)
    \/ Yield(t) \/ Exit(t)

Next ==
    \/ \E t \in Threads : ClientCall(t) \/ Continue(t)
    \/ \E s \in Semas : IntrSemaUp(s)
    \/ Tick
    \/ IdleLoop

Spec == Init /\ [][Next]_vars

(* The timer ticks, the idle thread leaves its hlt, a thread inside         *)
(* synch.c gets through its next step in some time slice, and a client that *)
(* holds a lock gives it back.                                              *)
Fairness ==
    /\ WF_vars(Tick)
    /\ WF_vars(IdleLoop)
    /\ \A t \in Threads :
         /\ SF_vars(Continue(t))
         /\ \A l \in Locks : SF_vars(lock_release(t, l))

FairSpec == Spec /\ Fairness
-----------------------------------------------------------------------------
TypeOK ==
    /\ ThreadTypeOK
    /\ value \in [AllSemas -> Nat]
    /\ waiters \in [AllSemas -> Seq(Threads)]
    /\ holder \in [Locks -> Threads \cup {NoThread}]
    /\ cond_waiters \in [Conds -> Seq(Threads)]
    /\ pc \in [Threads -> Labels]
    /\ op \in [Threads -> AllSemas]
    /\ cv \in [Threads -> Conds \cup {NoCond}]
    /\ held \in [Threads -> SUBSET Locks]

(* A thread has lock l from the sema_down that took it to the sema_up that  *)
(* gives it back.                                                           *)
Has(t, l) == l \in held[t] \/ (pc[t] \in {"hold", "up"} /\ op[t] = l)

(* "A lock can be held by at most a single thread at any given time"        *)
(* (lock_init): two threads never have the same lock, and its semaphore is  *)
(* 1 exactly when no thread has it.                                         *)
MutualExclusion ==
    \A l \in Locks :
        /\ \A t, u \in Threads : Has(t, l) /\ Has(u, l) => t = u
        /\ value[l] = IF \E t \in Threads : Has(t, l) THEN 0 ELSE 1

(* The assertions on lock_held_by_current_thread in lock_acquire,           *)
(* lock_release and the condition functions test what they mean to test:    *)
(* holder names a thread exactly while that thread holds the lock.          *)
HolderAccurate ==
    \A t \in Threads, l \in Locks : holder[l] = t <=> l \in held[t]

InDown(t, s) == pc[t] = "down" /\ op[t] = s

(* The comment on elem in thread.h: a thread is on a semaphore's wait list  *)
(* only while it is blocked, on one list and once.  Conversely, whoever is  *)
(* blocked in sema_down is on the list of that semaphore, so some sema_up   *)
(* can find it.                                                             *)
WaitersBlocked ==
    \A s \in AllSemas :
        /\ NoRepeat(waiters[s])
        /\ \A t \in Threads :
             On(t, waiters[s]) <=> InDown(t, s) /\ status[t] = "BLOCKED"

Woken(s) == {t \in Threads : InDown(t, s) /\ status[t] # "BLOCKED"}

(* No lost wakeup.  sema_up wakes one thread but does not hand it the       *)
(* semaphore: a running thread may take it first, and the woken thread      *)
(* queues again.  Still, while threads wait, every unit of value has a      *)
(* thread already on its way to take it.                                    *)
NoLostWakeup ==
    \A s \in AllSemas :
        waiters[s] # <<>> => value[s] <= Cardinality(Woken(s))

WaitsSignal(t) == pc[t] \in {"up", "sleep"} \/ InDown(t, t)

(* cond_wait releases the lock before it sleeps.  A signal that arrives in  *)
(* between is not lost, and no thread returns without one: a waiter is on   *)
(* the condition's list until it is signalled, and from then until it wakes *)
(* its semaphore is 1.                                                      *)
SignalNotLost ==
    \A t \in Threads, c \in Conds :
        IF cv[t] = c /\ WaitsSignal(t)
        THEN value[t] = IF On(t, cond_waiters[c]) THEN 0 ELSE 1
        ELSE ~On(t, cond_waiters[c])

(* A semaphore does not stay positive with threads asleep on it.            *)
WakeupProgress ==
    \A s \in Semas \cup Locks :
        (value[s] > 0 /\ waiters[s] # <<>>) ~> (value[s] = 0 \/ waiters[s] = <<>>)

(* A thread that has been signalled gets past its semaphore and goes on to  *)
(* take the lock again, wherever in cond_wait the signal reached it.        *)
SignalledWakes ==
    \A t \in Threads :
        (WaitsSignal(t) /\ value[t] = 1) ~> pc[t] = "relock"

(* The abstract lock: a thread takes it at the sema_down of lock_acquire    *)
(* and gives it back at the sema_up of lock_release.                        *)
Owner == [l \in Locks |-> IF \E t \in Threads : Has(t, l)
                          THEN CHOOSE t \in Threads : Has(t, l)
                          ELSE NoThread]

LS == INSTANCE LockSpec WITH owner <- Owner

LockRefinement == LS!Spec
=============================================================================
