------------------------------- MODULE Thread -------------------------------
(***************************************************************************)
(* The scheduler of threads/thread.c: one CPU, a FIFO run queue and an     *)
(* idle thread that runs when the queue is empty.  Every operation here    *)
(* runs with interrupts off from its first change to its last, so each is  *)
(* one step; a timer interrupt falls between two steps.                    *)
(*                                                                         *)
(* Threads are the threads other than the idle thread.  The specification  *)
(* ThreadSpec lets the running thread block, yield or exit and lets any    *)
(* blocked thread be unblocked at any time; the modules that extend this   *)
(* one say when that happens.                                              *)
(***************************************************************************)
EXTENDS Naturals, Sequences, FiniteSets

CONSTANTS Threads,     \* every thread but the idle thread
          Idle,        \* idle_thread
          TIME_SLICE   \* timer ticks given to each thread

ASSUME ThreadAssumption ==
    /\ Threads # {}
    /\ IsFiniteSet(Threads)
    /\ Idle \notin Threads
    /\ TIME_SLICE \in Nat \ {0}

VARIABLES current,      \* thread_current ()
          status,       \* struct thread's status member
          ready_list,   \* the run queue
          thread_ticks  \* timer ticks since the last switch

threadVars == <<current, status, ready_list, thread_ticks>>

AllThreads == Threads \cup {Idle}
Status == {"RUNNING", "READY", "BLOCKED", "DYING"}

(* A list that threads are on: which ones, and none of them twice.          *)
On(t, q) == \E i \in DOMAIN q : q[i] = t
NoRepeat(q) == \A i, j \in DOMAIN q : q[i] = q[j] => i = j

(***************************************************************************)
(* After boot: the threads have been created, and any one of them runs.    *)
(* The idle thread has blocked itself once.                                *)
(***************************************************************************)
ThreadInit ==
    /\ current \in Threads
    /\ status = [t \in AllThreads |-> IF t = current THEN "RUNNING"
                                 ELSE IF t = Idle THEN "BLOCKED" ELSE "READY"]
    /\ ready_list \in [1 .. Cardinality(Threads) - 1 -> Threads \ {current}]
    /\ NoRepeat(ready_list)
    /\ \A t \in Threads \ {current} : On(t, ready_list)
    /\ thread_ticks = 0
-----------------------------------------------------------------------------
next_thread_to_run(queue) == IF queue = <<>> THEN Idle ELSE Head(queue)

(* schedule () and schedule_tail (): the running thread has got the status  *)
(* s, and queue is the run queue the next thread is taken from.             *)
schedule(s, queue) ==
    LET next == next_thread_to_run(queue)
    IN  /\ current' = next
        /\ status' = [status EXCEPT ![current] = s, ![next] = "RUNNING"]
        /\ ready_list' = IF queue = <<>> THEN <<>> ELSE Tail(queue)
        /\ thread_ticks' = 0

thread_block == schedule("BLOCKED", ready_list)

thread_exit == schedule("DYING", ready_list)

YieldToFront == schedule("READY", IF current = Idle THEN ready_list
                                  ELSE <<current>> \o ready_list)

YieldIdleToo == schedule("READY", Append(ready_list, current))

thread_yield ==
    schedule("READY", IF current = Idle THEN ready_list
                      ELSE Append(ready_list, current))

UnblockKeepsStatus(t) ==
    /\ status[t] = "BLOCKED"
    /\ ready_list' = Append(ready_list, t)
    /\ UNCHANGED <<current, status, thread_ticks>>

thread_unblock(t) ==
    /\ status[t] = "BLOCKED"
    /\ ready_list' = Append(ready_list, t)
    /\ status' = [status EXCEPT ![t] = "READY"]
    /\ UNCHANGED <<current, thread_ticks>>

(* The timer interrupt.  The yield it asks for happens on return from the   *)
(* interrupt, before interrupts are enabled again.                          *)
thread_tick ==
    IF thread_ticks + 1 >= TIME_SLICE
    THEN thread_yield
    ELSE /\ thread_ticks' = thread_ticks + 1
         /\ UNCHANGED <<current, status, ready_list>>

(* One turn of the idle thread's loop: any interrupt ends the hlt, and the  *)
(* thread blocks itself again.                                              *)
idle == current = Idle /\ thread_block
-----------------------------------------------------------------------------
ThreadNext ==
    \/ current # Idle /\ (thread_block \/ thread_yield \/ thread_exit)
    \/ \E t \in Threads : thread_unblock(t)
    \/ thread_tick
    \/ idle

ThreadSpec == ThreadInit /\ [][ThreadNext]_threadVars

(* The timer never stops, and an interrupt wakes the idle thread.           *)
ThreadFairness == WF_threadVars(thread_tick) /\ WF_threadVars(idle)

ThreadFairSpec == ThreadSpec /\ ThreadFairness
-----------------------------------------------------------------------------
ThreadTypeOK ==
    /\ current \in AllThreads
    /\ status \in [AllThreads -> Status]
    /\ ready_list \in Seq(Threads)
    /\ thread_ticks \in 0 .. TIME_SLICE - 1

(* Only the thread on the CPU is RUNNING (thread_current () asserts it),    *)
(* and it is the only one.                                                  *)
OneRunning == \A t \in AllThreads : status[t] = "RUNNING" <=> t = current

(* The comment on ready_list in thread.c and the one on elem in thread.h:   *)
(* the run queue holds the READY threads and no others, and none of them    *)
(* twice, since each has a single elem.  The idle thread is never on it.    *)
ReadyOnQueue ==
    /\ NoRepeat(ready_list)
    /\ \A t \in Threads : status[t] = "READY" <=> On(t, ready_list)

(* What schedule () and thread_unblock () rely on, and must keep, for every  *)
(* order of blocking, waking, preemption and idling.                        *)
SchedulerInv == OneRunning /\ ReadyOnQueue

(* Round robin: a thread that is ready to run gets the CPU, whatever the    *)
(* other threads do, because each of them is preempted after a time slice   *)
(* and goes to the back of the queue.                                       *)
ReadyRuns ==
    \A t \in Threads : status[t] = "READY" ~> status[t] = "RUNNING"
=============================================================================
