---------------------------- MODULE SynchProofs -----------------------------
(***************************************************************************)
(* Proofs about the scheduler of module Thread, for any number of threads, *)
(* and about the semaphores, locks and condition variables built on it,    *)
(* for any number of threads, semaphores, locks and conditions.            *)
(***************************************************************************)
EXTENDS Synch, FiniteSetTheorems, TLAPS

ThreadInv == ThreadTypeOK /\ SchedulerInv

(* The elements of a sequence after Append and after Tail.                  *)
LEMMA AppendElements ==
    ASSUME NEW S, NEW q \in Seq(S), NEW x \in S
    PROVE  /\ Append(q, x) \in Seq(S)
           /\ DOMAIN Append(q, x) = DOMAIN q \cup {Len(q) + 1}
           /\ \A i \in DOMAIN q : Append(q, x)[i] = q[i]
           /\ Append(q, x)[Len(q) + 1] = x
           /\ Len(q) + 1 \notin DOMAIN q
  BY SMT

(* The elements of a queue without its head.                                *)
LEMMA TailElements ==
    ASSUME NEW S, NEW q \in Seq(S), q # <<>>
    PROVE  /\ Tail(q) \in Seq(S)
           /\ Head(q) \in S
           /\ 1 \in DOMAIN q
           /\ Head(q) = q[1]
           /\ \A i : i \in DOMAIN Tail(q) <=> i \in Nat /\ i + 1 \in DOMAIN q /\ i + 1 # 1
           /\ \A i \in DOMAIN Tail(q) : Tail(q)[i] = q[i + 1]
  BY SMT

(* Leaving the queue through its head and entering it at its tail keep it a *)
(* list without repetition, with one element less or one element more.      *)
LEMMA PushBack ==
    ASSUME NEW S, NEW q \in Seq(S), NEW x \in S
    PROVE  /\ Append(q, x) \in Seq(S)
           /\ Append(q, x) # <<>>
           /\ NoRepeat(q) /\ ~On(x, q) => NoRepeat(Append(q, x))
           /\ \A t : On(t, Append(q, x)) <=> t = x \/ On(t, q)
  <1> DEFINE r == Append(q, x)
  <1>1. /\ r \in Seq(S)
        /\ DOMAIN r = DOMAIN q \cup {Len(q) + 1}
        /\ \A i \in DOMAIN q : r[i] = q[i]
        /\ r[Len(q) + 1] = x
    BY AppendElements
  <1> HIDE DEF r
  <1>2. r # <<>>
    BY <1>1, SMT
  <1>3. \A t : On(t, r) <=> t = x \/ On(t, q)
    BY <1>1, SMT DEF On
  <1>4. ASSUME NoRepeat(q), ~On(x, q) PROVE NoRepeat(r)
    BY <1>1, <1>4, SMT DEF On, NoRepeat
  <1> QED
    BY <1>1, <1>2, <1>3, <1>4 DEF r

(* list_pop_front takes the head off, and it is on the list no more.        *)
LEMMA PopFront ==
    ASSUME NEW S, NEW q \in Seq(S), q # <<>>
    PROVE  /\ Tail(q) \in Seq(S)
           /\ Head(q) \in S
           /\ On(Head(q), q)
           /\ NoRepeat(q) => NoRepeat(Tail(q)) /\ ~On(Head(q), Tail(q))
           /\ \A t : On(t, q) <=> t = Head(q) \/ On(t, Tail(q))
  <1>1. On(Head(q), q)
    BY TailElements DEF On
  <1>2. ASSUME NoRepeat(q) PROVE NoRepeat(Tail(q)) /\ ~On(Head(q), Tail(q))
    BY <1>2, TailElements DEF On, NoRepeat
  <1>3. ASSUME NEW t, On(t, q) PROVE t = Head(q) \/ On(t, Tail(q))
    <2>1. PICK i \in DOMAIN q : q[i] = t
      BY <1>3 DEF On
    <2>2. i \in Nat \ {0}
      BY <2>1, SMT
    <2>3. CASE i = 1
      BY <2>1, <2>3, TailElements
    <2>4. CASE i # 1
      <3>1. i - 1 \in DOMAIN Tail(q) /\ Tail(q)[i - 1] = q[i]
        BY <2>1, <2>2, <2>4, TailElements, SMT
      <3> QED
        BY <2>1, <3>1 DEF On
    <2> QED
      BY <2>3, <2>4
  <1>4. ASSUME NEW t, On(t, Tail(q)) PROVE On(t, q)
    BY <1>4, TailElements, SMT DEF On
  <1> QED
    BY <1>1, <1>2, <1>3, <1>4, TailElements

(* Nothing is on an empty queue.                                            *)
LEMMA EmptyQueue == \A t : ~On(t, <<>>)
  BY DEF On
-----------------------------------------------------------------------------
(* schedule () with a run queue that holds the READY threads: the invariant *)
(* holds again, and no thread other than the one that gave up the CPU       *)
(* becomes blocked or stops being so.                                       *)
LEMMA ScheduleInv ==
    ASSUME ThreadTypeOK, OneRunning,
           NEW s \in Status \ {"RUNNING"},
           NEW queue \in Seq(Threads),
           NoRepeat(queue),
           \A t \in Threads : On(t, queue) <=>
               (t # current /\ status[t] = "READY") \/ (t = current /\ s = "READY"),
           schedule(s, queue)
    PROVE  /\ ThreadInv'
           /\ \A t \in Threads \ {current} :
                status'[t] = "BLOCKED" <=> status[t] = "BLOCKED"
           /\ current \in Threads /\ s = "BLOCKED" => status'[current] = "BLOCKED"
  <1> DEFINE next == next_thread_to_run(queue)
  <1>1. /\ current' = next
        /\ status' = [status EXCEPT ![current] = s, ![next] = "RUNNING"]
        /\ ready_list' = IF queue = <<>> THEN <<>> ELSE Tail(queue)
        /\ thread_ticks' = 0
    BY DEF schedule
  <1>2. /\ next \in AllThreads
        /\ next = Idle \/ On(next, queue)
        /\ ready_list' \in Seq(Threads)
        /\ NoRepeat(ready_list')
        /\ \A t \in Threads : On(t, ready_list') <=> On(t, queue) /\ t # next
    <2>1. CASE queue = <<>>
      <3>1. next = Idle /\ ready_list' = <<>>
        BY <1>1, <2>1 DEF next_thread_to_run
      <3>2. NoRepeat(<<>>) /\ <<>> \in Seq(Threads)
        BY SMT DEF NoRepeat
      <3> QED
        BY <3>1, <3>2, <2>1, EmptyQueue DEF AllThreads
    <2>2. CASE queue # <<>>
      <3>1. next = Head(queue) /\ ready_list' = Tail(queue)
        BY <1>1, <2>2 DEF next_thread_to_run
      <3> QED
        BY <3>1, <2>2, PopFront DEF AllThreads
    <2> QED
      BY <2>1, <2>2
  <1> HIDE DEF next
  <1>3. \A t \in AllThreads :
          status'[t] = IF t = next THEN "RUNNING" ELSE IF t = current THEN s ELSE status[t]
    BY <1>1, <1>2 DEF ThreadTypeOK
  <1>4. ThreadTypeOK'
    BY <1>1, <1>2, ThreadAssumption, SMT DEF ThreadTypeOK, Status
  <1>5. OneRunning'
    BY <1>1, <1>3, Zenon DEF OneRunning
  <1>6. ReadyOnQueue'
    BY <1>2, <1>3 DEF ReadyOnQueue, AllThreads
  <1>7. \A t \in Threads \ {current} :
          status'[t] = "BLOCKED" <=> status[t] = "BLOCKED"
    BY <1>2, <1>3, ThreadAssumption DEF AllThreads
  <1>8. current \in Threads /\ s = "BLOCKED" => status'[current] = "BLOCKED"
    BY <1>2, <1>3, ThreadAssumption DEF AllThreads
  <1> QED
    BY <1>4, <1>5, <1>6, <1>7, <1>8 DEF ThreadInv, SchedulerInv

(* The run queue that the invariant describes meets ScheduleInv's condition *)
(* for a thread that blocks or exits.                                       *)
LEMMA BlockInv ==
    ASSUME ThreadInv, NEW s \in {"BLOCKED", "DYING"}, schedule(s, ready_list)
    PROVE  /\ ThreadInv'
           /\ \A t \in Threads \ {current} :
                status'[t] = "BLOCKED" <=> status[t] = "BLOCKED"
           /\ current \in Threads /\ s = "BLOCKED" => status'[current] = "BLOCKED"
  <1>1. /\ ready_list \in Seq(Threads) /\ NoRepeat(ready_list)
        /\ \A t \in Threads : On(t, ready_list) <=>
              (t # current /\ status[t] = "READY") \/ (t = current /\ s = "READY")
    BY DEF ThreadInv, ThreadTypeOK, SchedulerInv, OneRunning, ReadyOnQueue, AllThreads
  <1>2. s \in Status \ {"RUNNING"}
    BY DEF Status
  <1> QED
    BY <1>1, <1>2, ScheduleInv DEF ThreadInv, SchedulerInv

(* thread_yield puts the running thread, unless it is the idle thread, at   *)
(* the end of the queue.                                                    *)
LEMMA YieldInv ==
    ASSUME ThreadInv, thread_yield
    PROVE  /\ ThreadInv'
           /\ \A t \in Threads : status'[t] = "BLOCKED" <=> status[t] = "BLOCKED"
  <1> DEFINE queue == IF current = Idle THEN ready_list ELSE Append(ready_list, current)
  <1>1. schedule("READY", queue)
    BY DEF thread_yield
  <1>2. /\ ready_list \in Seq(Threads) /\ NoRepeat(ready_list)
        /\ \A t \in Threads : On(t, ready_list) <=> t # current /\ status[t] = "READY"
        /\ current \in AllThreads
    BY DEF ThreadInv, ThreadTypeOK, SchedulerInv, OneRunning, ReadyOnQueue, AllThreads
  <1>3. /\ queue \in Seq(Threads) /\ NoRepeat(queue)
        /\ \A t \in Threads : On(t, queue) <=>
              (t # current /\ status[t] = "READY") \/ (t = current /\ "READY" = "READY")
    <2>1. CASE current = Idle
      BY <2>1, <1>2, ThreadAssumption
    <2>2. CASE current # Idle
      <3>1. current \in Threads /\ queue = Append(ready_list, current)
        BY <2>2, <1>2 DEF AllThreads
      <3> QED
        BY <3>1, <1>2, PushBack
    <2> QED
      BY <2>1, <2>2
  <1> HIDE DEF queue
  <1>4. ThreadTypeOK /\ OneRunning /\ "READY" \in Status \ {"RUNNING"}
    BY DEF ThreadInv, SchedulerInv, Status
  <1>5. /\ ThreadInv'
        /\ \A t \in Threads \ {current} :
             status'[t] = "BLOCKED" <=> status[t] = "BLOCKED"
    BY <1>1, <1>3, <1>4, ScheduleInv
  <1>6. status'[current] # "BLOCKED" /\ status[current] = "RUNNING"
    BY <1>1, <1>2, <1>4 DEF schedule, ThreadTypeOK, OneRunning
  <1> QED
    BY <1>5, <1>6

(* thread_unblock makes one thread ready.                                   *)
LEMMA UnblockInv ==
    ASSUME ThreadInv, NEW t \in Threads, thread_unblock(t)
    PROVE  /\ ThreadInv'
           /\ current' = current
           /\ status' = [status EXCEPT ![t] = "READY"]
  <1>1. /\ ready_list \in Seq(Threads) /\ NoRepeat(ready_list) /\ ~On(t, ready_list)
        /\ t # current
    BY DEF ThreadInv, ThreadTypeOK, SchedulerInv, OneRunning, ReadyOnQueue, AllThreads,
           thread_unblock
  <1>2. /\ ready_list' \in Seq(Threads) /\ NoRepeat(ready_list')
        /\ \A u : On(u, ready_list') <=> u = t \/ On(u, ready_list)
    BY <1>1, PushBack DEF thread_unblock
  <1>3. ThreadTypeOK'
    BY <1>2 DEF ThreadInv, ThreadTypeOK, thread_unblock, Status, AllThreads
  <1>4. OneRunning' /\ ReadyOnQueue'
    BY <1>1, <1>2 DEF ThreadInv, ThreadTypeOK, SchedulerInv, OneRunning, ReadyOnQueue,
                      thread_unblock, AllThreads
  <1> QED
    BY <1>3, <1>4 DEF ThreadInv, SchedulerInv, thread_unblock

(* thread_tick preempts the running thread at the end of its slice.         *)
LEMMA TickInv ==
    ASSUME ThreadInv, thread_tick
    PROVE  /\ ThreadInv'
           /\ \A t \in Threads : status'[t] = "BLOCKED" <=> status[t] = "BLOCKED"
  <1>1. CASE thread_ticks + 1 >= TIME_SLICE
    BY <1>1, YieldInv DEF thread_tick
  <1>2. CASE ~(thread_ticks + 1 >= TIME_SLICE)
    <2>1. thread_ticks' = thread_ticks + 1 /\ UNCHANGED <<current, status, ready_list>>
      BY <1>2 DEF thread_tick
    <2>2. thread_ticks' \in 0 .. TIME_SLICE - 1
      BY <1>2, <2>1, ThreadAssumption, SMT DEF ThreadInv, ThreadTypeOK
    <2> QED
      BY <2>1, <2>2 DEF ThreadInv, ThreadTypeOK, SchedulerInv, OneRunning, ReadyOnQueue
  <1> QED
    BY <1>1, <1>2

(* The invariant holds at the start.                                        *)
LEMMA ThreadInitInv == ThreadInit => ThreadInv
  <1> SUFFICES ASSUME ThreadInit PROVE ThreadInv
    OBVIOUS
  <1>1. Cardinality(Threads) \in Nat
    BY ThreadAssumption, FS_CardinalityType
  <1>2. ready_list \in Seq(Threads \ {current}) /\ ready_list \in Seq(Threads)
    <2> DEFINE n == Cardinality(Threads) - 1
    <2>1. n \in Nat
      BY <1>1, ThreadAssumption, FS_EmptySet, SMT
    <2> QED
      BY <2>1, SMT DEF ThreadInit
  <1>3. ThreadTypeOK
    BY <1>2, ThreadAssumption, SMT DEF ThreadInit, ThreadTypeOK, Status, AllThreads
  <1>4. \A t \in AllThreads : status[t] = IF t = current THEN "RUNNING"
                                    ELSE IF t = Idle THEN "BLOCKED" ELSE "READY"
    BY DEF ThreadInit
  <1>5. \A t \in Threads : On(t, ready_list) => t # current
    BY <1>2, SMT DEF On
  <1> QED
    BY <1>3, <1>4, <1>5, ThreadAssumption
    DEF ThreadInit, ThreadInv, SchedulerInv, OneRunning, ReadyOnQueue, AllThreads

(* For every number of threads and every time slice, the scheduler keeps    *)
(* its data well typed, exactly one thread RUNNING, and the run queue equal *)
(* to the list of READY threads.                                            *)
THEOREM SchedulerCorrect == ThreadSpec => [](ThreadTypeOK /\ SchedulerInv)
  <1>1. ThreadInit => ThreadInv
    BY ThreadInitInv
  <1>2. ASSUME ThreadInv, [ThreadNext]_threadVars PROVE ThreadInv'
    <2>1. CASE thread_block
      BY <1>2, <2>1, BlockInv DEF thread_block
    <2>2. CASE thread_yield
      BY <1>2, <2>2, YieldInv
    <2>3. CASE thread_exit
      BY <1>2, <2>3, BlockInv DEF thread_exit
    <2>4. ASSUME NEW t \in Threads, thread_unblock(t) PROVE ThreadInv'
      BY <1>2, <2>4, UnblockInv
    <2>5. CASE thread_tick
      BY <1>2, <2>5, TickInv
    <2>6. CASE UNCHANGED threadVars
      BY <1>2, <2>6 DEF threadVars, ThreadInv, ThreadTypeOK, SchedulerInv, OneRunning,
                        ReadyOnQueue
    <2> QED
      BY <1>2, <2>1, <2>2, <2>3, <2>4, <2>5, <2>6 DEF ThreadNext, idle
  <1> QED
    BY <1>1, <1>2, PTL DEF ThreadSpec, ThreadInv
-----------------------------------------------------------------------------
(* Where a thread is inside synch.c limits what it works on.                *)
PcOK ==
    \A t \in Threads :
        /\ pc[t] \in {"hold", "up"} => op[t] \in Locks /\ op[t] \notin held[t]
        /\ pc[t] = "down" /\ op[t] \in Threads => op[t] = t
        /\ pc[t] \in {"sleep", "relock", "bcast"} \/ InDown(t, t) => cv[t] \in Conds
        /\ pc[t] = "run" \/ (pc[t] = "down" /\ op[t] \in Semas) => cv[t] = NoCond

CondQueues == \A c \in Conds : NoRepeat(cond_waiters[c])

WaitQueues == WaitersBlocked /\ NoLostWakeup

LockParts == MutualExclusion /\ HolderAccurate

SynchInv ==
    /\ TypeOK /\ SchedulerInv
    /\ WaitQueues
    /\ LockParts
    /\ PcOK
    /\ SignalNotLost /\ CondQueues
-----------------------------------------------------------------------------
(* The threads that a semaphore has woken are finitely many.                *)
LEMMA WokenFinite ==
    ASSUME NEW s
    PROVE  IsFiniteSet(Woken(s)) /\ Cardinality(Woken(s)) \in Nat
  <1>1. Woken(s) \subseteq Threads
    BY DEF Woken
  <1> QED
    BY <1>1, ThreadAssumption, FS_Subset, FS_CardinalityType

(* The same after a step.                                                   *)
LEMMA WokenFinitePrime ==
    ASSUME NEW s
    PROVE  IsFiniteSet(Woken(s)') /\ Cardinality(Woken(s)') \in Nat
  <1>1. Woken(s)' \subseteq Threads
    BY DEF Woken
  <1> QED
    BY <1>1, ThreadAssumption, FS_Subset, FS_CardinalityType

(* A step that moves no thread into or out of a sema_down, blocks and wakes *)
(* no one and leaves the semaphores alone keeps the wait queues in order.   *)
LEMMA QueuesFrame ==
    ASSUME WaitQueues, UNCHANGED semaVars,
           \A t \in Threads : status'[t] = "BLOCKED" <=> status[t] = "BLOCKED",
           \A t \in Threads, s \in AllSemas : InDown(t, s)' <=> InDown(t, s)
    PROVE  WaitQueues'
  <1>1. \A s \in AllSemas : Woken(s)' = Woken(s)
    BY DEF Woken
  <1> QED
    BY <1>1 DEF WaitQueues, WaitersBlocked, NoLostWakeup, semaVars

(* sema_up(s), by any thread or interrupt handler.                          *)
LEMMA UpQueues ==
    ASSUME TypeOK, SchedulerInv, WaitQueues,
           NEW s \in AllSemas, sema_up(s),
           \A t \in Threads, r \in AllSemas : InDown(t, r)' <=> InDown(t, r)
    PROVE  /\ WaitQueues'
           /\ ThreadInv'
           /\ value' = [value EXCEPT ![s] = @ + 1]
           /\ value' \in [AllSemas -> Nat]
           /\ waiters' \in [AllSemas -> Seq(Threads)]
           /\ current' = current
  <1>0. /\ value' = [value EXCEPT ![s] = @ + 1]
        /\ value' \in [AllSemas -> Nat]
        /\ \A r \in AllSemas : value'[r] = IF r = s THEN value[s] + 1 ELSE value[r]
    BY SMT DEF sema_up, TypeOK
  <1>00. ThreadInv
    BY DEF TypeOK, ThreadInv
  <1>1. CASE waiters[s] = <<>>
    <2>1. UNCHANGED <<waiters, threadVars>>
      BY <1>1 DEF sema_up
    <2>2. \A r \in AllSemas : Woken(r)' = Woken(r)
      BY <2>1 DEF Woken, threadVars
    <2>3. WaitersBlocked'
      BY <2>1 DEF WaitQueues, WaitersBlocked, threadVars
    <2>4. NoLostWakeup'
      BY <2>1, <2>2, <1>1, <1>0 DEF WaitQueues, NoLostWakeup
    <2>5. ThreadInv'
      BY <2>1, <1>00 DEF ThreadInv, ThreadTypeOK, SchedulerInv, OneRunning, ReadyOnQueue,
                   threadVars
    <2> QED
      BY <1>0, <2>1, <2>3, <2>4, <2>5 DEF WaitQueues, TypeOK, threadVars
  <1>2. CASE waiters[s] # <<>>
    <2> DEFINE h == Head(waiters[s])
    <2>1. thread_unblock(h) /\ waiters' = [waiters EXCEPT ![s] = Tail(@)]
      BY <1>2 DEF sema_up
    <2>2. /\ waiters[s] \in Seq(Threads) /\ h \in Threads
          /\ Tail(waiters[s]) \in Seq(Threads) /\ NoRepeat(Tail(waiters[s]))
          /\ ~On(h, Tail(waiters[s]))
          /\ \A t : On(t, waiters[s]) <=> t = h \/ On(t, Tail(waiters[s]))
      BY <1>2, PopFront DEF TypeOK, WaitQueues, WaitersBlocked
    <2>3. InDown(h, s) /\ status[h] = "BLOCKED"
      BY <2>2 DEF WaitQueues, WaitersBlocked
    <2>4. /\ ThreadInv' /\ current' = current
          /\ status' = [status EXCEPT ![h] = "READY"]
      BY <2>1, <2>2, <1>00, UnblockInv
    <2> HIDE DEF h
    <2>5. \A t \in Threads : status'[t] = IF t = h THEN "READY" ELSE status[t]
      BY <2>2, <2>4 DEF TypeOK, ThreadTypeOK, AllThreads
    <2>6. \A r \in AllSemas : waiters'[r] = IF r = s THEN Tail(waiters[s]) ELSE waiters[r]
      BY <2>1 DEF TypeOK
    <2>7. waiters' \in [AllSemas -> Seq(Threads)]
      BY <2>1, <2>2 DEF TypeOK
    <2>8. WaitersBlocked'
      BY <2>2, <2>3, <2>5, <2>6 DEF WaitQueues, WaitersBlocked, InDown
    <2>9. NoLostWakeup'
      <3>1. \A r \in AllSemas : r # s => Woken(r)' = Woken(r)
        BY <2>3, <2>5, ZenonT(40) DEF Woken, InDown
      <3>2. Woken(s)' = Woken(s) \cup {h} /\ h \notin Woken(s)
        BY <2>2, <2>3, <2>5 DEF Woken
      <3>3. Cardinality(Woken(s)') = Cardinality(Woken(s)) + 1
        BY <3>2, WokenFinite, FS_AddElement
      <3>4. value[s] <= Cardinality(Woken(s))
        BY <1>2 DEF WaitQueues, NoLostWakeup
      <3>5. value'[s] <= Cardinality(Woken(s)')
        BY <3>3, <3>4, <1>0, WokenFinite, SMT DEF TypeOK
      <3> QED
        BY <3>1, <3>5, <2>6, <1>0 DEF WaitQueues, NoLostWakeup
    <2> QED
      BY <1>0, <2>4, <2>7, <2>8, <2>9, Zenon DEF WaitQueues
  <1> QED
    BY <1>1, <1>2

(* One test of sema_down(t, s): on entry, or by a thread that was woken.    *)
LEMMA DownQueues ==
    ASSUME TypeOK, SchedulerInv, WaitQueues,
           NEW t \in Threads, current = t,
           NEW s \in AllSemas, sema_down(t, s),
           pc[t] = "down" => op[t] = s
    PROVE  /\ WaitQueues'
           /\ ThreadInv'
           /\ value' \in [AllSemas -> Nat]
           /\ waiters' \in [AllSemas -> Seq(Threads)]
           /\ op' = [op EXCEPT ![t] = s]
           /\ \/ value[s] = 0 /\ value' = value /\ Goto(t, "down")
              \/ /\ value[s] > 0 /\ value' = [value EXCEPT ![s] = @ - 1]
                 /\ Goto(t, AfterDown(t, s))
  <1>1. ThreadInv /\ status[t] = "RUNNING" /\ op' = [op EXCEPT ![t] = s]
    BY DEF TypeOK, ThreadInv, SchedulerInv, OneRunning, AllThreads, sema_down
  <1>2. \A u \in Threads \ {t}, r \in AllSemas : InDown(u, r)' <=> InDown(u, r)
    BY DEF sema_down, InDown, Goto, TypeOK
  <1>3. \A r \in AllSemas : ~On(t, waiters[r])
    BY <1>1, Zenon DEF WaitQueues, WaitersBlocked
  <1>4. CASE value[s] = 0
    <2>1. /\ waiters' = [waiters EXCEPT ![s] = Append(@, t)]
          /\ thread_block /\ Goto(t, "down") /\ value' = value
      BY <1>4 DEF sema_down
    <2>2. /\ ThreadInv'
          /\ \A u \in Threads \ {t} : status'[u] = "BLOCKED" <=> status[u] = "BLOCKED"
          /\ status'[t] = "BLOCKED"
      BY <2>1, <1>1, BlockInv DEF thread_block
    <2>3. \A r \in AllSemas : InDown(t, r)' <=> r = s
      BY <2>1, <1>1, Zenon DEF InDown, Goto, TypeOK
    <2>4. /\ waiters' \in [AllSemas -> Seq(Threads)]
          /\ NoRepeat(waiters'[s])
          /\ \A u : On(u, waiters'[s]) <=> u = t \/ On(u, waiters[s])
          /\ \A r \in AllSemas : r # s => waiters'[r] = waiters[r]
      BY <2>1, <1>3, PushBack, ZenonT(40) DEF TypeOK, WaitQueues, WaitersBlocked
    <2>5. WaitersBlocked'
      <3> SUFFICES ASSUME NEW r \in AllSemas
                   PROVE  /\ NoRepeat(waiters'[r])
                          /\ \A u \in Threads : On(u, waiters'[r])
                               <=> InDown(u, r)' /\ status'[u] = "BLOCKED"
        BY Zenon DEF WaitersBlocked
      <3>1. CASE r = s
        BY <3>1, <2>2, <2>3, <2>4, <1>2, Zenon DEF WaitQueues, WaitersBlocked
      <3>2. CASE r # s
        BY <3>2, <2>2, <2>3, <2>4, <1>2, <1>3, ZenonT(40) DEF WaitQueues, WaitersBlocked
      <3> QED
        BY <3>1, <3>2
    <2>6. \A r \in AllSemas : r # s => Woken(r)' = Woken(r)
      BY <2>2, <2>3, <1>2 DEF Woken, InDown
    <2>7. value'[s] <= Cardinality(Woken(s)')
      BY <2>1, <1>4, WokenFinitePrime
    <2>8. NoLostWakeup'
      BY <2>1, <2>4, <2>6, <2>7, Zenon DEF WaitQueues, NoLostWakeup
    <2> QED
      BY <1>1, <1>4, <2>1, <2>2, <2>4, <2>5, <2>8, Zenon DEF WaitQueues, TypeOK
  <1>5. CASE value[s] # 0
    <2>1. /\ value' = [value EXCEPT ![s] = @ - 1]
          /\ Goto(t, AfterDown(t, s)) /\ UNCHANGED <<waiters, threadVars>>
      BY <1>5 DEF sema_down
    <2>2. /\ value[s] > 0
          /\ value' \in [AllSemas -> Nat]
          /\ \A r \in AllSemas : value'[r] = IF r = s THEN value[s] - 1 ELSE value[r]
      BY <2>1, <1>5, SMT DEF TypeOK
    <2>3. \A r \in AllSemas : ~InDown(t, r)'
      BY <2>1 DEF InDown, Goto, AfterDown, TypeOK
    <2>4. ThreadInv'
      BY <2>1, <1>1, Zenon DEF ThreadInv, ThreadTypeOK, SchedulerInv, OneRunning, ReadyOnQueue,
                        threadVars
    <2>5. WaitersBlocked'
      BY <2>1, <2>3, <1>1, <1>2, Zenon DEF WaitQueues, WaitersBlocked, threadVars
    <2>6. \A r \in AllSemas : Woken(r)' = Woken(r) \ {t}
      BY <2>1, <2>3, <1>2, Zenon DEF Woken, threadVars
    <2>7. \A r \in AllSemas : r # s => Woken(r)' = Woken(r)
      BY <2>6 DEF Woken, InDown
    <2>8. Cardinality(Woken(s)') >= Cardinality(Woken(s)) - 1
      <3>1. Cardinality(Woken(s) \ {t}) =
              IF t \in Woken(s) THEN Cardinality(Woken(s)) - 1 ELSE Cardinality(Woken(s))
        BY WokenFinite, FS_RemoveElement, Zenon
      <3>2. Cardinality(Woken(s)') = Cardinality(Woken(s) \ {t})
        BY <2>6
      <3>3. Cardinality(Woken(s)) \in Nat
        BY WokenFinite
      <3> QED
        BY <3>1, <3>2, <3>3, SMT
    <2>9. waiters[s] # <<>> => value'[s] <= Cardinality(Woken(s)')
      BY <2>2, <2>8, WokenFinite, WokenFinitePrime
      DEF WaitQueues, NoLostWakeup, TypeOK
    <2>10. NoLostWakeup'
      BY <2>1, <2>2, <2>7, <2>9, Zenon DEF WaitQueues, NoLostWakeup
    <2> QED
      BY <1>1, <2>1, <2>2, <2>4, <2>5, <2>10, Zenon DEF WaitQueues, TypeOK
  <1> QED
    BY <1>4, <1>5

(* The whole invariant across a call of sema_down from a point of client    *)
(* code, lock_acquire or cond_wait where it is made.                        *)
LEMMA DownInv ==
    ASSUME SynchInv, NEW t \in Threads, current = t,
           NEW s \in AllSemas, sema_down(t, s),
           UNCHANGED <<holder, cond_waiters, cv, held>>,
           pc[t] \in {"run", "sleep", "relock", "down"},
           pc[t] = "down" => op[t] = s,
           s \in Threads <=> s = t,
           WaitsSignal(t) <=> s = t,
           s \in Semas => cv[t] = NoCond
    PROVE  SynchInv'
  <1>1. /\ WaitQueues' /\ ThreadInv'
        /\ value' \in [AllSemas -> Nat]
        /\ waiters' \in [AllSemas -> Seq(Threads)]
        /\ op' = [op EXCEPT ![t] = s]
        /\ \/ value[s] = 0 /\ value' = value /\ Goto(t, "down")
           \/ /\ value[s] > 0 /\ value' = [value EXCEPT ![s] = @ - 1]
              /\ Goto(t, AfterDown(t, s))
    BY DownQueues DEF SynchInv
  <1>2. TypeOK'
    BY <1>1, Zenon DEF SynchInv, TypeOK, ThreadInv, Goto, AfterDown, Labels
  <1>3. CASE value[s] = 0 /\ value' = value /\ Goto(t, "down")
    <2>1. /\ \A u \in Threads : pc'[u] = IF u = t THEN "down" ELSE pc[u]
          /\ \A u \in Threads : op'[u] = IF u = t THEN s ELSE op[u]
      BY <1>1, <1>3 DEF SynchInv, TypeOK, Goto
    <2>2. \A u \in Threads, l \in Locks : Has(u, l)' <=> Has(u, l)
      BY <2>1, Zenon DEF Has
    <2>3. LockParts'
      BY <2>2, <1>3, Zenon DEF SynchInv, LockParts, MutualExclusion, HolderAccurate
    <2>4. PcOK'
      BY <2>1, ZenonT(40) DEF SynchInv, PcOK, InDown, WaitsSignal
    <2>5. \A u \in Threads : WaitsSignal(u)' <=> WaitsSignal(u)
      BY <2>1, Zenon DEF WaitsSignal, InDown
    <2>6. SignalNotLost' /\ CondQueues'
      BY <2>5, <1>3, Zenon DEF SynchInv, SignalNotLost, CondQueues
    <2> QED
      BY <1>1, <1>2, <2>3, <2>4, <2>6, Zenon DEF SynchInv, ThreadInv
  <1>4. CASE /\ value[s] > 0 /\ value' = [value EXCEPT ![s] = @ - 1]
             /\ Goto(t, AfterDown(t, s))
    <2>1. /\ \A u \in Threads : pc'[u] = IF u = t THEN AfterDown(t, s) ELSE pc[u]
          /\ \A u \in Threads : op'[u] = IF u = t THEN s ELSE op[u]
          /\ \A r \in AllSemas : value'[r] = IF r = s THEN value[s] - 1 ELSE value[r]
      BY <1>1, <1>4, Zenon DEF SynchInv, TypeOK, Goto
    <2>2. LockParts'
      <3>1. \A u \in Threads, l \in Locks : Has(u, l)' <=> Has(u, l) \/ (u = t /\ l = s)
        BY <2>1 DEF Has, AfterDown
      <3>2. \A l \in Locks : l # s => value'[l] = value[l]
        BY <2>1, ZenonT(40) DEF AllSemas
      <3>3. s \in Locks => value[s] = 1 /\ value'[s] = 0 /\ \A u \in Threads : ~Has(u, s)
        <4> SUFFICES ASSUME s \in Locks
                     PROVE  value[s] = 1 /\ value'[s] = 0 /\ \A u \in Threads : ~Has(u, s)
          BY Zenon
        <4>1. value[s] = IF \E u \in Threads : Has(u, s) THEN 0 ELSE 1
          BY Zenon DEF SynchInv, LockParts, MutualExclusion
        <4>2. value[s] # 0
          BY <1>4
        <4>3. value[s] = 1 /\ \A u \in Threads : ~Has(u, s)
          BY <4>1, <4>2, Zenon
        <4>4. value'[s] = 1 - 1
          BY <2>1, <4>3, Zenon
        <4> QED BY <4>3, <4>4
      <3>4. MutualExclusion'
        BY <3>1, <3>2, <3>3 DEF SynchInv, LockParts, MutualExclusion
      <3> QED
        BY <3>4 DEF SynchInv, LockParts, HolderAccurate
    <2>3. PcOK'
      <3>1. s \in Locks => s \notin held[t]
        BY <1>4 DEF SynchInv, LockParts, MutualExclusion, Has
      <3> QED
        BY <3>1, <2>1, SynchAssumption, ZenonT(40)
        DEF SynchInv, PcOK, InDown, WaitsSignal, AfterDown, AllSemas
    <2>4. SignalNotLost' /\ CondQueues'
      <3>1. \A u \in Threads : u # t => (WaitsSignal(u)' <=> WaitsSignal(u)) /\ value'[u] = value[u]
        BY <2>1, SynchAssumption, Zenon DEF WaitsSignal, InDown, AllSemas
      <3>2. ~WaitsSignal(t)'
        BY <2>1, Zenon DEF WaitsSignal, InDown, AfterDown
      <3>3. \A c \in Conds : ~On(t, cond_waiters[c])
        BY <1>4 DEF SynchInv, SignalNotLost
      <3> QED
        BY <3>1, <3>2, <3>3 DEF SynchInv, SignalNotLost, CondQueues
    <2> QED
      BY <1>1, <1>2, <2>2, <2>3, <2>4 DEF SynchInv, ThreadInv
  <1> QED
    BY <1>1, <1>3, <1>4, Zenon

(* A successful sema_try_down, by a client or by lock_try_acquire.          *)
LEMMA TryDownInv ==
    ASSUME SynchInv, NEW t \in Threads, current = t, pc[t] = "run",
           NEW s \in Semas \cup Locks, sema_try_down(t, s),
           UNCHANGED <<holder, cond_waiters, cv, held>>,
           \/ s \in Semas /\ UNCHANGED <<pc, op>>
           \/ s \in Locks /\ op' = [op EXCEPT ![t] = s] /\ Goto(t, "hold")
    PROVE  SynchInv'
  <1>1. /\ UNCHANGED <<waiters, threadVars>>
        /\ s \in AllSemas
        /\ value' = [value EXCEPT ![s] = @ - 1]
        /\ value' \in [AllSemas -> Nat]
        /\ value[s] > 0
        /\ \A r \in AllSemas : value'[r] = IF r = s THEN value[s] - 1 ELSE value[r]
    BY SMT DEF sema_try_down, SynchInv, TypeOK, AllSemas
  <1>2. /\ \A u \in Threads : pc'[u] = IF u = t /\ s \in Locks THEN "hold" ELSE pc[u]
        /\ \A u \in Threads : op'[u] = IF u = t /\ s \in Locks THEN s ELSE op[u]
        /\ pc' \in [Threads -> Labels] /\ op' \in [Threads -> AllSemas]
    BY <1>1, SynchAssumption, ZenonT(40) DEF SynchInv, TypeOK, Goto, Labels
  <1>3. TypeOK' /\ SchedulerInv'
    BY <1>1, <1>2, Zenon DEF SynchInv, TypeOK, ThreadTypeOK, SchedulerInv, OneRunning, ReadyOnQueue,
                      threadVars
  <1>4. WaitQueues'
    <2>1. \A u \in Threads, r \in AllSemas : InDown(u, r)' <=> InDown(u, r)
      BY <1>2, Zenon DEF InDown
    <2>2. \A r \in AllSemas : Woken(r)' = Woken(r)
      BY <1>1, <2>1, Zenon DEF Woken, threadVars
    <2>3. WaitersBlocked'
      BY <1>1, <2>1, Zenon DEF SynchInv, WaitQueues, WaitersBlocked, threadVars
    <2>4. waiters[s] # <<>> => value'[s] <= Cardinality(Woken(s))
      <3>1. s \in AllSemas /\ value[s] \in Nat /\ value'[s] = value[s] - 1
        BY <1>1, Zenon DEF SynchInv, TypeOK
      <3>2. waiters[s] # <<>> => value[s] <= Cardinality(Woken(s))
        BY <3>1, Zenon DEF SynchInv, WaitQueues, NoLostWakeup
      <3> QED
        BY <3>1, <3>2, WokenFinite
    <2>5. NoLostWakeup'
      BY <1>1, <2>2, <2>4 DEF SynchInv, WaitQueues, NoLostWakeup
    <2> QED
      BY <2>3, <2>5 DEF WaitQueues
  <1>5. LockParts' /\ PcOK'
    <2>1. \A u \in Threads, l \in Locks : Has(u, l)' <=> Has(u, l) \/ (u = t /\ l = s)
      BY <1>2, Zenon DEF Has
    <2>2. \A l \in Locks : l # s => value'[l] = value[l]
      BY <1>1 DEF AllSemas
    <2>3. s \in Locks => value[s] = 1 /\ value'[s] = 0 /\ \A u \in Threads : ~Has(u, s)
      BY <1>1 DEF SynchInv, LockParts, MutualExclusion
    <2>4. MutualExclusion'
      BY <2>1, <2>2, <2>3 DEF SynchInv, LockParts, MutualExclusion
    <2>5. HolderAccurate'
      BY Zenon DEF SynchInv, LockParts, HolderAccurate
    <2>6. PcOK'
      BY <1>2, <2>3 DEF SynchInv, PcOK, InDown, Has
    <2> QED
      BY <2>4, <2>5, <2>6, Zenon DEF LockParts
  <1>6. SignalNotLost' /\ CondQueues'
    <2>1. \A u \in Threads : value'[u] = value[u]
      BY <1>1, SynchAssumption DEF AllSemas
    <2>2. \A u \in Threads : WaitsSignal(u)' <=> WaitsSignal(u)
      BY <1>2, Zenon DEF WaitsSignal, InDown
    <2> QED
      BY <2>1, <2>2, ZenonT(40) DEF SynchInv, SignalNotLost, CondQueues
  <1> QED
    BY <1>3, <1>4, <1>5, <1>6, Zenon DEF SynchInv

(* sema_up of a counting semaphore, by a thread or an interrupt handler.    *)
LEMMA PlainUpInv ==
    ASSUME SynchInv, NEW s \in Semas, sema_up(s),
           UNCHANGED <<holder, cond_waiters, pc, op, cv, held>>
    PROVE  SynchInv'
  <1>1. s \in AllSemas /\ s \notin Locks /\ s \notin Threads
    BY SynchAssumption DEF AllSemas
  <1>2. \A t \in Threads, r \in AllSemas : InDown(t, r)' <=> InDown(t, r)
    BY DEF InDown
  <1>3. /\ WaitQueues' /\ ThreadInv'
        /\ value' = [value EXCEPT ![s] = @ + 1]
        /\ value' \in [AllSemas -> Nat]
        /\ waiters' \in [AllSemas -> Seq(Threads)]
    BY <1>1, <1>2, UpQueues, Zenon DEF SynchInv
  <1>4. TypeOK' /\ SchedulerInv'
    BY <1>3 DEF SynchInv, TypeOK, ThreadInv
  <1>5. (\A l \in Locks : value'[l] = value[l]) /\ (\A t \in Threads : value'[t] = value[t])
    BY <1>1, <1>3, ZenonT(40) DEF SynchInv, TypeOK, AllSemas
  <1>6. LockParts' /\ PcOK'
    BY <1>5 DEF SynchInv, LockParts, MutualExclusion, HolderAccurate, Has, PcOK, InDown
  <1>7. SignalNotLost' /\ CondQueues'
    BY <1>5 DEF SynchInv, SignalNotLost, WaitsSignal, InDown, CondQueues
  <1> QED
    BY <1>3, <1>4, <1>6, <1>7, Zenon DEF SynchInv

(* lock_acquire sets the lock's holder.                                     *)
LEMMA SetHolderInv ==
    ASSUME SynchInv, NEW t \in Threads, SetHolder(t) PROVE SynchInv'
  <1> DEFINE l == op[t]
  <1>1. /\ current = t /\ pc[t] = "hold"
        /\ holder' = [holder EXCEPT ![l] = t]
        /\ held' = [held EXCEPT ![t] = @ \cup {l}]
        /\ cv' = [cv EXCEPT ![t] = NoCond]
        /\ pc' = [pc EXCEPT ![t] = "run"]
        /\ UNCHANGED <<threadVars, semaVars, cond_waiters, op>>
    BY Zenon DEF SetHolder, At, Goto
  <1>2. l \in Locks /\ l \notin held[t]
    BY <1>1 DEF SynchInv, PcOK
  <1> HIDE DEF l
  <1>3. /\ \A u \in Threads : pc'[u] = IF u = t THEN "run" ELSE pc[u]
        /\ \A u \in Threads : held'[u] = IF u = t THEN held[t] \cup {l} ELSE held[u]
        /\ \A u \in Threads : cv'[u] = IF u = t THEN NoCond ELSE cv[u]
        /\ \A k \in Locks : holder'[k] = IF k = l THEN t ELSE holder[k]
    BY <1>1, <1>2, Zenon DEF SynchInv, TypeOK
  <1>4. TypeOK' /\ SchedulerInv'
    BY <1>1, <1>2, Zenon DEF SynchInv, TypeOK, ThreadTypeOK, SchedulerInv, OneRunning, ReadyOnQueue,
                      threadVars, semaVars, Labels
  <1>5. WaitQueues'
    <2>1. \A u \in Threads, r \in AllSemas : InDown(u, r)' <=> InDown(u, r)
      BY <1>1, <1>3 DEF InDown
    <2> QED
      BY <1>1, <2>1, QueuesFrame, Zenon DEF SynchInv, threadVars
  <1>6. LockParts'
    <2>1. \A u \in Threads, k \in Locks : Has(u, k)' <=> Has(u, k)
      BY <1>1, <1>3 DEF Has, l
    <2>2. Has(t, l)
      BY <1>1 DEF Has, l
    <2>3. MutualExclusion'
      BY <1>1, <2>1, Zenon DEF SynchInv, LockParts, MutualExclusion, semaVars
    <2>4. \A u \in Threads : u # t => l \notin held[u]
      BY <1>2, <2>2, Zenon DEF SynchInv, LockParts, MutualExclusion, Has
    <2>5. HolderAccurate'
      <3> SUFFICES ASSUME NEW u \in Threads, NEW k \in Locks
                   PROVE  holder'[k] = u <=> k \in held'[u]
        BY Zenon DEF HolderAccurate
      <3>1. holder[k] = u <=> k \in held[u]
        BY Zenon DEF SynchInv, LockParts, HolderAccurate
      <3>2. k \in held'[u] <=> k \in held[u] \/ (u = t /\ k = l)
        BY <1>3, ZenonT(40)
      <3>3. CASE k = l
        <4>1. holder'[k] = t
          BY <1>3, <3>3, Zenon
        <4>2. k \in held[u] => u = t
          BY <2>4, <3>3, Zenon
        <4> QED
          BY <3>2, <3>3, <4>1, <4>2, Zenon
      <3>4. CASE k # l
        <4>1. holder'[k] = holder[k]
          BY <1>3, <3>4, Zenon
        <4> QED
          BY <3>1, <3>2, <3>4, <4>1, Zenon
      <3> QED
        BY <3>3, <3>4, Zenon
    <2> QED
      BY <2>3, <2>5, Zenon DEF LockParts
  <1>7. /\ \A u \in Threads : u # t => /\ pc'[u] = pc[u] /\ op'[u] = op[u]
                                     /\ held'[u] = held[u] /\ cv'[u] = cv[u]
        /\ pc'[t] = "run" /\ cv'[t] = NoCond
    BY <1>1, <1>3, Zenon
  <1>8. PcOK'
    BY <1>7, Zenon DEF SynchInv, PcOK, InDown
  <1>9. SignalNotLost' /\ CondQueues'
    <2>1. ~WaitsSignal(t) /\ ~WaitsSignal(t)'
      BY <1>1, <1>7, Zenon DEF WaitsSignal, InDown
    <2>2. \A u \in Threads : u # t => (WaitsSignal(u)' <=> WaitsSignal(u))
      BY <1>7, Zenon DEF WaitsSignal, InDown
    <2>3. value' = value /\ cond_waiters' = cond_waiters
      BY <1>1, Zenon DEF semaVars
    <2> QED
      BY <1>7, <2>1, <2>2, <2>3, Zenon DEF SynchInv, SignalNotLost, CondQueues
  <1> QED
    BY <1>4, <1>5, <1>6, <1>8, <1>9, Zenon DEF SynchInv

(* The first half of lock_release keeps the lock parts: the thread still    *)
(* has the lock until the sema_up.                                          *)
LEMMA ClearHolderParts ==
    ASSUME SynchInv, NEW t \in Threads, current = t, pc[t] = "run",
           NEW l \in Locks, ClearHolder(t, l),
           \A k \in Locks : value'[k] = value[k]
    PROVE  /\ l \in held[t]
           /\ \A u \in Threads : pc'[u] = IF u = t THEN "up" ELSE pc[u]
           /\ \A u \in Threads : op'[u] = IF u = t THEN l ELSE op[u]
           /\ pc' \in [Threads -> Labels] /\ op' \in [Threads -> AllSemas]
           /\ held' \in [Threads -> SUBSET Locks]
           /\ holder' \in [Locks -> Threads \cup {NoThread}]
           /\ \A u \in Threads, r \in AllSemas : InDown(u, r)' <=> InDown(u, r)
           /\ \A u \in Threads : u # t => (WaitsSignal(u)' <=> WaitsSignal(u))
           /\ WaitsSignal(t)'
           /\ \A u \in Threads : pc'[u] \in {"hold", "up"} =>
                op'[u] \in Locks /\ op'[u] \notin held'[u]
           /\ LockParts'
  <1>1. /\ l \in held[t]
        /\ \A u \in Threads : pc'[u] = IF u = t THEN "up" ELSE pc[u]
        /\ \A u \in Threads : op'[u] = IF u = t THEN l ELSE op[u]
        /\ \A u \in Threads : held'[u] = IF u = t THEN held[t] \ {l} ELSE held[u]
        /\ \A k \in Locks : holder'[k] = IF k = l THEN NoThread ELSE holder[k]
        /\ pc' \in [Threads -> Labels] /\ op' \in [Threads -> AllSemas]
        /\ held' \in [Threads -> SUBSET Locks]
        /\ holder' \in [Locks -> Threads \cup {NoThread}]
    BY Zenon DEF ClearHolder, Goto, SynchInv, TypeOK, Labels, AllSemas
  <1>2. \A u \in Threads, k \in Locks : Has(u, k)' <=> Has(u, k)
    BY <1>1, ZenonT(40) DEF Has
  <1>3. MutualExclusion'
    BY <1>2, Zenon DEF SynchInv, LockParts, MutualExclusion
  <1>4. HolderAccurate'
    <2>1. \A u \in Threads : u # t => l \notin held[u]
      BY <1>1, Zenon DEF SynchInv, LockParts, MutualExclusion, Has
    <2> SUFFICES ASSUME NEW u \in Threads, NEW k \in Locks
                 PROVE  holder'[k] = u <=> k \in held'[u]
      BY Zenon DEF HolderAccurate
    <2>2. holder[k] = u <=> k \in held[u]
      BY Zenon DEF SynchInv, LockParts, HolderAccurate
    <2>3. k \in held'[u] <=> k \in held[u] /\ ~(u = t /\ k = l)
      BY <1>1, Zenon
    <2>4. CASE k = l
      <3>1. holder'[k] = NoThread
        BY <1>1, <2>4, Zenon
      <3>2. u # NoThread
        BY SynchAssumption, Zenon DEF AllThreads
      <3> QED
        BY <2>1, <2>3, <2>4, <3>1, <3>2, Zenon
    <2>5. CASE k # l
      <3>1. holder'[k] = holder[k]
        BY <1>1, <2>5, Zenon
      <3> QED
        BY <2>2, <2>3, <2>5, <3>1, Zenon
    <2> QED
      BY <2>4, <2>5, Zenon
  <1>5. \A u \in Threads, r \in AllSemas : InDown(u, r)' <=> InDown(u, r)
    BY <1>1, Zenon DEF InDown
  <1>6. /\ \A u \in Threads : u # t => (WaitsSignal(u)' <=> WaitsSignal(u))
        /\ WaitsSignal(t)'
    BY <1>1, <1>5, Zenon DEF WaitsSignal, AllSemas
  <1>7. \A u \in Threads : pc'[u] \in {"hold", "up"} =>
          op'[u] \in Locks /\ op'[u] \notin held'[u]
    <2>1. op'[t] \in Locks /\ op'[t] \notin held'[t]
      BY <1>1, Zenon
    <2> QED
      BY <1>1, <2>1, Zenon DEF SynchInv, PcOK
  <1> QED
    BY <1>1, <1>3, <1>4, <1>5, <1>6, <1>7, Zenon DEF LockParts

(* lock_release clears the lock's holder.                                   *)
LEMMA ReleaseInv ==
    ASSUME SynchInv, NEW t \in Threads, NEW l \in Locks, lock_release(t, l)
    PROVE  SynchInv'
  <1>1. /\ current = t /\ pc[t] = "run" /\ ClearHolder(t, l)
        /\ UNCHANGED <<threadVars, semaVars, cond_waiters, cv>>
    BY DEF lock_release, At
  <1>2. \A k \in Locks : value'[k] = value[k]
    BY <1>1 DEF semaVars
  <1>3. TypeOK' /\ SchedulerInv'
    BY <1>1, <1>2, ClearHolderParts, Zenon
    DEF SynchInv, TypeOK, ThreadTypeOK, SchedulerInv, OneRunning, ReadyOnQueue, threadVars,
        semaVars
  <1>4. WaitQueues'
    BY <1>1, <1>2, ClearHolderParts, QueuesFrame, ZenonT(30) DEF SynchInv, threadVars
  <1>5. PcOK'
    <2>1. /\ \A u \in Threads : pc'[u] = IF u = t THEN "up" ELSE pc[u]
          /\ \A u \in Threads : op'[u] = IF u = t THEN l ELSE op[u]
          /\ \A u \in Threads : pc'[u] \in {"hold", "up"} =>
               op'[u] \in Locks /\ op'[u] \notin held'[u]
      BY <1>1, <1>2, ClearHolderParts, ZenonT(40)
    <2> QED
      BY <2>1, <1>1, ZenonT(40) DEF SynchInv, PcOK, InDown
  <1>6. SignalNotLost' /\ CondQueues'
    <2>1. cv[t] = NoCond /\ NoCond \notin Conds
      BY <1>1, SynchAssumption, Zenon DEF SynchInv, PcOK
    <2>2. \A u \in Threads : u # t => (WaitsSignal(u)' <=> WaitsSignal(u))
      BY <1>1, <1>2, ClearHolderParts, Zenon
    <2>3. value' = value /\ cond_waiters' = cond_waiters /\ cv' = cv
      BY <1>1 DEF semaVars
    <2>4. SignalNotLost'
      <3> SUFFICES ASSUME NEW u \in Threads, NEW c \in Conds
                   PROVE  IF cv'[u] = c /\ WaitsSignal(u)'
                          THEN value'[u] = IF On(u, cond_waiters'[c]) THEN 0 ELSE 1
                          ELSE ~On(u, cond_waiters'[c])
        BY Zenon DEF SignalNotLost
      <3>1. CASE u = t
        BY <3>1, <2>1, <2>3, ZenonT(40) DEF SynchInv, SignalNotLost
      <3>2. CASE u # t
        BY <3>2, <2>2, <2>3 DEF SynchInv, SignalNotLost
      <3> QED
        BY <3>1, <3>2, ZenonT(40)
    <2> QED
      BY <2>3, <2>4 DEF SynchInv, CondQueues
  <1>7. LockParts'
    BY <1>1, <1>2, ClearHolderParts, ZenonT(40)
  <1> QED
    BY <1>3, <1>4, <1>5, <1>6, <1>7 DEF SynchInv

(* cond_wait joins the waiters and starts to release the lock.              *)
LEMMA CondWaitInv ==
    ASSUME SynchInv, NEW t \in Threads, NEW c \in Conds, cond_wait(t, c)
    PROVE  SynchInv'
  <1> DEFINE l == CondLock[c]
  <1>1. /\ current = t /\ pc[t] = "run" /\ ClearHolder(t, l)
        /\ value' = [value EXCEPT ![t] = 0]
        /\ waiters' = [waiters EXCEPT ![t] = <<>>]
        /\ cond_waiters' = [cond_waiters EXCEPT ![c] = Append(@, t)]
        /\ cv' = [cv EXCEPT ![t] = c]
        /\ UNCHANGED threadVars
    BY DEF cond_wait, At
  <1>2. l \in Locks
    BY SynchAssumption, Zenon
  <1> HIDE DEF l
  <1>3. /\ value' \in [AllSemas -> Nat] /\ t \in AllSemas
        /\ \A k \in Locks : value'[k] = value[k]
        /\ \A u \in Threads : value'[u] = IF u = t THEN 0 ELSE value[u]
        /\ \A u \in Threads : cv'[u] = IF u = t THEN c ELSE cv[u]
    BY <1>1, SynchAssumption DEF SynchInv, TypeOK, AllSemas
  <1>10. /\ \A u \in Threads : pc'[u] = IF u = t THEN "up" ELSE pc[u]
         /\ \A u \in Threads : op'[u] = IF u = t THEN l ELSE op[u]
         /\ pc' \in [Threads -> Labels] /\ op' \in [Threads -> AllSemas]
         /\ held' \in [Threads -> SUBSET Locks]
         /\ holder' \in [Locks -> Threads \cup {NoThread}]
         /\ \A u \in Threads, r \in AllSemas : InDown(u, r)' <=> InDown(u, r)
         /\ \A u \in Threads : u # t => (WaitsSignal(u)' <=> WaitsSignal(u))
         /\ WaitsSignal(t)'
         /\ \A u \in Threads : pc'[u] \in {"hold", "up"} =>
              op'[u] \in Locks /\ op'[u] \notin held'[u]
         /\ LockParts'
    <2>1. \A k \in Locks : value'[k] = value[k]
      BY <1>3
    <2> QED
      BY <1>1, <1>2, <2>1, ClearHolderParts, ZenonT(40)
  <1>4. waiters[t] = <<>> /\ waiters' = waiters
    <2>0. \A u \in Threads : ~InDown(u, t)
      BY <1>1 DEF SynchInv, PcOK, InDown
    <2>1. \A u \in Threads : ~On(u, waiters[t])
      BY <2>0, <1>3, Zenon DEF SynchInv, WaitQueues, WaitersBlocked
    <2>2. waiters[t] \in Seq(Threads)
      BY <1>3, Zenon DEF SynchInv, TypeOK
    <2>3. waiters[t] = <<>>
      BY <2>1, <2>2, PopFront, Zenon
    <2> QED
      BY <1>1, <2>3 DEF SynchInv, TypeOK
  <1>5. /\ cond_waiters' \in [Conds -> Seq(Threads)]
        /\ \A d \in Conds : d # c => cond_waiters'[d] = cond_waiters[d]
        /\ NoRepeat(cond_waiters'[c])
        /\ \A u : On(u, cond_waiters'[c]) <=> u = t \/ On(u, cond_waiters[c])
        /\ \A d \in Conds : ~On(t, cond_waiters[d])
    <2>1. \A d \in Conds : ~On(t, cond_waiters[d])
      BY <1>1, SynchAssumption, Zenon DEF SynchInv, PcOK, SignalNotLost
    <2> QED
      BY <1>1, <2>1, PushBack, ZenonT(40) DEF SynchInv, TypeOK, CondQueues
  <1>6. TypeOK' /\ SchedulerInv'
    <2>1. ThreadTypeOK' /\ SchedulerInv'
      BY <1>1, Zenon DEF SynchInv, TypeOK, ThreadTypeOK, SchedulerInv, OneRunning, ReadyOnQueue,
                  threadVars
    <2>2. cv' \in [Threads -> Conds \cup {NoCond}]
      BY <1>1 DEF SynchInv, TypeOK
    <2> QED
      BY <1>3, <1>4, <1>5, <1>10, <2>1, <2>2, Zenon DEF SynchInv, TypeOK
  <1>7. WaitQueues'
    <2>1. \A u \in Threads, r \in AllSemas : InDown(u, r)' <=> InDown(u, r)
      BY <1>10, ZenonT(30)
    <2>2. \A r \in AllSemas : Woken(r)' = Woken(r)
      BY <1>1, <2>1, Zenon DEF Woken, threadVars
    <2>3. WaitersBlocked'
      BY <1>1, <1>4, <2>1, Zenon DEF SynchInv, WaitQueues, WaitersBlocked, threadVars
    <2>4. \A r \in AllSemas : r # t => value'[r] = value[r]
      BY <1>1, Zenon DEF SynchInv, TypeOK
    <2>5. NoLostWakeup'
      BY <1>4, <2>2, <2>4, Zenon DEF SynchInv, WaitQueues, NoLostWakeup
    <2> QED
      BY <2>3, <2>5 DEF WaitQueues
  <1>8. PcOK'
    <2>1. /\ \A u \in Threads : pc'[u] = IF u = t THEN "up" ELSE pc[u]
          /\ \A u \in Threads : op'[u] = IF u = t THEN l ELSE op[u]
          /\ \A u \in Threads : pc'[u] \in {"hold", "up"} =>
               op'[u] \in Locks /\ op'[u] \notin held'[u]
      BY <1>10, Zenon
    <2> QED
      BY <2>1, <1>3, ZenonT(40) DEF SynchInv, PcOK, InDown
  <1>9. SignalNotLost' /\ CondQueues'
    <2>1. /\ \A u \in Threads : u # t => (WaitsSignal(u)' <=> WaitsSignal(u))
          /\ WaitsSignal(t)'
      BY <1>10, Zenon
    <2>2. SignalNotLost'
      <3> SUFFICES ASSUME NEW u \in Threads, NEW d \in Conds
                   PROVE  IF cv'[u] = d /\ WaitsSignal(u)'
                          THEN value'[u] = IF On(u, cond_waiters'[d]) THEN 0 ELSE 1
                          ELSE ~On(u, cond_waiters'[d])
        BY Zenon DEF SignalNotLost
      <3>1. CASE u = t
        BY <3>1, <1>3, <1>5, <2>1, Zenon
      <3>2. CASE u # t
        <4>1. /\ cv'[u] = cv[u] /\ value'[u] = value[u]
              /\ WaitsSignal(u)' <=> WaitsSignal(u)
              /\ On(u, cond_waiters'[d]) <=> On(u, cond_waiters[d])
          BY <3>2, <1>3, <1>5, <2>1, Zenon
        <4> QED
          BY <4>1, Zenon DEF SynchInv, SignalNotLost
      <3> QED
        BY <3>1, <3>2, Zenon
    <2> QED
      BY <2>2, <1>5, Zenon DEF SynchInv, CondQueues
  <1> QED
    BY <1>6, <1>7, <1>8, <1>9, <1>10, Zenon DEF SynchInv

(* lock_release ups the lock's semaphore.                                   *)
LEMMA ReleaseUpInv ==
    ASSUME SynchInv, NEW t \in Threads, ReleaseUp(t) PROVE SynchInv'
  <1>0. op[t] \in Locks /\ op[t] \notin held[t]
    BY DEF SynchInv, PcOK, ReleaseUp, At
  <1> PICK l \in Locks : l = op[t]
    BY <1>0
  <1> PICK label \in {"run", "sleep"} : label = IF cv[t] = NoCond THEN "run" ELSE "sleep"
    BY Zenon
  <1>1. /\ current = t /\ pc[t] = "up" /\ sema_up(l)
        /\ pc' = [pc EXCEPT ![t] = label]
        /\ UNCHANGED <<holder, cond_waiters, op, cv, held>>
    BY Zenon DEF ReleaseUp, At, Goto
  <1>2. /\ l \in AllSemas /\ l \notin held[t]
        /\ \A u \in Threads : pc'[u] = IF u = t THEN label ELSE pc[u]
    BY <1>0, <1>1, Zenon DEF SynchInv, TypeOK, AllSemas
  <1>3. \A u \in Threads, r \in AllSemas : InDown(u, r)' <=> InDown(u, r)
    BY <1>1, <1>2, Zenon DEF InDown
  <1>4. /\ WaitQueues' /\ ThreadInv'
        /\ value' = [value EXCEPT ![l] = @ + 1]
        /\ value' \in [AllSemas -> Nat]
        /\ waiters' \in [AllSemas -> Seq(Threads)]
    BY <1>1, <1>2, <1>3, UpQueues, Zenon DEF SynchInv
  <1>5. TypeOK' /\ SchedulerInv'
    BY <1>1, <1>2, <1>4, Zenon DEF SynchInv, TypeOK, ThreadInv, Labels
  <1>6. /\ \A k \in Locks : value'[k] = IF k = l THEN value[l] + 1 ELSE value[k]
        /\ \A u \in Threads : value'[u] = value[u]
    BY <1>2, <1>4, SynchAssumption, ZenonT(40) DEF SynchInv, TypeOK, AllSemas
  <1>7. LockParts'
    <2>1. \A u \in Threads, k \in Locks : Has(u, k)' <=> Has(u, k) /\ ~(u = t /\ k = l)
      BY <1>1, <1>2, Zenon DEF Has
    <2>2. Has(t, l)
      BY <1>1, <1>2, Zenon DEF Has
    <2>3. value[l] = 0 /\ \A u \in Threads : ~Has(u, l)'
      BY <1>2, <2>1, <2>2, Zenon DEF SynchInv, LockParts, MutualExclusion
    <2>4. value'[l] = 1
      <3>1. value'[l] = 0 + 1
        BY <1>6, <2>3, Zenon
      <3> QED
        BY <3>1
    <2>5. MutualExclusion'
      <3> SUFFICES ASSUME NEW k \in Locks
                   PROVE  /\ \A u, v \in Threads : Has(u, k)' /\ Has(v, k)' => u = v
                          /\ value'[k] = IF \E u \in Threads : Has(u, k)' THEN 0 ELSE 1
        BY Zenon DEF MutualExclusion
      <3>1. CASE k = l
        BY <2>3, <2>4, <3>1, Zenon
      <3>2. CASE k # l
        BY <1>6, <2>1, <3>2, Zenon DEF SynchInv, LockParts, MutualExclusion
      <3> QED
        BY <3>1, <3>2, Zenon
    <2> QED
      BY <1>1, <2>5, Zenon DEF SynchInv, LockParts, HolderAccurate
  <1>8. PcOK'
    BY <1>1, <1>2, <1>5, ZenonT(40) DEF SynchInv, PcOK, InDown, TypeOK
  <1>9. SignalNotLost' /\ CondQueues'
    <2>1. \A u \in Threads, c \in Conds :
            cv[u] = c => (WaitsSignal(u)' <=> WaitsSignal(u))
      BY <1>1, <1>2, SynchAssumption, Zenon DEF WaitsSignal, InDown
    <2> QED
      BY <1>1, <1>6, <2>1, ZenonT(30) DEF SynchInv, SignalNotLost, CondQueues
  <1> QED
    BY <1>4, <1>5, <1>7, <1>8, <1>9, ZenonT(40) DEF SynchInv

(* One waiter signalled, by cond_signal or in cond_broadcast's loop.        *)
LEMMA SignalInv ==
    ASSUME SynchInv, NEW c \in Conds, SignalOne(c),
           UNCHANGED <<holder, pc, op, cv, held>>
    PROVE  SynchInv'
  <1> DEFINE w == Head(cond_waiters[c])
  <1>1. /\ cond_waiters[c] # <<>> /\ sema_up(w)
        /\ cond_waiters' = [cond_waiters EXCEPT ![c] = Tail(@)]
    BY Zenon DEF SignalOne
  <1>2. /\ cond_waiters[c] \in Seq(Threads) /\ w \in Threads
        /\ Tail(cond_waiters[c]) \in Seq(Threads) /\ NoRepeat(Tail(cond_waiters[c]))
        /\ On(w, cond_waiters[c]) /\ ~On(w, Tail(cond_waiters[c]))
        /\ \A t : On(t, cond_waiters[c]) <=> t = w \/ On(t, Tail(cond_waiters[c]))
    BY <1>1, PopFront, Zenon DEF SynchInv, TypeOK, CondQueues
  <1> HIDE DEF w
  <1>3. w \in AllSemas /\ w \notin Locks
    BY <1>2, SynchAssumption, Zenon DEF AllSemas
  <1>4. \A u \in Threads, r \in AllSemas : InDown(u, r)' <=> InDown(u, r)
    BY Zenon DEF InDown
  <1>5. /\ WaitQueues' /\ ThreadInv'
        /\ value' = [value EXCEPT ![w] = @ + 1]
        /\ value' \in [AllSemas -> Nat]
        /\ waiters' \in [AllSemas -> Seq(Threads)]
    BY <1>1, <1>3, <1>4, UpQueues, Zenon DEF SynchInv
  <1>6. /\ cond_waiters' \in [Conds -> Seq(Threads)]
        /\ \A d \in Conds : cond_waiters'[d] =
             IF d = c THEN Tail(cond_waiters[c]) ELSE cond_waiters[d]
    BY <1>1, <1>2, Zenon DEF SynchInv, TypeOK
  <1>7. TypeOK' /\ SchedulerInv'
    BY <1>5, <1>6, Zenon DEF SynchInv, TypeOK, ThreadInv
  <1>8. /\ \A k \in Locks : value'[k] = value[k]
        /\ \A u \in Threads : value'[u] = IF u = w THEN value[w] + 1 ELSE value[u]
    BY <1>3, <1>5, Zenon DEF SynchInv, TypeOK, AllSemas
  <1>9. LockParts' /\ PcOK'
    <2>1. \A u \in Threads, k \in Locks : Has(u, k)' <=> Has(u, k)
      BY Zenon DEF Has
    <2>2. MutualExclusion'
      BY <1>8, <2>1, Zenon DEF SynchInv, LockParts, MutualExclusion
    <2>3. HolderAccurate' /\ PcOK'
      BY Zenon DEF SynchInv, LockParts, HolderAccurate, PcOK, InDown
    <2> QED
      BY <2>2, <2>3, Zenon DEF LockParts
  <1>10. SignalNotLost'
    <2>1. cv[w] = c /\ WaitsSignal(w) /\ value[w] = 0
      BY <1>2, Zenon DEF SynchInv, SignalNotLost
    <2>2. value'[w] = 1
      <3>1. value'[w] = 0 + 1
        BY <1>2, <1>8, <2>1, Zenon
      <3> QED
        BY <3>1
    <2>3. \A u \in Threads : WaitsSignal(u)' <=> WaitsSignal(u)
      BY Zenon DEF WaitsSignal, InDown
    <2> SUFFICES ASSUME NEW u \in Threads, NEW d \in Conds
                 PROVE  IF cv[u] = d /\ WaitsSignal(u)
                        THEN value'[u] = IF On(u, cond_waiters'[d]) THEN 0 ELSE 1
                        ELSE ~On(u, cond_waiters'[d])
      BY <2>3 DEF SignalNotLost
    <2>4. CASE u = w
      <3>1. d # c => ~On(u, cond_waiters[d])
        BY <2>1, <2>4 DEF SynchInv, SignalNotLost
      <3> QED
        BY <2>1, <2>2, <2>4, <3>1, <1>2, <1>6, ZenonT(40)
    <2>5. CASE u # w
      BY <2>5, <1>2, <1>6, <1>8, ZenonT(40) DEF SynchInv, SignalNotLost
    <2> QED
      BY <2>4, <2>5, Zenon
  <1>11. CondQueues'
    BY <1>2, <1>6, Zenon DEF SynchInv, CondQueues
  <1> QED
    BY <1>5, <1>7, <1>9, <1>10, <1>11, Zenon DEF SynchInv

(* A step that touches neither semaphores nor scheduler and moves a thread  *)
(* between client code and cond_broadcast's loop.                           *)
LEMMA BroadcastEdgeInv ==
    ASSUME SynchInv, NEW t \in Threads,
           NEW label \in {"run", "bcast"}, NEW c \in Conds \cup {NoCond},
           label = "run" <=> c = NoCond,
           pc[t] \in {"run", "bcast"},
           Goto(t, label), cv' = [cv EXCEPT ![t] = c],
           UNCHANGED <<threadVars, semaVars, holder, cond_waiters, op, held>>
    PROVE  SynchInv'
  <1>1. /\ \A u \in Threads : pc'[u] = IF u = t THEN label ELSE pc[u]
        /\ \A u \in Threads : cv'[u] = IF u = t THEN c ELSE cv[u]
        /\ pc' \in [Threads -> Labels] /\ cv' \in [Threads -> Conds \cup {NoCond}]
    BY DEF SynchInv, TypeOK, Goto, Labels
  <1>2. TypeOK' /\ SchedulerInv'
    BY <1>1, Zenon DEF SynchInv, TypeOK, ThreadTypeOK, SchedulerInv, OneRunning, ReadyOnQueue,
                threadVars, semaVars
  <1>3. \A u \in Threads, r \in AllSemas : InDown(u, r)' <=> InDown(u, r)
    BY <1>1, Zenon DEF InDown
  <1>4. WaitQueues'
    BY <1>3, QueuesFrame, Zenon DEF SynchInv, threadVars
  <1>5. LockParts'
    <2>1. \A u \in Threads, k \in Locks : Has(u, k)' <=> Has(u, k)
      BY <1>1, ZenonT(30) DEF Has
    <2> QED
      BY <2>1, ZenonT(30) DEF SynchInv, LockParts, MutualExclusion, HolderAccurate, semaVars
  <1>6. PcOK'
    BY <1>1, ZenonT(40) DEF SynchInv, PcOK, InDown
  <1>7. SignalNotLost' /\ CondQueues'
    <2>1. \A u \in Threads : WaitsSignal(u)' <=> WaitsSignal(u)
      BY <1>1, Zenon DEF WaitsSignal, InDown
    <2>2. ~WaitsSignal(t)
      BY Zenon DEF WaitsSignal, InDown
    <2> QED
      BY <1>1, <2>1, <2>2, ZenonT(40) DEF SynchInv, SignalNotLost, CondQueues, semaVars
  <1> QED
    BY <1>2, <1>4, <1>5, <1>6, <1>7 DEF SynchInv

(* A step of the scheduler alone.                                           *)
LEMMA ThreadStepInv ==
    ASSUME SynchInv, ThreadInv',
           UNCHANGED <<semaVars, holder, cond_waiters, op, cv, held>>,
           \A t \in Threads : pc[t] = "down" =>
               (status'[t] = "BLOCKED" <=> status[t] = "BLOCKED"),
           \A t \in Threads : pc'[t] = pc[t] \/ (pc[t] = "run" /\ pc'[t] = "exited"),
           pc' \in [Threads -> Labels]
    PROVE  SynchInv'
  <1>1. \A u \in Threads, r \in AllSemas : InDown(u, r)' <=> InDown(u, r)
    BY Zenon DEF InDown
  <1>2. WaitQueues'
    <2>1. \A r \in AllSemas : Woken(r)' = Woken(r)
      BY <1>1, Zenon DEF Woken, InDown
    <2>2. \A u \in Threads, r \in AllSemas :
            InDown(u, r)' /\ status'[u] = "BLOCKED" <=> InDown(u, r) /\ status[u] = "BLOCKED"
      BY <1>1, Zenon DEF InDown
    <2> QED
      BY <2>1, <2>2, Zenon DEF SynchInv, WaitQueues, WaitersBlocked, NoLostWakeup, semaVars
  <1>3. TypeOK' /\ SchedulerInv'
    BY Zenon DEF SynchInv, TypeOK, ThreadInv, semaVars
  <1>4. LockParts'
    <2>1. \A u \in Threads, k \in Locks : Has(u, k)' <=> Has(u, k)
      BY Zenon DEF Has
    <2> QED
      BY <2>1, ZenonT(40) DEF SynchInv, LockParts, MutualExclusion, HolderAccurate, semaVars
  <1>5. PcOK'
    BY <1>1, ZenonT(40) DEF SynchInv, PcOK, InDown
  <1>6. SignalNotLost' /\ CondQueues'
    <2>1. \A u \in Threads : WaitsSignal(u)' <=> WaitsSignal(u)
      BY DEF WaitsSignal, InDown
    <2> QED
      BY <2>1, Zenon DEF SynchInv, SignalNotLost, CondQueues, semaVars
  <1> QED
    BY <1>2, <1>3, <1>4, <1>5, <1>6, Zenon DEF SynchInv
-----------------------------------------------------------------------------
(* The invariant holds at the start.                                        *)
LEMMA InitInv == Init => SynchInv
  <1> SUFFICES ASSUME Init PROVE SynchInv
    OBVIOUS
  <1>1. ThreadInv
    BY ThreadInitInv DEF Init
  <1>2. TypeOK /\ SchedulerInv
    BY <1>1, SMT DEF Init, SynchInit, TypeOK, ThreadInv, AllSemas, Labels
  <1>3. NoRepeat(<<>>)
    BY SMT DEF NoRepeat
  <1>4. WaitQueues
    BY <1>3, EmptyQueue, Zenon
    DEF Init, SynchInit, WaitQueues, WaitersBlocked, NoLostWakeup, InDown
  <1>5. LockParts /\ PcOK
    BY SynchAssumption, Zenon
    DEF Init, SynchInit, LockParts, MutualExclusion, HolderAccurate, Has, PcOK, InDown,
        AllSemas, AllThreads
  <1>6. SignalNotLost /\ CondQueues
    BY <1>3, EmptyQueue
    DEF Init, SynchInit, SignalNotLost, CondQueues, WaitsSignal, InDown
  <1> QED
    BY <1>2, <1>4, <1>5, <1>6 DEF SynchInv

(* Every step of the threads and of the timer keeps the invariant.          *)
LEMMA NextInv == SynchInv /\ [Next]_vars => SynchInv'
  <1> SUFFICES ASSUME SynchInv, [Next]_vars PROVE SynchInv'
    BY Zenon
  <1>1. ThreadInv /\ AllSemas = Semas \cup Locks \cup Threads /\ TypeOK /\ PcOK
    BY Zenon DEF SynchInv, TypeOK, ThreadInv, AllSemas
  <1>2. ASSUME NEW t \in Threads, ClientCall(t) PROVE SynchInv'
    <2>1. ASSUME NEW s \in Semas, SemaDown(t, s) PROVE SynchInv'
      <3>1. /\ s \in AllSemas /\ s \notin Threads /\ s # t
            /\ current = t /\ pc[t] = "run" /\ cv[t] = NoCond /\ ~WaitsSignal(t)
            /\ sema_down(t, s) /\ UNCHANGED <<holder, cond_waiters, cv, held>>
        BY <2>1, <1>1, SynchAssumption, Zenon DEF SemaDown, At, PcOK, WaitsSignal, InDown
      <3> QED
        BY <3>1, DownInv, Zenon
    <2>2. ASSUME NEW s \in Semas, SemaTryDown(t, s) PROVE SynchInv'
      BY <2>2, TryDownInv DEF SemaTryDown, At
    <2>3. ASSUME NEW s \in Semas, SemaUp(t, s) PROVE SynchInv'
      BY <2>3, PlainUpInv, Zenon DEF SemaUp
    <2>4. ASSUME NEW l \in Locks, lock_acquire(t, l) PROVE SynchInv'
      <3>1. /\ l \in AllSemas /\ l \notin Threads /\ l # t /\ l \notin Semas
            /\ current = t /\ pc[t] = "run" /\ ~WaitsSignal(t)
            /\ sema_down(t, l) /\ UNCHANGED <<holder, cond_waiters, cv, held>>
        BY <2>4, <1>1, SynchAssumption DEF lock_acquire, At, WaitsSignal, InDown
      <3> QED
        BY <3>1, DownInv, Zenon
    <2>5. ASSUME NEW l \in Locks, lock_try_acquire(t, l) PROVE SynchInv'
      BY <2>5, TryDownInv, Zenon DEF lock_try_acquire, At
    <2>6. ASSUME NEW l \in Locks, lock_release(t, l) PROVE SynchInv'
      BY <2>6, ReleaseInv
    <2>7. ASSUME NEW c \in Conds, cond_wait(t, c) PROVE SynchInv'
      BY <2>7, CondWaitInv, Zenon
    <2>8. ASSUME NEW c \in Conds, cond_signal(t, c) PROVE SynchInv'
      BY <2>8, SignalInv DEF cond_signal
    <2>9. ASSUME NEW c \in Conds, cond_broadcast(t, c) PROVE SynchInv'
      BY <2>9, BroadcastEdgeInv, SynchAssumption, ZenonT(40) DEF cond_broadcast, At
    <2>10. ASSUME Yield(t) PROVE SynchInv'
      BY <2>10, <1>1, YieldInv, ThreadStepInv, Zenon DEF Yield, synchVars, semaVars, TypeOK
    <2>11. ASSUME Exit(t) PROVE SynchInv'
      <3>1. /\ current = t /\ pc[t] = "run" /\ thread_exit
            /\ pc' = [pc EXCEPT ![t] = "exited"]
            /\ UNCHANGED <<semaVars, holder, cond_waiters, op, cv, held>>
        BY <2>11, Zenon DEF Exit, At, Goto
      <3>2. /\ ThreadInv'
            /\ \A u \in Threads \ {t} : status'[u] = "BLOCKED" <=> status[u] = "BLOCKED"
        BY <3>1, <1>1, BlockInv, Zenon DEF thread_exit
      <3>3. /\ pc' \in [Threads -> Labels]
            /\ \A u \in Threads : pc'[u] = IF u = t THEN "exited" ELSE pc[u]
        BY <3>1, <1>1 DEF TypeOK, Labels
      <3> QED
        BY <3>1, <3>2, <3>3, ThreadStepInv, Zenon
    <2> QED
      BY <1>2, <2>1, <2>2, <2>3, <2>4, <2>5, <2>6, <2>7, <2>8, <2>9, <2>10, <2>11, ZenonT(40)
      DEF ClientCall
  <1>3. ASSUME NEW t \in Threads, Continue(t) PROVE SynchInv'
    <2>1. ASSUME Retry(t) PROVE SynchInv'
      <3>1. PICK s \in AllSemas : s = op[t]
        BY <1>1, Zenon DEF TypeOK
      <3>2. /\ current = t /\ pc[t] = "down" /\ sema_down(t, s)
            /\ UNCHANGED <<holder, cond_waiters, cv, held>>
            /\ s \in Threads <=> s = t
            /\ WaitsSignal(t) <=> s = t
        BY <2>1, <3>1, <1>1, ZenonT(40) DEF Retry, At, PcOK, WaitsSignal, InDown
      <3>3. s \in Semas => cv[t] = NoCond
        BY <3>1, <3>2, <1>1 DEF PcOK, InDown
      <3> QED
        BY <3>1, <3>2, <3>3, DownInv, Zenon
    <2>2. ASSUME SetHolder(t) PROVE SynchInv'
      BY <2>2, SetHolderInv, Zenon
    <2>3. ASSUME ReleaseUp(t) PROVE SynchInv'
      BY <2>3, ReleaseUpInv, Zenon
    <2>4. ASSUME CondSleep(t) PROVE SynchInv'
      <3>1. /\ t \in AllSemas /\ t \notin Semas
            /\ current = t /\ pc[t] = "sleep" /\ WaitsSignal(t)
            /\ sema_down(t, t) /\ UNCHANGED <<holder, cond_waiters, cv, held>>
        BY <2>4, <1>1, SynchAssumption, Zenon DEF CondSleep, At, WaitsSignal
      <3> QED
        BY <3>1, DownInv, Zenon
    <2>5. ASSUME CondRelock(t) PROVE SynchInv'
      <3>1. current = t /\ pc[t] = "relock" /\ cv[t] \in Conds /\ ~WaitsSignal(t)
        BY <2>5, <1>1, Zenon DEF CondRelock, At, PcOK, WaitsSignal, InDown
      <3>2. PICK l \in Locks : l = CondLock[cv[t]]
        BY <3>1, SynchAssumption, Zenon
      <3>3. /\ l \in AllSemas /\ l \notin Threads /\ l # t /\ l \notin Semas
            /\ sema_down(t, l) /\ UNCHANGED <<holder, cond_waiters, cv, held>>
        BY <2>5, <3>2, <1>1, SynchAssumption, Zenon DEF CondRelock
      <3> QED
        BY <3>1, <3>3, DownInv, Zenon
    <2>6. ASSUME BroadcastNext(t) PROVE SynchInv'
      <3>1. /\ current = t /\ pc[t] = "bcast" /\ cv[t] \in Conds
            /\ UNCHANGED <<holder, op, held>>
        BY <2>6, <1>1, Zenon DEF BroadcastNext, At, PcOK
      <3>2. PICK c \in Conds : c = cv[t]
        BY <3>1, Zenon
      <3>3. CASE SignalOne(c) /\ UNCHANGED <<pc, cv>>
        BY <3>1, <3>3, SignalInv
      <3>4. CASE /\ cv' = [cv EXCEPT ![t] = NoCond] /\ Goto(t, "run")
                 /\ UNCHANGED <<threadVars, semaVars, cond_waiters>>
        BY <3>1, <3>4, BroadcastEdgeInv, Zenon
      <3> QED
        BY <2>6, <3>2, <3>3, <3>4, Zenon DEF BroadcastNext
    <2> QED
      BY <1>3, <2>1, <2>2, <2>3, <2>4, <2>5, <2>6, Zenon DEF Continue
  <1>4. ASSUME NEW s \in Semas, IntrSemaUp(s) PROVE SynchInv'
    BY <1>4, PlainUpInv, Zenon DEF IntrSemaUp
  <1>5. CASE Tick
    BY <1>5, <1>1, TickInv, ThreadStepInv, Zenon DEF Tick, synchVars, semaVars, TypeOK
  <1>6. CASE IdleLoop
    <2>1. current = Idle /\ schedule("BLOCKED", ready_list) /\ UNCHANGED synchVars
      BY <1>6, Zenon DEF IdleLoop, idle, thread_block
    <2>2. ThreadInv' /\ \A u \in Threads : status'[u] = "BLOCKED" <=> status[u] = "BLOCKED"
      BY <2>1, <1>1, BlockInv, ThreadAssumption, Zenon
    <2> QED
      BY <2>1, <2>2, <1>1, ThreadStepInv, Zenon DEF synchVars, semaVars, TypeOK
  <1>7. CASE UNCHANGED vars
    <2>1. UNCHANGED threadVars /\ UNCHANGED synchVars
      BY <1>7 DEF vars
    <2>2. ThreadInv'
      BY <2>1, <1>1 DEF ThreadInv, ThreadTypeOK, SchedulerInv, OneRunning, ReadyOnQueue,
                        threadVars
    <2> QED
      BY <2>1, <2>2, <1>1, ThreadStepInv DEF threadVars, synchVars, semaVars, TypeOK
  <1> QED
    BY <1>2, <1>3, <1>4, <1>5, <1>6, <1>7, Zenon DEF Next

(* The invariant holds in every behaviour: the fact the theorems below are  *)
(* read off from.                                                           *)
THEOREM SynchInvariant == Spec => []SynchInv
  BY InitInv, NextInv, PTL DEF Spec

(* A lock is held by at most one thread, its semaphore is 1 exactly when it *)
(* is free, and its holder member is right whenever an assertion reads it.  *)
THEOREM LockSafety == Spec => [](MutualExclusion /\ HolderAccurate)
  <1>1. SynchInv => MutualExclusion /\ HolderAccurate
    BY DEF SynchInv, LockParts
  <1> QED
    BY <1>1, SynchInvariant, PTL

(* Wait lists hold exactly the threads blocked on their semaphore, and no   *)
(* unit of a semaphore is left without a thread coming for it while others  *)
(* wait.                                                                    *)
THEOREM WakeupSafety == Spec => [](WaitersBlocked /\ NoLostWakeup)
  <1>1. SynchInv => WaitersBlocked /\ NoLostWakeup
    BY DEF SynchInv, WaitQueues
  <1> QED
    BY <1>1, SynchInvariant, PTL

(* Condition variables lose no signal and wake no thread without one.       *)
THEOREM SignalSafety == Spec => []SignalNotLost
  <1>1. SynchInv => SignalNotLost
    BY Zenon DEF SynchInv
  <1> QED
    BY <1>1, SynchInvariant, PTL
-----------------------------------------------------------------------------
(* Every step leaves ownership alone, gives one free lock to one thread, or *)
(* takes one lock from the thread that has it.                              *)
Kept == \A u \in Threads, k \in Locks : Has(u, k)' <=> Has(u, k)
Taken(t, l) ==
    /\ value[l] > 0
    /\ \A u \in Threads, k \in Locks : Has(u, k)' <=> Has(u, k) \/ (u = t /\ k = l)
Given(t, l) ==
    /\ Has(t, l)
    /\ \A u \in Threads, k \in Locks : Has(u, k)' <=> Has(u, k) /\ ~(u = t /\ k = l)

(* sema_down takes one lock or none.                                        *)
LEMMA DownOwner ==
    ASSUME TypeOK, NEW t \in Threads, NEW s \in AllSemas, sema_down(t, s),
           UNCHANGED held, pc[t] \notin {"hold", "up"}
    PROVE  Kept \/ \E l \in Locks : Taken(t, l)
  <1>1. /\ \A u \in Threads : op'[u] = IF u = t THEN s ELSE op[u]
        /\ \/ \A u \in Threads : pc'[u] = IF u = t THEN "down" ELSE pc[u]
           \/ /\ value[s] > 0
              /\ \A u \in Threads : pc'[u] = IF u = t THEN AfterDown(t, s) ELSE pc[u]
    <2>1. /\ op' = [op EXCEPT ![t] = s]
          /\ \/ pc' = [pc EXCEPT ![t] = "down"]
             \/ value[s] # 0 /\ pc' = [pc EXCEPT ![t] = AfterDown(t, s)]
      BY Zenon DEF sema_down, Goto
    <2>2. value[s] # 0 => value[s] > 0
      <3>1. value[s] \in Nat
        BY Zenon DEF TypeOK
      <3> QED
        BY <3>1
    <2> QED
      BY <2>1, <2>2, Zenon DEF TypeOK
  <1>2. CASE \A u \in Threads : pc'[u] = IF u = t THEN "down" ELSE pc[u]
    BY <1>1, <1>2 DEF Kept, Has
  <1>3. CASE /\ value[s] > 0
             /\ \A u \in Threads : pc'[u] = IF u = t THEN AfterDown(t, s) ELSE pc[u]
    <2>1. CASE s \in Locks
      <3>1. pc'[t] = "hold" /\ op'[t] = s
        BY <1>1, <1>3, <2>1, Zenon DEF AfterDown
      <3>2. \A u \in Threads : u # t => pc'[u] = pc[u] /\ op'[u] = op[u]
        BY <1>1, <1>3, Zenon
      <3>3. \A u \in Threads, k \in Locks : Has(u, k)' <=> Has(u, k) \/ (u = t /\ k = s)
        BY <3>1, <3>2, Zenon DEF Has
      <3> QED
        BY <1>3, <2>1, <3>3, Zenon DEF Taken
    <2>2. CASE s \notin Locks
      BY <1>1, <1>3, <2>2, Zenon DEF Kept, Has, AfterDown
    <2> QED
      BY <2>1, <2>2, Zenon
  <1> QED
    BY <1>1, <1>2, <1>3, Zenon

(* A step takes one lock, gives one up or leaves all where they are.        *)
LEMMA OwnershipSteps ==
    ASSUME SynchInv, [Next]_vars
    PROVE  Kept \/ \E t \in Threads, l \in Locks : Taken(t, l) \/ Given(t, l)
  <1> DEFINE Goal == Kept \/ \E t \in Threads, l \in Locks : Taken(t, l) \/ Given(t, l)
  <1>1. TypeOK /\ PcOK
    BY DEF SynchInv
  <1>2. ASSUME NEW t \in Threads, NEW s \in AllSemas, sema_down(t, s), UNCHANGED held,
               pc[t] \notin {"hold", "up"}
        PROVE  Goal
    BY <1>1, <1>2, DownOwner, Zenon
  <1>3. ASSUME UNCHANGED <<pc, op, held>> PROVE Goal
    BY <1>3 DEF Kept, Has
  <1>4. ASSUME NEW t \in Threads, ClientCall(t) PROVE Goal
    <2>1. pc[t] = "run"
      BY <1>4, Zenon DEF ClientCall, At, SemaDown, SemaTryDown, SemaUp, lock_acquire,
                  lock_try_acquire, lock_release, cond_wait, cond_signal, cond_broadcast,
                  Yield, Exit
    <2>2. ASSUME NEW s \in Semas, SemaDown(t, s) \/ SemaTryDown(t, s) \/ SemaUp(t, s)
          PROVE  Goal
      BY <1>2, <1>3, <2>1, <2>2, ZenonT(40) DEF SemaDown, SemaTryDown, SemaUp, AllSemas
    <2>3. ASSUME NEW l \in Locks, lock_acquire(t, l) PROVE Goal
      BY <1>2, <2>1, <2>3 DEF lock_acquire, AllSemas
    <2>4. ASSUME NEW l \in Locks, lock_try_acquire(t, l) PROVE Goal
      <3>1. /\ value[l] > 0 /\ held' = held
            /\ pc' = [pc EXCEPT ![t] = "hold"] /\ op' = [op EXCEPT ![t] = l]
        BY <2>4, Zenon DEF lock_try_acquire, sema_try_down, Goto
      <3>2. Taken(t, l)
        BY <3>1, <2>1, <1>1 DEF Taken, Has, TypeOK
      <3> QED
        BY <3>2
    <2>5. ASSUME NEW l \in Locks, ClearHolder(t, l) PROVE Goal
      <3>1. /\ l \in held[t]
            /\ \A u \in Threads : pc'[u] = IF u = t THEN "up" ELSE pc[u]
            /\ \A u \in Threads : op'[u] = IF u = t THEN l ELSE op[u]
            /\ \A u \in Threads : held'[u] = IF u = t THEN held[t] \ {l} ELSE held[u]
        BY <2>5, <1>1, Zenon DEF ClearHolder, Goto, TypeOK
      <3>2. Kept
        BY <3>1, <2>1, Zenon DEF Kept, Has
      <3> QED
        BY <3>2, Zenon
    <2>6. ASSUME NEW c \in Conds, cond_wait(t, c) PROVE Goal
      BY <2>5, <2>6, SynchAssumption, Zenon DEF cond_wait
    <2>7. ASSUME NEW c \in Conds, cond_signal(t, c) PROVE Goal
      BY <1>3, <2>7, Zenon DEF cond_signal
    <2>8. ASSUME NEW label \in {"bcast", "exited"}, Goto(t, label), UNCHANGED <<op, held>>
          PROVE  Goal
      BY <2>1, <2>8, <1>1, Zenon DEF Goto, TypeOK, Kept, Has
    <2>9. ASSUME Yield(t) PROVE Goal
      BY <1>3, <2>9, Zenon DEF Yield, synchVars
    <2> QED
      BY <1>4, <2>2, <2>3, <2>4, <2>5, <2>6, <2>7, <2>8, <2>9, Zenon
      DEF ClientCall, lock_release, cond_broadcast, Exit
  <1>5. ASSUME NEW t \in Threads, Continue(t) PROVE Goal
    <2>1. CASE Retry(t)
      BY <2>1, <1>1, <1>2, Zenon DEF Retry, At, TypeOK
    <2>2. CASE SetHolder(t)
      <3>1. /\ pc[t] = "hold" /\ op' = op
            /\ \A u \in Threads : pc'[u] = IF u = t THEN "run" ELSE pc[u]
            /\ \A u \in Threads : held'[u] = IF u = t THEN held[t] \cup {op[t]} ELSE held[u]
        BY <2>2, <1>1, Zenon DEF SetHolder, At, Goto, TypeOK
      <3>2. Kept
        BY <3>1 DEF Kept, Has
      <3> QED
        BY <3>2, Zenon
    <2>3. CASE ReleaseUp(t)
      <3>1. /\ pc[t] = "up" /\ op' = op /\ held' = held
            /\ \A u \in Threads : pc'[u] = IF u = t THEN (IF cv[t] = NoCond THEN "run" ELSE "sleep")
                                           ELSE pc[u]
        BY <2>3, <1>1, Zenon DEF ReleaseUp, At, Goto, TypeOK
      <3>2. PICK l \in Locks : l = op[t] /\ l \notin held[t]
        BY <3>1, <1>1, Zenon DEF PcOK
      <3>3. Given(t, l)
        BY <3>1, <3>2, Zenon DEF Given, Has
      <3> QED
        BY <3>3, Zenon
    <2>4. CASE CondSleep(t)
      BY <2>4, <1>2, Zenon DEF CondSleep, At, AllSemas
    <2>5. CASE CondRelock(t)
      <3>1. CondLock[cv[t]] \in AllSemas /\ pc[t] = "relock"
        BY <2>5, <1>1, SynchAssumption DEF CondRelock, At, PcOK, AllSemas
      <3> QED
        BY <2>5, <3>1, <1>2, ZenonT(40) DEF CondRelock
    <2>6. CASE BroadcastNext(t)
      <3>1. CASE UNCHANGED pc
        BY <2>6, <3>1, <1>3, ZenonT(30) DEF BroadcastNext
      <3>2. CASE Goto(t, "run")
        BY <2>6, <3>2, <1>1, Zenon DEF BroadcastNext, At, Goto, TypeOK, Kept, Has
      <3> QED
        BY <2>6, <3>1, <3>2, ZenonT(30) DEF BroadcastNext
    <2> QED
      BY <1>5, <2>1, <2>2, <2>3, <2>4, <2>5, <2>6, Zenon DEF Continue
  <1>6. CASE (\E s \in Semas : IntrSemaUp(s)) \/ Tick \/ IdleLoop \/ UNCHANGED vars
    BY <1>3, <1>6, Zenon DEF IntrSemaUp, Tick, IdleLoop, vars, synchVars
  <1> QED
    BY <1>4, <1>5, <1>6 DEF Next

(* With mutual exclusion the owner is the thread that has the lock.         *)
LEMMA OwnerIs ==
    ASSUME MutualExclusion, NEW l \in Locks
    PROVE  /\ \A t \in Threads : Owner[l] = t <=> Has(t, l)
           /\ Owner[l] = NoThread <=> \A u \in Threads : ~Has(u, l)
           /\ Owner[l] \in Threads \cup {NoThread}
  BY SynchAssumption, Zenon DEF Owner, MutualExclusion, AllThreads

(* The same after a step.                                                   *)
LEMMA OwnerIsPrime ==
    ASSUME MutualExclusion', NEW l \in Locks
    PROVE  /\ \A t \in Threads : Owner'[l] = t <=> Has(t, l)'
           /\ Owner'[l] = NoThread <=> \A u \in Threads : ~Has(u, l)'
           /\ Owner'[l] \in Threads \cup {NoThread}
  BY SynchAssumption, Zenon DEF Owner, MutualExclusion, AllThreads

(* A lock that nobody takes or gives up keeps its owner.                    *)
LEMMA OwnerSame ==
    ASSUME MutualExclusion, MutualExclusion', NEW l \in Locks,
           \A t \in Threads : Has(t, l)' <=> Has(t, l)
    PROVE  Owner'[l] = Owner[l]
  <1>1. CASE Owner[l] = NoThread
    BY <1>1, OwnerIs, OwnerIsPrime, ZenonT(40)
  <1>2. CASE Owner[l] \in Threads
    BY <1>2, OwnerIs, OwnerIsPrime
  <1> QED
    BY <1>1, <1>2, OwnerIs, Zenon

(* The locks of synch.c implement the abstract lock: whatever the           *)
(* scheduling, a step of the system takes one free lock, gives one lock     *)
(* back, or changes no lock's owner.                                        *)
THEOREM LockImplementation == Spec => LockRefinement
  <1>1. Init => LS!LockInit
    BY DEF Init, SynchInit, LS!LockInit, Owner, Has
  <1>2. ASSUME SynchInv, SynchInv', [Next]_vars PROVE [LS!LockNext]_Owner
    <2>1. MutualExclusion /\ MutualExclusion'
      BY <1>2 DEF SynchInv, LockParts
    <2>2. Owner = [l \in Locks |-> Owner[l]] /\ Owner' = [l \in Locks |-> Owner'[l]]
      BY DEF Owner
    <2>3. CASE Kept
      <3>1. \A l \in Locks : Owner'[l] = Owner[l]
        BY <2>1, <2>3, OwnerSame, Zenon DEF Kept
      <3> QED
        BY <2>2, <3>1, Zenon
    <2>4. ASSUME NEW t \in Threads, NEW l \in Locks, Taken(t, l) PROVE LS!Acquire(t, l)
      <3>1. Owner[l] = NoThread
        <4>1. value[l] # 0
          <5>1. value[l] > 0
            BY <2>4, Zenon DEF Taken
          <5> QED
            BY <5>1
        <4>2. \A u \in Threads : ~Has(u, l)
          BY <2>1, <4>1, Zenon DEF MutualExclusion
        <4> QED
          BY <4>2, <2>1, OwnerIs, Zenon
      <3>2. Owner'[l] = t
        BY <2>1, <2>4, OwnerIsPrime, Zenon DEF Taken
      <3>3. \A k \in Locks : k # l => Owner'[k] = Owner[k]
        BY <2>1, <2>4, OwnerSame, Zenon DEF Taken
      <3> QED
        BY <2>2, <3>1, <3>2, <3>3, Zenon DEF LS!Acquire
    <2>5. ASSUME NEW t \in Threads, NEW l \in Locks, Given(t, l) PROVE LS!Release(t, l)
      <3>1. Owner[l] = t
        BY <2>1, <2>5, OwnerIs, Zenon DEF Given
      <3>2. Owner'[l] = NoThread
        <4>1. \A u \in Threads : ~Has(u, l)'
          BY <2>1, <2>5, Zenon DEF Given, MutualExclusion
        <4> QED
          BY <4>1, <2>1, OwnerIsPrime, Zenon
      <3>3. \A k \in Locks : k # l => Owner'[k] = Owner[k]
        BY <2>1, <2>5, OwnerSame DEF Given
      <3> QED
        BY <2>2, <3>1, <3>2, <3>3, Zenon DEF LS!Release
    <2> QED
      BY <1>2, <2>3, <2>4, <2>5, OwnershipSteps, Zenon DEF LS!LockNext
  <1> QED
    BY <1>1, <1>2, SynchInvariant, PTL DEF Spec, LockRefinement, LS!Spec
=============================================================================
