-------------------------------- MODULE Intq --------------------------------
(***************************************************************************)
(* The queue of devices/intq.c between threads and an interrupt handler,   *)
(* as the kernel uses it:                                                  *)
(*   "input"     the keyboard and serial handlers put, threads get         *)
(*               (devices/input.c);                                        *)
(*   "transmit"  threads put, the serial handler gets (devices/serial.c).  *)
(*                                                                         *)
(* The functions run with interrupts off, so a thread runs from one        *)
(* blocking point to the next in one step.  Where a thread blocks:         *)
(*   "lockq"  in lock_acquire (&q->lock)                                   *)
(*   "wait"   in wait (), with q->lock held                                *)
(* and once woken there it is at "retry" or "woken".                       *)
(***************************************************************************)
EXTENDS Naturals, Sequences

CONSTANTS Threads,
          NULL,
          INTQ_BUFSIZE,
          Numbers        \* bound: the bytes are numbered modulo this

ASSUME IntqAssumption ==
    /\ NULL \notin Threads
    /\ INTQ_BUFSIZE \in Nat \ {0, 1}
    /\ Numbers \in Nat /\ Numbers > INTQ_BUFSIZE

VARIABLES kind,
          buf, head, tail,           \* struct intq
          waiter,                    \* not_empty or not_full, as kind has it
          lock_value, lock_waiters,  \* the semaphore of q->lock
          pc,
          ier,                       \* the interrupt that serves this queue is on
          sent, got,                 \* the numbers of the last byte put and taken
          failed                     \* an assertion failed: the kernel panics

lockVars == <<lock_value, lock_waiters>>
vars == <<kind, buf, head, tail, waiter, lockVars, pc, ier, sent, got, failed>>

Init ==
    /\ kind \in {"input", "transmit"}
    /\ buf = [p \in 0 .. INTQ_BUFSIZE - 1 |-> 0]
    /\ head = 0 /\ tail = 0
    /\ waiter = NULL
    /\ lock_value = 1 /\ lock_waiters = <<>>
    /\ pc = [t \in Threads |-> "idle"]
    /\ ier = (kind = "input")
    /\ sent = 0 /\ got = 0
    /\ failed = FALSE
-----------------------------------------------------------------------------
next(pos) == (pos + 1) % INTQ_BUFSIZE

intq_empty == head = tail

FullIgnoresWrap == head + 1 = tail

intq_full == next(head) = tail

(* What threads wait for the end of.                                        *)
Blocking == IF kind = "input" THEN intq_empty ELSE intq_full

After(n) == (n + 1) % Numbers

Put == /\ buf' = [buf EXCEPT ![head] = After(sent)]
       /\ head' = next(head)
       /\ sent' = After(sent)
       /\ UNCHANGED <<tail, got>>

Get == /\ tail' = next(tail)
       /\ got' = After(got)
       /\ UNCHANGED <<buf, head, sent>>

SignalNobody == UNCHANGED <<pc, waiter>>

(* signal (): wakes the thread in wait (), if any.                          *)
signal ==
    /\ pc' = IF waiter = NULL THEN pc ELSE [pc EXCEPT ![waiter] = "woken"]
    /\ waiter' = NULL

IerReceiveOnly == ier' = (kind = "input" /\ ~intq_full')

(* write_ier (), the last step of every use of the queue but serial_flush.  *)
write_ier == ier' = IF kind = "input" THEN ~intq_full' ELSE ~intq_empty'

(* wait () by a thread that has just acquired the lock.                     *)
wait(t, others) ==
    IF Blocking
    THEN /\ waiter' = t
         /\ pc' = [others EXCEPT ![t] = "wait"]
         /\ UNCHANGED failed
    ELSE /\ failed' = TRUE
         /\ pc' = others
         /\ UNCHANGED waiter

(* The loop of intq_getc or intq_putc from its test to the next blocking    *)
(* point or to the end, with the lock's semaphore as given and the other    *)
(* threads at others.                                                       *)
Loop(t, value, queue, others) ==
    \/ /\ ~Blocking
       /\ IF kind = "input" THEN Get ELSE Put
       /\ write_ier
       /\ pc' = [others EXCEPT ![t] = "idle"]
       /\ lock_value' = value /\ lock_waiters' = queue
       /\ UNCHANGED <<waiter, failed>>
    \/ /\ Blocking
       /\ value > 0
       /\ lock_value' = value - 1 /\ lock_waiters' = queue
       /\ wait(t, others)
       /\ UNCHANGED <<buf, head, tail, sent, got, ier>>
    \/ /\ Blocking
       /\ value = 0
       /\ lock_value' = value /\ lock_waiters' = Append(queue, t)
       /\ pc' = [others EXCEPT ![t] = "lockq"]
       /\ UNCHANGED <<buf, head, tail, sent, got, ier, waiter, failed>>
-----------------------------------------------------------------------------
(* input_getc (), or serial_putc () called with interrupts on.              *)
Call(t) ==
    /\ ~failed /\ pc[t] = "idle"
    /\ Loop(t, lock_value, lock_waiters, pc)
    /\ UNCHANGED kind

(* wait () returns: lock_release, and the loop's test again.                *)
Resume(t) ==
    /\ ~failed /\ pc[t] = "woken"
    /\ IF lock_waiters = <<>>
       THEN Loop(t, lock_value + 1, <<>>, pc)
       ELSE Loop(t, lock_value + 1, Tail(lock_waiters),
                 [pc EXCEPT ![Head(lock_waiters)] = "retry"])
    /\ UNCHANGED kind

(* A thread that lock_release woke goes on in sema_down, and then to        *)
(* wait () without testing the queue.                                       *)
Retry(t) ==
    /\ ~failed /\ pc[t] = "retry"
    /\ IF lock_value = 0
       THEN /\ lock_waiters' = Append(lock_waiters, t)
            /\ pc' = [pc EXCEPT ![t] = "lockq"]
            /\ UNCHANGED <<lock_value, waiter, failed>>
       ELSE /\ lock_value' = 0
            /\ wait(t, pc)
            /\ UNCHANGED lock_waiters
    /\ UNCHANGED <<kind, buf, head, tail, sent, got, ier>>

(* keyboard_interrupt () or serial_interrupt () puts a byte it has room for. *)
HandlerPut ==
    /\ ~failed /\ kind = "input" /\ ~intq_full
    /\ Put
    /\ signal
    /\ write_ier
    /\ UNCHANGED <<kind, lockVars, failed>>

(* serial_interrupt () sends a byte, if there is one.                       *)
HandlerGet ==
    /\ ~failed /\ kind = "transmit" /\ ier
    /\ IF intq_empty THEN UNCHANGED <<buf, head, tail, sent, got, pc, waiter>>
                     ELSE Get /\ signal
    /\ write_ier
    /\ UNCHANGED <<kind, lockVars, failed>>

(* serial_putc () with interrupts off and the queue full: the oldest byte   *)
(* is sent by polling, and the new one takes its place.                     *)
PolledPutc ==
    /\ ~failed /\ kind = "transmit" /\ intq_full
    /\ buf' = [buf EXCEPT ![head] = After(sent)]
    /\ head' = next(head) /\ tail' = next(tail)
    /\ sent' = After(sent) /\ got' = After(got)
    /\ signal
    /\ write_ier
    /\ UNCHANGED <<kind, lockVars, failed>>

(* serial_flush (): everything is sent by polling.                          *)
serial_flush ==
    /\ ~failed /\ kind = "transmit" /\ ~intq_empty
    /\ tail' = head /\ got' = sent
    /\ signal
    /\ UNCHANGED <<kind, buf, head, sent, ier, lockVars, failed>>

Next ==
    \/ \E t \in Threads : Call(t) \/ Resume(t) \/ Retry(t)
    \/ HandlerPut \/ HandlerGet \/ PolledPutc \/ serial_flush

Spec == Init /\ [][Next]_vars

(* A thread that has been woken is scheduled, and the UART goes on          *)
(* interrupting while it may.  Nobody has to type.                          *)
Fairness == /\ \A t \in Threads : WF_vars(Resume(t) \/ Retry(t))
            /\ WF_vars(HandlerGet)

FairSpec == Spec /\ Fairness
-----------------------------------------------------------------------------
(* Bytes come out in the order they went in, none lost, overwritten or      *)
(* repeated: from tail to head the buffer holds the bytes not yet taken.    *)
InOrder ==
    LET held == (head + INTQ_BUFSIZE - tail) % INTQ_BUFSIZE
    IN  /\ sent = (got + held) % Numbers
        /\ \A k \in 1 .. held :
             buf[(tail + k - 1) % INTQ_BUFSIZE] = (got + k) % Numbers

(* No lost wakeup: while a thread sleeps in wait (), it is the one signal   *)
(* will wake, and the queue is still empty (or full).                       *)
SleeperRegistered ==
    \A t \in Threads : pc[t] = "wait" => waiter = t /\ Blocking

(* A thread asleep in serial_putc is woken: the UART makes room sooner or   *)
(* later, unless the kernel has panicked.                                   *)
SleeperWoken ==
    (kind = "transmit" /\ waiter # NULL) ~> (waiter = NULL \/ failed)
=============================================================================
