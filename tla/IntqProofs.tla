----------------------------- MODULE IntqProofs -----------------------------
(***************************************************************************)
(* What holds of the interrupt queue whatever its size and the number of   *)
(* threads: bytes come out in the order they went in, and a thread that    *)
(* sleeps in wait () is registered and has reason to sleep.                *)
(***************************************************************************)
EXTENDS Intq, TLAPS

Positions == 0 .. INTQ_BUFSIZE - 1

TypeOK ==
    /\ kind \in {"input", "transmit"}
    /\ buf \in [Positions -> Nat]
    /\ head \in Positions /\ tail \in Positions
    /\ sent \in 0 .. Numbers - 1 /\ got \in 0 .. Numbers - 1
    /\ waiter \in Threads \cup {NULL}
    /\ lock_value \in {0, 1} /\ lock_waiters \in Seq(Threads)
    /\ pc \in [Threads -> {"idle", "lockq", "wait", "woken", "retry"}]

Holding == {"wait", "woken"}

(* A thread that is in wait () has the lock, alone, until it has returned.  *)
LockOK ==
    \A t \in Threads :
      pc[t] \in Holding => /\ lock_value = 0
                           /\ \A u \in Threads : pc[u] \in Holding => u = t

(* waiter is the thread that sleeps there.                                  *)
WaiterOK == \A t \in Threads : pc[t] = "wait" <=> waiter = t

IntqInv == TypeOK /\ InOrder /\ LockOK /\ WaiterOK /\ SleeperRegistered
-----------------------------------------------------------------------------
(* The remainder of a number below twice the modulus.                       *)
LEMMA ModOnce ==
    ASSUME NEW m \in Nat \ {0}, NEW x \in 0 .. 2 * m - 1
    PROVE  x % m = IF x < m THEN x ELSE x - m
  OBVIOUS

(* The number of bytes held, from tail around to head, the place and the    *)
(* number of the k-th of them, and InOrder, all without remainders.         *)
Place(p, k) == IF p + k - 1 < INTQ_BUFSIZE THEN p + k - 1 ELSE p + k - 1 - INTQ_BUFSIZE
Number(n, k) == IF n + k < Numbers THEN n + k ELSE n + k - Numbers
HeldNow == IF head >= tail THEN head - tail ELSE head + INTQ_BUFSIZE - tail

Ordered ==
    /\ sent = Number(got, HeldNow)
    /\ \A k \in 1 .. HeldNow : buf[Place(tail, k)] = Number(got, k)

(* The number of bytes held, without a remainder.                           *)
LEMMA HeldIs ==
    ASSUME TypeOK
    PROVE  (head + INTQ_BUFSIZE - tail) % INTQ_BUFSIZE = HeldNow
  <1> DEFINE x == head + INTQ_BUFSIZE - tail
  <1>1. INTQ_BUFSIZE \in Nat \ {0} /\ x \in 0 .. 2 * INTQ_BUFSIZE - 1
    BY IntqAssumption DEF TypeOK, Positions
  <1> HIDE DEF x
  <1>2. x % INTQ_BUFSIZE = IF x < INTQ_BUFSIZE THEN x ELSE x - INTQ_BUFSIZE
    BY <1>1, ModOnce, Zenon
  <1> QED
    BY <1>1, <1>2, IntqAssumption DEF TypeOK, Positions, HeldNow, x

(* next () without a remainder.                                             *)
LEMMA NextIs ==
    ASSUME NEW p \in Positions
    PROVE  next(p) = IF p = INTQ_BUFSIZE - 1 THEN 0 ELSE p + 1
  <1> DEFINE x == p + 1
  <1>1. INTQ_BUFSIZE \in Nat \ {0} /\ x \in 0 .. 2 * INTQ_BUFSIZE - 1
    BY IntqAssumption DEF Positions
  <1> HIDE DEF x
  <1>2. x % INTQ_BUFSIZE = IF x < INTQ_BUFSIZE THEN x ELSE x - INTQ_BUFSIZE
    BY <1>1, ModOnce, Zenon
  <1> QED
    BY <1>1, <1>2, IntqAssumption DEF Positions, next, x

(* The number after n, without a remainder.                                 *)
LEMMA AfterIs ==
    ASSUME NEW n \in 0 .. Numbers - 1
    PROVE  After(n) = IF n = Numbers - 1 THEN 0 ELSE n + 1
  <1> DEFINE x == n + 1
  <1>1. Numbers \in Nat \ {0} /\ x \in 0 .. 2 * Numbers - 1
    BY IntqAssumption
  <1> HIDE DEF x
  <1>2. x % Numbers = IF x < Numbers THEN x ELSE x - Numbers
    BY <1>1, ModOnce, Zenon
  <1> QED
    BY <1>1, <1>2, IntqAssumption DEF After, x

(* The place of the k-th byte from tail, without a remainder.               *)
LEMMA PlaceIs ==
    ASSUME NEW p \in Positions, NEW k \in 1 .. INTQ_BUFSIZE - 1
    PROVE  (p + k - 1) % INTQ_BUFSIZE = Place(p, k)
  <1> DEFINE x == p + k - 1
  <1>1. INTQ_BUFSIZE \in Nat \ {0} /\ x \in 0 .. 2 * INTQ_BUFSIZE - 1
    BY IntqAssumption DEF Positions
  <1> HIDE DEF x
  <1>2. x % INTQ_BUFSIZE = IF x < INTQ_BUFSIZE THEN x ELSE x - INTQ_BUFSIZE
    BY <1>1, ModOnce, Zenon
  <1> QED
    BY <1>1, <1>2, IntqAssumption DEF Positions, Place, x

(* The k-th number after n, without a remainder.                            *)
LEMMA NumberIs ==
    ASSUME NEW n \in 0 .. Numbers - 1, NEW k \in 0 .. INTQ_BUFSIZE - 1
    PROVE  (n + k) % Numbers = Number(n, k)
  <1> DEFINE x == n + k
  <1>1. Numbers \in Nat \ {0} /\ x \in 0 .. 2 * Numbers - 1
    BY IntqAssumption
  <1> HIDE DEF x
  <1>2. x % Numbers = IF x < Numbers THEN x ELSE x - Numbers
    BY <1>1, ModOnce, Zenon
  <1> QED
    BY <1>1, <1>2, IntqAssumption DEF Number, x

(* InOrder in the form that the proofs use.                                 *)
LEMMA OrderedIs == TypeOK => (InOrder <=> Ordered)
  <1> SUFFICES ASSUME TypeOK PROVE InOrder <=> Ordered
    OBVIOUS
  <1>1. HeldNow \in 0 .. INTQ_BUFSIZE - 1
    BY IntqAssumption DEF HeldNow, TypeOK, Positions
  <1>2. (got + HeldNow) % Numbers = Number(got, HeldNow)
    BY <1>1, NumberIs DEF TypeOK
  <1>3. ASSUME NEW k \in 1 .. HeldNow
        PROVE  /\ (tail + k - 1) % INTQ_BUFSIZE = Place(tail, k)
               /\ (got + k) % Numbers = Number(got, k)
    <2>1. k \in 1 .. INTQ_BUFSIZE - 1
      BY <1>1, IntqAssumption
    <2> QED
      BY <2>1, PlaceIs, NumberIs DEF TypeOK
  <1> QED
    BY <1>2, <1>3, HeldIs DEF InOrder, Ordered
-----------------------------------------------------------------------------
RingTypeOK ==
    /\ buf \in [Positions -> Nat]
    /\ head \in Positions /\ tail \in Positions
    /\ sent \in 0 .. Numbers - 1 /\ got \in 0 .. Numbers - 1

(* intq_putc on a queue that is not full.                                   *)
LEMMA PutOrdered ==
    ASSUME TypeOK, Ordered, ~intq_full, Put
    PROVE  RingTypeOK' /\ Ordered'
  <1>1. head' = next(head) /\ next(head) # tail /\ tail' = tail
    BY DEF Put, intq_full
  <1>2. next(head) = IF head = INTQ_BUFSIZE - 1 THEN 0 ELSE head + 1
    BY NextIs DEF TypeOK
  <1>3. After(sent) = IF sent = Numbers - 1 THEN 0 ELSE sent + 1
    BY AfterIs DEF TypeOK
  <1>4. sent' = After(sent) /\ got' = got /\ buf' = [buf EXCEPT ![head] = After(sent)]
    BY DEF Put
  <1>5. RingTypeOK'
    BY <1>1, <1>2, <1>3, <1>4, IntqAssumption DEF TypeOK, RingTypeOK, Positions
  <1>6. HeldNow \in 0 .. INTQ_BUFSIZE - 2 /\ HeldNow' = HeldNow + 1
    BY <1>1, <1>2, IntqAssumption DEF TypeOK, Positions, HeldNow
  <1>7. sent' = Number(got, HeldNow + 1)
    BY <1>3, <1>4, <1>6, IntqAssumption DEF TypeOK, Ordered, Number
  <1>8. head = Place(tail, HeldNow + 1)
    BY IntqAssumption DEF TypeOK, Positions, HeldNow, Place
  <1>9. ASSUME NEW k \in 1 .. HeldNow PROVE Place(tail, k) \in Positions \ {head}
    BY <1>6, IntqAssumption DEF TypeOK, Positions, HeldNow, Place
  <1>10. ASSUME NEW k \in 1 .. HeldNow + 1
         PROVE  buf'[Place(tail, k)] = Number(got, k)
    <2>1. CASE k = HeldNow + 1
      BY <1>4, <1>7, <1>8, <2>1 DEF TypeOK
    <2>2. CASE k # HeldNow + 1
      <3>1. k \in 1 .. HeldNow
        BY <1>6, <2>2
      <3> QED
        BY <1>4, <1>9, <3>1 DEF TypeOK, Ordered
    <2> QED
      BY <2>1, <2>2
  <1> QED
    BY <1>1, <1>4, <1>5, <1>6, <1>7, <1>10 DEF Ordered

(* intq_getc on a queue that is not empty.                                  *)
LEMMA GetOrdered ==
    ASSUME TypeOK, Ordered, ~intq_empty, Get
    PROVE  RingTypeOK' /\ Ordered'
  <1>1. tail' = next(tail) /\ head # tail /\ head' = head
    BY DEF Get, intq_empty
  <1>2. next(tail) = IF tail = INTQ_BUFSIZE - 1 THEN 0 ELSE tail + 1
    BY NextIs DEF TypeOK
  <1>3. After(got) = IF got = Numbers - 1 THEN 0 ELSE got + 1
    BY AfterIs DEF TypeOK
  <1>4. got' = After(got) /\ sent' = sent /\ buf' = buf
    BY DEF Get
  <1>5. RingTypeOK'
    BY <1>1, <1>2, <1>3, <1>4, IntqAssumption DEF TypeOK, RingTypeOK, Positions
  <1>6. HeldNow \in 1 .. INTQ_BUFSIZE - 1 /\ HeldNow' = HeldNow - 1
    BY <1>1, <1>2, IntqAssumption DEF TypeOK, Positions, HeldNow
  <1>7. ASSUME NEW k \in 0 .. HeldNow - 1
        PROVE  /\ Number(got', k) = Number(got, k + 1)
               /\ k > 0 => Place(tail', k) = Place(tail, k + 1)
    BY <1>1, <1>2, <1>3, <1>4, <1>6, IntqAssumption DEF TypeOK, Positions, Number, Place
  <1>8. sent' = Number(got', HeldNow')
    BY <1>4, <1>6, <1>7 DEF Ordered
  <1>9. ASSUME NEW k \in 1 .. HeldNow - 1
        PROVE  buf'[Place(tail', k)] = Number(got', k)
    <2>1. k + 1 \in 1 .. HeldNow /\ k \in 0 .. HeldNow - 1 /\ k > 0
      BY <1>6
    <2> QED
      BY <1>4, <1>7, <2>1 DEF Ordered
  <1> QED
    BY <1>5, <1>6, <1>8, <1>9 DEF Ordered

(* serial_flush.                                                            *)
LEMMA FlushOrdered ==
    ASSUME TypeOK, tail' = head, got' = sent, UNCHANGED <<buf, head, sent>>
    PROVE  RingTypeOK' /\ Ordered'
  <1>1. RingTypeOK'
    BY DEF TypeOK, RingTypeOK
  <1>2. HeldNow' = 0
    BY DEF TypeOK, Positions, HeldNow
  <1>3. Number(got', 0) = sent'
    BY IntqAssumption DEF TypeOK, Number
  <1> QED
    BY <1>1, <1>2, <1>3 DEF Ordered

(* serial_putc by polling: the oldest byte goes, and the new one takes the  *)
(* place between head and tail.                                             *)
LEMMA PolledOrdered ==
    ASSUME TypeOK, Ordered, PolledPutc
    PROVE  RingTypeOK' /\ Ordered'
  <1>1. /\ head' = tail /\ tail' = next(tail) /\ next(head) = tail
        /\ sent' = After(sent) /\ got' = After(got)
    BY DEF PolledPutc, intq_full
  <1>2. buf' = [buf EXCEPT ![head] = After(sent)]
    BY DEF PolledPutc
  <1>3. head \in Positions /\ tail \in Positions
    BY DEF TypeOK
  <1>4. /\ next(head) = IF head = INTQ_BUFSIZE - 1 THEN 0 ELSE head + 1
        /\ next(tail) = IF tail = INTQ_BUFSIZE - 1 THEN 0 ELSE tail + 1
    BY NextIs DEF TypeOK
  <1>5. /\ After(got) = IF got = Numbers - 1 THEN 0 ELSE got + 1
        /\ After(sent) = IF sent = Numbers - 1 THEN 0 ELSE sent + 1
    BY AfterIs DEF TypeOK
  <1>6. RingTypeOK'
    BY <1>1, <1>4, <1>5, <1>2, IntqAssumption DEF TypeOK, RingTypeOK, Positions
  <1>7. HeldNow = INTQ_BUFSIZE - 1 /\ HeldNow' = INTQ_BUFSIZE - 1
    BY <1>1, <1>4, <1>3, IntqAssumption DEF Positions, HeldNow
  <1>8. ASSUME NEW k \in 1 .. INTQ_BUFSIZE - 2
        PROVE  /\ Number(got', k) = Number(got, k + 1)
               /\ Place(tail', k) = Place(tail, k + 1)
               /\ Place(tail', k) \in Positions \ {head}
    <2>1. Number(got', k) = Number(got, k + 1)
      BY <1>1, <1>5, IntqAssumption DEF TypeOK, Number
    <2>2. Place(tail', k) = Place(tail, k + 1)
      BY <1>1, <1>4, <1>3, IntqAssumption DEF Positions, Place
    <2>3. Place(tail, k + 1) \in Positions \ {head}
      BY <1>1, <1>4, <1>3, IntqAssumption DEF Positions, Place
    <2> QED
      BY <2>1, <2>2, <2>3
  <1>9. Number(got', INTQ_BUFSIZE - 1) = After(sent)
    BY <1>1, <1>5, <1>7, IntqAssumption DEF TypeOK, Ordered, Number
  <1>10. Place(tail', INTQ_BUFSIZE - 1) = head
    BY <1>1, <1>4, <1>3, IntqAssumption DEF Positions, Place
  <1>11. ASSUME NEW k \in 1 .. INTQ_BUFSIZE - 1
        PROVE  buf'[Place(tail', k)] = Number(got', k)
    <2>1. CASE k = INTQ_BUFSIZE - 1
      BY <1>9, <1>10, <1>2, <2>1 DEF TypeOK
    <2>2. CASE k # INTQ_BUFSIZE - 1
      <3>1. k \in 1 .. INTQ_BUFSIZE - 2 /\ k + 1 \in 1 .. HeldNow
        BY <1>7, <2>2, IntqAssumption
      <3> QED
        BY <1>8, <1>2, <3>1 DEF TypeOK, Ordered
    <2> QED
      BY <2>1, <2>2
  <1> QED
    BY <1>1, <1>6, <1>7, <1>9, <1>11 DEF Ordered
-----------------------------------------------------------------------------
SyncTypeOK ==
    /\ kind \in {"input", "transmit"}
    /\ waiter \in Threads \cup {NULL}
    /\ lock_value \in {0, 1} /\ lock_waiters \in Seq(Threads)
    /\ pc \in [Threads -> {"idle", "lockq", "wait", "woken", "retry"}]

(* The invariant from its parts.                                            *)
LEMMA Together == SyncTypeOK /\ RingTypeOK /\ Ordered /\ LockOK /\ WaiterOK
                    /\ SleeperRegistered => IntqInv
  BY OrderedIs DEF IntqInv, TypeOK, SyncTypeOK, RingTypeOK

(* The invariant holds of an empty queue.                                   *)
LEMMA InitInv == Init => IntqInv
  <1> SUFFICES ASSUME Init PROVE IntqInv
    OBVIOUS
  <1>1. SyncTypeOK /\ RingTypeOK
    BY IntqAssumption DEF Init, SyncTypeOK, RingTypeOK, Positions
  <1>2. Ordered
    BY IntqAssumption DEF Init, Ordered, HeldNow, Number
  <1>3. LockOK /\ WaiterOK /\ SleeperRegistered
    BY IntqAssumption DEF Init, LockOK, WaiterOK, SleeperRegistered, Holding
  <1> QED
    BY <1>1, <1>2, <1>3, Together

(* signal () leaves nobody asleep, and the lock with whom it wakes.         *)
LEMMA SignalInv ==
    ASSUME IntqInv, signal, UNCHANGED <<kind, lockVars>>
    PROVE  SyncTypeOK' /\ LockOK' /\ WaiterOK' /\ SleeperRegistered'
  <1>1. SyncTypeOK'
    BY DEF IntqInv, TypeOK, SyncTypeOK, signal, lockVars
  <1>2. ASSUME NEW t \in Threads
        PROVE  pc'[t] # "wait" /\ (pc'[t] \in Holding <=> pc[t] \in Holding)
    <2>1. CASE waiter = t
      BY <2>1, IntqAssumption DEF IntqInv, TypeOK, signal, WaiterOK, Holding
    <2>2. CASE waiter # t
      <3>1. pc'[t] = pc[t]
        BY <2>2 DEF IntqInv, TypeOK, signal
      <3> QED
        BY <2>2, <3>1 DEF IntqInv, WaiterOK
    <2> QED
      BY <2>1, <2>2
  <1>3. LockOK'
    BY <1>2 DEF IntqInv, LockOK, lockVars
  <1>4. waiter' = NULL
    BY DEF signal
  <1> QED
    BY <1>1, <1>2, <1>3, <1>4, IntqAssumption DEF WaiterOK, SleeperRegistered

(* A thread t that has the lock of the queue to give away, or finds it as   *)
(* it is, goes through the loop of intq_getc or intq_putc; nobody else has  *)
(* the lock if it is free.                                                  *)
LEMMA LoopInv ==
    ASSUME IntqInv, NEW t \in Threads, NEW value \in {0, 1}, NEW queue \in Seq(Threads),
           NEW others \in [Threads -> {"idle", "lockq", "wait", "woken", "retry"}],
           \A u \in Threads \ {t} : (others[u] \in Holding <=> pc[u] \in Holding)
                                      /\ (others[u] = "wait" <=> pc[u] = "wait"),
           pc[t] # "wait", others[t] # "wait",
           pc[t] \in Holding => value = 1,
           pc[t] \notin Holding => value = lock_value /\ others[t] \notin Holding,
           Loop(t, value, queue, others), kind' = kind
    PROVE  IntqInv'
  <1>1. TypeOK /\ Ordered
    BY OrderedIs DEF IntqInv
  <1>2. value = 1 => \A u \in Threads \ {t} : pc[u] \notin Holding /\ others[u] \notin Holding
    BY DEF IntqInv, LockOK
  <1>3. (SyncTypeOK /\ RingTypeOK /\ Ordered /\ LockOK /\ WaiterOK
           /\ SleeperRegistered => IntqInv)'
    BY Together, PTL
  <1>4. CASE /\ ~Blocking /\ (IF kind = "input" THEN Get ELSE Put)
             /\ pc' = [others EXCEPT ![t] = "idle"]
             /\ lock_value' = value /\ lock_waiters' = queue /\ waiter' = waiter
    <2>1. RingTypeOK' /\ Ordered'
      BY <1>1, <1>4, PutOrdered, GetOrdered DEF Blocking
    <2>2. SyncTypeOK'
      BY <1>1, <1>4 DEF TypeOK, SyncTypeOK
    <2>3. ASSUME NEW u \in Threads
          PROVE  /\ pc'[u] # "wait" /\ waiter # u
                 /\ pc'[u] \in Holding => pc[u] \in Holding /\ u # t
      BY <1>4 DEF IntqInv, WaiterOK, SleeperRegistered, Holding
    <2>4. LockOK'
      BY <1>2, <1>4, <2>3 DEF IntqInv, LockOK
    <2>5. WaiterOK' /\ SleeperRegistered'
      BY <1>4, <2>3 DEF WaiterOK, SleeperRegistered
    <2> QED
      BY <1>3, <2>1, <2>2, <2>4, <2>5
  <1>5. CASE Blocking /\ UNCHANGED <<buf, head, tail, sent, got>>
    <2>1. RingTypeOK' /\ Ordered'
      BY <1>1, <1>5 DEF TypeOK, RingTypeOK, Ordered, HeldNow
    <2>2. Blocking'
      BY <1>5 DEF Blocking, intq_empty, intq_full
    <2>3. CASE /\ value > 0 /\ lock_value' = value - 1 /\ lock_waiters' = queue
               /\ waiter' = t /\ pc' = [others EXCEPT ![t] = "wait"]
      <3>1. ASSUME NEW u \in Threads
            PROVE  pc'[u] \in Holding <=> u = t
        BY <1>2, <2>3 DEF Holding
      <3>2. ASSUME NEW u \in Threads PROVE pc'[u] = "wait" <=> u = t
        BY <1>2, <2>3 DEF Holding
      <3>3. SyncTypeOK'
        BY <1>1, <2>3 DEF TypeOK, SyncTypeOK
      <3> QED
        BY <1>3, <2>1, <2>2, <2>3, <3>1, <3>2, <3>3
           DEF LockOK, WaiterOK, SleeperRegistered
    <2>4. CASE /\ value = 0 /\ lock_value' = 0 /\ lock_waiters' = Append(queue, t)
               /\ pc' = [others EXCEPT ![t] = "lockq"] /\ waiter' = waiter
      <3>1. ASSUME NEW u \in Threads
            PROVE  /\ pc'[u] \in Holding <=> pc[u] \in Holding
                   /\ pc'[u] = "wait" <=> pc[u] = "wait"
        BY <2>4 DEF Holding
      <3>2. SyncTypeOK'
        BY <1>1, <2>4 DEF TypeOK, SyncTypeOK
      <3>3. lock_value' = lock_value
        BY <2>4
      <3> QED
        BY <1>3, <2>1, <2>2, <2>4, <3>1, <3>2, <3>3
           DEF IntqInv, LockOK, WaiterOK, SleeperRegistered
    <2> QED
      BY <1>5, <2>3, <2>4 DEF Loop, wait
  <1> QED
    BY <1>4, <1>5 DEF Loop

(* Every step of a thread or of the interrupt handler keeps the invariant.  *)
LEMMA IntqStep == IntqInv /\ [Next]_vars => IntqInv'
  <1> SUFFICES ASSUME IntqInv, [Next]_vars PROVE IntqInv'
    OBVIOUS
  <1>1. TypeOK /\ Ordered
    BY OrderedIs DEF IntqInv
  <1>2. (SyncTypeOK /\ RingTypeOK /\ Ordered /\ LockOK /\ WaiterOK
           /\ SleeperRegistered => IntqInv)'
    BY Together, PTL
  <1>3. CASE UNCHANGED vars
    BY <1>3 DEF vars, lockVars, IntqInv, TypeOK, InOrder, LockOK, WaiterOK,
       SleeperRegistered, Blocking, intq_empty, intq_full
  <1>4. ASSUME NEW t \in Threads, Call(t) PROVE IntqInv'
    <2>1. pc[t] = "idle" /\ pc[t] \notin Holding /\ kind' = kind
      BY <1>4 DEF Call, Holding
    <2>2. Loop(t, lock_value, lock_waiters, pc)
      BY <1>4 DEF Call
    <2>3. /\ lock_value \in {0, 1} /\ lock_waiters \in Seq(Threads)
          /\ pc \in [Threads -> {"idle", "lockq", "wait", "woken", "retry"}]
      BY <1>1 DEF TypeOK
    <2> QED
      BY <2>1, <2>2, <2>3, LoopInv
  <1>5. ASSUME NEW t \in Threads, Resume(t) PROVE IntqInv'
    <2>1. pc[t] = "woken" /\ pc[t] \in Holding /\ lock_value + 1 = 1 /\ kind' = kind
      BY <1>5 DEF Resume, Holding, IntqInv, LockOK
    <2>2. /\ lock_waiters \in Seq(Threads)
          /\ pc \in [Threads -> {"idle", "lockq", "wait", "woken", "retry"}]
      BY <1>1 DEF TypeOK
    <2>3. CASE lock_waiters = <<>>
      <3>1. Loop(t, 1, <<>>, pc)
        BY <1>5, <2>1, <2>3 DEF Resume
      <3> QED
        BY <2>1, <2>2, <2>3, <3>1, LoopInv, Zenon
    <2>4. CASE lock_waiters # <<>>
      <3> DEFINE queue == Tail(lock_waiters)
                 others == [pc EXCEPT ![Head(lock_waiters)] = "retry"]
      <3>1. Loop(t, 1, queue, others)
        BY <1>5, <2>1, <2>4 DEF Resume
      <3>2. /\ queue \in Seq(Threads) /\ Head(lock_waiters) \in Threads
            /\ others \in [Threads -> {"idle", "lockq", "wait", "woken", "retry"}]
        BY <2>2, <2>4
      <3>3. /\ others[t] # "wait"
            /\ \A u \in Threads \ {t} : (others[u] \in Holding <=> pc[u] \in Holding)
                                          /\ (others[u] = "wait" <=> pc[u] = "wait")
        BY <2>1, <2>2, <3>2 DEF Holding, IntqInv, LockOK
      <3> HIDE DEF queue, others
      <3> QED
        BY <2>1, <3>1, <3>2, <3>3, LoopInv
    <2> QED
      BY <2>3, <2>4
  <1>6. ASSUME NEW t \in Threads, Retry(t) PROVE IntqInv'
    <2>1. /\ RingTypeOK' /\ Ordered' /\ kind' = kind
          /\ Blocking' = Blocking /\ pc[t] = "retry"
      BY <1>1, <1>6 DEF Retry, TypeOK, RingTypeOK, Ordered, HeldNow, Blocking,
         intq_empty,
         intq_full
    <2>2. CASE lock_value = 0
      <3>1. /\ lock_waiters' = Append(lock_waiters, t) /\ pc' = [pc EXCEPT ![t] = "lockq"]
            /\ lock_value' = lock_value /\ waiter' = waiter
        BY <1>6, <2>2 DEF Retry
      <3>2. ASSUME NEW u \in Threads
            PROVE  /\ pc'[u] \in Holding <=> pc[u] \in Holding
                   /\ pc'[u] = "wait" <=> pc[u] = "wait"
        BY <1>1, <2>1, <3>1 DEF Holding, TypeOK
      <3>3. SyncTypeOK'
        BY <1>1, <2>1, <3>1 DEF TypeOK, SyncTypeOK
      <3> QED
        BY <1>2, <2>1, <3>1, <3>2, <3>3 DEF IntqInv, LockOK, WaiterOK, SleeperRegistered
    <2>3. CASE lock_value # 0 /\ Blocking
      <3>1. /\ lock_waiters' = lock_waiters /\ pc' = [pc EXCEPT ![t] = "wait"]
            /\ lock_value' = 0 /\ waiter' = t
        BY <1>6, <2>3 DEF Retry, wait
      <3>2. ASSUME NEW u \in Threads
            PROVE  (pc'[u] \in Holding <=> u = t) /\ (pc'[u] = "wait" <=> u = t)
        BY <1>1, <2>3, <3>1 DEF Holding, TypeOK, IntqInv, LockOK
      <3>3. SyncTypeOK'
        BY <1>1, <2>1, <3>1 DEF TypeOK, SyncTypeOK
      <3> QED
        BY <1>2, <2>1, <2>3, <3>1, <3>2, <3>3 DEF LockOK, WaiterOK, SleeperRegistered
    <2>4. CASE lock_value # 0 /\ ~Blocking
      <3>1. /\ lock_waiters' = lock_waiters /\ pc' = pc
            /\ lock_value' = 0 /\ waiter' = waiter
        BY <1>6, <2>4 DEF Retry, wait
      <3>2. SyncTypeOK'
        BY <1>1, <2>1, <3>1 DEF TypeOK, SyncTypeOK
      <3> QED
        BY <1>2, <2>1, <2>4, <3>1, <3>2 DEF IntqInv, LockOK, WaiterOK, SleeperRegistered
    <2> QED
      BY <2>2, <2>3, <2>4
  <1>7. CASE HandlerPut
    <2>1. Put /\ ~intq_full /\ signal /\ UNCHANGED <<kind, lockVars>>
      BY <1>7 DEF HandlerPut
    <2> QED
      BY <1>1, <1>2, <2>1, PutOrdered, SignalInv
  <1>8. CASE HandlerGet
    <2>1. CASE intq_empty
      BY <1>8, <2>1 DEF HandlerGet, lockVars, IntqInv, TypeOK, InOrder, LockOK,
         WaiterOK,
         SleeperRegistered, Blocking, intq_empty, intq_full
    <2>2. CASE ~intq_empty
      <3>1. Get /\ signal /\ UNCHANGED <<kind, lockVars>>
        BY <1>8, <2>2 DEF HandlerGet
      <3> QED
        BY <1>1, <1>2, <2>2, <3>1, GetOrdered, SignalInv
    <2> QED
      BY <2>1, <2>2
  <1>9. CASE PolledPutc
    <2>1. signal /\ UNCHANGED <<kind, lockVars>>
      BY <1>9 DEF PolledPutc
    <2> QED
      BY <1>1, <1>2, <1>9, <2>1, PolledOrdered, SignalInv
  <1>10. CASE serial_flush
    <2>1. /\ signal /\ UNCHANGED <<kind, lockVars>>
          /\ tail' = head /\ got' = sent /\ UNCHANGED <<buf, head, sent>>
      BY <1>10 DEF serial_flush
    <2> QED
      BY <1>1, <1>2, <2>1, FlushOrdered, SignalInv
  <1> QED
    BY <1>3, <1>4, <1>5, <1>6, <1>7, <1>8, <1>9, <1>10 DEF Next
-----------------------------------------------------------------------------
(* The invariant holds of every behaviour of the queue.                     *)
THEOREM IntqInvariant == Spec => []IntqInv
  BY InitInv, IntqStep, PTL DEF Spec

(* Whatever the size of the buffer, bytes leave in the order they came, and *)
(* none is lost, overwritten or repeated.                                   *)
THEOREM QueueKeepsOrder == Spec => []InOrder
  <1>1. IntqInv => InOrder
    BY DEF IntqInv
  <1> QED
    BY <1>1, IntqInvariant, PTL

(* However many threads read or write, one that sleeps in wait () is the    *)
(* one that signal () will wake, and what it waits for has not happened.    *)
THEOREM NoWakeupIsLost == Spec => []SleeperRegistered
  <1>1. IntqInv => SleeperRegistered
    BY DEF IntqInv
  <1> QED
    BY <1>1, IntqInvariant, PTL
=============================================================================
