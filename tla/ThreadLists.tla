---------------------------- MODULE ThreadLists -----------------------------
(***************************************************************************)
(* The lists that a thread's elem is threaded through, with their          *)
(* pointers: the run queue, the waiters of a semaphore, and the child_list *)
(* of the thread that created it.  thread_create puts elem on the          *)
(* creator's child_list and then, through thread_unblock, on the run       *)
(* queue; nothing takes it off the child_list in between.  syscall_exit    *)
(* calls list_remove on the elem of the running thread, which is on no     *)
(* list.                                                                   *)
(*                                                                         *)
(* Thread and Synch model the same operations on sequences, after the      *)
(* threads have been created.                                              *)
(***************************************************************************)
EXTENDS List, FiniteSets

CONSTANTS Threads, Idle,
          Main,          \* initial_thread
          MaxChildren    \* bound: calls of thread_create by one thread

VARIABLES heap,       \* every elem, prev and next, and the lists' sentinels
          status,     \* "NEW" before thread_create
          current,
          creating,   \* the new thread that thread_create is still to unblock
          created,    \* calls of thread_create so far, by thread
          exiting     \* threads past list_remove in syscall_exit

vars == <<heap, status, current, creating, created, exiting>>

(* The lists: a thread's name stands for its child_list.                    *)
Lists == {"ready_list", "waiters"} \cup Threads

Init ==
    /\ heap = list_init(Lists, Threads \cup {Idle})
    /\ status = [t \in Threads \cup {Idle} |-> IF t = Main THEN "RUNNING"
                                          ELSE IF t = Idle THEN "BLOCKED" ELSE "NEW"]
    /\ current = Main
    /\ creating = [t \in Threads |-> NULL]
    /\ created = [t \in Threads |-> 0]
    /\ exiting = {}
-----------------------------------------------------------------------------
(* schedule (), with the pointers as h and the running thread's status as s. *)
schedule(s, h) ==
    LET next == IF list_empty(h, "ready_list") THEN Idle ELSE list_front(h, "ready_list")
    IN  /\ heap' = IF next = Idle THEN h ELSE list_pop_front(h, "ready_list")
        /\ status' = [status EXCEPT ![current] = s, ![next] = "RUNNING"]
        /\ current' = next

thread_yield ==
    /\ schedule("READY", IF current = Idle THEN heap
                         ELSE list_push_back(heap, "ready_list", current))
    /\ UNCHANGED <<creating, created, exiting>>

Unblock(h, t) == list_push_back(h, "ready_list", t)

(* sema_down on a semaphore that is 0.  A thread about to exit blocks too,  *)
(* in process_exit.                                                         *)
sema_down ==
    /\ current # Idle
    /\ schedule("BLOCKED", list_push_back(heap, "waiters", current))
    /\ UNCHANGED <<creating, created, exiting>>

(* sema_up, by the running thread or by an interrupt handler.               *)
sema_up ==
    LET t == list_front(heap, "waiters")
    IN  /\ ~list_empty(heap, "waiters")
        /\ status[t] = "BLOCKED"
        /\ heap' = Unblock(list_pop_front(heap, "waiters"), t)
        /\ status' = [status EXCEPT ![t] = "READY"]
        /\ UNCHANGED <<current, creating, created, exiting>>

idle ==
    /\ current = Idle
    /\ schedule("BLOCKED", heap)
    /\ UNCHANGED <<creating, created, exiting>>

(* thread_create up to list_push_back (&thread_current ()->child_list, ...). *)
thread_create(t) ==
    /\ current # Idle /\ current \notin exiting /\ creating[current] = NULL
    /\ status[t] = "NEW"
    /\ created[current] < MaxChildren
    /\ heap' = list_push_back(heap, current, t)
    /\ status' = [status EXCEPT ![t] = "BLOCKED"]
    /\ created' = [created EXCEPT ![current] = @ + 1]
    /\ creating' = [creating EXCEPT ![current] = t]
    /\ UNCHANGED <<current, exiting>>

(* The thread_unblock at its end.                                           *)
CreateUnblock ==
    /\ current # Idle /\ creating[current] # NULL
    /\ heap' = Unblock(heap, creating[current])
    /\ status' = [status EXCEPT ![creating[current]] = "READY"]
    /\ creating' = [creating EXCEPT ![current] = NULL]
    /\ UNCHANGED <<current, created, exiting>>

(* syscall_exit up to process_exit: list_remove (&thread_current ()->elem).  *)
syscall_exit ==
    /\ current \notin {Main, Idle} /\ current \notin exiting
    /\ creating[current] = NULL
    /\ is_interior(heap, current)
    /\ heap' = list_remove(heap, current)
    /\ exiting' = exiting \cup {current}
    /\ UNCHANGED <<status, current, creating, created>>

thread_exit ==
    /\ current \in exiting
    /\ schedule("DYING", heap)
    /\ UNCHANGED <<creating, created, exiting>>

Next ==
    \/ thread_yield \/ sema_down \/ sema_up \/ idle
    \/ \E t \in Threads : thread_create(t)
    \/ CreateUnblock
    \/ syscall_exit \/ thread_exit

Spec == Init /\ [][Next]_vars
-----------------------------------------------------------------------------
OnList(l) == LET q == Forward(heap, l, Cardinality(Threads) + 1)
             IN  {q[i] : i \in DOMAIN q}

(* "List of processes in THREAD_READY state, that is, processes that are    *)
(* ready to run but not actually running" (thread.c): no READY thread drops *)
(* out of the list.                                                         *)
NoReadyThreadLost ==
    \A t \in Threads : status[t] = "READY" => t \in OnList("ready_list")
=============================================================================
