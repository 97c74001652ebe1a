--------------------------- MODULE ProcessProofs ----------------------------
(***************************************************************************)
(* What holds of processes whatever their number, programs and statuses:   *)
(* a process is waited for while it loads, the initial thread leaves       *)
(* process_wait only for exits, and what process_execute may return.       *)
(***************************************************************************)
EXTENDS Process, TLAPS

Fields == {"pc", "parent", "child_num", "exit_status", "executable", "exec", "sema",
           "main_sema", "child", "arg", "created", "waits", "waited", "exited"}

(* Every tid has a struct thread.                                           *)
Shape ==
    /\ DOMAIN th = Tids
    /\ \A t \in Tids : DOMAIN th[t] = Fields

InExec == {"exec_main", "exec_sema"}

(* Nobody lowers a semaphore below zero, and the children that a thread has *)
(* created have a last one.                                                 *)
ThreadOK(t) ==
    /\ th[t].sema \in Nat
    /\ th[t].created \subseteq Procs
    /\ th[t].created = {} \/ \E m \in th[t].created : \A y \in th[t].created : y <= m

(* Parents, and pointers to them, are of threads that have been entered.    *)
ParentOK(t) ==
    /\ th[t].parent \in Tids \cup {NONE}
    /\ t # Main /\ Alive(t) => th[t].parent # NONE
    /\ \A u \in Tids : th[u].parent = t => th[t].pc \notin Loading \cup {"new"}

(* Only the load itself raises the semaphore of a process that loads, and   *)
(* as its last step.                                                        *)
LoadOK(c) ==
    th[c].pc \in Loading =>
      /\ c \in Procs /\ th[c].sema = 0
      /\ th[c].parent \in Tids
      /\ th[th[c].parent].pc \in InExec /\ th[th[c].parent].child = c

(* What process_execute waits for and will return.                          *)
ExecOK(t) ==
    /\ th[t].pc \in InExec =>
         \/ th[t].arg = th[t].child /\ th[t].child \in th[t].created
         \/ th[t].arg = -1 /\ events # {} /\ th[t].child \in Procs \cup {NONE}

(* The initial thread never exits, and its semaphore counts the exits of    *)
(* its children that it has not been told of.                               *)
MainOK ==
    /\ th[Main].pc \in {"user", "ran", "wait_main", "wait_sema", "wait_ret"} \cup InExec
    /\ th[Main].waited \in Nat /\ th[Main].exited \in Nat
    /\ th[Main].exited = th[Main].sema + th[Main].waited
                           + (IF th[Main].pc = "wait_ret" THEN 1 ELSE 0)

ProcessInv ==
    /\ Shape
    /\ \A t \in Tids : ThreadOK(t) /\ ParentOK(t) /\ LoadOK(t) /\ ExecOK(t)
    /\ MainOK
-----------------------------------------------------------------------------
(* What a step of t changes: where t is, and of the other fields that the   *)
(* invariant reads none, or those that the step's own lemma names.          *)
Moves(t, l) == \A u \in Tids : th'[u].pc = IF u = t THEN l ELSE th[u].pc

KeepsFamily ==
    \A u \in Tids : /\ th'[u].parent = th[u].parent
                    /\ th'[u].created = th[u].created

KeepsExec ==
    \A u \in Tids : th'[u].child = th[u].child /\ th'[u].arg = th[u].arg

KeepsCounts ==
    \A u \in Tids : /\ th'[u].sema = th[u].sema
                    /\ th'[u].waited = th[u].waited
                    /\ th'[u].exited = th[u].exited

(* Threads start with the invariant.                                        *)
LEMMA InitInv == Init => ProcessInv
  <1> SUFFICES ASSUME Init PROVE ProcessInv
    OBVIOUS
  <1>1. Shape
    BY DEF Init, Shape, NewThread, Fields
  <1>2. \A t \in Tids : /\ th[t].pc = IF t = Main THEN "user" ELSE "new"
                        /\ th[t].parent = NONE /\ th[t].sema = 0 /\ th[t].created = {}
                        /\ th[t].waited = 0 /\ th[t].exited = 0
    BY DEF Init, NewThread
  <1>3. Main \in Tids /\ NONE \notin Tids
    BY ProcessAssumption, Zenon DEF Tids
  <1>4. ASSUME NEW t \in Tids
        PROVE  ThreadOK(t) /\ ParentOK(t) /\ LoadOK(t) /\ ExecOK(t)
    BY <1>2, <1>3, <1>4 DEF ThreadOK, ParentOK, LoadOK, ExecOK, Alive, Loading, InExec
  <1>5. MainOK
    BY <1>2, <1>3 DEF MainOK, InExec
  <1> QED
    BY <1>1, <1>4, <1>5 DEF ProcessInv

(* A step that only moves a thread, within process_execute or outside it,   *)
(* within its load or outside it, keeps the invariant.                      *)
LEMMA MoveInv ==
    ASSUME ProcessInv, Shape', NEW t \in Tids, NEW l,
           Moves(t, l), KeepsFamily, KeepsCounts,
           \A u \in Tids \ {t} : th'[u].child = th[u].child /\ th'[u].arg = th[u].arg,
           l \in InExec => th'[t].child = th[t].child /\ th'[t].arg = th[t].arg,
           events # {} => events' # {},
           th[t].pc \notin {"new", "dead", "wait_ret"}, l \notin {"new", "wait_ret"},
           l # "dead",
           l \in InExec <=> th[t].pc \in InExec,
           l \in Loading => th[t].pc \in Loading,
           t = Main => l \in {"user", "ran", "wait_main", "wait_sema"} \cup InExec
    PROVE  ProcessInv'
  <1>1. Main \in Tids /\ NONE \notin Tids
    BY ProcessAssumption, Zenon DEF Tids
  <1>2. ASSUME NEW u \in Tids PROVE ThreadOK(u)'
    BY DEF ProcessInv, ThreadOK, KeepsFamily, KeepsCounts
  <1>3. ASSUME NEW u \in Tids PROVE ParentOK(u)'
    BY DEF ProcessInv, ParentOK, KeepsFamily, Moves, Alive, Loading
  <1>4. ASSUME NEW u \in Tids PROVE LoadOK(u)'
    BY DEF ProcessInv, LoadOK, KeepsFamily, KeepsCounts, Moves, Loading, InExec
  <1>5. ASSUME NEW u \in Tids PROVE ExecOK(u)'
    BY DEF ProcessInv, ExecOK, KeepsFamily, Moves, InExec
  <1>6. MainOK'
    BY <1>1 DEF ProcessInv, MainOK, KeepsCounts, Moves, InExec
  <1> QED
    BY <1>2, <1>3, <1>4, <1>5, <1>6 DEF ProcessInv

(* process_execute goes on to wait for the child's own signal.              *)
LEMMA ExecMainDownInv ==
    ASSUME ProcessInv, NEW t \in Tids, ExecMainDown(t)
    PROVE  ProcessInv'
  <1> DEFINE l == "exec_sema"
  <1>1. Shape'
    BY DEF ExecMainDown, ProcessInv, Shape
  <1>2. Moves(t, l) /\ KeepsFamily /\ KeepsExec /\ KeepsCounts /\ events' = events
    BY DEF ExecMainDown, ProcessInv, Shape, Fields, Moves, KeepsFamily, KeepsExec,
       KeepsCounts
  <1>3. /\ th[t].pc \notin {"new", "dead", "wait_ret"} /\ l \notin {"new", "dead", "wait_ret"}
        /\ l \in InExec <=> th[t].pc \in InExec
        /\ l \in Loading => th[t].pc \in Loading
        /\ t = Main => l \in {"user", "ran", "wait_main", "wait_sema"} \cup InExec
    BY DEF ExecMainDown, ProcessInv, MainOK, InExec, Loading
  <1> HIDE DEF l
  <1> QED
    BY <1>1, <1>2, <1>3, MoveInv DEF KeepsExec

(* load has succeeded.                                                      *)
LEMMA LoadOkInv ==
    ASSUME ProcessInv, NEW t \in Tids, LoadOk(t)
    PROVE  ProcessInv'
  <1> DEFINE l == LoadDone(t)
  <1>1. Shape'
    BY DEF LoadOk, ProcessInv, Shape
  <1>2. Moves(t, l) /\ KeepsFamily /\ KeepsExec /\ KeepsCounts /\ events' = events
    BY DEF LoadOk, ProcessInv, Shape, Fields, Moves, KeepsFamily, KeepsExec, KeepsCounts
  <1>3. /\ th[t].pc \notin {"new", "dead", "wait_ret"} /\ l \notin {"new", "dead", "wait_ret"}
        /\ l \in InExec <=> th[t].pc \in InExec
        /\ l \in Loading => th[t].pc \in Loading
        /\ t = Main => l \in {"user", "ran", "wait_main", "wait_sema"} \cup InExec
    BY DEF LoadOk, LoadDone, ProcessInv, MainOK, InExec, Loading
  <1> HIDE DEF l
  <1> QED
    BY <1>1, <1>2, <1>3, MoveInv DEF KeepsExec

(* load has found no file, and tells the parent.                            *)
LEMMA LoadOpenFailedInv ==
    ASSUME ProcessInv, NEW t \in Tids, LoadOpenFailed(t)
    PROVE  ProcessInv'
  <1> DEFINE l == LoadDone(t)
  <1>1. Shape'
    BY DEF LoadOpenFailed, ProcessInv, Shape
  <1>2. Moves(t, l) /\ KeepsFamily /\ KeepsExec /\ KeepsCounts /\ events' = events
    BY DEF LoadOpenFailed, ProcessInv, Shape, Fields, Moves, KeepsFamily, KeepsExec,
       KeepsCounts
  <1>3. /\ th[t].pc \notin {"new", "dead", "wait_ret"} /\ l \notin {"new", "dead", "wait_ret"}
        /\ l \in InExec <=> th[t].pc \in InExec
        /\ l \in Loading => th[t].pc \in Loading
        /\ t = Main => l \in {"user", "ran", "wait_main", "wait_sema"} \cup InExec
    BY DEF LoadOpenFailed, LoadDone, ProcessInv, MainOK, InExec, Loading
  <1> HIDE DEF l
  <1> QED
    BY <1>1, <1>2, <1>3, MoveInv DEF KeepsExec

(* load has failed otherwise.                                               *)
LEMMA LoadFailedInv ==
    ASSUME ProcessInv, NEW t \in Tids, LoadFailed(t)
    PROVE  ProcessInv'
  <1> DEFINE l == LoadDone(t)
  <1>1. Shape'
    BY DEF LoadFailed, ProcessInv, Shape
  <1>2. Moves(t, l) /\ KeepsFamily /\ KeepsExec /\ KeepsCounts /\ events' = events
    BY DEF LoadFailed, ProcessInv, Shape, Fields, Moves, KeepsFamily, KeepsExec,
       KeepsCounts
  <1>3. /\ th[t].pc \notin {"new", "dead", "wait_ret"} /\ l \notin {"new", "dead", "wait_ret"}
        /\ l \in InExec <=> th[t].pc \in InExec
        /\ l \in Loading => th[t].pc \in Loading
        /\ t = Main => l \in {"user", "ran", "wait_main", "wait_sema"} \cup InExec
    BY DEF LoadFailed, LoadDone, ProcessInv, MainOK, InExec, Loading
  <1> HIDE DEF l
  <1> QED
    BY <1>1, <1>2, <1>3, MoveInv DEF KeepsExec

(* start_process signals the initial thread.                                *)
LEMMA LoadMainUpInv ==
    ASSUME ProcessInv, NEW t \in Tids, LoadMainUp(t)
    PROVE  ProcessInv'
  <1> DEFINE l == "load_sema"
  <1>1. Shape'
    BY Zenon DEF LoadMainUp, ProcessInv, Shape
  <1>2. Moves(t, l) /\ KeepsFamily /\ KeepsExec /\ KeepsCounts /\ events' = events
    BY DEF LoadMainUp, ProcessInv, Shape, Fields, Moves, KeepsFamily, KeepsExec,
       KeepsCounts
  <1>3. /\ th[t].pc \notin {"new", "dead", "wait_ret"} /\ l \notin {"new", "dead", "wait_ret"}
        /\ l \in InExec <=> th[t].pc \in InExec
        /\ l \in Loading => th[t].pc \in Loading
        /\ t = Main => l \in {"user", "ran", "wait_main", "wait_sema"} \cup InExec
    BY DEF LoadMainUp, ProcessInv, MainOK, InExec, Loading
  <1> HIDE DEF l
  <1> QED
    BY <1>1, <1>2, <1>3, MoveInv DEF KeepsExec

(* process_wait is entered.                                                 *)
LEMMA WaitInv ==
    ASSUME ProcessInv, NEW t \in Tids, Wait(t)
    PROVE  ProcessInv'
  <1> DEFINE l == IF t = Main THEN "wait_main" ELSE "wait_sema"
  <1>1. Shape'
    BY DEF Wait, ProcessInv, Shape
  <1>2. Moves(t, l) /\ KeepsFamily /\ KeepsExec /\ KeepsCounts /\ events' = events
    BY DEF Wait, ProcessInv, Shape, Fields, Moves, KeepsFamily, KeepsExec, KeepsCounts
  <1>3. /\ th[t].pc \notin {"new", "dead", "wait_ret"} /\ l \notin {"new", "dead", "wait_ret"}
        /\ l \in InExec <=> th[t].pc \in InExec
        /\ l \in Loading => th[t].pc \in Loading
        /\ t = Main => l \in {"user", "ran", "wait_main", "wait_sema"} \cup InExec
    BY DEF Wait, MayWait, ProcessInv, MainOK, InExec, Loading
  <1> HIDE DEF l
  <1> QED
    BY <1>1, <1>2, <1>3, MoveInv DEF KeepsExec

(* process_wait goes on to wait for an exit.                                *)
LEMMA WaitMainDownInv ==
    ASSUME ProcessInv, NEW t \in Tids, WaitMainDown(t)
    PROVE  ProcessInv'
  <1> DEFINE l == "wait_sema"
  <1>1. Shape'
    BY DEF WaitMainDown, ProcessInv, Shape
  <1>2. Moves(t, l) /\ KeepsFamily /\ KeepsExec /\ KeepsCounts /\ events' = events
    BY DEF WaitMainDown, ProcessInv, Shape, Fields, Moves, KeepsFamily, KeepsExec,
       KeepsCounts
  <1>3. /\ th[t].pc \notin {"new", "dead", "wait_ret"} /\ l \notin {"new", "dead", "wait_ret"}
        /\ l \in InExec <=> th[t].pc \in InExec
        /\ l \in Loading => th[t].pc \in Loading
        /\ t = Main => l \in {"user", "ran", "wait_main", "wait_sema"} \cup InExec
    BY DEF WaitMainDown, ProcessInv, MainOK, InExec, Loading
  <1> HIDE DEF l
  <1> QED
    BY <1>1, <1>2, <1>3, MoveInv DEF KeepsExec

(* process_exit gives its status to the parent.                             *)
LEMMA ExitStatusInv ==
    ASSUME ProcessInv, NEW t \in Tids, ExitStatus(t)
    PROVE  ProcessInv'
  <1> DEFINE l == IF th[t].parent = Main THEN "exit_main" ELSE "exit_sema"
  <1>1. Shape'
    BY DEF ExitStatus, ProcessInv, Shape
  <1>2. Moves(t, l) /\ KeepsFamily /\ KeepsExec /\ KeepsCounts /\ events' = events
    BY DEF ExitStatus, ProcessInv, Shape, Fields, Moves, KeepsFamily, KeepsExec,
       KeepsCounts
  <1>3. /\ th[t].pc \notin {"new", "dead", "wait_ret"} /\ l \notin {"new", "dead", "wait_ret"}
        /\ l \in InExec <=> th[t].pc \in InExec
        /\ l \in Loading => th[t].pc \in Loading
        /\ t = Main => l \in {"user", "ran", "wait_main", "wait_sema"} \cup InExec
    BY DEF ExitStatus, ProcessInv, MainOK, InExec, Loading
  <1> HIDE DEF l
  <1> QED
    BY <1>1, <1>2, <1>3, MoveInv DEF KeepsExec

(* process_exit signals the initial thread.                                 *)
LEMMA ExitMainUpInv ==
    ASSUME ProcessInv, NEW t \in Tids, ExitMainUp(t)
    PROVE  ProcessInv'
  <1> DEFINE l == "exit_sema"
  <1>1. Shape'
    BY Zenon DEF ExitMainUp, ProcessInv, Shape
  <1>2. Moves(t, l) /\ KeepsFamily /\ KeepsExec /\ KeepsCounts /\ events' = events
    BY DEF ExitMainUp, ProcessInv, Shape, Fields, Moves, KeepsFamily, KeepsExec,
       KeepsCounts
  <1>3. /\ th[t].pc \notin {"new", "dead", "wait_ret"} /\ l \notin {"new", "dead", "wait_ret"}
        /\ l \in InExec <=> th[t].pc \in InExec
        /\ l \in Loading => th[t].pc \in Loading
        /\ t = Main => l \in {"user", "ran", "wait_main", "wait_sema"} \cup InExec
    BY DEF ExitMainUp, ProcessInv, MainOK, InExec, Loading
  <1> HIDE DEF l
  <1> QED
    BY <1>1, <1>2, <1>3, MoveInv DEF KeepsExec

(* process_execute gives up for want of a page.                             *)
LEMMA ExecNoPageInv ==
    ASSUME ProcessInv, NEW t \in Tids, ExecNoPage(t)
    PROVE  ProcessInv'
  <1> DEFINE l == ExecDone(t)
  <1>1. Shape'
    BY Zenon DEF ExecNoPage, ProcessInv, Shape
  <1>2. /\ Moves(t, l) /\ KeepsFamily /\ KeepsCounts
        /\ \A u \in Tids \ {t} : th'[u].child = th[u].child /\ th'[u].arg = th[u].arg
    BY Zenon DEF ExecNoPage, ProcessInv, Shape, Fields, Moves, KeepsFamily, KeepsCounts
  <1>3. events' # {}
    BY Zenon DEF ExecNoPage
  <1>4. /\ th[t].pc = "user" /\ l \in {"ran", "user"}
        /\ l \notin InExec /\ th[t].pc \notin InExec /\ l \notin Loading
    BY Zenon DEF ExecNoPage, MayExec, ExecDone, InExec, Loading
  <1> HIDE DEF l
  <1> QED
    BY <1>1, <1>2, <1>3, <1>4, MoveInv

(* A process leaves user code for process_exit.                             *)
LEMMA SyscallExitInv ==
    ASSUME ProcessInv, NEW t \in Tids, NEW status, t # Main,
           th[t].pc \in {"user", "fault"}, syscall_exit(t, status)
    PROVE  ProcessInv'
  <1>1. Shape'
    BY DEF syscall_exit, ProcessInv, Shape
  <1>2. /\ Moves(t, "exiting") /\ KeepsFamily /\ KeepsExec /\ KeepsCounts
        /\ events' = events
    BY DEF syscall_exit, ProcessInv, Shape, Fields, Moves, KeepsFamily, KeepsExec,
           KeepsCounts
  <1>3. "exiting" \notin InExec \cup Loading /\ th[t].pc \notin InExec \cup Loading
    BY DEF InExec, Loading
  <1> QED
    BY <1>1, <1>2, <1>3, MoveInv DEF KeepsExec

(* A freed thread is nobody's concern: it was not loading, and whoever it   *)
(* is the parent or the child of may find it dead.                          *)
LEMMA FreedInv ==
    ASSUME ProcessInv, NEW t \in Tids, t # Main, th[t].pc \in {"user", "dying"},
           th' = [th EXCEPT ![t] = Freed], events # {} => events' # {}
    PROVE  ProcessInv'
  <1>1. Shape'
    BY DEF ProcessInv, Shape, Freed, NewThread, Fields
  <1>2. /\ th'[t].pc = "dead" /\ th'[t].parent = NONE /\ th'[t].sema = 0
        /\ th'[t].created = {}
        /\ \A u \in Tids \ {t} : th'[u] = th[u]
    BY DEF ProcessInv, Shape, Freed, NewThread
  <1>3. Main \in Tids /\ NONE \notin Tids
    BY ProcessAssumption, Zenon DEF Tids
  <1>4. ASSUME NEW u \in Tids PROVE ThreadOK(u)'
    BY <1>2 DEF ProcessInv, ThreadOK
  <1>5. ASSUME NEW u \in Tids PROVE ParentOK(u)'
    BY <1>2, <1>3 DEF ProcessInv, ParentOK, Alive, Loading
  <1>6. ASSUME NEW u \in Tids PROVE LoadOK(u)'
    BY <1>2 DEF ProcessInv, LoadOK, Loading, InExec
  <1>7. ASSUME NEW u \in Tids PROVE ExecOK(u)'
    BY <1>2 DEF ProcessInv, ExecOK, InExec
  <1>8. MainOK'
    BY <1>2, <1>3 DEF ProcessInv, MainOK
  <1> QED
    BY <1>1, <1>4, <1>5, <1>6, <1>7, <1>8 DEF ProcessInv

(* The last child, where there is one.                                      *)
LEMMA LastChild ==
    ASSUME ProcessInv, NEW t \in Tids, th[t].created # {}
    PROVE  Max(th[t].created) \in th[t].created
  <1>1. /\ th[t].created \subseteq Nat
        /\ \E m \in th[t].created : \A y \in th[t].created : y <= m
    BY ProcessAssumption, Zenon DEF ProcessInv, ThreadOK
  <1>2. \E m \in th[t].created : \A y \in th[t].created : m >= y
    BY <1>1
  <1> QED
    BY <1>2 DEF Max

(* thread_create has failed: the last child is waited for again.            *)
LEMMA ExecNoThreadInv ==
    ASSUME ProcessInv, NEW t \in Tids, ExecNoThread(t)
    PROVE  ProcessInv'
  <1> DEFINE l == IF t = Main THEN "exec_main" ELSE "exec_sema"
             c == IF th[t].created = {} THEN NONE ELSE Max(th[t].created)
  <1>1. th[t].pc = "user"
    BY Zenon DEF ExecNoThread, MayExec
  <1>2. c \in Procs \cup {NONE}
    BY LastChild DEF ProcessInv, ThreadOK
  <1>3. th' = AwaitChild(t, c, -1) /\ events' # {}
    BY Zenon DEF ExecNoThread
  <1> HIDE DEF c
  <1>4. Shape'
    BY <1>3 DEF AwaitChild, ProcessInv, Shape
  <1>5. /\ Moves(t, l) /\ KeepsFamily /\ KeepsCounts
        /\ \A u \in Tids : /\ th'[u].child = IF u = t THEN c ELSE th[u].child
                           /\ th'[u].arg = IF u = t THEN -1 ELSE th[u].arg
    BY <1>3 DEF AwaitChild, ProcessInv, Shape, Fields, Moves, KeepsFamily, KeepsCounts
  <1>6. Main \in Tids /\ NONE \notin Tids
    BY ProcessAssumption, Zenon DEF Tids
  <1>7. ASSUME NEW u \in Tids PROVE ThreadOK(u)'
    BY <1>5 DEF ProcessInv, ThreadOK, KeepsFamily, KeepsCounts
  <1>8. ASSUME NEW u \in Tids PROVE ParentOK(u)'
    BY <1>1, <1>5 DEF ProcessInv, ParentOK, KeepsFamily, Moves, Alive, Loading
  <1>9. ASSUME NEW u \in Tids PROVE LoadOK(u)'
    BY <1>1, <1>5 DEF ProcessInv, LoadOK, KeepsFamily, KeepsCounts, Moves, Loading,
       InExec
  <1>10. ASSUME NEW u \in Tids PROVE ExecOK(u)'
    BY <1>1, <1>2, <1>3, <1>5 DEF ProcessInv, ExecOK, KeepsFamily, Moves, InExec
  <1>11. MainOK'
    BY <1>1, <1>5, <1>6 DEF ProcessInv, MainOK, KeepsCounts, Moves, InExec
  <1> QED
    BY <1>4, <1>7, <1>8, <1>9, <1>10, <1>11 DEF ProcessInv

(* process_execute has created the thread c: nobody knew c before, and t    *)
(* waits for it.                                                            *)
LEMMA ExecInv ==
    ASSUME ProcessInv, NEW t \in Tids, Exec(t)
    PROVE  ProcessInv'
  <1> DEFINE l == IF t = Main THEN "exec_main" ELSE "exec_sema"
  <1>1. PICK c \in Procs :
          /\ th[c].pc = "new"
          /\ th' = [AwaitChild(t, c, c) EXCEPT
                      ![c] = NewThread(t),
                      ![t].child_num = @ + 1, ![t].created = @ \cup {c}]
    BY Zenon DEF Exec
  <1>2. th[c].pc = "new" /\ events' = events
    BY <1>1 DEF Exec
  <1>3. th[t].pc = "user" /\ t # c /\ c \in Tids /\ c # Main /\ t # NONE
    BY <1>2, ProcessAssumption DEF Exec, MayExec, Tids
  <1>4. Shape /\ DOMAIN NewThread(t) = Fields
    BY DEF ProcessInv, NewThread, Fields
  <1>5. Shape'
    BY <1>1, <1>3, <1>4, Zenon DEF AwaitChild, Shape, Fields
  <1>6. /\ th'[c].pc = "load" /\ th'[c].parent = t /\ th'[c].sema = 0
        /\ th'[c].created = {}
    BY <1>1, <1>3, <1>4 DEF AwaitChild, Shape, NewThread
  <1>7. /\ th'[t].pc = l /\ th'[t].parent = th[t].parent /\ th'[t].sema = th[t].sema
        /\ th'[t].created = th[t].created \cup {c} /\ th'[t].child = c /\ th'[t].arg = c
        /\ th'[t].waited = th[t].waited /\ th'[t].exited = th[t].exited
    BY <1>1, <1>3, <1>4 DEF AwaitChild, Shape, Fields
  <1>8. \A u \in Tids \ {t, c} : th'[u] = th[u]
    BY <1>1, <1>3, <1>4 DEF AwaitChild, Shape
  <1>9. Main \in Tids /\ NONE \notin Tids
    BY ProcessAssumption, Zenon DEF Tids
  <1>10. \E m \in th[t].created \cup {c} : \A y \in th[t].created \cup {c} : y <= m
    <2>1. th[t].created \subseteq Nat /\ c \in Nat
      BY ProcessAssumption, Zenon DEF ProcessInv, ThreadOK
    <2>2. CASE th[t].created = {}
      BY <2>1, <2>2
    <2>3. CASE th[t].created # {}
      <3>1. PICK m \in th[t].created : \A y \in th[t].created : y <= m
        BY <2>3 DEF ProcessInv, ThreadOK
      <3> QED
        BY <2>1, <3>1
    <2> QED
      BY <2>2, <2>3
  <1>11. ASSUME NEW u \in Tids PROVE ThreadOK(u)'
    BY <1>2, <1>3, <1>6, <1>7, <1>8, <1>10 DEF ProcessInv, ThreadOK
  <1>12. ASSUME NEW u \in Tids PROVE ParentOK(u)'
    BY <1>2, <1>3, <1>6, <1>7, <1>8, <1>9 DEF ProcessInv, ParentOK, KeepsFamily, Moves,
       Alive, Loading
  <1>13. ASSUME NEW u \in Tids PROVE LoadOK(u)'
    BY <1>2, <1>3, <1>6, <1>7, <1>8, <1>9 DEF ProcessInv, LoadOK, KeepsFamily,
       KeepsCounts, KeepsExec,
       Moves, Loading, InExec
  <1>14. ASSUME NEW u \in Tids PROVE ExecOK(u)'
    BY <1>2, <1>3, <1>6, <1>7, <1>8 DEF ProcessInv, ExecOK, KeepsFamily, KeepsExec,
       Moves, InExec
  <1>15. MainOK'
    BY <1>2, <1>3, <1>6, <1>7, <1>8, <1>9 DEF ProcessInv, MainOK, ThreadOK, KeepsCounts,
       Moves, InExec
  <1> QED
    BY <1>5, <1>11, <1>12, <1>13, <1>14, <1>15 DEF ProcessInv

(* process_execute returns: its child, if that is not dead, has loaded, and *)
(* no other child of the caller was loading.                                *)
LEMMA ExecSemaDownInv ==
    ASSUME ProcessInv, NEW t \in Tids, ExecSemaDown(t)
    PROVE  ProcessInv'
  <1> DEFINE c == th[t].child
  <1>1. /\ th[t].pc = "exec_sema" /\ c # NONE
        /\ th[c].pc = "dead" \/ th[c].sema > 0
        /\ events' = events
    BY DEF ExecSemaDown
  <1>2. th' = [th EXCEPT ![c].sema = IF th[c].pc = "dead" THEN @ ELSE @ - 1,
                         ![t].arg = ExecReturned(t), ![t].pc = ExecDone(t)]
    BY Zenon DEF ExecSemaDown
  <1>3. c \in Procs /\ c \in Tids /\ c # Main
    BY <1>1, ProcessAssumption DEF ProcessInv, ExecOK, ThreadOK, InExec, Tids
  <1>4. th[c].pc \notin Loading
    BY <1>1, <1>3 DEF ProcessInv, LoadOK, Loading
  <1>5. th[t].pc \in InExec /\ ExecDone(t) \in {"user", "ran"}
    BY <1>1, ZenonT(40) DEF ExecDone, InExec
  <1>6. Shape'
    BY <1>2 DEF ProcessInv, Shape
  <1>7. /\ Moves(t, ExecDone(t)) /\ KeepsFamily
        /\ \A u \in Tids :
             /\ th'[u].waited = th[u].waited /\ th'[u].exited = th[u].exited
             /\ th'[u].child = th[u].child /\ (u # t => th'[u].arg = th[u].arg)
    BY <1>2, <1>3, ZenonT(40) DEF ProcessInv, Shape, Fields, Moves, KeepsFamily
  <1>8. \A u \in Tids :
          th'[u].sema = IF u = c /\ th[c].pc # "dead" THEN th[c].sema - 1 ELSE th[u].sema
    BY <1>2, <1>3 DEF ProcessInv, Shape, Fields
  <1>9. Main \in Tids /\ NONE \notin Tids
    BY ProcessAssumption, Zenon DEF Tids
  <1>10. ASSUME NEW u \in Tids PROVE ThreadOK(u)'
    BY <1>1, <1>3, <1>4, <1>5, <1>7, <1>8 DEF ProcessInv, ThreadOK, KeepsFamily,
       KeepsCounts
  <1>11. ASSUME NEW u \in Tids PROVE ParentOK(u)'
    BY <1>1, <1>3, <1>4, <1>5, <1>7, <1>8, <1>9 DEF ProcessInv, ParentOK, KeepsFamily,
       Moves, Alive, Loading
  <1>12. ASSUME NEW u \in Tids PROVE LoadOK(u)'
    BY <1>1, <1>3, <1>4, <1>5, <1>7, <1>8, <1>9 DEF ProcessInv, LoadOK, KeepsFamily,
       KeepsCounts, KeepsExec,
       Moves, Loading, InExec
  <1>13. ASSUME NEW u \in Tids PROVE ExecOK(u)'
    BY <1>1, <1>3, <1>4, <1>5, <1>7, <1>8 DEF ProcessInv, ExecOK, KeepsFamily,
       KeepsExec, Moves, InExec
  <1>14. MainOK'
    BY <1>1, <1>3, <1>4, <1>5, <1>7, <1>8, <1>9 DEF ProcessInv, MainOK, ThreadOK,
       KeepsCounts, Moves, InExec
  <1> QED
    BY <1>6, <1>10, <1>11, <1>12, <1>13, <1>14 DEF ProcessInv

(* The load of t is over, and whoever waits for it is let go.               *)
LEMMA LoadSemaUpInv ==
    ASSUME ProcessInv, NEW t \in Tids, LoadSemaUp(t)
    PROVE  ProcessInv'
  <1> DEFINE l == IF th[t].exec = "NULL" THEN "fault" ELSE "user"
  <1>1. /\ th[t].pc = "load_sema" /\ events' = events
    BY DEF LoadSemaUp
  <1>2. th' = [th EXCEPT ![t].sema = @ + 1, ![t].pc = l]
    BY DEF LoadSemaUp
  <1>3. Shape'
    BY <1>2 DEF ProcessInv, Shape
  <1>4. /\ Moves(t, l) /\ KeepsFamily /\ KeepsExec
        /\ \A u \in Tids :
             /\ th'[u].sema = IF u = t THEN th[u].sema + 1 ELSE th[u].sema
             /\ th'[u].waited = th[u].waited /\ th'[u].exited = th[u].exited
    BY <1>2 DEF ProcessInv, Shape, Fields, Moves, KeepsFamily, KeepsExec
  <1>5. Main \in Tids /\ NONE \notin Tids
    BY ProcessAssumption, Zenon DEF Tids
  <1>6. ASSUME NEW u \in Tids PROVE ThreadOK(u)'
    BY <1>1, <1>4 DEF ProcessInv, ThreadOK, KeepsFamily, KeepsCounts
  <1>7. ASSUME NEW u \in Tids PROVE ParentOK(u)'
    BY <1>1, <1>4, <1>5 DEF ProcessInv, ParentOK, KeepsFamily, Moves, Alive, Loading
  <1>8. ASSUME NEW u \in Tids PROVE LoadOK(u)'
    BY <1>1, <1>4, <1>5 DEF ProcessInv, LoadOK, KeepsFamily, KeepsCounts, KeepsExec,
       Moves, Loading, InExec
  <1>9. ASSUME NEW u \in Tids PROVE ExecOK(u)'
    BY <1>1, <1>4 DEF ProcessInv, ExecOK, KeepsFamily, KeepsExec, Moves, InExec
  <1>10. MainOK'
    BY <1>1, <1>4, <1>5 DEF ProcessInv, MainOK, ThreadOK, KeepsCounts, Moves, InExec
  <1> QED
    BY <1>3, <1>6, <1>7, <1>8, <1>9, <1>10 DEF ProcessInv

(* process_wait takes the signal of an exit.                                *)
LEMMA WaitSemaDownInv ==
    ASSUME ProcessInv, NEW t \in Tids, WaitSemaDown(t)
    PROVE  ProcessInv'
  <1>1. /\ th[t].pc = "wait_sema" /\ th[t].sema > 0 /\ events' = events
    BY DEF WaitSemaDown
  <1>2. th' = [th EXCEPT ![t].sema = @ - 1, ![t].pc = "wait_ret"]
    BY DEF WaitSemaDown
  <1>3. Shape'
    BY <1>2 DEF ProcessInv, Shape
  <1>4. /\ Moves(t, "wait_ret") /\ KeepsFamily /\ KeepsExec
        /\ \A u \in Tids :
             /\ th'[u].sema = IF u = t THEN th[u].sema - 1 ELSE th[u].sema
             /\ th'[u].waited = th[u].waited /\ th'[u].exited = th[u].exited
    BY <1>2 DEF ProcessInv, Shape, Fields, Moves, KeepsFamily, KeepsExec
  <1>5. Main \in Tids /\ NONE \notin Tids
    BY ProcessAssumption, Zenon DEF Tids
  <1>6. ASSUME NEW u \in Tids PROVE ThreadOK(u)'
    BY <1>1, <1>4 DEF ProcessInv, ThreadOK, KeepsFamily, KeepsCounts
  <1>7. ASSUME NEW u \in Tids PROVE ParentOK(u)'
    BY <1>1, <1>4, <1>5 DEF ProcessInv, ParentOK, KeepsFamily, Moves, Alive, Loading
  <1>8. ASSUME NEW u \in Tids PROVE LoadOK(u)'
    BY <1>1, <1>4, <1>5 DEF ProcessInv, LoadOK, KeepsFamily, KeepsCounts, KeepsExec,
       Moves, Loading, InExec
  <1>9. ASSUME NEW u \in Tids PROVE ExecOK(u)'
    BY <1>1, <1>4 DEF ProcessInv, ExecOK, KeepsFamily, KeepsExec, Moves, InExec
  <1>10. MainOK'
    BY <1>1, <1>4, <1>5 DEF ProcessInv, MainOK, ThreadOK, KeepsCounts, Moves, InExec
  <1> QED
    BY <1>3, <1>6, <1>7, <1>8, <1>9, <1>10 DEF ProcessInv

(* process_wait returns.                                                    *)
LEMMA WaitReturnInv ==
    ASSUME ProcessInv, NEW t \in Tids, WaitReturn(t)
    PROVE  ProcessInv'
  <1>1. /\ th[t].pc = "wait_ret" /\ events' = events
    BY DEF WaitReturn
  <1>2. th' = [th EXCEPT ![t].waited = @ + 1, ![t].pc = "user"]
    BY DEF WaitReturn
  <1>3. Shape'
    BY <1>2 DEF ProcessInv, Shape
  <1>4. /\ Moves(t, "user") /\ KeepsFamily /\ KeepsExec
        /\ \A u \in Tids :
             /\ th'[u].sema = th[u].sema /\ th'[u].exited = th[u].exited
             /\ th'[u].waited = IF u = t THEN th[u].waited + 1 ELSE th[u].waited
    BY <1>2 DEF ProcessInv, Shape, Fields, Moves, KeepsFamily, KeepsExec
  <1>5. Main \in Tids /\ NONE \notin Tids
    BY ProcessAssumption, Zenon DEF Tids
  <1>6. ASSUME NEW u \in Tids PROVE ThreadOK(u)'
    BY <1>1, <1>4 DEF ProcessInv, ThreadOK, KeepsFamily, KeepsCounts
  <1>7. ASSUME NEW u \in Tids PROVE ParentOK(u)'
    BY <1>1, <1>4, <1>5 DEF ProcessInv, ParentOK, KeepsFamily, Moves, Alive, Loading
  <1>8. ASSUME NEW u \in Tids PROVE LoadOK(u)'
    BY <1>1, <1>4, <1>5 DEF ProcessInv, LoadOK, KeepsFamily, KeepsCounts, KeepsExec,
       Moves, Loading, InExec
  <1>9. ASSUME NEW u \in Tids PROVE ExecOK(u)'
    BY <1>1, <1>4 DEF ProcessInv, ExecOK, KeepsFamily, KeepsExec, Moves, InExec
  <1>10. MainOK'
    BY <1>1, <1>4, <1>5 DEF ProcessInv, MainOK, ThreadOK, KeepsCounts, Moves, InExec
  <1> QED
    BY <1>3, <1>6, <1>7, <1>8, <1>9, <1>10 DEF ProcessInv

(* process_exit signals the parent, which is past its own load.             *)
LEMMA ExitSemaUpInv ==
    ASSUME ProcessInv, NEW t \in Tids, ExitSemaUp(t)
    PROVE  ProcessInv'
  <1> DEFINE p == th[t].parent
  <1>1. /\ th[t].pc = "exit_sema" /\ events' = events
    BY DEF ExitSemaUp
  <1>2. th' = [th EXCEPT ![t].pc = "dying",
                         ![p].sema = IF Alive(p) THEN @ + 1 ELSE @,
                         ![p].exited = IF Alive(p) THEN @ + 1 ELSE @]
    BY Zenon DEF ExitSemaUp
  <1>3. t # Main /\ p \in Tids /\ th[p].pc \notin Loading
    BY <1>1 DEF ProcessInv, MainOK, ParentOK, Alive, Loading, InExec
  <1>4. Shape'
    BY <1>2 DEF ProcessInv, Shape
  <1>5. /\ Moves(t, "dying") /\ KeepsFamily /\ KeepsExec
        /\ \A u \in Tids : th'[u].waited = th[u].waited
    <2>1. Moves(t, "dying")
      BY <1>2, <1>3, Zenon DEF ProcessInv, Shape, Fields, Moves
    <2>2. KeepsFamily
      BY <1>2, <1>3 DEF ProcessInv, Shape, Fields, KeepsFamily
    <2>3. KeepsExec
      BY <1>2, <1>3 DEF ProcessInv, Shape, Fields, KeepsExec
    <2>4. \A u \in Tids : th'[u].waited = th[u].waited
      BY <1>2, <1>3 DEF ProcessInv, Shape, Fields
    <2> QED
      BY <2>1, <2>2, <2>3, <2>4
  <1>6. \A u \in Tids :
          th'[u].sema = IF u = p /\ Alive(p) THEN th[u].sema + 1 ELSE th[u].sema
    BY <1>2, <1>3 DEF ProcessInv, Shape, Fields
  <1>7. \A u \in Tids :
          th'[u].exited = IF u = p /\ Alive(p) THEN th[u].exited + 1 ELSE th[u].exited
    BY <1>2, <1>3 DEF ProcessInv, Shape, Fields
  <1>8. Main \in Tids /\ NONE \notin Tids
    BY ProcessAssumption, Zenon DEF Tids
  <1>9. ASSUME NEW u \in Tids PROVE ThreadOK(u)'
    BY <1>1, <1>5, <1>3, <1>6, <1>7 DEF ProcessInv, ThreadOK, KeepsFamily, KeepsCounts
  <1>10. ASSUME NEW u \in Tids PROVE ParentOK(u)'
    BY <1>1, <1>5, <1>3, <1>6, <1>7, <1>8 DEF ProcessInv, ParentOK, KeepsFamily, Moves,
       Alive, Loading
  <1>11. ASSUME NEW u \in Tids PROVE LoadOK(u)'
    BY <1>1, <1>5, <1>3, <1>6, <1>7, <1>8 DEF ProcessInv, LoadOK, KeepsFamily,
       KeepsCounts, KeepsExec,
       Moves, Loading, InExec
  <1>12. ASSUME NEW u \in Tids PROVE ExecOK(u)'
    BY <1>1, <1>5, <1>3, <1>6, <1>7 DEF ProcessInv, ExecOK, KeepsFamily, KeepsExec,
       Moves, InExec
  <1>13. MainOK'
    BY <1>1, <1>5, <1>3, <1>6, <1>7, <1>8 DEF ProcessInv, MainOK, ThreadOK, KeepsCounts,
       Moves, InExec
  <1> QED
    BY <1>4, <1>9, <1>10, <1>11, <1>12, <1>13 DEF ProcessInv

(* Every step of every thread keeps the invariant.                          *)
LEMMA ProcessStep == ProcessInv /\ [Next]_vars => ProcessInv'
  <1> SUFFICES ASSUME ProcessInv, [Next]_vars PROVE ProcessInv'
    OBVIOUS
  <1>1. CASE UNCHANGED vars
    BY <1>1 DEF vars, ProcessInv, Shape, ThreadOK, ParentOK, LoadOK, ExecOK, MainOK,
       Alive
  <1>2. ASSUME NEW t \in Tids, KernelStep(t) PROVE ProcessInv'
    <2>1. CASE ExecMainDown(t)
      BY <2>1, ExecMainDownInv
    <2>2. CASE ExecSemaDown(t)
      BY <2>2, ExecSemaDownInv
    <2>3. CASE LoadFailed(t)
      BY <2>3, LoadFailedInv
    <2>4. CASE LoadOpenFailed(t)
      BY <2>4, LoadOpenFailedInv
    <2>5. CASE LoadOk(t)
      BY <2>5, LoadOkInv
    <2>6. CASE LoadMainUp(t)
      BY <2>6, LoadMainUpInv
    <2>7. CASE LoadSemaUp(t)
      BY <2>7, LoadSemaUpInv
    <2>8. CASE WaitMainDown(t)
      BY <2>8, WaitMainDownInv
    <2>9. CASE WaitSemaDown(t)
      BY <2>9, WaitSemaDownInv
    <2>10. CASE WaitReturn(t)
      BY <2>10, WaitReturnInv
    <2>11. CASE ExitStatus(t)
      BY <2>11, ExitStatusInv
    <2>12. CASE ExitMainUp(t)
      BY <2>12, ExitMainUpInv
    <2>13. CASE ExitSemaUp(t)
      BY <2>13, ExitSemaUpInv
    <2>14. CASE thread_exit(t)
      <3>1. t # Main /\ th[t].pc = "dying"
        BY <2>14 DEF thread_exit, ProcessInv, MainOK, InExec
      <3>2. th' = [th EXCEPT ![t] = Freed] /\ events' = events
        BY <2>14 DEF thread_exit
      <3> QED
        BY <3>1, <3>2, FreedInv, Zenon
    <2> QED
      BY <1>2, <2>1, <2>2, <2>3, <2>4, <2>5, <2>6, <2>7, <2>8, <2>9, <2>10, <2>11,
         <2>12, <2>13, <2>14 DEF KernelStep
  <1>3. ASSUME NEW t \in Tids, UserStep(t) PROVE ProcessInv'
    <2>1. CASE ExecNoPage(t)
      BY <2>1, ExecNoPageInv
    <2>2. CASE ExecNoThread(t)
      BY <2>2, ExecNoThreadInv
    <2>3. CASE Exec(t)
      BY <2>3, ExecInv
    <2>4. CASE Wait(t)
      BY <2>4, WaitInv
    <2>5. CASE Exit(t)
      BY <2>5, SyscallExitInv DEF Exit
    <2>6. CASE Fault(t)
      BY <2>6, SyscallExitInv DEF Fault
    <2>7. CASE kill(t)
      <3>1. /\ t # Main /\ th[t].pc = "user"
            /\ th' = [th EXCEPT ![t] = Freed] /\ events' # {}
        BY <2>7 DEF kill
      <3> QED
        BY <3>1, FreedInv, Zenon
    <2> QED
      BY <1>3, <2>1, <2>2, <2>3, <2>4, <2>5, <2>6, <2>7 DEF UserStep
  <1> QED
    BY <1>1, <1>2, <1>3 DEF Next
-----------------------------------------------------------------------------
(* The invariant holds of every behaviour of process.c, syscall.c's exit,   *)
(* exec and wait, and exception.c's kill.                                   *)
THEOREM ProcessInvariant == Spec => []ProcessInv
  BY InitInv, ProcessStep, PTL DEF Spec

(* While a process loads, its parent is alive inside process_execute and    *)
(* waits for it, however many processes there are and whatever they do.     *)
THEOREM LoadIsAwaited == Spec => []ParentAwaitsLoad
  <1>1. ProcessInv => ParentAwaitsLoad
    BY DEF ProcessInv, LoadOK, ParentAwaitsLoad, Alive, InExec, Tids
  <1> QED
    BY <1>1, ProcessInvariant, PTL

(* The initial thread has left process_wait at most once for each child of  *)
(* its that has exited.                                                     *)
THEOREM MainWaitsForExits == Spec => []MainAwaitsExit
  <1>1. ProcessInv => MainAwaitsExit
    <2>1. Main \in Tids
      BY DEF Tids
    <2> QED
      BY <2>1 DEF ProcessInv, ThreadOK, MainOK, MainAwaitsExit
  <1> QED
    BY <1>1, ProcessInvariant, PTL

(* A thread that is in sema_down (&child->sema) of process_execute leaves   *)
(* it by the end of that function only.                                     *)
LEMMA ExecLeaves ==
    ASSUME ProcessInv, Next, NEW t \in Tids,
           th[t].pc = "exec_sema", th'[t].pc # "exec_sema"
    PROVE  ExecSemaDown(t)
  <1>1. Main \in Tids /\ Shape
    BY DEF Tids, ProcessInv
  <1>2. ASSUME NEW u \in Tids, KernelStep(u), u # t PROVE th'[t].pc = th[t].pc
    <2>1. CASE ExecMainDown(u)
      BY <1>1, <1>2, <2>1 DEF ExecMainDown, Shape, Fields
    <2>2. CASE ExecSemaDown(u)
      BY <1>1, <1>2, <2>2 DEF ExecSemaDown, Shape, Fields
    <2>3. CASE LoadFailed(u)
      BY <1>1, <1>2, <2>3 DEF LoadFailed, Shape, Fields
    <2>4. CASE LoadOpenFailed(u)
      BY <1>1, <1>2, <2>4 DEF LoadOpenFailed, Shape, Fields
    <2>5. CASE LoadOk(u)
      BY <1>1, <1>2, <2>5 DEF LoadOk, Shape, Fields
    <2>6. CASE LoadMainUp(u)
      BY <1>1, <1>2, <2>6 DEF LoadMainUp, Shape, Fields
    <2>7. CASE LoadSemaUp(u)
      BY <1>1, <1>2, <2>7 DEF LoadSemaUp, Shape, Fields
    <2>8. CASE WaitMainDown(u)
      BY <1>1, <1>2, <2>8 DEF WaitMainDown, Shape, Fields
    <2>9. CASE WaitSemaDown(u)
      BY <1>1, <1>2, <2>9 DEF WaitSemaDown, Shape, Fields
    <2>10. CASE WaitReturn(u)
      BY <1>1, <1>2, <2>10 DEF WaitReturn, Shape, Fields
    <2>11. CASE ExitStatus(u)
      BY <1>1, <1>2, <2>11 DEF ExitStatus, Shape, Fields
    <2>12. CASE ExitMainUp(u)
      BY <1>1, <1>2, <2>12 DEF ExitMainUp, Shape, Fields
    <2>13. CASE ExitSemaUp(u)
      BY <1>1, <1>2, <2>13 DEF ExitSemaUp, Shape, Fields
    <2>14. CASE thread_exit(u)
      BY <1>1, <1>2, <2>14 DEF thread_exit, Shape, Fields
    <2> QED
      BY <1>2, <2>1, <2>2, <2>3, <2>4, <2>5, <2>6, <2>7, <2>8, <2>9, <2>10, <2>11,
         <2>12, <2>13, <2>14 DEF KernelStep
  <1>3. ASSUME NEW u \in Tids, UserStep(u), u # t PROVE th'[t].pc = th[t].pc
    <2>1. CASE ExecNoPage(u)
      BY <1>1, <1>3, <2>1, ZenonT(30) DEF ExecNoPage, Shape, Fields
    <2>2. CASE ExecNoThread(u)
      BY <1>1, <1>3, <2>2, Zenon DEF ExecNoThread, AwaitChild, Shape, Fields
    <2>3. CASE Exec(u)
      BY <1>1, <1>3, <2>3 DEF Exec, AwaitChild, Shape, Fields
    <2>4. CASE Wait(u)
      BY <1>1, <1>3, <2>4 DEF Wait, Shape, Fields
    <2>5. CASE Exit(u)
      BY <1>1, <1>3, <2>5 DEF Exit, syscall_exit, Shape, Fields
    <2>6. CASE Fault(u)
      BY <1>1, <1>3, <2>6 DEF Fault, syscall_exit, Shape, Fields
    <2>7. CASE kill(u)
      BY <1>1, <1>3, <2>7 DEF kill, Shape, Fields
    <2> QED
      BY <1>3, <2>1, <2>2, <2>3, <2>4, <2>5, <2>6, <2>7 DEF UserStep
  <1>4. ~UserStep(t)
    BY DEF UserStep, ExecNoPage, ExecNoThread, Exec, MayExec, Wait, MayWait, Exit,
       Fault, kill
  <1>5. KernelStep(t) => ExecSemaDown(t)
    BY Zenon DEF KernelStep, ExecMainDown, ExecSemaDown, LoadFailed, LoadOpenFailed, LoadOk,
       LoadMainUp, LoadSemaUp, WaitMainDown, WaitSemaDown, WaitReturn, ExitStatus,
       ExitMainUp, ExitSemaUp, thread_exit
  <1> QED
    BY <1>2, <1>3, <1>4, <1>5 DEF Next

(* process_execute returns -1 only for a missing page or a program that     *)
(* could not be opened, and otherwise the tid of a child whose load is      *)
(* over, whatever signals earlier children have left.                       *)
THEOREM ExecReturnsLoadedChild == Spec => ExecResult
  <1> DEFINE Returns ==
        \A t \in Tids :
          th[t].pc = "exec_sema" /\ th'[t].pc # "exec_sema"
            => LET r == th'[t].arg
               IN  IF r = -1 THEN events # {} \/ th[t].executable = 1
                   ELSE r \in th[t].created /\ th[r].pc \notin Loading
  <1>1. ASSUME ProcessInv, Next PROVE Returns
    <2> SUFFICES ASSUME NEW t \in Tids, th[t].pc = "exec_sema", th'[t].pc # "exec_sema"
                 PROVE  IF th'[t].arg = -1 THEN events # {} \/ th[t].executable = 1
                        ELSE /\ th'[t].arg \in th[t].created
                             /\ th[th'[t].arg].pc \notin Loading
      OBVIOUS
    <2> DEFINE c == th[t].child
    <2>1. c # NONE /\ (th[c].pc = "dead" \/ th[c].sema > 0)
      BY <1>1, ExecLeaves, ZenonT(30) DEF ExecSemaDown
    <2>2. th' = [th EXCEPT ![c].sema = IF th[c].pc = "dead" THEN @ ELSE @ - 1,
                           ![t].arg = ExecReturned(t), ![t].pc = ExecDone(t)]
      BY <1>1, ExecLeaves, Zenon DEF ExecSemaDown
    <2>3. /\ c \in Procs /\ c # -1
          /\ (th[t].arg = c /\ c \in th[t].created) \/ (th[t].arg = -1 /\ events # {})
      <3>1. ExecOK(t) /\ ThreadOK(t) /\ th[t].pc \in InExec
        BY <1>1 DEF ProcessInv, InExec
      <3>2. c \in Procs
        BY <2>1, <3>1 DEF ExecOK, ThreadOK
      <3>3. c # -1
        BY <3>2, ProcessAssumption
      <3> QED
        BY <3>1, <3>2, <3>3, Zenon DEF ExecOK
    <2>4. th[c].pc \notin Loading
      <3>1. LoadOK(c)
        BY <1>1, <2>3, Zenon DEF ProcessInv, Tids
      <3>2. th[c].pc = "dead" => th[c].pc \notin Loading
        BY DEF Loading
      <3> QED
        BY <2>1, <3>1, <3>2 DEF LoadOK
    <2>5. th'[t].arg = ExecReturned(t)
      BY <1>1, <2>3, <2>2, Zenon DEF ProcessInv, Shape, Fields, Tids
    <2> QED
      BY <2>3, <2>4, <2>5 DEF ExecReturned
  <1>2. ASSUME ProcessInv, [Next]_vars PROVE [Returns]_vars
    BY <1>1, <1>2
  <1> HIDE DEF Returns
  <1>3. Spec => [][Returns]_vars
    BY <1>2, ProcessInvariant, PTL DEF Spec
  <1> QED
    BY <1>3 DEF ExecResult, Returns
=============================================================================
