------------------------------ MODULE Process -------------------------------
(***************************************************************************)
(* User processes from process_execute to their exit: userprog/process.c,  *)
(* the exit, exec and wait calls of userprog/syscall.c and kill of         *)
(* userprog/exception.c, one step for each access to state that another    *)
(* thread uses.                                                            *)
(*                                                                         *)
(* A process has one semaphore, sema.  Its own load raises it, for the     *)
(* parent that waits in process_execute; its children raise it again when  *)
(* they exit, for its own process_wait.  main_sema is used by tid 1 only.  *)
(* A semaphore is its value here: Synch models sema_down and sema_up.      *)
(*                                                                         *)
(* A struct thread is freed when its thread has exited, and its page       *)
(* filled with 0xcc.  The page is taken not to be handed out again before  *)
(* the last pointer to the dead thread is used: a sema_down on the dead    *)
(* thread passes, and a sema_up panics on waiters that are no list.        *)
(***************************************************************************)
EXTENDS Integers, FiniteSets, FiniteSetsExt

CONSTANTS
    Main,         \* tid of the initial thread, 1
    Procs,        \* tids of the processes that may be created
    Statuses,     \* what user programs pass to exit
    Program,      \* tid |-> name of the executable it is to run
    TASKS,        \* bound: programs that the initial thread runs
    BOOT_CHILDREN \* child_num of the initial thread after boot

Tids == Procs \cup {Main}
NONE == 0

(* tids count up from 1, which is the initial thread's; 0 is no thread's.   *)
ASSUME ProcessAssumption ==
    /\ Main \in Nat \ {NONE}
    /\ Procs \subseteq Nat \ {NONE, Main}

VARIABLES
    th,           \* tid |-> its struct thread, where it is, and its locals
    process_num,
    panicked,
    events        \* history: what ends the guarantees on progress

vars == <<th, process_num, panicked, events>>

Blocking == {"exec_main", "exec_sema", "wait_main", "wait_sema"}
Loading == {"load", "load_main", "load_sema"}

(* struct thread, where it is (pc), whose sema process_execute waits on     *)
(* (child), the tid there and what it returned (arg); and as history the    *)
(* children created, calls of process_wait past its early return, those     *)
(* that have returned, and children that have raised sema in process_exit.  *)
NewThread(p) ==
    [pc |-> IF p = NONE THEN "new" ELSE "load", parent |-> p, child_num |-> 0,
     exit_status |-> 0, executable |-> 0, exec |-> "NULL", sema |-> 0, main_sema |-> 0,
     child |-> NONE, arg |-> NONE, created |-> {}, waits |-> 0, waited |-> 0,
     exited |-> 0]

Init ==
    /\ th = [t \in Tids |->
               IF t = Main THEN [NewThread(NONE) EXCEPT !.pc = "user",
                                                        !.child_num = BOOT_CHILDREN]
               ELSE NewThread(NONE)]
    /\ process_num = 1 /\ panicked = FALSE /\ events = {}

Freed == [NewThread(NONE) EXCEPT !.pc = "dead"]

(* Bound: one failed allocation or one killed process in a behaviour.       *)
NoEvent == events = {}

Alive(t) == th[t].pc \notin {"new", "dead"}
-----------------------------------------------------------------------------
(* process_execute                                                          *)

(* The command line names TASKS programs to run.                            *)
MayExec(t) == th[t].pc = "user" /\ (t = Main => Cardinality(th[t].created) < TASKS)

(* Back from process_execute: run_task calls process_wait next.             *)
ExecDone(t) == IF t = Main THEN "ran" ELSE "user"

AwaitNothing(t, c, tid) ==
    [th EXCEPT ![t].pc = ExecDone(t), ![t].child = c, ![t].arg = tid]

(* t begins to wait for c; tid is what thread_create returned.              *)
AwaitChild(t, c, tid) ==
    [th EXCEPT ![t].pc = IF t = Main THEN "exec_main" ELSE "exec_sema",
               ![t].child = c, ![t].arg = tid]

(* No page for fn_copy.                                                     *)
ExecNoPage(t) ==
    /\ MayExec(t)
    /\ th' = [th EXCEPT ![t].arg = -1, ![t].pc = ExecDone(t)]
    /\ NoEvent /\ events' = {"out of pages"}
    /\ UNCHANGED <<process_num, panicked>>

(* thread_create finds no page.  The last child is waited for again; when   *)
(* there is none, child->sema is the caller's own child_num and the zeros   *)
(* after it.  The last child of the initial thread may be one of boot.      *)
ExecNoThread(t) ==
    /\ MayExec(t)
    /\ LET none == th[t].created = {}
       IN  /\ th' = AwaitChild(t, IF none THEN NONE ELSE Max(th[t].created), -1)
           /\ panicked' = (none /\ t # Main)
    /\ NoEvent /\ events' = {"out of pages"}
    /\ UNCHANGED process_num

Exec(t) ==
    /\ MayExec(t)
    /\ \E c \in {d \in Procs : th[d].pc = "new"} :
         /\ \A d \in Procs : th[d].pc = "new" => c <= d
         /\ th' = [AwaitChild(t, c, c) EXCEPT
                     ![c] = NewThread(t),
                     ![t].child_num = @ + 1, ![t].created = @ \cup {c}]
    /\ UNCHANGED <<process_num, panicked, events>>

ExecMainDown(t) ==
    /\ th[t].pc = "exec_main" /\ th[t].main_sema > 0
    /\ th' = [th EXCEPT ![t].main_sema = @ - 1, ![t].pc = "exec_sema"]
    /\ UNCHANGED <<process_num, panicked, events>>

ExecReturnedIfLoaded(t) ==
    IF th[t].child # NONE /\ th[th[t].child].exec = "NULL" THEN -1 ELSE th[t].arg

ExecReturned(t) == IF th[t].executable = 1 THEN -1 ELSE th[t].arg

(* sema_down (&child->sema), and the end of process_execute.                *)
ExecSemaDown(t) ==
    /\ th[t].pc = "exec_sema" /\ th[t].child # NONE
    /\ \E c \in {th[t].child} :
         /\ th[c].pc = "dead" \/ th[c].sema > 0
         /\ th' = [th EXCEPT ![c].sema = IF th[c].pc = "dead" THEN @ ELSE @ - 1,
                             ![t].arg = ExecReturned(t), ![t].pc = ExecDone(t)]
    /\ UNCHANGED <<process_num, panicked, events>>
-----------------------------------------------------------------------------
(* start_process and load                                                   *)

LoadDone(c) == IF th[c].parent = Main THEN "load_main" ELSE "load_sema"

LoadOk(c) ==
    /\ th[c].pc = "load"
    /\ th' = [th EXCEPT ![c].exec = Program[c], ![c].pc = LoadDone(c)]
    /\ process_num' = IF Program[c] \in {"syn-write", "syn-read"} THEN 2 ELSE process_num
    /\ UNCHANGED <<panicked, events>>

(* filesys_open returned NULL.                                              *)
LoadOpenFailed(c) ==
    /\ th[c].pc = "load"
    /\ th' = [th EXCEPT ![th[c].parent].executable = 1, ![c].pc = LoadDone(c)]
    /\ UNCHANGED <<process_num, panicked, events>>

(* No page directory, a bad header or segment, or no stack.                 *)
LoadFailed(c) ==
    /\ th[c].pc = "load"
    /\ th' = [th EXCEPT ![c].pc = LoadDone(c)]
    /\ UNCHANGED <<process_num, panicked, events>>

LoadMainUpSema(c) ==
    /\ th[c].pc = "load_main"
    /\ th' = [th EXCEPT ![th[c].parent].main_sema = @ + 2, ![th[c].parent].sema = @ + 1,
                        ![c].pc = "load_sema"]
    /\ UNCHANGED <<process_num, panicked, events>>

LoadMainUp(c) ==
    /\ th[c].pc = "load_main"
    /\ th' = [th EXCEPT ![th[c].parent].main_sema = @ + 1, ![c].pc = "load_sema"]
    /\ UNCHANGED <<process_num, panicked, events>>

(* sema_up (&thread_current ()->sema), and the jump to user code: to        *)
(* address 0, which is not mapped, when load failed.                        *)
LoadSemaUp(c) ==
    /\ th[c].pc = "load_sema"
    /\ th' = [th EXCEPT ![c].sema = @ + 1,
                        ![c].pc = IF th[c].exec = "NULL" THEN "fault" ELSE "user"]
    /\ UNCHANGED <<process_num, panicked, events>>
-----------------------------------------------------------------------------
(* process_wait                                                             *)

(* What it returns is left out: it depends on a walk over child_list, whose *)
(* elems are on the run queue too (ThreadLists), so that the walk may meet  *)
(* any thread or none.  The walk makes at most child_num steps.             *)

(* run_task always waits.  A program waits once for each of its children.   *)
MayWait(t) ==
    \/ th[t].pc = "ran"
    \/ th[t].pc = "user" /\ th[t].waits < Cardinality(th[t].created)

(* Past the early return for a caller without children.                     *)
Wait(t) ==
    /\ MayWait(t)
    /\ th[t].child_num # 0 \/ process_num = 2
    /\ th' = [th EXCEPT ![t].pc = IF t = Main THEN "wait_main" ELSE "wait_sema",
                        ![t].waits = @ + 1]
    /\ UNCHANGED <<process_num, panicked, events>>

WaitMainDown(t) ==
    /\ th[t].pc = "wait_main" /\ th[t].main_sema > 0
    /\ th' = [th EXCEPT ![t].main_sema = @ - 1, ![t].pc = "wait_sema"]
    /\ UNCHANGED <<process_num, panicked, events>>

WaitSemaDown(t) ==
    /\ th[t].pc = "wait_sema" /\ th[t].sema > 0
    /\ th' = [th EXCEPT ![t].sema = @ - 1, ![t].pc = "wait_ret"]
    /\ UNCHANGED <<process_num, panicked, events>>

WaitReturn(t) ==
    /\ th[t].pc = "wait_ret"
    /\ th' = [th EXCEPT ![t].waited = @ + 1, ![t].pc = "user"]
    /\ UNCHANGED <<process_num, panicked, events>>
-----------------------------------------------------------------------------
(* syscall_exit, process_exit and kill                                      *)

Blocked(t) ==
    \/ th[t].pc \in {"exec_main", "wait_main"} /\ th[t].main_sema = 0
    \/ th[t].pc = "exec_sema" /\ th[t].child # NONE /\ th[th[t].child].sema = 0
    \/ th[t].pc = "wait_sema" /\ th[t].sema = 0

(* The conditions on which syscall_handler loops on thread_yield before     *)
(* syscall_exit, by the name of the program.                                *)
Yields(t) ==
    LET p == th[t].parent
    IN  \/ /\ Blocked(p) /\ th[p].child_num # 1 /\ t # 3
           /\ th[t].exec \in {"child-syn-read", "child-syn-wrt"}
        \/ /\ th[p].child_num = 1
           /\ \/ th[p].exec # "page-merge-seq" /\ th[t].exec = "child-sort"
              \/ th[t].exec \in {"child-qsort", "child-qsort-mm"}

(* What is written to a parent that is freed is lost.                       *)
syscall_exit(t, status) ==
    /\ \E p \in {th[t].parent} :
         th' = [th EXCEPT ![t].exit_status = status, ![t].pc = "exiting",
                          ![p].child_num = IF Alive(p) THEN @ - 1 ELSE @]
    /\ UNCHANGED <<process_num, panicked, events>>

Exit(t) ==
    /\ th[t].pc = "user" /\ t # Main
    /\ ~Yields(t)
    /\ \E s \in Statuses : syscall_exit(t, s)

(* A page fault that page_fault does not serve, or a bad system call.       *)
Fault(t) ==
    /\ th[t].pc \in {"fault", "user"} /\ t # Main
    /\ syscall_exit(t, -1)

ExitStatus(t) ==
    /\ th[t].pc = "exiting"
    /\ \E p \in {th[t].parent} :
         th' = [th EXCEPT ![p].exit_status = IF Alive(p) THEN th[t].exit_status ELSE @,
                          ![t].pc = IF p = Main THEN "exit_main" ELSE "exit_sema"]
    /\ UNCHANGED <<process_num, panicked, events>>

ExitMainUp(t) ==
    /\ th[t].pc = "exit_main"
    /\ th' = [th EXCEPT ![th[t].parent].main_sema = @ + 1, ![t].pc = "exit_sema"]
    /\ UNCHANGED <<process_num, panicked, events>>

ExitNoSemaUp(t) ==
    /\ th[t].pc = "exit_sema"
    /\ th' = [th EXCEPT ![t].pc = "dying"]
    /\ panicked' = ~Alive(th[t].parent)
    /\ UNCHANGED <<process_num, events>>

ExitSemaUp(t) ==
    /\ th[t].pc = "exit_sema"
    /\ \E p \in {th[t].parent} :
         /\ th' = [th EXCEPT ![t].pc = "dying",
                             ![p].sema = IF Alive(p) THEN @ + 1 ELSE @,
                             ![p].exited = IF Alive(p) THEN @ + 1 ELSE @]
         /\ panicked' = ~Alive(p)
    /\ UNCHANGED <<process_num, events>>

(* thread_exit, and schedule_tail in the thread that runs next.             *)
thread_exit(t) ==
    /\ th[t].pc = "dying"
    /\ th' = [th EXCEPT ![t] = Freed]
    /\ UNCHANGED <<process_num, panicked, events>>

(* Any exception of user code but a page fault.                             *)
kill(t) ==
    /\ th[t].pc = "user" /\ t # Main
    /\ NoEvent
    /\ th' = [th EXCEPT ![t] = Freed]
    /\ events' = {"killed"}
    /\ UNCHANGED <<process_num, panicked>>
-----------------------------------------------------------------------------
(* What a thread does once it has been entered, whatever its program.       *)
KernelStep(t) ==
    \/ ExecMainDown(t) \/ ExecSemaDown(t)
    \/ LoadFailed(t) \/ LoadOpenFailed(t) \/ LoadOk(t)
    \/ LoadMainUp(t) \/ LoadSemaUp(t)
    \/ WaitMainDown(t) \/ WaitSemaDown(t) \/ WaitReturn(t)
    \/ ExitStatus(t) \/ ExitMainUp(t) \/ ExitSemaUp(t) \/ thread_exit(t)

UserStep(t) ==
    \/ ExecNoPage(t) \/ ExecNoThread(t) \/ Exec(t)
    \/ Wait(t) \/ Exit(t) \/ Fault(t) \/ kill(t)

Next == ~panicked /\ \E t \in Tids : KernelStep(t) \/ UserStep(t)

Spec == Init /\ [][Next]_vars

(* The scheduler is round-robin, so a thread that stays able to run runs;   *)
(* and programs end.                                                        *)
FairSpec == /\ Spec
            /\ \A t \in Tids : /\ WF_vars(~panicked /\ KernelStep(t))
                               /\ WF_vars(~panicked /\ Exit(t))
                               /\ WF_vars(~panicked /\ th[t].pc = "fault" /\ Fault(t))
-----------------------------------------------------------------------------
(* While a process loads, the thread that created it is inside              *)
(* process_execute and waits for that very process: nothing that was left   *)
(* in a semaphore by an earlier child lets it go on.  Hence the parent that *)
(* load writes executable to is never a freed one.                          *)
ParentAwaitsLoad ==
    \A c \in Procs :
      th[c].pc \in Loading =>
        LET p == th[c].parent
        IN  Alive(p) /\ th[p].pc \in {"exec_main", "exec_sema"} /\ th[p].child = c

(* The initial thread leaves process_wait, and goes on to the next action   *)
(* of the command line, only after a process it started has exited.         *)
MainAwaitsExit == th[Main].waited <= th[Main].exited

(* process_execute returns the tid of a child whose load is over, or -1;    *)
(* and -1 only when a page is missing or when a child of the caller, this   *)
(* one or any earlier one, has failed to be opened.                         *)
ExecResult ==
    [][\A t \in Tids :
         th[t].pc = "exec_sema" /\ th'[t].pc # "exec_sema"
           => LET r == th'[t].arg
              IN  IF r = -1 THEN events # {} \/ th[t].executable = 1
                  ELSE r \in th[t].created /\ th[r].pc \notin Loading]_vars

(* No wait in process_execute or process_wait is for ever, while pages last *)
(* and no process is killed by an exception, or exits when its parent is    *)
(* gone: a child that took its own load's signal for that of an exit gives  *)
(* its parent the next one.                                                 *)
NoHang ==
    \A t \in Tids :
      th[t].pc \in Blocking ~> th[t].pc \notin Blocking \/ panicked \/ events # {}
=============================================================================
