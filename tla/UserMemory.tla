---------------------------- MODULE UserMemory ------------------------------
(***************************************************************************)
(* What virtual memory promises to user programs: every process has pages  *)
(* of its own, and a page keeps what the process last wrote to it until    *)
(* the page is unmapped.                                                   *)
(***************************************************************************)
CONSTANTS Procs, Pages,
          Initial(_, _),      \* what a page of a process may start with
          Written(_, _),      \* what a process writes to a page
          NONE                \* no page

VARIABLE memory

Init == memory = [p \in Procs |-> [u \in Pages |-> NONE]]

Write(p, u) ==
    /\ memory[p][u] # NONE
    /\ memory' = [memory EXCEPT ![p][u] = Written(p, u)]

Map(p) ==
    \A q \in Procs, u \in Pages :
      \/ memory'[q][u] = memory[q][u]
      \/ q = p /\ memory[p][u] = NONE /\ memory'[p][u] \in Initial(p, u)

Unmap(p) ==
    \A q \in Procs, u \in Pages :
      memory'[q][u] = memory[q][u] \/ (q = p /\ memory'[p][u] = NONE)

Next == \E p \in Procs : Map(p) \/ Unmap(p) \/ \E u \in Pages : Write(p, u)

Spec == Init /\ [][Next]_memory
=============================================================================
