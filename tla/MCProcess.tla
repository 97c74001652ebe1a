----------------------------- MODULE MCProcess ------------------------------
EXTENDS Process

(* Programs exit with the status that a fault gives.                        *)
MCStatuses == {-1}

(* One program of each kind that process.c and syscall.c tell by name.      *)
MCProgram == [p \in Procs |-> CASE p = 6 -> "syn-read" [] p = 7 -> "child-syn-read"
                                 [] OTHER -> "program"]
=============================================================================
