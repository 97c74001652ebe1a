------------------------------ MODULE MCFiles -------------------------------
EXTENDS Files

Rel(names) == [slash |-> FALSE, names |-> names]
Abs(names) == [slash |-> TRUE, names |-> names]

(* Relative and absolute, one and two names, and a parent.                 *)
MCPaths == {Rel(<<"a">>), Abs(<<"a", "b">>), Rel(<<"..", "b">>)}
=============================================================================
