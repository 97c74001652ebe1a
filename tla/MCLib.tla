------------------------------- MODULE MCLib --------------------------------
EXTENDS Lib

CONSTANTS e1, e2, e3, e4

(* Two pairs of elements that less does not tell apart.                     *)
MCKey == [e \in Elems |-> IF e \in {e1, e2} THEN 1 ELSE 2]

(* Items 4 and 5 are equal; 1 and 3 share a bucket of two, not of four.     *)
MCItemKey == [i \in Items |-> IF i = 5 THEN 4 ELSE i]
MCHash == [i \in Items |-> MCItemKey[i]]
=============================================================================
