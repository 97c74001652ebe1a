-------------------------------- MODULE List --------------------------------
(***************************************************************************)
(* The doubly linked lists of lib/kernel/list.c, pointer by pointer.  A    *)
(* heap h gives every node its next and prev pointers.  The nodes are the  *)
(* elements, which the lists are threaded through, and for every list l    *)
(* the sentinels list_head(l) and list_tail(l).                            *)
(*                                                                         *)
(* Only TLC evaluates this module: its loops are RECURSIVE operators.      *)
(***************************************************************************)
EXTENDS Integers, Sequences

CONSTANT NULL

list_head(l) == <<l, "head">>
list_tail(l) == <<l, "tail">>

Nodes(lists, elems) ==
    elems \cup {list_head(l) : l \in lists} \cup {list_tail(l) : l \in lists}

is_interior(h, e) == h.prev[e] # NULL /\ h.next[e] # NULL
is_tail(h, e) == h.prev[e] # NULL /\ h.next[e] = NULL

(* Every list after list_init, and elements that were never on one.         *)
list_init(lists, elems) ==
    [next |-> [n \in Nodes(lists, elems) |->
                 IF \E l \in lists : n = list_head(l)
                 THEN list_tail(CHOOSE l \in lists : n = list_head(l)) ELSE NULL],
     prev |-> [n \in Nodes(lists, elems) |->
                 IF \E l \in lists : n = list_tail(l)
                 THEN list_head(CHOOSE l \in lists : n = list_tail(l)) ELSE NULL]]

list_begin(h, l) == h.next[list_head(l)]
list_end(l) == list_tail(l)
list_empty(h, l) == list_begin(h, l) = list_end(l)
-----------------------------------------------------------------------------
(* e->prev = p and e->next = n.                                             *)
SetPrev(h, e, p) == [h EXCEPT !.prev[e] = p]
SetNext(h, e, n) == [h EXCEPT !.next[e] = n]

InsertWithoutBack(h, before, e) ==
    LET p == h.prev[before]
    IN  SetNext(SetNext(SetPrev(h, e, p), e, before), p, e)

list_insert(h, before, e) ==
    LET p  == h.prev[before]
        h1 == SetNext(SetPrev(h, e, p), e, before)
        h2 == SetNext(h1, h1.prev[before], e)
    IN  SetPrev(h2, before, e)

list_push_front(h, l, e) == list_insert(h, list_begin(h, l), e)
list_push_back(h, l, e) == list_insert(h, list_end(l), e)

list_remove(h, e) ==
    LET h1 == SetNext(h, h.prev[e], h.next[e])
    IN  SetPrev(h1, h1.next[e], h1.prev[e])

list_front(h, l) == h.next[list_head(l)]
list_back(h, l) == h.prev[list_tail(l)]
list_pop_front(h, l) == list_remove(h, list_front(h, l))
list_pop_back(h, l) == list_remove(h, list_back(h, l))

list_splice(h, before, first, end) ==
    IF first = end THEN h
    ELSE LET last == h.prev[end]
             h1 == SetNext(h, h.prev[first], h.next[last])
             h2 == SetPrev(h1, h1.next[last], h1.prev[first])
             h3 == SetNext(SetPrev(h2, first, h2.prev[before]), last, before)
             h4 == SetNext(h3, h3.prev[before], first)
         IN  SetPrev(h4, before, last)
-----------------------------------------------------------------------------
(* swap (&a->prev, &a->next) and the like.                                  *)
SwapOwn(h, e) == SetNext(SetPrev(h, e, h.next[e]), e, h.prev[e])

RECURSIVE ReverseLoop(_, _, _)
ReverseLoop(h, l, e) ==
    IF e = list_end(l) THEN h
    ELSE LET h1 == SwapOwn(h, e) IN ReverseLoop(h1, l, h1.prev[e])

list_reverse(h, l) ==
    IF list_empty(h, l) THEN h
    ELSE LET h1    == ReverseLoop(h, l, list_begin(h, l))
             front == h1.prev[list_tail(l)]
             back  == h1.next[list_head(l)]
             h2    == SetPrev(SetNext(h1, list_head(l), front), list_tail(l), back)
         IN  SetNext(SetPrev(h2, front, h2.next[back]), back, h2.prev[front])

(* The list_less_func of a caller that orders elements by a key.            *)
less(key, a, b) == key[a] < key[b]

RECURSIVE find_end_of_run(_, _, _, _)
find_end_of_run(h, a, b, key) ==
    LET n == h.next[a]
    IN  IF n # b /\ ~less(key, n, h.prev[n]) THEN find_end_of_run(h, n, b, key) ELSE n

RECURSIVE inplace_merge(_, _, _, _, _)
inplace_merge(h, a0, a1b0, b1, key) ==
    IF a0 = a1b0 \/ a1b0 = b1 THEN h
    ELSE IF ~less(key, a1b0, a0) THEN inplace_merge(h, h.next[a0], a1b0, b1, key)
    ELSE LET n == h.next[a1b0]
         IN  inplace_merge(list_splice(h, a0, h.prev[n], n), a0, n, b1, key)

(* One pass of list_sort from the run at a0, and its output_run_cnt.        *)
RECURSIVE SortPass(_, _, _, _, _)
SortPass(h, l, a0, runs, key) ==
    IF a0 = list_end(l) THEN [heap |-> h, runs |-> runs]
    ELSE LET a1b0 == find_end_of_run(h, a0, list_end(l), key)
         IN  IF a1b0 = list_end(l) THEN [heap |-> h, runs |-> runs + 1]
             ELSE LET b1 == find_end_of_run(h, a1b0, list_end(l), key)
                  IN  SortPass(inplace_merge(h, a0, a1b0, b1, key), l, b1, runs + 1,
                               key)

RECURSIVE list_sort(_, _, _)
list_sort(h, l, key) ==
    LET pass == SortPass(h, l, list_begin(h, l), 0, key)
    IN  IF pass.runs > 1 THEN list_sort(pass.heap, l, key) ELSE pass.heap

RECURSIVE OrderedPlace(_, _, _, _, _)
OrderedPlace(h, l, e, x, key) ==
    IF x = list_end(l) \/ less(key, e, x) THEN x
    ELSE OrderedPlace(h, l, e, h.next[x], key)

list_insert_ordered(h, l, e, key) ==
    list_insert(h, OrderedPlace(h, l, e, list_begin(h, l), key), e)

RECURSIVE UniqueLoop(_, _, _, _, _)
UniqueLoop(h, l, dup, e, key) ==
    LET n == h.next[e]
    IN  IF n = list_end(l) THEN h
        ELSE IF ~less(key, e, n) /\ ~less(key, n, e)
             THEN UniqueLoop(list_push_back(list_remove(h, n), dup, n), l, dup, e, key)
             ELSE UniqueLoop(h, l, dup, n, key)

list_unique(h, l, dup, key) ==
    IF list_empty(h, l) THEN h ELSE UniqueLoop(h, l, dup, list_begin(h, l), key)

RECURSIVE MaxLoop(_, _, _, _, _)
MaxLoop(h, l, max, e, key) ==
    IF e = list_end(l) THEN max
    ELSE MaxLoop(h, l, IF less(key, max, e) THEN e ELSE max, h.next[e], key)

list_max(h, l, key) ==
    LET begin == list_begin(h, l)
    IN  IF begin = list_end(l) THEN begin ELSE MaxLoop(h, l, begin, h.next[begin], key)

RECURSIVE MinLoop(_, _, _, _, _)
MinLoop(h, l, min, e, key) ==
    IF e = list_end(l) THEN min
    ELSE MinLoop(h, l, IF less(key, e, min) THEN e ELSE min, h.next[e], key)

list_min(h, l, key) ==
    LET begin == list_begin(h, l)
    IN  IF begin = list_end(l) THEN begin ELSE MinLoop(h, l, begin, h.next[begin], key)
-----------------------------------------------------------------------------
(* What a traversal of the list sees, forwards from the front and backwards *)
(* from the back.  max bounds the length, in case the list is broken.       *)
RECURSIVE Walk(_, _, _, _, _)
Walk(ptr, n, end, stop, max) ==
    IF n = end \/ n = stop \/ max = 0 THEN <<>>
    ELSE <<n>> \o Walk(ptr, ptr[n], end, stop, max - 1)

Forward(h, l, max) == Walk(h.next, list_begin(h, l), list_tail(l), NULL, max)
Backward(h, l, max) == Walk(h.prev, list_back(h, l), list_head(l), NULL, max)
=============================================================================
