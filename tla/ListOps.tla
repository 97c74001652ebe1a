------------------------------ MODULE ListOps -------------------------------
(***************************************************************************)
(* Clients of lib/kernel/list.c that keep its rule, that an element is in  *)
(* at most one list at a time.  Beside the heap of pointers the            *)
(* specification keeps the sequence that each list stands for, changed by  *)
(* what the comment on each function promises.                             *)
(***************************************************************************)
EXTENDS List, SequencesExt

CONSTANTS Lists, Elems,
          Key             \* element |-> the value that less compares

VARIABLES heap,
          seqs            \* list |-> the elements it is to hold, in order

vars == <<heap, seqs>>

On(e) == \E l \in Lists : Contains(seqs[l], e)

Sorted(s) == \A i, j \in DOMAIN s : i < j => ~less(Key, s[j], s[i])

(* s in order, equal elements as they stand in s.                           *)
StableSort(s) ==
    CHOOSE p \in SetToSeqs(ToSet(s)) :
      /\ Sorted(p)
      /\ \A i, j \in DOMAIN s :
           i < j /\ Key[s[i]] = Key[s[j]]
             => \E m, n \in DOMAIN p : m < n /\ p[m] = s[i] /\ p[n] = s[j]

(* Elements that list_unique drops: those equal to their predecessor.       *)
Repeats(s) == {i \in 2 .. Len(s) : Key[s[i]] = Key[s[i - 1]]}

Pick(s, keep) == SelectSeq([i \in 1 .. Len(s) |-> IF i \in keep THEN s[i] ELSE NULL],
                           LAMBDA e : e # NULL)

Init == heap = list_init(Lists, Elems) /\ seqs = [l \in Lists |-> <<>>]
-----------------------------------------------------------------------------
PushFront(l, e) ==
    /\ ~On(e)
    /\ heap' = list_push_front(heap, l, e)
    /\ seqs' = [seqs EXCEPT ![l] = <<e>> \o @]

PushBack(l, e) ==
    /\ ~On(e)
    /\ heap' = list_push_back(heap, l, e)
    /\ seqs' = [seqs EXCEPT ![l] = Append(@, e)]

InsertOrdered(l, e) ==
    /\ ~On(e)
    /\ Sorted(seqs[l])
    /\ heap' = list_insert_ordered(heap, l, e, Key)
    /\ seqs' = [seqs EXCEPT ![l] = StableSort(Append(@, e))]

PopFront(l) ==
    /\ seqs[l] # <<>>
    /\ heap' = list_pop_front(heap, l)
    /\ seqs' = [seqs EXCEPT ![l] = Tail(@)]

PopBack(l) ==
    /\ seqs[l] # <<>>
    /\ heap' = list_pop_back(heap, l)
    /\ seqs' = [seqs EXCEPT ![l] = Front(@)]

RemoveElem(l, e) ==
    /\ Contains(seqs[l], e)
    /\ heap' = list_remove(heap, e)
    /\ seqs' = [seqs EXCEPT ![l] = Remove(@, e)]

(* seqs[l][i] up to, not including, seqs[l][j] moves before the k-th        *)
(* element of m.                                                            *)
Splice(l, i, j, m, k) ==
    /\ l # m /\ i <= j
    /\ LET node(x, n) == IF n > Len(seqs[x]) THEN list_tail(x) ELSE seqs[x][n]
       IN  heap' = list_splice(heap, node(m, k), node(l, i), node(l, j))
    /\ seqs' = [seqs EXCEPT
                  ![l] = SubSeq(@, 1, i - 1) \o SubSeq(@, j, Len(@)),
                  ![m] = SubSeq(@, 1, k - 1) \o SubSeq(seqs[l], i, j - 1)
                           \o SubSeq(@, k, Len(@))]

ReverseList(l) ==
    /\ heap' = list_reverse(heap, l)
    /\ seqs' = [seqs EXCEPT ![l] = Reverse(@)]

Sort(l) ==
    /\ heap' = list_sort(heap, l, Key)
    /\ seqs' = [seqs EXCEPT ![l] = StableSort(@)]

Unique(l, m) ==
    /\ l # m
    /\ heap' = list_unique(heap, l, m, Key)
    /\ seqs' = [seqs EXCEPT
                  ![l] = Pick(@, DOMAIN @ \ Repeats(@)),
                  ![m] = @ \o Pick(seqs[l], Repeats(seqs[l]))]

Next ==
    \E l \in Lists :
      \/ \E e \in Elems :
           PushFront(l, e) \/ PushBack(l, e) \/ InsertOrdered(l, e) \/ RemoveElem(l, e)
      \/ PopFront(l) \/ PopBack(l) \/ ReverseList(l) \/ Sort(l)
      \/ \E m \in Lists :
           \/ Unique(l, m)
           \/ \E i, j \in 1 .. Len(seqs[l]) + 1, k \in 1 .. Len(seqs[m]) + 1 :
                Splice(l, i, j, m, k)

Spec == Init /\ [][Next]_vars
-----------------------------------------------------------------------------
(* list_max and list_min return the earliest of the largest and of the      *)
(* smallest elements, or the tail of an empty list.                         *)
Extremes(l) ==
    LET first(e, P(_)) ==
          IF seqs[l] = <<>> THEN e = list_tail(l)
          ELSE \E i \in DOMAIN seqs[l] :
                 /\ seqs[l][i] = e /\ P(i)
                 /\ \A j \in 1 .. i - 1 : ~P(j)
        largest(i)  == \A j \in DOMAIN seqs[l] : ~less(Key, seqs[l][i], seqs[l][j])
        smallest(i) == \A j \in DOMAIN seqs[l] : ~less(Key, seqs[l][j], seqs[l][i])
    IN  first(list_max(heap, l, Key), largest) /\ first(list_min(heap, l, Key), smallest)

(* The pointers of every list spell out, forwards and backwards, exactly    *)
(* the elements the calls so far put there, in the promised order, for      *)
(* every order of the calls and whatever stale pointers removed elements    *)
(* have kept; list_max and list_min find the extremes (list.c).             *)
ListsCorrect ==
    \A l \in Lists :
      /\ Forward(heap, l, Cardinality(Elems) + 1) = seqs[l]
      /\ Backward(heap, l, Cardinality(Elems) + 1) = Reverse(seqs[l])
      /\ Extremes(l)
=============================================================================
