----------------------------- MODULE HashTable ------------------------------
(***************************************************************************)
(* The chained hash table of lib/kernel/hash.c, under the frame, page and  *)
(* swap tables.  A bucket is the sequence of its elements: List and        *)
(* ListOps are about the lists themselves.  malloc may fail in rehash.     *)
(*                                                                         *)
(* Beside the table the specification keeps the set of elements that its   *)
(* callers put there.                                                      *)
(***************************************************************************)
EXTENDS Integers, FiniteSets, SequencesExt

CONSTANTS
    Items,
    Key,            \* element |-> what less compares
    Hash,           \* element |-> its hash value; equal keys have equal values
    MIN_BUCKETS,    \* the smallest number of buckets, a power of 2 (4)
    BEST            \* BEST_ELEMS_PER_BUCKET (2)

VARIABLES table,    \* bucket_cnt, elem_cnt and the buckets
          held      \* the elements that are to be in it

(* hash & (bucket_cnt - 1), which is a remainder for a power of 2.          *)
find_bucket(h, e) == 1 + (Hash[e] % h.bucket_cnt)

find_elem(h, b, e) == {i \in DOMAIN h.buckets[b] : Key[h.buckets[b][i]] = Key[e]}

(* The first element equal to e in its bucket: hash_find.  Empty if none.   *)
Found(h, e) ==
    LET b == find_bucket(h, e)
        at == find_elem(h, b, e)
    IN  {h.buckets[b][i] : i \in {i \in at : \A j \in at : i <= j}}

hash_init == [bucket_cnt |-> MIN_BUCKETS, elem_cnt |-> 0,
              buckets |-> [b \in 1 .. MIN_BUCKETS |-> <<>>]]
hash_clear(h) == [h EXCEPT !.elem_cnt = 0, !.buckets = [b \in DOMAIN @ |-> <<>>]]

insert_elem(h, b, e) == [h EXCEPT !.elem_cnt = @ + 1, !.buckets[b] = <<e>> \o @]
remove_elem(h, e) == [h EXCEPT !.elem_cnt = @ - 1,
                               !.buckets = [b \in DOMAIN @ |-> Remove(@[b], e)]]

is_power_of_2(x) == \E k \in 0 .. x : x = 2 ^ k

(* Turning off low bits until one is left: the largest power of 2 below.    *)
new_bucket_cnt(h) ==
    LET n == h.elem_cnt \div BEST
        m == IF n < MIN_BUCKETS THEN MIN_BUCKETS ELSE n
    IN  CHOOSE x \in 1 .. m : is_power_of_2(x) /\ 2 * x > m

(* Mutant: buckets by the old number.                                       *)
RehashedByOld(h, cnt) ==
    LET fresh == [bucket_cnt |-> cnt, elem_cnt |-> h.elem_cnt,
                  buckets |-> [b \in 1 .. cnt |-> <<>>]]
        Move(g, e) == [g EXCEPT !.buckets[1 + ((Hash[e] % h.bucket_cnt) % cnt)] = <<e>> \o @]
    IN  FoldLeft(Move, fresh, FlattenSeq(h.buckets))

(* Every element of the old buckets, in order, to the front of its new one. *)
Rehashed(h, cnt) ==
    LET fresh == [bucket_cnt |-> cnt, elem_cnt |-> h.elem_cnt,
                  buckets |-> [b \in 1 .. cnt |-> <<>>]]
        Move(g, e) == [g EXCEPT !.buckets[find_bucket(fresh, e)] = <<e>> \o @]
    IN  FoldLeft(Move, fresh, FlattenSeq(h.buckets))

(* memory: whether malloc has memory for other buckets.                     *)
rehash(h, memory) ==
    IF new_bucket_cnt(h) = h.bucket_cnt \/ ~memory THEN h
    ELSE Rehashed(h, new_bucket_cnt(h))

HInit == table = hash_init /\ held = {}

Equal(e) == {x \in held : Key[x] = Key[e]}

hash_insert(e, memory) ==
    /\ e \notin held
    /\ table' = rehash(IF Found(table, e) = {} THEN insert_elem(table, find_bucket(table, e), e)
                       ELSE table, memory)
    /\ held' = IF Equal(e) = {} THEN held \cup {e} ELSE held

hash_replace(e, memory) ==
    /\ e \notin held
    /\ LET old == Found(table, e)
           h == IF old = {} THEN table ELSE remove_elem(table, CHOOSE x \in old : TRUE)
       IN  table' = rehash(insert_elem(h, find_bucket(table, e), e), memory)
    /\ held' = (held \ Equal(e)) \cup {e}

hash_delete(e, memory) ==
    /\ Found(table, e) # {}
    /\ table' = rehash(remove_elem(table, CHOOSE x \in Found(table, e) : TRUE), memory)
    /\ held' = held \ Equal(e)

Clear == table' = hash_clear(table) /\ held' = {}

HNext ==
    \/ Clear
    \/ \E e \in Items, memory \in BOOLEAN :
         hash_insert(e, memory) \/ hash_replace(e, memory) \/ hash_delete(e, memory)
-----------------------------------------------------------------------------
(* What calls of hash_next return, from the i-th element of bucket b on.    *)
RECURSIVE hash_next(_, _, _)
hash_next(h, b, i) ==
    IF i <= Len(h.buckets[b]) THEN <<h.buckets[b][i]>> \o hash_next(h, b, i + 1)
    ELSE IF b = h.bucket_cnt THEN <<>>
    ELSE hash_next(h, b + 1, 1)

hash_first(h) == hash_next(h, 1, 1)

(* The table holds what its callers put there and did not take out, each    *)
(* element once, whatever rehashing did and wherever malloc failed in it:   *)
(* hash_find finds it, an iteration meets it, and elem_cnt counts it        *)
(* (hash_insert, hash_replace, hash_delete, rehash).                        *)
HashCorrect ==
    /\ is_power_of_2(table.bucket_cnt)
    /\ table.elem_cnt = Cardinality(held)
    /\ \A e \in Items : Found(table, e) = Equal(e)
    /\ IsInjective(hash_first(table)) /\ ToSet(hash_first(table)) = held
=============================================================================
