-------------------------------- MODULE Lib ---------------------------------
(***************************************************************************)
(* The kernel's library: lists (ListOps), the hash table (HashTable),      *)
(* bitmaps (Bitmap) and pure functions (Stdlib), each alone.  bench says   *)
(* which one is in use; a pure function is called with every argument      *)
(* within the bounds.                                                      *)
(***************************************************************************)
EXTENDS ListOps, Stdlib

CONSTANTS Items, ItemKey, Hash, MIN_BUCKETS, BEST,
          BIT_CNT, ELEM_BITS,
          MAX_ARRAY,      \* elements of a sorted array
          MAX_KEY,        \* their keys: 1 .. MAX_KEY
          MEM             \* characters of memory

ASSUME LibAssumption ==
    /\ BEST \in Nat \ {0}
    /\ \E k \in 0 .. MIN_BUCKETS : MIN_BUCKETS = 2 ^ k
    /\ \A a, b \in Items : ItemKey[a] = ItemKey[b] => Hash[a] = Hash[b]

VARIABLES table, held, bits, on, file, saved, bench,
          call            \* the pure function's argument

H == INSTANCE HashTable WITH Key <- ItemKey
B == INSTANCE Bitmap

hashVars == <<table, held>>
bitmapVars == <<bits, on, file, saved>>
libvars == <<vars, hashVars, bitmapVars, bench, call>>

(* Character 1 is the delimiter, 2 stands for the others.                   *)
Chars == 0 .. 2
DELIMITER == 1

Arrays == UNION {[1 .. n -> 1 .. MAX_KEY] : n \in 0 .. MAX_ARRAY}
Memories == {m \in [1 .. MEM -> Chars] : m[MEM] = 0}

Calls ==
    [array : Arrays]
      \cup [n : 0 .. Long - 1, d : 1 .. Long - 1]
      \cup [mem : Memories]

None == [none |-> 0]

LibInit ==
    /\ Init /\ H!HInit /\ B!BInit
    /\ bench \in {"lists", "hash", "bitmap", "pure"}
    /\ bench # "bitmap" => file = bits /\ \A i \in DOMAIN bits : bits[i] = 0
    /\ call = None

Call == bench = "pure" /\ call = None /\ call' \in Calls
Return == call # None /\ call' = None

LibNext ==
    \/ bench = "lists" /\ Next /\ UNCHANGED <<hashVars, bitmapVars, bench, call>>
    \/ bench = "hash" /\ H!HNext /\ UNCHANGED <<vars, bitmapVars, bench, call>>
    \/ bench = "bitmap" /\ B!BNext /\ UNCHANGED <<vars, hashVars, bench, call>>
    \/ (Call \/ Return) /\ UNCHANGED <<vars, hashVars, bitmapVars, bench>>

LibSpec == LibInit /\ [][LibNext]_libvars

Is(field) == field \in DOMAIN call
-----------------------------------------------------------------------------
(* Any sequence of hash_insert, hash_replace, hash_delete and hash_clear,   *)
(* with malloc failing in any rehash, leaves the table with exactly the     *)
(* elements put there and not taken out, each once.                         *)
TableCorrect == bench = "hash" => H!HashCorrect

(* Bits set, flipped, scanned for, saved and loaded in any order are those  *)
(* of the set they stand for, whatever the last word holds past the end.    *)
BitsCorrect == bench = "bitmap" => B!BitmapCorrect

Permutation(s, t) == \A x \in ToSet(s) \cup ToSet(t) :
    Cardinality({i \in DOMAIN s : s[i] = x}) = Cardinality({i \in DOMAIN t : t[i] = x})

(* sort puts an array in order and keeps its elements, and binary_search    *)
(* finds a key of the sorted array exactly if it is there (stdlib.c).       *)
SortCorrect ==
    Is("array") =>
      LET a == sort(call.array)
      IN  /\ Permutation(a, call.array)
          /\ \A i \in 1 .. Len(a) - 1 : a[i] <= a[i + 1]
          /\ \A key \in 0 .. MAX_KEY + 1 :
               LET i == binary_search(key, a, 1, Len(a) + 1)
               IN  IF i = 0 THEN ~Contains(a, key) ELSE a[i] = key

(* For all n and d the divl instruction does not trap and udiv64, which     *)
(* estimates the quotient from one word of d, returns it exactly; umod64    *)
(* returns the low word of the remainder, sdiv64 the quotient rounded       *)
(* towards 0 (arithmetic.c).  -2^63 / -1 has no quotient in the type.       *)
DivisionCorrect ==
    Is("n") =>
      LET n == call.n
          d == call.d
          toward0(x, y) == IF (x < 0) = (y < 0) THEN Magnitude(x) \div Magnitude(y)
                           ELSE -(Magnitude(x) \div Magnitude(y))
      IN  /\ udiv64(n, d) = n \div d
          /\ umod64(n, d) = (n % d) % Word
          /\ \/ Signed(n) = -(Long \div 2) /\ Signed(d) = -1
             \/ sdiv64(Signed(n), Signed(d)) = toward0(Signed(n), Signed(d))

(* Memory outside 1 .. size is as before.                                   *)
Within(m, size) == \A i \in size + 1 .. MEM : m[i] = call.mem[i]

Prefix(s, n) == SubSeq(s, 1, IF Len(s) < n THEN Len(s) ELSE n)

CopiesCorrect ==
    \A size \in 0 .. MEM \div 2 :
      LET src == MEM \div 2 + 1
          from == String(call.mem, src)
          to == String(call.mem, 1)
          cpy == strlcpy(call.mem, 1, src, size)
          cat == strlcat(call.mem, 1, src, size)
      IN  /\ Within(cpy.mem, size) /\ Within(cat.mem, size)
          /\ cpy.ret = Len(from) /\ cat.ret = Len(to \o from)
          /\ size > 0 => String(cpy.mem, 1) = Prefix(from, size - 1)
          /\ String(cat.mem, 1) = IF Len(to) < size THEN Prefix(to \o from, size - 1) ELSE to

MovesCorrect ==
    \A dst, src \in 1 .. MEM, size \in 0 .. MEM :
      dst + size - 1 <= MEM /\ src + size - 1 <= MEM =>
        memmove(call.mem, dst, src, size).mem
          = [i \in 1 .. MEM |-> IF i \in dst .. dst + size - 1
                                THEN call.mem[src + i - dst] ELSE call.mem[i]]

Smaller(s, t) ==
    \E k \in 0 .. Len(s) :
      /\ k < Len(t) /\ SubSeq(t, 1, k) = SubSeq(s, 1, k)
      /\ k = Len(s) \/ s[k + 1] < t[k + 1]

ComparesCorrect ==
    LET a == String(call.mem, 1)
        b == String(call.mem, MEM \div 2 + 1)
        at == {i \in 1 .. Len(a) - Len(b) + 1 : SubSeq(a, i, i + Len(b) - 1) = b}
        found == strstr(call.mem, 1, MEM \div 2 + 1)
    IN  /\ strcmp(call.mem, 1, MEM \div 2 + 1)
             = IF Smaller(a, b) THEN -1 ELSE IF Smaller(b, a) THEN 1 ELSE 0
        /\ IF at = {} THEN found = 0 ELSE found \in at /\ \A i \in at : found <= i

(* The words of a string: maximal runs of other characters, left to right.  *)
Words(s) ==
    LET in(i) == i \in DOMAIN s /\ s[i] # DELIMITER
        starts == {i \in DOMAIN s : in(i) /\ ~in(i - 1)}
        end(i) == CHOOSE j \in i .. Len(s) : ~in(j + 1) /\ \A k \in i .. j : in(k)
    IN  LET firsts == SetToSortSeq(starts, <)
        IN  [k \in DOMAIN firsts |-> SubSeq(s, firsts[k], end(firsts[k]))]

(* For every content of memory: strlcpy and strlcat write only within size, *)
(* leave the longest string that fits and return the length asked for;      *)
(* memmove copies overlapping blocks in either direction; strcmp orders     *)
(* strings, strstr finds the first occurrence; and calls of strtok_r return *)
(* the words of the string one after the other, although each call writes   *)
(* over the delimiter that the next starts from (string.c).                 *)
StringsCorrect ==
    Is("mem") =>
      /\ CopiesCorrect
      /\ MovesCorrect
      /\ ComparesCorrect
      /\ Tokens(call.mem, 1, {DELIMITER}) = Words(String(call.mem, 1))
=============================================================================
