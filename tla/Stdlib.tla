------------------------------- MODULE Stdlib -------------------------------
(***************************************************************************)
(* Pure algorithms of the library: heap sort and binary search of          *)
(* lib/stdlib.c, 64-bit division of lib/arithmetic.c, and the parts of     *)
(* lib/string.c that write to memory or keep a position.                   *)
(*                                                                         *)
(* An array is a sequence of keys.  Memory is a sequence of characters,    *)
(* a pointer an index into it, and 0 the null character.  A word has W     *)
(* bits where the code has 32.                                             *)
(*                                                                         *)
(* Only TLC evaluates this module: its loops are RECURSIVE operators.      *)
(***************************************************************************)
EXTENDS Integers, SequencesExt

CONSTANT W
ASSUME WordAssumption == W \in Nat \ {0}

-----------------------------------------------------------------------------
do_swap(a, i, j) == [a EXCEPT ![i] = a[j], ![j] = a[i]]

Larger(a, i, j, cnt) == IF i <= cnt /\ a[i] > a[j] THEN i ELSE j

RECURSIVE heapify(_, _, _)
heapify(a, i, cnt) ==
    LET max == Larger(a, 2 * i + 1, Larger(a, 2 * i, i, cnt), cnt)
    IN  IF max = i THEN a ELSE heapify(do_swap(a, i, max), max, cnt)

RECURSIVE BuildHeap(_, _)
BuildHeap(a, i) == IF i = 0 THEN a ELSE BuildHeap(heapify(a, i, Len(a)), i - 1)

RECURSIVE SortHeapKeepsCount(_, _)
SortHeapKeepsCount(a, i) ==
    IF i <= 1 THEN a ELSE SortHeapKeepsCount(heapify(do_swap(a, 1, i), 1, i), i - 1)

RECURSIVE SortHeap(_, _)
SortHeap(a, i) == IF i <= 1 THEN a ELSE SortHeap(heapify(do_swap(a, 1, i), 1, i - 1), i - 1)

sort(a) == SortHeap(BuildHeap(a, Len(a) \div 2), Len(a))

(* The index of key in a between first and before last, or 0.               *)
RECURSIVE binary_search(_, _, _, _)
binary_search(key, a, first, last) ==
    LET middle == first + (last - first) \div 2
    IN  IF first >= last THEN 0
        ELSE IF key < a[middle] THEN binary_search(key, a, first, middle)
        ELSE IF key > a[middle] THEN binary_search(key, a, middle + 1, last)
        ELSE middle
-----------------------------------------------------------------------------
Word == 2 ^ W
Long == 2 ^ (2 * W)

TRAP == -1

(* The instruction traps on a quotient that does not fit in a word.         *)
divl(n, d) == IF n \div d < Word THEN n \div d ELSE TRAP

nlz(x) == CHOOSE n \in 0 .. W : x * 2 ^ n < Word /\ x * 2 ^ (n + 1) >= Word

(* Mutant: no correction of the estimate.                                   *)
EstimateOnly(n, d) ==
    IF d < Word THEN LET q == divl((Word * ((n \div Word) % d)) + (n % Word), d)
                     IN  q + Word * ((n \div Word) \div d)
    ELSE IF n < d THEN 0
    ELSE LET s == nlz(d \div Word)
         IN  divl(n \div 2, ((d * 2 ^ s) % Long) \div Word) \div 2 ^ (W - 1 - s)

udiv64(n, d) ==
    IF d < Word THEN LET q == divl((Word * ((n \div Word) % d)) + (n % Word), d)
                     IN  IF q = TRAP THEN TRAP ELSE q + Word * ((n \div Word) \div d)
    ELSE IF n < d THEN 0
    ELSE LET s == nlz(d \div Word)
             e == divl(n \div 2, ((d * 2 ^ s) % Long) \div Word)
             q == e \div 2 ^ (W - 1 - s)
         IN  IF e = TRAP THEN TRAP
             ELSE IF (n - (q - 1) * d) % Long < d THEN (q - 1) % Long ELSE q

(* The remainder is returned as one word.                                   *)
umod64(n, d) == ((n - d * udiv64(n, d)) % Long) % Word

Signed(x) == IF x < Long \div 2 THEN x ELSE x - Long
Magnitude(x) == IF x >= 0 THEN x ELSE (-x) % Long

(* The negation of -2^63 wraps: gcc leaves it to the neg instruction.       *)
sdiv64(n, d) ==
    LET q == udiv64(Magnitude(n), Magnitude(d))
    IN  IF (n < 0) = (d < 0) THEN Signed(q) ELSE Signed((-q) % Long)
-----------------------------------------------------------------------------
At(mem, p, c) == [mem EXCEPT ![p] = c]

RECURSIVE strlen(_, _)
strlen(mem, p) == IF mem[p] = 0 THEN 0 ELSE 1 + strlen(mem, p + 1)

String(mem, p) == SubSeq(mem, p, p + strlen(mem, p) - 1)

RECURSIVE memcpy(_, _, _, _)
memcpy(mem, dst, src, size) ==
    IF size = 0 THEN mem ELSE memcpy(At(mem, dst, mem[src]), dst + 1, src + 1, size - 1)

RECURSIVE CopyDown(_, _, _, _)
CopyDown(mem, dst, src, size) ==
    IF size = 0 THEN mem
    ELSE CopyDown(At(mem, dst + size - 1, mem[src + size - 1]), dst, src, size - 1)

(* Downwards unless dst < src; ret is where the copying left dst.           *)
memmove(mem, dst, src, size) ==
    IF dst < src THEN [mem |-> memcpy(mem, dst, src, size), ret |-> dst + size]
    ELSE [mem |-> CopyDown(mem, dst, src, size), ret |-> dst]

Least(a, b) == IF a < b THEN a ELSE b

(* Mutant: the terminator past the end of a full buffer.                    *)
CopyPastEnd(mem, dst, src, size) ==
    LET n == Least(strlen(mem, src), size)
    IN  [mem |-> IF size = 0 THEN mem ELSE At(memcpy(mem, dst, src, n), dst + n, 0),
         ret |-> strlen(mem, src)]

strlcpy(mem, dst, src, size) ==
    LET n == Least(strlen(mem, src), size - 1)
    IN  [mem |-> IF size = 0 THEN mem ELSE At(memcpy(mem, dst, src, n), dst + n, 0),
         ret |-> strlen(mem, src)]

strlcat(mem, dst, src, size) ==
    LET at == strlen(mem, dst)
        n == Least(strlen(mem, src), size - at - 1)
    IN  [mem |-> IF size = 0 \/ at >= size THEN mem
                 ELSE At(memcpy(mem, dst + at, src, n), dst + at + n, 0),
         ret |-> at + strlen(mem, src)]

Sign(x, y) == IF x < y THEN -1 ELSE IF x > y THEN 1 ELSE 0

RECURSIVE memcmp(_, _, _, _)
memcmp(mem, a, b, size) ==
    IF size = 0 THEN 0
    ELSE IF mem[a] # mem[b] THEN Sign(mem[a], mem[b])
    ELSE memcmp(mem, a + 1, b + 1, size - 1)

RECURSIVE strcmp(_, _, _)
strcmp(mem, a, b) ==
    IF mem[a] # 0 /\ mem[a] = mem[b] THEN strcmp(mem, a + 1, b + 1)
    ELSE Sign(mem[a], mem[b])

(* The loop of strstr from haystack + i on; 0 is a null pointer.            *)
RECURSIVE FindFrom(_, _, _, _)
FindFrom(mem, haystack, needle, i) ==
    IF i + strlen(mem, needle) > strlen(mem, haystack) THEN 0
    ELSE IF memcmp(mem, haystack + i, needle, strlen(mem, needle)) = 0 THEN haystack + i
    ELSE FindFrom(mem, haystack, needle, i + 1)

strstr(mem, haystack, needle) == FindFrom(mem, haystack, needle, 0)

RECURSIVE strspn(_, _, _)
strspn(mem, p, skip) == IF mem[p] \in skip THEN 1 + strspn(mem, p + 1, skip) ELSE 0

RECURSIVE strcspn(_, _, _)
strcspn(mem, p, stop) ==
    IF mem[p] = 0 \/ mem[p] \in stop THEN 0 ELSE 1 + strcspn(mem, p + 1, stop)

(* One call, from s: the memory after it, the token or 0, and save_ptr.     *)
strtok_r(mem, s, delimiters) ==
    LET token == s + strspn(mem, s, delimiters)
        end == token + strcspn(mem, token, delimiters)
    IN  IF mem[token] = 0 THEN [mem |-> mem, token |-> 0, save |-> token]
        ELSE IF mem[end] = 0 THEN [mem |-> mem, token |-> token, save |-> end]
        ELSE [mem |-> At(mem, end, 0), token |-> token, save |-> end + 1]

(* The strings that calls one after the other return.                       *)
RECURSIVE Tokens(_, _, _)
Tokens(mem, s, delimiters) ==
    LET r == strtok_r(mem, s, delimiters)
    IN  IF r.token = 0 THEN <<>>
        ELSE <<String(r.mem, r.token)>> \o Tokens(r.mem, r.save, delimiters)
=============================================================================
