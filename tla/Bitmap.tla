------------------------------- MODULE Bitmap -------------------------------
(***************************************************************************)
(* lib/kernel/bitmap.c: bits kept in words, under the free map and the     *)
(* page allocator.  The last word may have bits that belong to no index;   *)
(* malloc leaves anything in them.  One caller at a time: Alloc has the    *)
(* steps in which threads meet inside a scan.                              *)
(*                                                                         *)
(* Beside the words the specification keeps the set of indexes that are    *)
(* on, in memory and in the file that bitmap_write wrote.                  *)
(***************************************************************************)
EXTENDS Integers, FiniteSets

CONSTANTS BIT_CNT,        \* bitmap_size
          ELEM_BITS       \* bits of a word (32)

VARIABLES bits, on,       \* the words, and what they stand for
          file, saved     \* the same in the file

BITMAP_ERROR == -1

elem_idx(i) == i \div ELEM_BITS
bit_mask(i) == 2 ^ (i % ELEM_BITS)
elem_cnt == (BIT_CNT + ELEM_BITS - 1) \div ELEM_BITS
last_mask == IF BIT_CNT % ELEM_BITS = 0 THEN 2 ^ ELEM_BITS - 1
             ELSE 2 ^ (BIT_CNT % ELEM_BITS) - 1

Contents == [0 .. elem_cnt - 1 -> 0 .. 2 ^ ELEM_BITS - 1]

bitmap_test(b, i) == (b[elem_idx(i)] \div bit_mask(i)) % 2 = 1

bitmap_mark(b, i) ==
    IF bitmap_test(b, i) THEN b ELSE [b EXCEPT ![elem_idx(i)] = @ + bit_mask(i)]
bitmap_reset(b, i) ==
    IF bitmap_test(b, i) THEN [b EXCEPT ![elem_idx(i)] = @ - bit_mask(i)] ELSE b
bitmap_flip(b, i) ==
    IF bitmap_test(b, i) THEN bitmap_reset(b, i) ELSE bitmap_mark(b, i)

bitmap_set(b, i, value) == IF value THEN bitmap_mark(b, i) ELSE bitmap_reset(b, i)

RECURSIVE bitmap_set_multiple(_, _, _, _)
bitmap_set_multiple(b, start, cnt, value) ==
    IF cnt = 0 THEN b
    ELSE bitmap_set_multiple(bitmap_set(b, start, value), start + 1, cnt - 1, value)

bitmap_count(b, start, cnt, value) ==
    Cardinality({i \in start .. start + cnt - 1 : bitmap_test(b, i) = value})

bitmap_contains(b, start, cnt, value) ==
    \E i \in start .. start + cnt - 1 : bitmap_test(b, i) = value

(* The loop of bitmap_scan from i on.                                       *)
RECURSIVE ScanFrom(_, _, _, _)
ScanFrom(b, i, cnt, value) ==
    IF i > BIT_CNT - cnt THEN BITMAP_ERROR
    ELSE IF ~bitmap_contains(b, i, cnt, ~value) THEN i
    ELSE ScanFrom(b, i + 1, cnt, value)

(* Mutant: skips the last place.                                            *)
ScanButLast(b, start, cnt, value) ==
    IF ScanFrom(b, start, cnt, value) = BIT_CNT - cnt THEN BITMAP_ERROR
    ELSE ScanFrom(b, start, cnt, value)

bitmap_scan(b, start, cnt, value) ==
    IF cnt <= BIT_CNT THEN ScanFrom(b, start, cnt, value) ELSE BITMAP_ERROR
-----------------------------------------------------------------------------
(* bitmap_create, in memory that held anything.  No file was written yet.   *)
BInit ==
    /\ \E b \in Contents : bits = bitmap_set_multiple(b, 0, BIT_CNT, FALSE)
    /\ on = {}
    /\ file \in Contents
    /\ saved = {i \in 0 .. BIT_CNT - 1 : bitmap_test(file, i)}

Span(start, cnt) == start .. start + cnt - 1

Set(start, cnt, value) ==
    /\ bits' = bitmap_set_multiple(bits, start, cnt, value)
    /\ on' = IF value THEN on \cup Span(start, cnt) ELSE on \ Span(start, cnt)
    /\ UNCHANGED <<file, saved>>

Flip(i) ==
    /\ bits' = bitmap_flip(bits, i)
    /\ on' = IF i \in on THEN on \ {i} ELSE on \cup {i}
    /\ UNCHANGED <<file, saved>>

bitmap_scan_and_flip(start, cnt, value) ==
    LET i == bitmap_scan(bits, start, cnt, value)
    IN  /\ i # BITMAP_ERROR
        /\ Set(i, cnt, ~value)

bitmap_write == /\ file' = bits /\ saved' = on
                /\ UNCHANGED <<bits, on>>

bitmap_read ==
    /\ bits' = [file EXCEPT ![elem_cnt - 1] = @ % (last_mask + 1)]
    /\ on' = saved
    /\ UNCHANGED <<file, saved>>

BNext ==
    \/ bitmap_write \/ bitmap_read
    \/ \E i \in 0 .. BIT_CNT - 1 : Flip(i)
    \/ \E start \in 0 .. BIT_CNT, cnt \in 0 .. BIT_CNT, value \in BOOLEAN :
         \/ start + cnt <= BIT_CNT /\ Set(start, cnt, value)
         \/ bitmap_scan_and_flip(start, cnt, value)
-----------------------------------------------------------------------------
(* The places where cnt bits in a row from start on have a value.           *)
Places(start, cnt, value) ==
    {i \in start .. BIT_CNT - cnt : \A j \in Span(i, cnt) : (j \in on) = value}

(* The words stand for the bits set, whatever is in the unused bits of the  *)
(* last one: each index tests right, bitmap_count counts within its span,   *)
(* and bitmap_scan finds the first group that is there, up to the very end, *)
(* and none otherwise.                                                      *)
BitmapCorrect ==
    /\ \A i \in 0 .. BIT_CNT - 1 : bitmap_test(bits, i) = (i \in on)
    /\ \A start, cnt \in 0 .. BIT_CNT, value \in BOOLEAN :
         /\ start + cnt <= BIT_CNT =>
              bitmap_count(bits, start, cnt, value)
                = Cardinality({i \in Span(start, cnt) : (i \in on) = value})
         /\ LET i == bitmap_scan(bits, start, cnt, value)
                places == Places(start, cnt, value)
            IN  IF places = {} THEN i = BITMAP_ERROR
                ELSE i \in places /\ \A p \in places : i <= p
=============================================================================
