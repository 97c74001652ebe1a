------------------------------- MODULE Alloc --------------------------------
(***************************************************************************)
(* Memory for the kernel: the page allocator (threads/palloc.c) on the     *)
(* bitmaps of its two pools (lib/kernel/bitmap.c), and the block allocator *)
(* on top of it (threads/malloc.c).                                        *)
(*                                                                         *)
(* Threads can be preempted anywhere.  A step is what runs between two     *)
(* places where that matters: taking a lock, testing one group of bits,    *)
(* setting them, clearing one bit.  palloc_free_multiple clears bits       *)
(* without the pool's lock.  What blocks contain is left out.              *)
(***************************************************************************)
EXTENDS Integers, FiniteSets, Sequences

CONSTANTS
    Threads,
    Sizes,          \* sizes asked of malloc
    FREE_PAGES,     \* pages of memory behind the kernel
    USER_LIMIT,     \* user_page_limit
    PGSIZE,         \* bytes in a page (4096)
    HEADER,         \* sizeof (struct arena) (12)
    MIN_BLOCK,      \* block_size of the first descriptor (16)
    WORD,           \* pages that a page of bitmap has bits for
    NOBODY

ASSUME AllocAssumption ==
    /\ Sizes \subseteq Nat \ {0} /\ FREE_PAGES \in Nat /\ USER_LIMIT \in Nat
    /\ \A c \in {PGSIZE, HEADER, MIN_BLOCK, WORD} : c \in Nat \ {0}
    /\ 2 * HEADER <= PGSIZE
    /\ NOBODY \notin Threads

VARIABLES used,         \* pages that are marked in the used_map of their pool
          arena,        \* the header at the start of a page, if there is one
          free_list,    \* of each descriptor
          pool_lock,    \* holder of the lock of each pool
          lock,         \* holder of the lock of each descriptor
          blocks,       \* blocks that callers of malloc have
          pages,        \* groups of user pages that callers have
          th,           \* where each thread is
          panicked      \* a failed ASSERT

vars == <<used, arena, free_list, pool_lock, lock, blocks, pages, th, panicked>>

div_round_up(x, step) == (x + step - 1) \div step
Lesser(a, b) == IF a < b THEN a ELSE b

(* palloc_init and init_pool: half of the pages for users, up to a limit,   *)
(* and the first pages of a pool for its bitmap.                            *)
user_pages == Lesser(FREE_PAGES \div 2, USER_LIMIT)
kernel_pages == FREE_PAGES - user_pages

init_pool(base, page_cnt) ==
    LET bm_pages == div_round_up(page_cnt, WORD)
    IN  [base |-> base + bm_pages, cnt |-> page_cnt - bm_pages]

Pool == [kernel |-> init_pool(0, kernel_pages), user |-> init_pool(kernel_pages, user_pages)]
Pools == {"kernel", "user"}

page_from_pool(pool, page) ==
    page >= Pool[pool].base /\ page < Pool[pool].base + Pool[pool].cnt

(* malloc_init: a descriptor for each block size below half a page.         *)
Descs == {d \in MIN_BLOCK .. PGSIZE : /\ 2 * d < PGSIZE
                                      /\ \E k \in 0 .. PGSIZE : d = MIN_BLOCK * 2 ^ k}
blocks_per_arena(d) == (PGSIZE - HEADER) \div d

Fitting(size) == {d \in Descs : d >= size}
Smallest(S) == CHOOSE d \in S : \A x \in S : d <= x

NONE == -1
NoArena == [desc |-> NONE, free_cnt |-> 0]
Idle == [pc |-> "idle", desc |-> NONE, pool |-> "kernel", cnt |-> 0, idx |-> 0,
         page |-> NONE, ret |-> "none", block |-> <<>>, old |-> <<>>]

Init ==
    /\ used = {}
    /\ arena = [p \in 0 .. FREE_PAGES - 1 |-> NoArena]
    /\ free_list = [d \in Descs |-> <<>>]
    /\ pool_lock = [p \in Pools |-> NOBODY]
    /\ lock = [d \in Descs |-> NOBODY]
    /\ blocks = {}
    /\ pages = {}
    /\ th = [t \in Threads |-> Idle]
    /\ panicked = FALSE

Goto(t, r) == th' = [th EXCEPT ![t] = r]
-----------------------------------------------------------------------------
(* palloc_get_multiple, called from malloc or for user pages, which goes on *)
(* at ret with page, or NONE.                                               *)
Get(t, r, pool, cnt, ret) == Goto(t, [r EXCEPT !.pc = "get", !.pool = pool, !.cnt = cnt,
                                               !.idx = 0, !.page = NONE, !.ret = ret])

(* Mutant: the pool is not locked.                                          *)
GetUnlocked(t) ==
    /\ th[t].pc = "get"
    /\ Goto(t, [th[t] EXCEPT !.pc = "scan"])
    /\ UNCHANGED <<used, arena, free_list, pool_lock, lock, blocks, pages, panicked>>

GetLock(t) ==
    /\ th[t].pc = "get"
    /\ pool_lock[th[t].pool] = NOBODY
    /\ pool_lock' = [pool_lock EXCEPT ![th[t].pool] = t]
    /\ Goto(t, [th[t] EXCEPT !.pc = "scan"])
    /\ UNCHANGED <<used, arena, free_list, lock, blocks, pages, panicked>>

Group(page, cnt) == page .. page + cnt - 1

(* bitmap_scan: one group of bits, or the end of the map.                   *)
Scan(t) ==
    LET r == th[t]
        page == Pool[r.pool].base + r.idx
    IN  /\ r.pc = "scan"
        /\ IF r.idx + r.cnt > Pool[r.pool].cnt
           THEN /\ Goto(t, [r EXCEPT !.pc = r.ret, !.ret = "none", !.idx = 0])
                /\ pool_lock' = [pool_lock EXCEPT ![r.pool] = NOBODY]
           ELSE /\ Goto(t, IF Group(page, r.cnt) \cap used = {}
                           THEN [r EXCEPT !.pc = "flip", !.page = page, !.idx = 0]
                           ELSE [r EXCEPT !.idx = @ + 1])
                /\ UNCHANGED pool_lock
        /\ UNCHANGED <<used, arena, free_list, lock, blocks, pages, panicked>>

Flip(t) ==
    /\ th[t].pc = "flip"
    /\ used' = used \cup Group(th[t].page, th[t].cnt)
    /\ pool_lock' = [pool_lock EXCEPT ![th[t].pool] = NOBODY]
    /\ Goto(t, [th[t] EXCEPT !.pc = th[t].ret, !.ret = "none"])
    /\ UNCHANGED <<arena, free_list, lock, blocks, pages, panicked>>

(* palloc_free_multiple, past its ASSERT: the bits one by one.  A thread    *)
(* that frees an arena has the descriptor's lock until then.                *)
Reset(t) ==
    LET r == th[t]
    IN  /\ r.pc = "reset"
        /\ used' = used \ {r.page}
        /\ Goto(t, IF r.cnt > 1 THEN [r EXCEPT !.page = @ + 1, !.cnt = @ - 1] ELSE Idle)
        /\ lock' = IF r.cnt = 1 /\ r.desc # NONE THEN [lock EXCEPT ![r.desc] = NOBODY] ELSE lock
        /\ UNCHANGED <<pool_lock, arena, free_list, blocks, pages, panicked>>

(* The caller's own ASSERT, and those of palloc_free_multiple.              *)
StartReset(t, r, page, cnt, asserted) ==
    /\ Goto(t, [r EXCEPT !.pc = "reset", !.page = page, !.cnt = cnt, !.block = <<>>])
    /\ panicked' = ~(/\ asserted
                     /\ \E pool \in Pools : page_from_pool(pool, page)
                     /\ Group(page, cnt) \subseteq used)
-----------------------------------------------------------------------------
(* User pages, as processes get and free them.                              *)
GetUser(t) ==
    /\ th[t].pc = "idle"
    /\ Get(t, Idle, "user", 1, "user")
    /\ UNCHANGED <<pool_lock, used, arena, free_list, lock, blocks, pages, panicked>>

GotUser(t) ==
    /\ th[t].pc = "user"
    /\ pages' = pages \cup ({th[t].page} \ {NONE})
    /\ Goto(t, Idle)
    /\ UNCHANGED <<pool_lock, used, arena, free_list, lock, blocks, panicked>>

FreeUser(t) ==
    \E p \in pages :
      /\ th[t].pc = "idle"
      /\ pages' = pages \ {p}
      /\ StartReset(t, Idle, p, 1, TRUE)
      /\ UNCHANGED <<pool_lock, used, arena, free_list, lock, blocks>>
-----------------------------------------------------------------------------
(* malloc; old is the block that realloc frees once it has a new one.       *)
malloc(t, size, old) ==
    LET r == [Idle EXCEPT !.old = old]
    IN  /\ IF Fitting(size) # {}
           THEN Goto(t, [r EXCEPT !.pc = "malloc", !.desc = Smallest(Fitting(size))])
           ELSE Get(t, r, "kernel", div_round_up(size + HEADER, PGSIZE), "big")
        /\ UNCHANGED <<pool_lock, used, arena, free_list, lock, pages, panicked>>

Malloc(t, size) == th[t].pc = "idle" /\ malloc(t, size, <<>>) /\ UNCHANGED blocks

(* The caller's block is its own until the copy is made.                    *)
Realloc(t, size) ==
    \E b \in blocks : /\ th[t].pc = "idle"
                      /\ malloc(t, size, b)
                      /\ blocks' = blocks \ {b}

(* The call returns block b, or <<>>; realloc then frees the old block, or  *)
(* leaves it to its caller.                                                 *)
Return(t, b) ==
    LET old == th[t].old
    IN  /\ blocks' = blocks \cup ((IF b = <<>> THEN {old} ELSE {b}) \ {<<>>})
        /\ Goto(t, IF b # <<>> /\ old # <<>> THEN [Idle EXCEPT !.pc = "free", !.block = old]
                   ELSE Idle)

GotBig(t) ==
    LET page == th[t].page
    IN  /\ th[t].pc = "big"
        /\ arena' = IF page = NONE THEN arena
                    ELSE [arena EXCEPT ![page] = [desc |-> NONE, free_cnt |-> th[t].cnt]]
        /\ Return(t, IF page = NONE THEN <<>> ELSE <<page, 0>>)
        /\ UNCHANGED <<pool_lock, used, free_list, lock, pages, panicked>>

MallocLock(t) ==
    LET r == th[t]
    IN  /\ r.pc = "malloc"
        /\ lock[r.desc] = NOBODY
        /\ lock' = [lock EXCEPT ![r.desc] = t]
        /\ IF free_list[r.desc] = <<>> THEN Get(t, r, "kernel", 1, "arena")
           ELSE Goto(t, [r EXCEPT !.pc = "pop"])
        /\ UNCHANGED <<pool_lock, used, arena, free_list, blocks, pages, panicked>>

GotArena(t) ==
    LET r == th[t]
        d == r.desc
    IN  /\ r.pc = "arena"
        /\ \/ /\ r.page = NONE
              /\ lock' = [lock EXCEPT ![d] = NOBODY]
              /\ Return(t, <<>>)
              /\ UNCHANGED <<arena, free_list>>
           \/ /\ r.page # NONE
              /\ arena' = [arena EXCEPT ![r.page] = [desc |-> d, free_cnt |-> blocks_per_arena(d)]]
              /\ free_list' = [free_list EXCEPT ![d] =
                                 @ \o [i \in 1 .. blocks_per_arena(d) |-> <<r.page, i - 1>>]]
              /\ Goto(t, [r EXCEPT !.pc = "pop", !.page = NONE, !.cnt = 0])
              /\ UNCHANGED <<lock, blocks>>
        /\ UNCHANGED <<pool_lock, used, pages, panicked>>

Pop(t) ==
    LET d == th[t].desc
        b == Head(free_list[d])
    IN  /\ th[t].pc = "pop"
        /\ free_list' = [free_list EXCEPT ![d] = Tail(@)]
        /\ arena' = [arena EXCEPT ![b[1]].free_cnt = @ - 1]
        /\ lock' = [lock EXCEPT ![d] = NOBODY]
        /\ Return(t, b)
        /\ panicked' = (arena[b[1]].desc # d)
        /\ UNCHANGED <<pool_lock, used, pages>>
-----------------------------------------------------------------------------
Free(t) ==
    \E b \in blocks : /\ th[t].pc = "idle"
                      /\ Goto(t, [Idle EXCEPT !.pc = "free", !.block = b])
                      /\ blocks' = blocks \ {b}
                      /\ UNCHANGED <<pool_lock, used, arena, free_list, lock, pages, panicked>>

(* block_to_arena finds the header; a big block has no descriptor.          *)
FreeBlock(t) ==
    LET page == th[t].block[1]
        d == arena[page].desc
    IN  /\ th[t].pc = "free"
        /\ IF d = NONE
           THEN /\ StartReset(t, th[t], page, arena[page].free_cnt, TRUE)
                /\ arena' = [arena EXCEPT ![page] = NoArena]
           ELSE /\ Goto(t, [th[t] EXCEPT !.pc = "free_lock", !.desc = d])
                /\ UNCHANGED <<arena, panicked>>
        /\ UNCHANGED <<pool_lock, used, free_list, lock, blocks, pages>>

(* The free list with the blocks of the arena on a page taken off it.       *)
RemoveBlocks(list, page) ==
    LET Kept[i \in 0 .. Len(list)] ==
            IF i = 0 THEN <<>>
            ELSE IF list[i][1] = page THEN Kept[i - 1]
            ELSE Append(Kept[i - 1], list[i])
    IN  Kept[Len(list)]

(* Mutant: the page is freed with its blocks still on the free list.        *)
FreeLockKeeps(t) ==
    LET r == th[t]
        d == r.desc
        page == r.block[1]
        full == arena[page].free_cnt + 1 >= blocks_per_arena(d)
        list == <<r.block>> \o free_list[d]
    IN  /\ r.pc = "free_lock"
        /\ lock[d] = NOBODY
        /\ free_list' = [free_list EXCEPT ![d] = list]
        /\ IF full
           THEN /\ arena' = [arena EXCEPT ![page] = NoArena]
                /\ lock' = [lock EXCEPT ![d] = t]
                /\ StartReset(t, r, page, 1, arena[page].free_cnt + 1 = blocks_per_arena(d))
           ELSE /\ arena' = [arena EXCEPT ![page].free_cnt = @ + 1]
                /\ Goto(t, Idle)
                /\ UNCHANGED <<lock, panicked>>
        /\ UNCHANGED <<pool_lock, used, blocks, pages>>

(* The block goes on the free list; an arena that is entirely unused takes  *)
(* all of its blocks off it and is freed.                                   *)
FreeLock(t) ==
    LET r == th[t]
        d == r.desc
        page == r.block[1]
        full == arena[page].free_cnt + 1 >= blocks_per_arena(d)
        list == <<r.block>> \o free_list[d]
    IN  /\ r.pc = "free_lock"
        /\ lock[d] = NOBODY
        /\ free_list' = [free_list EXCEPT ![d] =
                           IF full THEN RemoveBlocks(list, page) ELSE list]
        /\ IF full
           THEN /\ arena' = [arena EXCEPT ![page] = NoArena]
                /\ lock' = [lock EXCEPT ![d] = t]
                /\ StartReset(t, r, page, 1, arena[page].free_cnt + 1 = blocks_per_arena(d))
           ELSE /\ arena' = [arena EXCEPT ![page].free_cnt = @ + 1]
                /\ Goto(t, Idle)
                /\ UNCHANGED <<lock, panicked>>
        /\ UNCHANGED <<pool_lock, used, blocks, pages>>

Next ==
    /\ ~panicked
    /\ \E t \in Threads :
         \/ GetLock(t) \/ Scan(t) \/ Flip(t) \/ Reset(t)
         \/ GetUser(t) \/ GotUser(t) \/ FreeUser(t)
         \/ \E size \in Sizes : Malloc(t, size) \/ Realloc(t, size)
         \/ GotBig(t) \/ MallocLock(t) \/ GotArena(t) \/ Pop(t)
         \/ Free(t) \/ FreeBlock(t) \/ FreeLock(t)

Spec == Init /\ [][Next]_vars
-----------------------------------------------------------------------------
(* The pages that arenas, callers and threads in the middle of a call have. *)
Held ==
    {<<"arena", p, 1>> : p \in {p \in DOMAIN arena : arena[p].desc # NONE}}
      \cup {<<"big", p, arena[p].free_cnt>> :
              p \in {p \in DOMAIN arena : arena[p].desc = NONE /\ arena[p].free_cnt > 0}}
      \cup {<<"user", p, 1>> : p \in pages}
      \cup {<<t, th[t].page, th[t].cnt>> :
              t \in {t \in Threads : th[t].pc \in {"big", "arena", "user", "reset"}
                                     /\ th[t].page # NONE}}

(* A page belongs to one holder at a time, and a page is marked in the      *)
(* bitmaps exactly as long as it has one, although groups are freed bit by  *)
(* bit and without the lock (palloc_get_multiple, palloc_free_multiple).    *)
PagesHeldOnce ==
    /\ used = UNION {Group(h[2], h[3]) : h \in Held}
    /\ \A g, h \in Held : g # h => Group(g[2], g[3]) \cap Group(h[2], h[3]) = {}
    /\ \A h \in Held : \E pool \in Pools : \A p \in Group(h[2], h[3]) : page_from_pool(pool, p)

Reserved == blocks \cup {th[t].old : t \in Threads} \cup {th[t].block : t \in Threads}

(* A block is on the free list of its arena's descriptor, or a caller has   *)
(* it, and not both; an arena counts its free blocks, and is given back     *)
(* with the last block that was in use; and no ASSERT of the allocators     *)
(* fails (malloc, free, block_to_arena).                                    *)
BlocksAccounted ==
    /\ ~panicked
    /\ \A d \in Descs :
         \A k, l \in DOMAIN free_list[d] :
           /\ arena[free_list[d][k][1]].desc = d
           /\ free_list[d][k] = free_list[d][l] => k = l
           /\ free_list[d][k] \notin Reserved
    /\ \A p \in DOMAIN arena : \A d \in Descs :
         arena[p].desc = d =>
           /\ arena[p].free_cnt = Cardinality({k \in DOMAIN free_list[d] : free_list[d][k][1] = p})
           /\ lock[d] = NOBODY => arena[p].free_cnt < blocks_per_arena(d)
           /\ arena[p].free_cnt + Cardinality({b \in Reserved \ {<<>>} : b[1] = p})
                = blocks_per_arena(d)
=============================================================================
