----------------------------- MODULE AllocSteps -----------------------------
(***************************************************************************)
(* The inductive invariant of the page and block allocators, and that the  *)
(* steps which leave the arenas of the small blocks alone preserve it.     *)
(***************************************************************************)
EXTENDS Alloc, TLAPS

Pages == 0 .. FREE_PAGES - 1
Blocks == Pages \X Nat
Fields == {"pc", "desc", "pool", "cnt", "idx", "page", "ret", "block", "old"}
Searching == {"get", "scan", "flip"}
Labels == Searching \cup {"idle", "user", "big", "arena", "reset", "malloc", "pop", "free",
                          "free_lock"}

(* What a thread's own variables may hold.                                  *)
RecordOK(r) ==
    /\ DOMAIN r = Fields
    /\ r.pc \in Labels
    /\ r.desc \in Descs \cup {NONE} /\ r.pool \in Pools
    /\ r.cnt \in Nat /\ r.idx \in Nat /\ r.page \in Pages \cup {NONE}
    /\ r.ret \in {"none", "user", "big", "arena"}
    /\ r.block \in Blocks \cup {<<>>} /\ r.old \in Blocks \cup {<<>>}

(* The call that a thread is in, before and after its search for pages.     *)
CallOK(r, ret) ==
    /\ ret \in {"user", "big", "arena"}
    /\ r.cnt >= 1 /\ (ret # "big" => r.cnt = 1)
    /\ ret = "arena" <=> r.desc # NONE
    /\ r.block = <<>>
    /\ ret = "user" => r.old = <<>>

(* They depend on where it is.                                              *)
StageOK(r) ==
    /\ r.pc \in Searching => CallOK(r, r.ret)
    /\ r.pc \in {"get", "scan"} => r.page = NONE
    /\ r.pc = "flip" => r.page # NONE
    /\ r.pc \in {"user", "big", "arena"} => CallOK(r, r.pc)
    /\ r.pc = "reset" => r.cnt >= 1 /\ r.page # NONE /\ r.block = <<>> /\ r.old = <<>>
    /\ r.pc \in {"malloc", "pop"} => r.desc # NONE /\ r.block = <<>>
    /\ r.pc \in {"free", "free_lock"} =>
         /\ r.block # <<>> /\ r.old = <<>>
         /\ r.pc = "free" <=> r.desc = NONE
    /\ r.pc = "idle" => r.block = <<>> /\ r.old = <<>>

TypeOK ==
    /\ used \subseteq Pages
    /\ arena \in [Pages -> [desc : Descs \cup {NONE}, free_cnt : Nat]]
    /\ free_list \in [Descs -> Seq(Blocks)]
    /\ pool_lock \in [Pools -> Threads \cup {NOBODY}]
    /\ lock \in [Descs -> Threads \cup {NOBODY}]
    /\ blocks \subseteq Blocks
    /\ pages \subseteq Pages
    /\ DOMAIN th = Threads
    /\ \A t \in Threads : RecordOK(th[t]) /\ StageOK(th[t])
    /\ panicked = FALSE
-----------------------------------------------------------------------------
(* A thread that has chosen a descriptor has its lock, except before it     *)
(* takes it.                                                                *)
LockUse(r) == r.desc # NONE /\ r.pc \in Searching \cup {"arena", "pop", "reset"}

LocksOK ==
    \A t \in Threads :
      /\ LockUse(th[t]) => lock[th[t].desc] = t
      /\ th[t].pc \in {"scan", "flip"} => pool_lock[th[t].pool] = t
-----------------------------------------------------------------------------
(* The pages that the arena on page p, the callers' user page p and thread  *)
(* t have.                                                                  *)
OfArena(p) == IF arena[p].desc # NONE THEN {p} ELSE Group(p, arena[p].free_cnt)
OfUser(p) == {p} \cap pages
PagesOf(r) ==
    IF r.pc \in {"big", "arena", "user", "reset"} /\ r.page # NONE
    THEN Group(r.page, r.cnt) ELSE {}

Holders == ({"arena", "user"} \X Pages) \cup ({"thread"} \X Threads)
Own == [h \in Holders |-> IF h[1] = "arena" THEN OfArena(h[2])
                          ELSE IF h[1] = "user" THEN OfUser(h[2]) ELSE PagesOf(th[h[2]])]

InPool(G) == \E pool \in Pools : \A p \in G : page_from_pool(pool, p)

(* Holders have different pages, and all that are marked.                   *)
Exclusive(own, marked) ==
    /\ \A g, h \in Holders : g # h => own[g] \cap own[h] = {}
    /\ \A p : p \in marked <=> \E h \in Holders : p \in own[h]
    /\ \A h \in Holders : InPool(own[h])

(* The group that was found is still free when its bits are set.            *)
Found(r) ==
    r.pc = "flip" => /\ Group(r.page, r.cnt) \cap used = {}
                     /\ \A p \in Group(r.page, r.cnt) : page_from_pool(r.pool, p)

FoundOK == \A t \in Threads : Found(th[t])

PagesOK == Exclusive(Own, used) /\ FoundOK
-----------------------------------------------------------------------------
(* The block that thread t has in hand, if any.                             *)
HandOf(r) == IF r.block # <<>> THEN r.block ELSE r.old
Hand(t) == HandOf(th[t])

(* A block that somebody has is the one of a big allocation, or one of the  *)
(* blocks of its arena.                                                     *)
InArena(b) ==
    IF arena[b[1]].desc = NONE THEN arena[b[1]].free_cnt > 0 /\ b[2] = 0
    ELSE b[2] < blocks_per_arena(arena[b[1]].desc)

Listed(d, b) == \E k \in 1 .. Len(free_list[d]) : free_list[d][k] = b
Taken(b) == b \in blocks \/ \E t \in Threads : Hand(t) = b

(* Every block has one holder.                                              *)
TakenOK ==
    /\ \A b \in blocks : InArena(b)
    /\ \A t \in Threads :
         Hand(t) # <<>> => /\ InArena(Hand(t)) /\ Hand(t) \notin blocks
                           /\ \A u \in Threads : Hand(u) = Hand(t) => u = t

ListsOK ==
    \A d \in Descs : \A k \in 1 .. Len(free_list[d]) :
      /\ arena[free_list[d][k][1]].desc = d
      /\ free_list[d][k][2] < blocks_per_arena(d)
      /\ ~Taken(free_list[d][k])
      /\ \A l \in 1 .. Len(free_list[d]) : free_list[d][k] = free_list[d][l] => k = l

FreeIn(p) == {i \in 0 .. blocks_per_arena(arena[p].desc) - 1 : Listed(arena[p].desc, <<p, i>>)}

ArenaOK(p) ==
    /\ arena[p].free_cnt = Cardinality(FreeIn(p))
    /\ \A i \in 0 .. blocks_per_arena(arena[p].desc) - 1 :
         Listed(arena[p].desc, <<p, i>>) \/ Taken(<<p, i>>)

ArenasOK == \A p \in Pages : arena[p].desc # NONE => ArenaOK(p)

(* A thread that looks for a page for an arena has found the list empty,    *)
(* one that is about to take a block has not, and one that has found a      *)
(* block's descriptor still has the right one when it gets the lock.        *)
ListUse(r) ==
    /\ r.desc # NONE /\ r.pc \in Searching \cup {"arena"} => free_list[r.desc] = <<>>
    /\ r.pc = "pop" => free_list[r.desc] # <<>>
    /\ r.pc = "free_lock" => arena[r.block[1]].desc = r.desc

(* An arena that is entirely unused is the one that the next block will be  *)
(* taken from.                                                              *)
ListUseOK ==
    /\ \A t \in Threads : ListUse(th[t])
    /\ \A p \in Pages :
         arena[p].desc # NONE /\ arena[p].free_cnt >= blocks_per_arena(arena[p].desc) =>
           \E t \in Threads : /\ th[t].pc = "pop" /\ th[t].desc = arena[p].desc
                              /\ Head(free_list[th[t].desc])[1] = p

BlocksOK == TakenOK /\ ListsOK /\ ArenasOK /\ ListUseOK

AllocInv == TypeOK /\ LocksOK /\ PagesOK /\ BlocksOK
-----------------------------------------------------------------------------
(* What the proofs about recursive functions and choices rest on: a set of  *)
(* naturals that is not empty has a least element.                          *)
LeastFact == \A S \in SUBSET Nat : S # {} => \E n \in S : \A m \in S : n <= m

(* Quotients of naturals.                                                   *)
LEMMA DivNat ==
    \A a, b \in Nat : b # 0 => /\ a \div b \in Nat
                               /\ a >= b => a \div b >= 1
  OBVIOUS

(* A descriptor's arenas have room for a block at least.                    *)
LEMMA DescFacts ==
    ASSUME NEW d \in Descs
    PROVE  d \in Nat \ {0} /\ d # NONE /\ blocks_per_arena(d) \in Nat \ {0}
  <1>1. d \in Nat /\ d # 0 /\ 2 * d < PGSIZE /\ PGSIZE \in Nat /\ HEADER \in Nat
    BY AllocAssumption DEF Descs
  <1>2. PGSIZE - HEADER \in Nat /\ PGSIZE - HEADER >= d
    BY <1>1, AllocAssumption
  <1>3. (PGSIZE - HEADER) \div d \in Nat /\ (PGSIZE - HEADER) \div d >= 1
    BY <1>1, <1>2, DivNat
  <1> QED BY <1>1, <1>3 DEF blocks_per_arena, NONE

(* The descriptor that malloc chooses.                                      *)
LEMMA SmallestFits ==
    ASSUME LeastFact, NEW size, Fitting(size) # {}
    PROVE  Smallest(Fitting(size)) \in Descs
  <1>1. Fitting(size) \subseteq Nat
    BY DescFacts DEF Fitting
  <1>2. \E n \in Fitting(size) : \A m \in Fitting(size) : n <= m
    BY <1>1 DEF LeastFact
  <1>3. Smallest(Fitting(size)) \in Fitting(size)
    BY <1>2 DEF Smallest
  <1> QED BY <1>3 DEF Fitting

(* A big block has one page at least.                                       *)
LEMMA BigCount ==
    ASSUME NEW size \in Sizes
    PROVE  div_round_up(size + HEADER, PGSIZE) \in Nat \ {0}
  <1>1. size \in Nat /\ size >= 1 /\ HEADER \in Nat /\ PGSIZE \in Nat /\ PGSIZE # 0
    BY AllocAssumption
  <1>2. size + HEADER + PGSIZE - 1 \in Nat /\ size + HEADER + PGSIZE - 1 >= PGSIZE
    BY <1>1
  <1>3. (size + HEADER + PGSIZE - 1) \div PGSIZE \in Nat
        /\ (size + HEADER + PGSIZE - 1) \div PGSIZE >= 1
    BY <1>1, <1>2, DivNat
  <1> QED BY <1>3 DEF div_round_up

(* The two pools are apart and within memory.                               *)
LEMMA PoolFacts ==
    /\ \A pool \in Pools : Pool[pool].base \in Nat /\ Pool[pool].cnt \in Int
    /\ \A p \in Int : \A pool \in Pools : page_from_pool(pool, p) => p \in Pages
    /\ \A p \in Int : \A a, b \in Pools : page_from_pool(a, p) /\ page_from_pool(b, p) => a = b
  <1>1. user_pages \in Nat /\ kernel_pages \in Nat /\ kernel_pages + user_pages = FREE_PAGES
    <2>1. FREE_PAGES \div 2 \in Nat /\ FREE_PAGES \div 2 <= FREE_PAGES
      BY AllocAssumption
    <2> QED BY <2>1, AllocAssumption DEF user_pages, kernel_pages, Lesser
  <1>2. \A x \in Nat : div_round_up(x, WORD) \in Nat
    <2> TAKE x \in Nat
    <2>1. WORD \in Nat /\ WORD # 0 /\ x + WORD - 1 \in Nat
      BY AllocAssumption
    <2> QED BY <2>1, DivNat DEF div_round_up
  <1> DEFINE k == div_round_up(kernel_pages, WORD)
             u == div_round_up(user_pages, WORD)
  <1>3. k \in Nat /\ u \in Nat
    BY <1>1, <1>2
  <1>4. /\ Pool["kernel"].base = k /\ Pool["kernel"].cnt = kernel_pages - k
        /\ Pool["user"].base = kernel_pages + u /\ Pool["user"].cnt = user_pages - u
    BY <1>3 DEF Pool, init_pool
  <1> HIDE DEF k, u
  <1> QED BY <1>1, <1>3, <1>4 DEF Pools, page_from_pool, Pages

(* Blocks are pairs, so no block is the absent one.                         *)
LEMMA BlockFacts ==
    /\ \A b \in Blocks : b # <<>> /\ b[1] \in Pages /\ b[2] \in Nat /\ b = <<b[1], b[2]>>
    /\ \A p \in Pages, i \in Nat : <<p, i>> \in Blocks
    /\ \A a, b \in Blocks : a[1] = b[1] /\ a[2] = b[2] => a = b
    /\ Pages \subseteq Nat /\ NONE \notin Pages
  BY AllocAssumption DEF Blocks, Pages, NONE
-----------------------------------------------------------------------------
(* The recursion of RemoveBlocks has a solution on every prefix.            *)
KeptStep(list, page, G, i) ==
    IF i = 0 THEN <<>> ELSE IF list[i][1] = page THEN G[i - 1] ELSE Append(G[i - 1], list[i])

IsKept(list, page, m, G) == G = [i \in 0 .. m |-> KeptStep(list, page, G, i)]

(* The loop of free over the blocks of an arena ends for every list, with   *)
(* the blocks that it has kept so far.                                      *)
LEMMA KeptExists ==
    ASSUME LeastFact, NEW list \in Seq(Blocks), NEW page
    PROVE  \A m \in 0 .. Len(list) : \E G : IsKept(list, page, m, G)
  <1> DEFINE S == {m \in 0 .. Len(list) : ~ \E G : IsKept(list, page, m, G)}
  <1>1. SUFFICES ASSUME S # {} PROVE FALSE
    OBVIOUS
  <1> S \subseteq Nat
    OBVIOUS
  <1> HIDE DEF S
  <1>2. PICK m \in S : \A l \in S : m <= l
    BY <1>1, Zenon DEF LeastFact
  <1> USE DEF S
  <1>3. m \in Nat /\ m <= Len(list) /\ ~ \E G : IsKept(list, page, m, G)
    BY <1>2
  <1>4. CASE m = 0
    <2>1. IsKept(list, page, 0, [i \in 0 .. 0 |-> <<>>])
      BY DEF IsKept, KeptStep
    <2> QED BY <2>1, <1>3, <1>4
  <1>5. CASE m # 0
    <2>1. m - 1 \in 0 .. Len(list) /\ m - 1 \notin S
      BY <1>2, <1>3, <1>5
    <2>2. PICK G : IsKept(list, page, m - 1, G)
      BY <2>1
    <2> DEFINE H == [i \in 0 .. m |-> IF i < m THEN G[i] ELSE KeptStep(list, page, G, m)]
    <2>3. \A i \in 0 .. m - 1 : G[i] = KeptStep(list, page, G, i)
      BY <2>2, <1>3, Zenon DEF IsKept
    <2>4. \A i \in 0 .. m : H[i] = KeptStep(list, page, H, i)
      <3> TAKE i \in 0 .. m
      <3>1. i # 0 => i - 1 \in 0 .. m - 1 /\ H[i - 1] = G[i - 1]
        BY <1>3
      <3>2. KeptStep(list, page, H, i) = KeptStep(list, page, G, i)
        BY <3>1 DEF KeptStep
      <3>3. H[i] = KeptStep(list, page, G, i)
        BY <2>3, <1>3
      <3> QED BY <3>2, <3>3
    <2>5. IsKept(list, page, m, H)
      BY <2>4 DEF IsKept
    <2> QED BY <2>5, <1>3
  <1> QED BY <1>4, <1>5

(* What the first i entries of the list leave.                              *)
KeptOK(list, page, kept, i) ==
    /\ kept \in Seq(Blocks)
    /\ \A k \in 1 .. Len(kept) : kept[k][1] # page /\ \E j \in 1 .. i : kept[k] = list[j]
    /\ \A j \in 1 .. i : list[j][1] # page => \E k \in 1 .. Len(kept) : kept[k] = list[j]
    /\ \A k, l \in 1 .. Len(kept) : kept[k] = kept[l] => k = l

(* RemoveBlocks keeps the blocks of other arenas, each of them once.        *)
LEMMA RemoveIs ==
    ASSUME LeastFact, NEW list \in Seq(Blocks), NEW page,
           \A k, l \in 1 .. Len(list) : list[k] = list[l] => k = l
    PROVE  KeptOK(list, page, RemoveBlocks(list, page), Len(list))
  <1>1. Len(list) \in 0 .. Len(list)
    OBVIOUS
  <1>2. \E G : IsKept(list, page, Len(list), G)
    BY <1>1, KeptExists, ZenonT(40)
  <1>3. PICK G : /\ RemoveBlocks(list, page) = G[Len(list)]
                 /\ G = [i \in 0 .. Len(list) |->
                           IF i = 0 THEN <<>> ELSE IF list[i][1] = page THEN G[i - 1]
                           ELSE Append(G[i - 1], list[i])]
    BY <1>2, Zenon DEF RemoveBlocks, IsKept, KeptStep
  <1>4. \A i \in 0 .. Len(list) : G[i] = KeptStep(list, page, G, i)
    BY <1>3, Zenon DEF KeptStep
  <1> DEFINE S == {m \in 0 .. Len(list) : ~KeptOK(list, page, G[m], m)}
  <1>5. SUFFICES ASSUME S # {} PROVE FALSE
    BY <1>1, <1>3, Zenon
  <1> S \subseteq Nat
    OBVIOUS
  <1> HIDE DEF S
  <1>6. PICK m \in S : \A l \in S : m <= l
    BY <1>5, Zenon DEF LeastFact
  <1> USE DEF S
  <1>7. m \in Nat /\ m <= Len(list) /\ ~KeptOK(list, page, G[m], m)
    BY <1>6
  <1>8. CASE m = 0
    <2>1. G[0] = <<>>
      BY <1>4 DEF KeptStep
    <2>2. KeptOK(list, page, <<>>, 0)
      BY DEF KeptOK
    <2> QED BY <2>1, <2>2, <1>7, <1>8
  <1>9. CASE m # 0
    <2>1. m - 1 \in 0 .. Len(list) /\ m - 1 \notin S /\ m \in 1 .. Len(list)
      BY <1>6, <1>7, <1>9
    <2> DEFINE K == G[m - 1]
    <2>2. KeptOK(list, page, K, m - 1)
      BY <2>1
    <2>3. G[m] = IF list[m][1] = page THEN K ELSE Append(K, list[m])
      BY <1>4, <2>1 DEF KeptStep
    <2> HIDE DEF K
    <2>4. CASE list[m][1] = page
      <3>1. /\ \A j \in 1 .. m : j \in 1 .. m - 1 \/ j = m
            /\ \A j \in 1 .. m - 1 : j \in 1 .. m
        BY <2>1
      <3>2. KeptOK(list, page, K, m)
        BY <2>2, <2>4, <3>1, ZenonT(40) DEF KeptOK
      <3> QED BY <1>7, <2>3, <2>4, <3>2, Zenon
    <2>5. CASE list[m][1] # page
      <3>1. list[m] \in Blocks
        BY <2>1
      <3>2. /\ G[m] \in Seq(Blocks) /\ Len(G[m]) = Len(K) + 1
            /\ \A k \in 1 .. Len(K) : G[m][k] = K[k]
            /\ G[m][Len(K) + 1] = list[m]
        BY <2>2, <2>3, <2>5, <3>1 DEF KeptOK
      <3>3. /\ Len(K) \in Nat /\ Len(K) + 1 \in 1 .. Len(G[m])
            /\ \A k \in 1 .. Len(G[m]) : k \in 1 .. Len(K) \/ k = Len(K) + 1
            /\ \A k \in 1 .. Len(K) : k \in 1 .. Len(G[m])
            /\ \A j \in 1 .. m : j \in 1 .. m - 1 \/ j = m
            /\ \A j \in 1 .. m - 1 : j \in 1 .. m
        BY <2>1, <2>2, <3>2 DEF KeptOK
      <3>4. \A k \in 1 .. Len(G[m]) : G[m][k][1] # page /\ \E j \in 1 .. m : G[m][k] = list[j]
        <4> TAKE k \in 1 .. Len(G[m])
        <4>1. CASE k \in 1 .. Len(K)
          <5>1. K[k][1] # page /\ \E j \in 1 .. m - 1 : K[k] = list[j]
            BY <4>1, <2>2 DEF KeptOK
          <5>2. G[m][k] = K[k]
            BY <4>1, <3>2
          <5> QED BY <5>1, <5>2, <3>3
        <4>2. CASE k = Len(K) + 1
          BY <4>2, <2>1, <2>5, <3>2
        <4> QED BY <4>1, <4>2, <3>3
      <3>5. \A j \in 1 .. m : list[j][1] # page => \E k \in 1 .. Len(G[m]) : G[m][k] = list[j]
        <4> TAKE j \in 1 .. m
        <4>1. CASE j \in 1 .. m - 1
          BY <4>1, <2>2, <3>2, <3>3 DEF KeptOK
        <4>2. CASE j = m
          BY <4>2, <3>2, <3>3
        <4> QED BY <4>1, <4>2, <3>3
      <3>6. \A k \in 1 .. Len(K) : K[k] # list[m]
        BY <2>1, <2>2 DEF KeptOK
      <3>7. \A k, l \in 1 .. Len(G[m]) : G[m][k] = G[m][l] => k = l
        <4>1. \A k, l \in 1 .. Len(K) : K[k] = K[l] => k = l
          BY <2>2 DEF KeptOK
        <4> QED BY <4>1, <3>2, <3>3, <3>6, Zenon
      <3> QED BY <3>2, <3>4, <3>5, <3>7, <1>7, Zenon DEF KeptOK
    <2> QED BY <2>4, <2>5
  <1> QED BY <1>8, <1>9
-----------------------------------------------------------------------------
(* A step of thread t, after which its variables are r.                     *)
Moved(t, r) ==
    /\ DOMAIN th' = Threads /\ th'[t] = r
    /\ \A u \in Threads : u # t => th'[u] = th[u]

(* Goto sets the variables of one thread.                                   *)
LEMMA GotoMoves ==
    ASSUME TypeOK, NEW t \in Threads, NEW r, Goto(t, r)
    PROVE  Moved(t, r)
  BY DEF TypeOK, Goto, Moved

(* Own, by kind of holder.                                                  *)
LEMMA OwnIs ==
    /\ \A p \in Pages : <<"arena", p>> \in Holders /\ Own[<<"arena", p>>] = OfArena(p)
    /\ \A p \in Pages : <<"user", p>> \in Holders /\ Own[<<"user", p>>] = OfUser(p)
    /\ \A t \in Threads : <<"thread", t>> \in Holders /\ Own[<<"thread", t>>] = PagesOf(th[t])
    /\ \A h \in Holders : \/ \E p \in Pages : h = <<"arena", p>>
                          \/ \E p \in Pages : h = <<"user", p>>
                          \/ \E t \in Threads : h = <<"thread", t>>
    /\ \A x, y : /\ <<"arena", x>> # <<"thread", y>> /\ <<"arena", x>> # <<"user", y>>
                 /\ <<"user", x>> # <<"thread", y>>
                 /\ <<"thread", x>> = <<"thread", y>> => x = y
                 /\ <<"arena", x>> = <<"arena", y>> => x = y
                 /\ <<"user", x>> = <<"user", y>> => x = y
  BY DEF Own, Holders

(* The same of the arenas and the user's pages after a step.                *)
LEMMA OwnIsPrime ==
    /\ \A p \in Pages : Own'[<<"arena", p>>] = OfArena(p)'
    /\ \A p \in Pages : Own'[<<"user", p>>] = OfUser(p)'
  BY DEF Own, Holders

(* Only thread t's pages change.                                            *)
LEMMA OwnMoved ==
    ASSUME TypeOK, NEW t \in Threads, NEW r, Moved(t, r), UNCHANGED <<arena, pages>>
    PROVE  \A h \in Holders : h # <<"thread", t>> => Own'[h] = Own[h]
  <1> TAKE h \in Holders
  <1>1. CASE \E p \in Pages : h = <<"arena", p>>
    BY <1>1, OwnIs, Zenon DEF Own, Holders, OfArena, Moved
  <1>2. CASE \E p \in Pages : h = <<"user", p>>
    BY <1>2 DEF Own, Holders, OfUser, Moved
  <1>3. CASE \E u \in Threads : h = <<"thread", u>>
    BY <1>3 DEF Own, Holders, Moved
  <1> QED BY <1>1, <1>2, <1>3, OwnIs

(* Pages stay where they are.                                               *)
LEMMA ExSame ==
    ASSUME NEW own, NEW own2, NEW marked, Exclusive(own, marked),
           \A h \in Holders : own2[h] = own[h]
    PROVE  Exclusive(own2, marked)
  BY DEF Exclusive

(* Pages pass from one holder to another that has none.                     *)
LEMMA ExTransfer ==
    ASSUME NEW own, NEW own2, NEW marked, Exclusive(own, marked),
           NEW g \in Holders, NEW h \in Holders, g # h, own[h] = {},
           own2[g] = {}, own2[h] = own[g],
           \A k \in Holders : k # g /\ k # h => own2[k] = own[k]
    PROVE  Exclusive(own2, marked)
  <1>1. \A j, k \in Holders : j # k => own2[j] \cap own2[k] = {}
    BY DEF Exclusive
  <1>2. \A p : p \in marked <=> \E k \in Holders : p \in own2[k]
    BY DEF Exclusive
  <1>3. \A k \in Holders : InPool(own2[k])
    BY Zenon DEF Exclusive
  <1> QED BY <1>1, <1>2, <1>3 DEF Exclusive

(* The same of the pages that the holders have.                             *)
LEMMA OwnTransfer ==
    ASSUME Exclusive(Own, used), used' = used,
           NEW g \in Holders, NEW h \in Holders, g # h, Own[h] = {},
           Own'[g] = {}, Own'[h] = Own[g],
           \A k \in Holders : k # g /\ k # h => Own'[k] = Own[k]
    PROVE  Exclusive(Own, used)'
  <1>1. Exclusive(Own', used)
    BY ExTransfer
  <1> QED BY <1>1, Zenon

(* Free pages get a holder, and are marked.                                 *)
LEMMA ExAllocate ==
    ASSUME NEW own, NEW own2, NEW marked, Exclusive(own, marked),
           NEW h \in Holders, own[h] = {}, own2[h] \cap marked = {}, InPool(own2[h]),
           \A k \in Holders : k # h => own2[k] = own[k]
    PROVE  Exclusive(own2, marked \cup own2[h])
  <1>1. \A j, k \in Holders : j # k => own2[j] \cap own2[k] = {}
    BY DEF Exclusive
  <1>2. \A p : p \in marked \cup own2[h] <=> \E k \in Holders : p \in own2[k]
    BY DEF Exclusive
  <1>3. \A k \in Holders : InPool(own2[k])
    BY DEF Exclusive
  <1> QED BY <1>1, <1>2, <1>3 DEF Exclusive

(* One page is given back, and no longer marked.                            *)
LEMMA ExRelease ==
    ASSUME NEW own, NEW own2, NEW marked, Exclusive(own, marked),
           NEW h \in Holders, NEW p \in own[h], own2[h] = own[h] \ {p},
           \A k \in Holders : k # h => own2[k] = own[k]
    PROVE  Exclusive(own2, marked \ {p})
  <1>1. \A j, k \in Holders : j # k => own2[j] \cap own2[k] = {}
    BY DEF Exclusive
  <1>2. \A q : q \in marked \ {p} <=> \E k \in Holders : q \in own2[k]
    BY DEF Exclusive
  <1>3. \A k \in Holders : InPool(own2[k])
    BY DEF Exclusive, InPool
  <1> QED BY <1>1, <1>2, <1>3 DEF Exclusive
-----------------------------------------------------------------------------
(* The fields of a record of a thread's variables.                          *)
Has(r, pc, desc, pool, cnt, idx, page, ret, block, old) ==
    /\ DOMAIN r = Fields
    /\ r.pc = pc /\ r.desc = desc /\ r.pool = pool /\ r.cnt = cnt /\ r.idx = idx
    /\ r.page = page /\ r.ret = ret /\ r.block = block /\ r.old = old

(* A thread that gives pages back.                                          *)
LEMMA ResetRecord ==
    ASSUME NEW r, NEW d \in Descs \cup {NONE}, NEW pool \in Pools, NEW n \in Nat, n >= 1,
           NEW i \in Nat, NEW p \in Pages, NEW ret \in {"none", "user", "big", "arena"},
           Has(r, "reset", d, pool, n, i, p, ret, <<>>, <<>>)
    PROVE  /\ RecordOK(r) /\ StageOK(r) /\ PagesOf(r) = Group(p, n) /\ Found(r)
           /\ r.pc = "reset" /\ r.desc = d /\ HandOf(r) = <<>>
  <1>1. p # NONE
    BY BlockFacts
  <1>2. RecordOK(r)
    BY Zenon DEF RecordOK, Has, Labels, Searching
  <1>3. StageOK(r)
    BY <1>1, Zenon DEF StageOK, Has, Searching
  <1> QED BY <1>1, <1>2, <1>3, Zenon DEF PagesOf, Found, HandOf, Has

(* The types after a step of thread t.                                      *)
LEMMA TypeMoved ==
    ASSUME TypeOK, NEW t \in Threads, NEW r, Moved(t, r), RecordOK(r), StageOK(r),
           used' \subseteq Pages, blocks' \subseteq Blocks, pages' \subseteq Pages,
           arena' \in [Pages -> [desc : Descs \cup {NONE}, free_cnt : Nat]],
           free_list' \in [Descs -> Seq(Blocks)],
           pool_lock' \in [Pools -> Threads \cup {NOBODY}],
           lock' \in [Descs -> Threads \cup {NOBODY}],
           panicked' = FALSE
    PROVE  TypeOK'
  BY Zenon DEF TypeOK, Moved

(* A step that marks no page keeps what searches have found.                *)
LEMMA FoundMoved ==
    ASSUME FoundOK, NEW t \in Threads, NEW r, Moved(t, r), used' \subseteq used,
           Found(r)
    PROVE  FoundOK'
  BY DEF FoundOK, Found, Moved

(* Blocks pass from hand to hand, and arenas and lists stay as they are.    *)
LEMMA BlocksMoved ==
    ASSUME TypeOK, ListsOK, ArenasOK, UNCHANGED <<arena, free_list>>,
           \A b \in Blocks : Taken(b)' <=> Taken(b)
    PROVE  ListsOK' /\ ArenasOK'
  <1>1. ListsOK'
    <2>1. \A d \in Descs : \A k \in 1 .. Len(free_list[d]) : free_list[d][k] \in Blocks
      BY DEF TypeOK
    <2> QED BY <2>1 DEF ListsOK
  <1>2. \A p : FreeIn(p)' = FreeIn(p)
    BY DEF FreeIn, Listed
  <1>3. ArenasOK'
    <2>1. ASSUME NEW p \in Pages, arena[p].desc # NONE,
                 NEW i \in 0 .. blocks_per_arena(arena[p].desc) - 1
          PROVE  <<p, i>> \in Blocks
      <3>1. arena[p].desc \in Descs
        BY <2>1 DEF TypeOK
      <3>2. i \in Nat
        BY <3>1, DescFacts
      <3> QED BY <3>2, BlockFacts
    <2> QED BY <1>2, <2>1, Zenon DEF ArenasOK, ArenaOK, Listed
  <1> QED BY <1>1, <1>3

(* No block changes hands.                                                  *)
LEMMA HandSame ==
    ASSUME TakenOK, NEW t \in Threads, NEW r, Moved(t, r), UNCHANGED <<arena, blocks>>,
           HandOf(r) = Hand(t)
    PROVE  TakenOK' /\ \A b \in Blocks : Taken(b)' <=> Taken(b)
  <1>1. \A u \in Threads : Hand(u)' = Hand(u)
    BY DEF Hand, Moved
  <1> QED BY <1>1 DEF Taken, TakenOK, InArena

(* A caller's block is taken in hand.                                       *)
LEMMA HandTakes ==
    ASSUME TypeOK, TakenOK, NEW t \in Threads, NEW r, Moved(t, r), arena' = arena,
           NEW c \in blocks, Hand(t) = <<>>, HandOf(r) = c, blocks' = blocks \ {c}
    PROVE  TakenOK' /\ \A b \in Blocks : Taken(b)' <=> Taken(b)
  <1>1. Hand(t)' = c /\ \A u \in Threads : u # t => Hand(u)' = Hand(u)
    BY DEF Hand, Moved
  <1>2. c \in Blocks /\ c # <<>> /\ \A u \in Threads : Hand(u) # c
    BY BlockFacts DEF TypeOK, TakenOK
  <1>3. \A b \in Blocks : Taken(b)' <=> Taken(b)
    BY <1>1, <1>2, BlockFacts DEF Taken
  <1>4. \A b : InArena(b)' <=> InArena(b)
    BY DEF InArena
  <1>5. TakenOK'
    BY <1>1, <1>2, <1>4 DEF TakenOK
  <1> QED BY <1>3, <1>5

(* The block in hand is given to the caller.                                *)
LEMMA HandGives ==
    ASSUME TypeOK, TakenOK, NEW t \in Threads, NEW r, Moved(t, r), arena' = arena,
           Hand(t) # <<>>, HandOf(r) = <<>>, blocks' = blocks \cup {Hand(t)}
    PROVE  TakenOK' /\ \A b \in Blocks : Taken(b)' <=> Taken(b)
  <1>1. Hand(t)' = <<>> /\ \A u \in Threads : u # t => Hand(u)' = Hand(u)
    BY DEF Hand, Moved
  <1>2. \A b \in Blocks : Taken(b)' <=> Taken(b)
    BY <1>1, BlockFacts DEF Taken
  <1>3. \A b : InArena(b)' <=> InArena(b)
    BY DEF InArena
  <1>4. TakenOK'
    BY <1>1, <1>3, ZenonT(40) DEF TakenOK
  <1> QED BY <1>2, <1>4

(* No step but Pop takes a thread away from an unused arena.                *)
LEMMA ListUseMoved ==
    ASSUME ListUseOK, NEW t \in Threads, NEW r, Moved(t, r), UNCHANGED <<arena, free_list>>,
           th[t].pc # "pop", ListUse(r)
    PROVE  ListUseOK'
  <1>1. \A u \in Threads : ListUse(th[u])'
    BY DEF ListUseOK, ListUse, Moved
  <1>2. ASSUME NEW p \in Pages, arena'[p].desc # NONE,
               arena'[p].free_cnt >= blocks_per_arena(arena'[p].desc)
        PROVE  \E u \in Threads : /\ th'[u].pc = "pop" /\ th'[u].desc = arena'[p].desc
                                  /\ Head(free_list'[th'[u].desc])[1] = p
    <2>1. PICK u \in Threads : /\ th[u].pc = "pop" /\ th[u].desc = arena[p].desc
                               /\ Head(free_list[th[u].desc])[1] = p
      BY <1>2, Zenon DEF ListUseOK
    <2>2. th'[u] = th[u]
      BY <2>1 DEF Moved
    <2> QED BY <2>1, <2>2, Zenon
  <1> QED BY <1>1, <1>2, Zenon DEF ListUseOK, ListUse
-----------------------------------------------------------------------------
(* Thread t takes free locks and releases its own.                          *)
LEMMA LocksMoved ==
    ASSUME TypeOK, LocksOK, NEW t \in Threads, NEW r, Moved(t, r),
           \A d \in Descs : lock'[d] # lock[d] => lock[d] \in {NOBODY, t},
           \A d \in Pools : pool_lock'[d] # pool_lock[d] => pool_lock[d] \in {NOBODY, t},
           LockUse(r) => lock'[r.desc] = t,
           r.pc \in {"scan", "flip"} => pool_lock'[r.pool] = t
    PROVE  LocksOK'
  <1> SUFFICES ASSUME NEW u \in Threads
               PROVE  /\ LockUse(th'[u]) => lock'[th'[u].desc] = u
                      /\ th'[u].pc \in {"scan", "flip"} => pool_lock'[th'[u].pool] = u
    BY DEF LocksOK
  <1>1. CASE u = t
    BY <1>1 DEF Moved
  <1>2. CASE u # t
    <2>1. th'[u] = th[u] /\ th[u].desc \in Descs \cup {NONE} /\ th[u].pool \in Pools
      BY <1>2 DEF Moved, TypeOK, RecordOK
    <2>2. /\ LockUse(th[u]) => lock[th[u].desc] = u /\ th[u].desc \in Descs
          /\ th[u].pc \in {"scan", "flip"} => pool_lock[th[u].pool] = u
      BY <2>1 DEF LocksOK, LockUse
    <2> QED BY <1>2, <2>1, <2>2, AllocAssumption
  <1> QED BY <1>1, <1>2

(* A step that leaves the arenas and the lists as they are.                 *)
LEMMA ListsAlone ==
    ASSUME AllocInv, NEW t \in Threads, NEW r, Moved(t, r), RecordOK(r), StageOK(r),
           UNCHANGED <<arena, free_list, panicked>>,
           lock' \in [Descs -> Threads \cup {NOBODY}],
           pool_lock' \in [Pools -> Threads \cup {NOBODY}],
           \A d \in Descs : lock'[d] # lock[d] => lock[d] \in {NOBODY, t},
           \A d \in Pools : pool_lock'[d] # pool_lock[d] => pool_lock[d] \in {NOBODY, t},
           LockUse(r) => lock'[r.desc] = t,
           r.pc \in {"scan", "flip"} => pool_lock'[r.pool] = t,
           used' \subseteq Pages, pages' \subseteq Pages, Exclusive(Own, used)', FoundOK',
           blocks' \subseteq Blocks, TakenOK', \A b \in Blocks : Taken(b)' <=> Taken(b),
           th[t].pc # "pop", ListUse(r)
    PROVE  AllocInv'
  <1>1. TypeOK /\ LocksOK /\ ListsOK /\ ArenasOK /\ ListUseOK
    BY Zenon DEF AllocInv, BlocksOK
  <1>2. TypeOK'
    BY <1>1, TypeMoved, Zenon DEF TypeOK
  <1>3. LocksOK'
    BY <1>1, LocksMoved, Zenon
  <1>4. ListsOK' /\ ArenasOK'
    BY <1>1, BlocksMoved, Zenon
  <1>5. ListUseOK'
    BY <1>1, ListUseMoved
  <1> QED BY <1>2, <1>3, <1>4, <1>5 DEF AllocInv, PagesOK, BlocksOK

(* A step in which thread t moves no page, and blocks pass.                 *)
LEMMA Passing ==
    ASSUME AllocInv, NEW t \in Threads, NEW r, Moved(t, r), RecordOK(r), StageOK(r),
           UNCHANGED <<used, arena, free_list, pages, panicked>>,
           lock' \in [Descs -> Threads \cup {NOBODY}],
           pool_lock' \in [Pools -> Threads \cup {NOBODY}],
           \A d \in Descs : lock'[d] # lock[d] => lock[d] \in {NOBODY, t},
           \A d \in Pools : pool_lock'[d] # pool_lock[d] => pool_lock[d] \in {NOBODY, t},
           LockUse(r) => lock'[r.desc] = t,
           r.pc \in {"scan", "flip"} => pool_lock'[r.pool] = t,
           PagesOf(r) = PagesOf(th[t]), Found(r),
           blocks' \subseteq Blocks, TakenOK', \A b \in Blocks : Taken(b)' <=> Taken(b),
           th[t].pc # "pop", ListUse(r)
    PROVE  AllocInv'
  <1>1. TypeOK /\ Exclusive(Own, used) /\ FoundOK
    BY Zenon DEF AllocInv, PagesOK
  <1>2. Own'[<<"thread", t>>] = Own[<<"thread", t>>]
    BY OwnIs, Zenon DEF Own, Holders, Moved
  <1>3. Exclusive(Own, used)'
    <2>1. \A h \in Holders : h # <<"thread", t>> => Own'[h] = Own[h]
      BY <1>1, OwnMoved, Zenon
    <2>2. \A h \in Holders : Own'[h] = Own[h]
      BY <1>2, <2>1, Zenon
    <2>3. Exclusive(Own', used)
      BY <1>1, <2>2, ExSame
    <2> QED BY <2>3, Zenon
  <1>4. FoundOK'
    BY <1>1, FoundMoved, ZenonT(40)
  <1>5. used' \subseteq Pages /\ pages' \subseteq Pages
    BY <1>1 DEF TypeOK
  <1> QED BY <1>3, <1>4, <1>5, ListsAlone, Zenon

(* A step in which thread t moves no page and no block.                     *)
LEMMA Quiet ==
    ASSUME AllocInv, NEW t \in Threads, NEW r, Moved(t, r), RecordOK(r), StageOK(r),
           UNCHANGED <<used, arena, free_list, blocks, pages, panicked>>,
           lock' \in [Descs -> Threads \cup {NOBODY}],
           pool_lock' \in [Pools -> Threads \cup {NOBODY}],
           \A d \in Descs : lock'[d] # lock[d] => lock[d] \in {NOBODY, t},
           \A d \in Pools : pool_lock'[d] # pool_lock[d] => pool_lock[d] \in {NOBODY, t},
           LockUse(r) => lock'[r.desc] = t,
           r.pc \in {"scan", "flip"} => pool_lock'[r.pool] = t,
           PagesOf(r) = PagesOf(th[t]), HandOf(r) = HandOf(th[t]), Found(r),
           th[t].pc # "pop", ListUse(r)
    PROVE  AllocInv'
  <1>1. TakenOK /\ blocks' \subseteq Blocks
    BY Zenon DEF AllocInv, BlocksOK, TypeOK
  <1>2. TakenOK' /\ \A b \in Blocks : Taken(b)' <=> Taken(b)
    BY <1>1, HandSame, Zenon DEF Hand
  <1> QED BY <1>1, <1>2, Passing, Zenon

(* palloc_get_multiple takes the pool's lock.                               *)
LEMMA GetLockStep ==
    ASSUME AllocInv, NEW t \in Threads, GetLock(t)
    PROVE  AllocInv'
  <1> DEFINE q == th[t]
             r == [q EXCEPT !.pc = "scan"]
  <1>1. TypeOK /\ LocksOK /\ ListUse(q)
    BY DEF AllocInv, BlocksOK, ListUseOK
  <1>2. RecordOK(q) /\ StageOK(q) /\ q.pc = "get"
    BY <1>1 DEF TypeOK, GetLock
  <1>3. Has(r, "scan", q.desc, q.pool, q.cnt, q.idx, q.page, q.ret, q.block, q.old)
    BY <1>2 DEF RecordOK, Fields, Has
  <1>4. Moved(t, r)
    BY <1>1, GotoMoves DEF GetLock
  <1>5. /\ pool_lock[q.pool] = NOBODY /\ pool_lock' = [pool_lock EXCEPT ![q.pool] = t]
        /\ UNCHANGED <<used, arena, free_list, lock, blocks, pages, panicked>>
    BY Zenon DEF GetLock
  <1> HIDE DEF r
  <1>6. RecordOK(r) /\ StageOK(r)
    BY <1>2, <1>3, Zenon DEF RecordOK, StageOK, CallOK, Has, Labels, Searching
  <1>7. LockUse(r) => lock'[r.desc] = t
    BY <1>1, <1>2, <1>3, <1>5, Zenon DEF LockUse, LocksOK, Has, Searching
  <1>8. /\ pool_lock'[r.pool] = t /\ \A d \in Pools : d # q.pool => pool_lock'[d] = pool_lock[d]
        /\ pool_lock' \in [Pools -> Threads \cup {NOBODY}]
        /\ lock' \in [Descs -> Threads \cup {NOBODY}]
    BY <1>1, <1>2, <1>3, <1>5, ZenonT(40) DEF TypeOK, RecordOK, Has
  <1>9. PagesOf(r) = PagesOf(q) /\ HandOf(r) = HandOf(q) /\ Found(r) /\ ListUse(r)
    BY <1>1, <1>2, <1>3 DEF PagesOf, HandOf, Found, ListUse, Has, Searching
  <1> QED BY <1>2, <1>4, <1>5, <1>6, <1>7, <1>8, <1>9, Quiet, ZenonT(40)

(* bitmap_scan leaves the pool, finds a group that is free, or goes on.     *)
LEMMA ScanStep ==
    ASSUME AllocInv, NEW t \in Threads, Scan(t)
    PROVE  AllocInv'
  <1> DEFINE q == th[t]
             page == Pool[q.pool].base + q.idx
  <1>1. TypeOK /\ LocksOK /\ ListUse(q)
    BY DEF AllocInv, BlocksOK, ListUseOK
  <1>2. RecordOK(q) /\ StageOK(q) /\ q.pc = "scan"
    BY <1>1 DEF TypeOK, Scan
  <1>3. /\ UNCHANGED <<used, arena, free_list, lock, blocks, pages, panicked>>
        /\ pool_lock \in [Pools -> Threads \cup {NOBODY}] /\ pool_lock[q.pool] = t
        /\ q.pool \in Pools /\ lock \in [Descs -> Threads \cup {NOBODY}]
    BY <1>1, <1>2, ZenonT(40) DEF Scan, TypeOK, LocksOK, RecordOK
  <1>4. CASE q.idx + q.cnt > Pool[q.pool].cnt
    <2> DEFINE r == [q EXCEPT !.pc = q.ret, !.ret = "none", !.idx = 0]
    <2>1. Moved(t, r) /\ pool_lock' = [pool_lock EXCEPT ![q.pool] = NOBODY]
      BY <1>1, <1>4, GotoMoves DEF Scan
    <2>2. Has(r, q.ret, q.desc, q.pool, q.cnt, 0, q.page, "none", q.block, q.old)
      BY <1>2, Zenon DEF RecordOK, Fields, Has
    <2> HIDE DEF r
    <2>3. RecordOK(r) /\ StageOK(r)
      <3>1. CallOK(q, q.ret)
        BY <1>2, Zenon DEF StageOK, Searching
      <3>2. CallOK(r, r.pc) /\ r.pc \in {"user", "big", "arena"}
        BY <2>2, <3>1, Zenon DEF CallOK, Has
      <3>3. r.pc \in Labels /\ 0 \in Nat
        BY <3>2 DEF Labels
      <3>4. RecordOK(r)
        BY <1>2, <2>2, <3>3, Zenon DEF RecordOK, Has
      <3>5. StageOK(r)
        BY <3>2, ZenonT(40) DEF StageOK, Searching
      <3> QED BY <3>4, <3>5, Zenon
    <2>4. LockUse(r) => lock'[r.desc] = t
      BY <1>1, <1>2, <1>3, <2>2 DEF LockUse, LocksOK, Has, Searching
    <2>5. /\ \A d \in Pools : d # q.pool => pool_lock'[d] = pool_lock[d]
          /\ pool_lock' \in [Pools -> Threads \cup {NOBODY}]
      BY <1>3, <2>1, Zenon
    <2>6. PagesOf(r) = PagesOf(q) /\ HandOf(r) = HandOf(q) /\ Found(r) /\ ListUse(r)
          /\ r.pc \notin {"scan", "flip"}
      BY <1>1, <1>2, <2>2, Zenon DEF PagesOf, HandOf, Found, ListUse, Has, Searching, StageOK,
         CallOK
    <2> QED BY <1>2, <1>3, <2>1, <2>3, <2>4, <2>5, <2>6, Quiet, ZenonT(40)
  <1>5. CASE /\ ~(q.idx + q.cnt > Pool[q.pool].cnt)
             /\ Group(page, q.cnt) \cap used = {}
    <2> DEFINE r == [q EXCEPT !.pc = "flip", !.page = page, !.idx = 0]
    <2>1. Moved(t, r) /\ pool_lock' = pool_lock
      BY <1>1, <1>5, GotoMoves DEF Scan
    <2>2. Has(r, "flip", q.desc, q.pool, q.cnt, 0, page, q.ret, q.block, q.old)
      BY <1>2, ZenonT(40) DEF RecordOK, Fields, Has
    <2>3. \A p \in Group(page, q.cnt) : page_from_pool(q.pool, p)
      <3>1. /\ Pool[q.pool].base \in Nat /\ Pool[q.pool].cnt \in Int
            /\ q.idx \in Nat /\ q.cnt \in Nat
        BY <1>2, PoolFacts DEF RecordOK
      <3>2. q.idx + q.cnt <= Pool[q.pool].cnt
        BY <1>5, <3>1
      <3> QED BY <3>1, <3>2 DEF Group, page_from_pool
    <2>4. page \in Pages /\ page # NONE
      <3>1. page \in Int /\ page \in Group(page, q.cnt)
        <4>1. Pool[q.pool].base \in Nat /\ q.idx \in Nat /\ q.cnt \in Nat
          BY <1>2, PoolFacts, Zenon DEF RecordOK
        <4>2. q.cnt >= 1
          BY <1>2, ZenonT(40) DEF StageOK, CallOK, Searching
        <4> QED BY <4>1, <4>2 DEF Group
      <3> QED BY <3>1, <2>3, <1>3, PoolFacts, BlockFacts, ZenonT(40)
    <2> HIDE DEF r, page
    <2>5. RecordOK(r) /\ StageOK(r)
      BY <1>2, <2>2, <2>4 DEF RecordOK, StageOK, CallOK, Has, Labels, Searching
    <2>6. LockUse(r) => lock'[r.desc] = t
      BY <1>1, <1>2, <1>3, <2>2, Zenon DEF LockUse, LocksOK, Has, Searching
    <2>7. PagesOf(r) = PagesOf(q) /\ HandOf(r) = HandOf(q) /\ ListUse(r)
      BY <1>1, <1>2, <2>2, Zenon DEF PagesOf, HandOf, ListUse, Has, Searching, StageOK, CallOK
    <2>8. Found(r) /\ pool_lock'[r.pool] = t
      BY <1>3, <1>5, <2>1, <2>2, <2>3, Zenon DEF Found, Has
    <2> QED BY <1>2, <1>3, <2>1, <2>5, <2>6, <2>7, <2>8, Quiet, ZenonT(40)
  <1>6. CASE /\ ~(q.idx + q.cnt > Pool[q.pool].cnt)
             /\ Group(page, q.cnt) \cap used # {}
    <2> DEFINE r == [q EXCEPT !.idx = @ + 1]
    <2>1. Moved(t, r) /\ pool_lock' = pool_lock
      BY <1>1, <1>6, GotoMoves DEF Scan
    <2>2. Has(r, "scan", q.desc, q.pool, q.cnt, q.idx + 1, q.page, q.ret, q.block, q.old)
      BY <1>2, ZenonT(40) DEF RecordOK, Fields, Has
    <2> HIDE DEF r
    <2>3. RecordOK(r) /\ StageOK(r)
      BY <1>2, <2>2 DEF RecordOK, StageOK, CallOK, Has, Labels, Searching
    <2>4. LockUse(r) => lock'[r.desc] = t
      BY <1>1, <1>2, <1>3, <2>2, Zenon DEF LockUse, LocksOK, Has, Searching
    <2>5. PagesOf(r) = PagesOf(q) /\ HandOf(r) = HandOf(q) /\ Found(r) /\ ListUse(r)
          /\ pool_lock'[r.pool] = t
      BY <1>1, <1>2, <1>3, <2>1, <2>2, ZenonT(40) DEF PagesOf, HandOf, Found, ListUse, Has,
         Searching
    <2> QED BY <1>2, <1>3, <2>1, <2>3, <2>4, <2>5, Quiet, Zenon
  <1> QED BY <1>4, <1>5, <1>6

(* A call for a user page begins.                                           *)
LEMMA GetUserStep ==
    ASSUME AllocInv, NEW t \in Threads, GetUser(t)
    PROVE  AllocInv'
  <1> DEFINE q == th[t]
             r == [Idle EXCEPT !.pc = "get", !.pool = "user", !.cnt = 1,
                               !.idx = 0, !.page = NONE, !.ret = "user"]
  <1>1. TypeOK
    BY ZenonT(40) DEF AllocInv
  <1>2. RecordOK(q) /\ StageOK(q) /\ q.pc = "idle"
    BY <1>1 DEF TypeOK, GetUser
  <1>3. Has(r, "get", NONE, "user", 1, 0, NONE, "user", <<>>, <<>>)
    BY DEF Idle, Fields, Has
  <1>4. Moved(t, r) /\ UNCHANGED <<used, arena, free_list, lock, pool_lock, blocks, pages, panicked>>
    BY <1>1, GotoMoves DEF GetUser, Get
  <1> HIDE DEF r
  <1>5. RecordOK(r) /\ StageOK(r)
    BY <1>3 DEF RecordOK, StageOK, CallOK, Has, Labels, Searching, Pools
  <1>6. PagesOf(r) = PagesOf(q) /\ HandOf(r) = HandOf(q) /\ Found(r) /\ ListUse(r) /\ ~LockUse(r)
    BY <1>2, <1>3, Zenon DEF PagesOf, HandOf, Found, ListUse, Has, StageOK, LockUse
  <1>7. /\ lock' \in [Descs -> Threads \cup {NOBODY}]
        /\ pool_lock' \in [Pools -> Threads \cup {NOBODY}]
        /\ r.pc = "get"
    BY <1>1, <1>3, <1>4 DEF TypeOK, Has
  <1> QED BY <1>2, <1>4, <1>5, <1>6, <1>7, Quiet
-----------------------------------------------------------------------------
(* malloc chooses a descriptor, or the number of pages.                     *)
LEMMA MallocIs ==
    ASSUME LeastFact, TypeOK, NEW t \in Threads, NEW size \in Sizes, NEW old \in Blocks \cup {<<>>},
           malloc(t, size, old)
    PROVE  \E r : /\ Moved(t, r) /\ RecordOK(r) /\ StageOK(r)
                  /\ r.pc \in {"malloc", "get"} /\ (r.pc = "get" => r.desc = NONE)
                  /\ HandOf(r) = old
  <1> DEFINE q == [Idle EXCEPT !.old = old]
  <1>1. Has(q, "idle", NONE, "kernel", 0, 0, NONE, "none", <<>>, old)
    BY DEF Idle, Has, Fields
  <1>2. CASE Fitting(size) # {}
    <2> DEFINE d == Smallest(Fitting(size))
               r == [q EXCEPT !.pc = "malloc", !.desc = d]
    <2>1. Moved(t, r)
      BY <1>2, GotoMoves DEF malloc
    <2>2. d \in Descs /\ d # NONE
      BY <1>2, SmallestFits, DescFacts
    <2> HIDE DEF d, q
    <2>3. Has(r, "malloc", d, "kernel", 0, 0, NONE, "none", <<>>, old)
      BY <1>1, Zenon DEF Has, Fields
    <2> HIDE DEF r
    <2>4. RecordOK(r) /\ StageOK(r)
      BY <2>2, <2>3 DEF RecordOK, StageOK, CallOK, Has, Labels, Searching, Pools
    <2> QED BY <2>1, <2>3, <2>4 DEF Has, HandOf
  <1>3. CASE Fitting(size) = {}
    <2> DEFINE n == div_round_up(size + HEADER, PGSIZE)
               r == [q EXCEPT !.pc = "get", !.pool = "kernel", !.cnt = n,
                              !.idx = 0, !.page = NONE, !.ret = "big"]
    <2>1. Moved(t, r)
      BY <1>3, GotoMoves DEF malloc, Get
    <2>2. n \in Nat /\ n >= 1
      BY BigCount
    <2> HIDE DEF n, q
    <2>3. Has(r, "get", NONE, "kernel", n, 0, NONE, "big", <<>>, old)
      BY <1>1, Zenon DEF Has, Fields
    <2> HIDE DEF r
    <2>4. RecordOK(r) /\ StageOK(r)
      BY <2>2, <2>3 DEF RecordOK, StageOK, CallOK, Has, Labels, Searching, Pools
    <2> QED BY <2>1, <2>3, <2>4 DEF Has, HandOf
  <1> QED BY <1>2, <1>3

(* malloc begins.                                                           *)
LEMMA MallocStep ==
    ASSUME LeastFact, AllocInv, NEW t \in Threads, NEW size \in Sizes, Malloc(t, size)
    PROVE  AllocInv'
  <1> DEFINE q == th[t]
  <1>1. TypeOK /\ RecordOK(q) /\ StageOK(q) /\ q.pc = "idle"
    BY DEF AllocInv, TypeOK, Malloc
  <1>2. PICK r : /\ Moved(t, r) /\ RecordOK(r) /\ StageOK(r)
                 /\ r.pc \in {"malloc", "get"} /\ (r.pc = "get" => r.desc = NONE)
                 /\ HandOf(r) = <<>>
    BY <1>1, MallocIs DEF Malloc
  <1>3. /\ UNCHANGED <<pool_lock, used, arena, free_list, lock, pages, panicked, blocks>>
        /\ lock' \in [Descs -> Threads \cup {NOBODY}]
        /\ pool_lock' \in [Pools -> Threads \cup {NOBODY}]
    BY <1>1, Zenon DEF Malloc, malloc, TypeOK
  <1>4. PagesOf(r) = PagesOf(q) /\ HandOf(r) = HandOf(q) /\ Found(r) /\ ListUse(r) /\ ~LockUse(r)
    BY <1>1, <1>2, Zenon DEF PagesOf, HandOf, Found, ListUse, StageOK, LockUse, Searching
  <1> QED BY <1>1, <1>2, <1>3, <1>4, Quiet, ZenonT(40)

(* realloc begins, with the caller's block in hand.                         *)
LEMMA ReallocStep ==
    ASSUME LeastFact, AllocInv, NEW t \in Threads, NEW size \in Sizes, Realloc(t, size)
    PROVE  AllocInv'
  <1> DEFINE q == th[t]
  <1>1. TypeOK /\ RecordOK(q) /\ StageOK(q) /\ q.pc = "idle" /\ TakenOK
    BY Zenon DEF AllocInv, BlocksOK, TypeOK, Realloc
  <1>2. PICK b \in blocks : malloc(t, size, b) /\ blocks' = blocks \ {b}
    BY DEF Realloc
  <1>3. b \in Blocks /\ blocks' \subseteq Blocks
    BY <1>1, <1>2, Zenon DEF TypeOK
  <1>4. PICK r : /\ Moved(t, r) /\ RecordOK(r) /\ StageOK(r)
                 /\ r.pc \in {"malloc", "get"} /\ (r.pc = "get" => r.desc = NONE)
                 /\ HandOf(r) = b
    BY <1>1, <1>2, <1>3, MallocIs
  <1>5. /\ UNCHANGED <<pool_lock, used, arena, free_list, lock, pages, panicked>>
        /\ lock' \in [Descs -> Threads \cup {NOBODY}]
        /\ pool_lock' \in [Pools -> Threads \cup {NOBODY}]
    BY <1>1, <1>2, Zenon DEF malloc, TypeOK
  <1>6. PagesOf(r) = PagesOf(q) /\ Found(r) /\ ListUse(r) /\ ~LockUse(r)
    BY <1>1, <1>4, Zenon DEF PagesOf, Found, ListUse, StageOK, LockUse, Searching
  <1>7. Hand(t) = <<>>
    BY <1>1, Zenon DEF Hand, HandOf, StageOK
  <1>8. TakenOK' /\ \A c \in Blocks : Taken(c)' <=> Taken(c)
    BY <1>1, <1>2, <1>4, <1>5, <1>7, HandTakes, ZenonT(40)
  <1> QED BY <1>1, <1>3, <1>4, <1>5, <1>6, <1>8, Passing, Zenon

(* free begins.                                                             *)
LEMMA FreeStep ==
    ASSUME AllocInv, NEW t \in Threads, Free(t)
    PROVE  AllocInv'
  <1> DEFINE q == th[t]
  <1>1. TypeOK /\ RecordOK(q) /\ StageOK(q) /\ q.pc = "idle" /\ TakenOK
    BY Zenon DEF AllocInv, BlocksOK, TypeOK, Free
  <1>2. PICK b \in blocks : Goto(t, [Idle EXCEPT !.pc = "free", !.block = b])
                            /\ blocks' = blocks \ {b}
    BY Zenon DEF Free
  <1> DEFINE r == [Idle EXCEPT !.pc = "free", !.block = b]
  <1>3. b \in Blocks /\ blocks' \subseteq Blocks /\ b # <<>>
    BY <1>1, <1>2, BlockFacts DEF TypeOK
  <1>4. Moved(t, r)
    BY <1>1, <1>2, GotoMoves
  <1>5. Has(r, "free", NONE, "kernel", 0, 0, NONE, "none", b, <<>>)
    BY Zenon DEF Idle, Has, Fields
  <1> HIDE DEF r
  <1>6. RecordOK(r) /\ StageOK(r)
    BY <1>3, <1>5 DEF RecordOK, StageOK, CallOK, Has, Labels, Searching, Pools
  <1>7. /\ UNCHANGED <<pool_lock, used, arena, free_list, lock, pages, panicked>>
        /\ lock' \in [Descs -> Threads \cup {NOBODY}]
        /\ pool_lock' \in [Pools -> Threads \cup {NOBODY}]
    BY <1>1, Zenon DEF Free, TypeOK
  <1>8. PagesOf(r) = PagesOf(q) /\ Found(r) /\ ListUse(r) /\ ~LockUse(r) /\ r.pc = "free"
    BY <1>1, <1>5, Zenon DEF Has, PagesOf, Found, ListUse, StageOK, LockUse, Searching
  <1>9. Hand(t) = <<>> /\ HandOf(r) = b
    BY <1>1, <1>3, <1>5 DEF Hand, HandOf, StageOK, Has
  <1>10. TakenOK' /\ \A c \in Blocks : Taken(c)' <=> Taken(c)
    BY <1>1, <1>2, <1>4, <1>7, <1>9, HandTakes, Zenon
  <1> QED BY <1>1, <1>3, <1>4, <1>6, <1>7, <1>8, <1>10, Passing, Zenon

(* malloc gets the descriptor's lock.                                       *)
LEMMA MallocLockStep ==
    ASSUME AllocInv, NEW t \in Threads, MallocLock(t)
    PROVE  AllocInv'
  <1> DEFINE q == th[t]
             d == q.desc
  <1>1. TypeOK /\ RecordOK(q) /\ StageOK(q) /\ q.pc = "malloc"
    BY ZenonT(40) DEF AllocInv, TypeOK, MallocLock
  <1>2. d \in Descs /\ d # NONE /\ q.block = <<>>
    BY <1>1 DEF RecordOK, StageOK
  <1>3. /\ UNCHANGED <<pool_lock, used, arena, free_list, blocks, pages, panicked>>
        /\ lock[d] = NOBODY /\ lock' = [lock EXCEPT ![d] = t]
        /\ pool_lock' \in [Pools -> Threads \cup {NOBODY}]
    BY <1>1, Zenon DEF MallocLock, TypeOK
  <1>4. /\ lock' \in [Descs -> Threads \cup {NOBODY}] /\ lock'[d] = t
        /\ \A e \in Descs : lock'[e] # lock[e] => lock[e] \in {NOBODY, t}
    BY <1>1, <1>2, <1>3, Zenon DEF TypeOK
  <1>5. CASE free_list[d] = <<>>
    <2> DEFINE r == [q EXCEPT !.pc = "get", !.pool = "kernel", !.cnt = 1,
                              !.idx = 0, !.page = NONE, !.ret = "arena"]
    <2>1. Moved(t, r)
      BY <1>1, <1>5, GotoMoves DEF MallocLock, Get
    <2>2. Has(r, "get", d, "kernel", 1, 0, NONE, "arena", q.block, q.old)
      BY <1>1, ZenonT(40) DEF RecordOK, Has, Fields
    <2> HIDE DEF r
    <2>3. RecordOK(r) /\ StageOK(r)
      BY <1>1, <1>2, <2>2 DEF RecordOK, StageOK, CallOK, Has, Labels, Searching, Pools
    <2>4. /\ PagesOf(r) = PagesOf(q) /\ HandOf(r) = HandOf(q) /\ Found(r) /\ ListUse(r)
          /\ r.pc = "get" /\ r.desc = d
      BY <1>1, <1>5, <2>2, Zenon DEF PagesOf, HandOf, Found, ListUse, Has, StageOK
    <2> QED BY <1>1, <1>3, <1>4, <2>1, <2>3, <2>4, Quiet, Zenon
  <1>6. CASE free_list[d] # <<>>
    <2> DEFINE r == [q EXCEPT !.pc = "pop"]
    <2>1. Moved(t, r)
      BY <1>1, <1>6, GotoMoves DEF MallocLock
    <2>2. Has(r, "pop", d, q.pool, q.cnt, q.idx, q.page, q.ret, q.block, q.old)
      BY <1>1, Zenon DEF RecordOK, Has, Fields
    <2> HIDE DEF r
    <2>3. RecordOK(r) /\ StageOK(r)
      BY <1>1, <1>2, <2>2, Zenon DEF RecordOK, StageOK, CallOK, Has, Labels, Searching
    <2>4. /\ PagesOf(r) = PagesOf(q) /\ HandOf(r) = HandOf(q) /\ Found(r) /\ ListUse(r)
          /\ r.pc = "pop" /\ r.desc = d
      BY <1>1, <1>6, <2>2, Zenon DEF PagesOf, HandOf, Found, ListUse, Has, StageOK, Searching
    <2> QED BY <1>1, <1>3, <1>4, <2>1, <2>3, <2>4, Quiet, Zenon
  <1> QED BY <1>5, <1>6
-----------------------------------------------------------------------------
(* Pages get a holder.                                                      *)
LEMMA FlipStep ==
    ASSUME AllocInv, NEW t \in Threads, Flip(t)
    PROVE  AllocInv'
  <1> DEFINE q == th[t]
             r == [q EXCEPT !.pc = q.ret, !.ret = "none"]
             G == Group(q.page, q.cnt)
             h == <<"thread", t>>
  <1>1. TypeOK /\ LocksOK /\ Exclusive(Own, used) /\ FoundOK /\ TakenOK /\ ListUse(q)
    BY Zenon DEF AllocInv, PagesOK, BlocksOK, ListUseOK
  <1>2. RecordOK(q) /\ StageOK(q) /\ q.pc = "flip" /\ Found(q)
    BY <1>1 DEF TypeOK, Flip, FoundOK
  <1>3. Moved(t, r)
    BY <1>1, GotoMoves DEF Flip
  <1>4. Has(r, q.ret, q.desc, q.pool, q.cnt, q.idx, q.page, "none", q.block, q.old)
    BY <1>2 DEF RecordOK, Has, Fields
  <1>5. /\ used' = used \cup G /\ pool_lock' = [pool_lock EXCEPT ![q.pool] = NOBODY]
        /\ UNCHANGED <<arena, free_list, lock, blocks, pages, panicked>>
    BY Zenon DEF Flip
  <1> HIDE DEF r
  <1>6. RecordOK(r) /\ StageOK(r)
    BY <1>2, <1>4, ZenonT(40) DEF RecordOK, StageOK, CallOK, Has, Labels, Searching
  <1>7. PagesOf(r) = G /\ PagesOf(q) = {} /\ HandOf(r) = HandOf(q)
    BY <1>2, <1>4, Zenon DEF PagesOf, HandOf, Has, StageOK, CallOK, Searching
  <1>8. LockUse(r) => lock'[r.desc] = t
    BY <1>1, <1>2, <1>4, <1>5, Zenon DEF LockUse, LocksOK, Has, Searching
  <1>9. ListUse(r) /\ Found(r) /\ r.pc \notin {"scan", "flip"}
    BY <1>1, <1>2, <1>4, Zenon DEF ListUse, Found, Has, Searching, StageOK, CallOK
  <1>10. /\ \A d \in Pools : d # q.pool => pool_lock'[d] = pool_lock[d]
         /\ pool_lock[q.pool] = t /\ pool_lock' \in [Pools -> Threads \cup {NOBODY}]
         /\ lock' \in [Descs -> Threads \cup {NOBODY}]
         /\ blocks' \subseteq Blocks /\ pages' \subseteq Pages
    BY <1>1, <1>2, <1>5, ZenonT(40) DEF TypeOK, LocksOK
  <1>11. G \cap used = {} /\ (\A p \in G : page_from_pool(q.pool, p)) /\ G \subseteq Int
         /\ q.pool \in Pools
    BY <1>2 DEF Found, Group, RecordOK
  <1>12. used' \subseteq Pages
    BY <1>1, <1>5, <1>11, PoolFacts, Zenon DEF TypeOK
  <1> HIDE DEF G
  <1>13. Exclusive(Own, used)'
    <2>1. Own'[h] = G /\ Own[h] = {} /\ h \in Holders
      BY <1>3, <1>7, OwnIs, Zenon DEF Own, Moved, Holders
    <2>2. \A k \in Holders : k # h => Own'[k] = Own[k]
      BY <1>1, <1>3, <1>5, OwnMoved
    <2>3. InPool(G)
      BY <1>11, Zenon DEF InPool
    <2> QED BY <1>1, <1>5, <1>11, <2>1, <2>2, <2>3, ExAllocate, Zenon
  <1>14. FoundOK'
    <2> SUFFICES ASSUME NEW u \in Threads, th'[u].pc = "flip"
                 PROVE  Found(th[u])'
      BY DEF FoundOK, Found
    <2>1. u # t /\ th'[u] = th[u]
      BY <1>3, <1>9, Zenon DEF Moved
    <2>2. Found(th[u]) /\ RecordOK(th[u]) /\ pool_lock[th[u].pool] = u
      BY <1>1, <2>1, Zenon DEF FoundOK, TypeOK, LocksOK
    <2> DEFINE H == Group(th[u].page, th[u].cnt)
    <2>3. H \cap used = {} /\ (\A p \in H : page_from_pool(th[u].pool, p)) /\ H \subseteq Int
          /\ th[u].pool \in Pools
      <3>1. H \cap used = {} /\ (\A p \in H : page_from_pool(th[u].pool, p)) /\ th[u].pool \in Pools
        BY <2>1, <2>2, Zenon DEF Found, RecordOK
      <3>2. H \subseteq Int
        BY DEF Group
      <3> QED BY <3>1, <3>2, Zenon
    <2> HIDE DEF H
    <2>4. H \cap G = {}
      BY <1>10, <1>11, <2>1, <2>2, <2>3, PoolFacts, Zenon
    <2>5. H \cap used' = {}
      BY <1>5, <2>3, <2>4
    <2> QED BY <2>1, <2>3, <2>5, Zenon DEF Found, H
  <1>15. TakenOK' /\ \A b \in Blocks : Taken(b)' <=> Taken(b)
    BY <1>1, <1>3, <1>5, <1>7, HandSame, Zenon DEF Hand
  <1> QED BY <1>2, <1>3, <1>5, <1>6, <1>8, <1>9, <1>10, <1>12, <1>13, <1>14, <1>15, ListsAlone,
             ZenonT(40)

(* The pages of a group, one by one.                                        *)
LEMMA GroupFacts ==
    ASSUME NEW p \in Nat, NEW n \in Nat
    PROVE  /\ n > 1 => Group(p + 1, n - 1) = Group(p, n) \ {p} /\ p \in Group(p, n)
           /\ n = 1 => Group(p, n) = {p}
  <1>1. n > 1 => \A x : x \in Group(p + 1, n - 1) <=> x \in Group(p, n) /\ x # p
    BY DEF Group
  <1>2. n > 1 => p \in Group(p, n)
    BY DEF Group
  <1>3. n = 1 => \A x : x \in Group(p, n) <=> x = p
    BY DEF Group
  <1> QED BY <1>1, <1>2, <1>3

(* The record of a thread that is in no call.                               *)
LEMMA IdleFacts ==
    /\ RecordOK(Idle) /\ StageOK(Idle) /\ PagesOf(Idle) = {} /\ HandOf(Idle) = <<>>
    /\ Found(Idle) /\ ListUse(Idle) /\ ~LockUse(Idle) /\ Idle.pc = "idle"
  <1>1. Has(Idle, "idle", NONE, "kernel", 0, 0, NONE, "none", <<>>, <<>>)
    BY ZenonT(40) DEF Idle, Has, Fields
  <1>2. RecordOK(Idle) /\ StageOK(Idle)
    BY <1>1 DEF RecordOK, StageOK, Has, Labels, Searching, Pools
  <1> QED BY <1>1, <1>2 DEF PagesOf, HandOf, Found, ListUse, LockUse, Has, Searching

(* palloc_free_multiple gives up a page.                                    *)
LEMMA ResetStep ==
    ASSUME AllocInv, NEW t \in Threads, Reset(t)
    PROVE  AllocInv'
  <1> DEFINE q == th[t]
             h == <<"thread", t>>
             r == IF q.cnt > 1 THEN [q EXCEPT !.page = @ + 1, !.cnt = @ - 1] ELSE Idle
  <1>1. TypeOK /\ LocksOK /\ Exclusive(Own, used) /\ FoundOK /\ TakenOK /\ ListUse(q)
    BY DEF AllocInv, PagesOK, BlocksOK, ListUseOK
  <1>2. RecordOK(q) /\ StageOK(q) /\ q.pc = "reset"
    BY <1>1, Zenon DEF TypeOK, Reset
  <1>3. /\ q.cnt \in Nat /\ q.cnt >= 1 /\ q.page \in Pages /\ q.page \in Nat /\ q.page # NONE
        /\ q.block = <<>> /\ q.old = <<>>
    BY <1>2, BlockFacts DEF RecordOK, StageOK
  <1>4. /\ used' = used \ {q.page}
        /\ lock' = IF q.cnt = 1 /\ q.desc # NONE THEN [lock EXCEPT ![q.desc] = NOBODY] ELSE lock
        /\ UNCHANGED <<pool_lock, arena, free_list, blocks, pages, panicked>>
    BY DEF Reset
  <1>5. Moved(t, r)
    BY <1>1, GotoMoves, Zenon DEF Reset
  <1>6. Own[h] = Group(q.page, q.cnt) /\ h \in Holders
    BY <1>2, <1>3, OwnIs, ZenonT(40) DEF PagesOf
  <1>7. \A p \in Group(q.page, q.cnt) : p \in Pages
    BY <1>1, <1>6 DEF Exclusive, TypeOK
  <1>8. /\ q.cnt > 1 => Has(r, "reset", q.desc, q.pool, q.cnt - 1, q.idx, q.page + 1, q.ret,
                            <<>>, <<>>)
        /\ q.cnt = 1 => Has(r, "idle", NONE, "kernel", 0, 0, NONE, "none", <<>>, <<>>)
    <2>1. CASE q.cnt > 1
      <3>1. r = [q EXCEPT !.page = q.page + 1, !.cnt = q.cnt - 1]
        BY <2>1
      <3> HIDE DEF r
      <3> QED BY <1>2, <1>3, <2>1, <3>1 DEF RecordOK, Has, Fields
    <2>2. CASE q.cnt = 1
      BY <2>2 DEF Has, Fields, Idle
    <2> QED BY <1>3, <2>1, <2>2
  <1>9. /\ q.cnt > 1 \/ q.cnt = 1
        /\ q.cnt > 1 => q.page + 1 \in Pages /\ q.cnt - 1 \in Nat /\ q.cnt - 1 >= 1
        /\ q.cnt = 1 => r = Idle
    <2>1. q.cnt > 1 => q.page + 1 \in Group(q.page, q.cnt)
      BY <1>3 DEF Group
    <2>2. /\ q.cnt > 1 \/ q.cnt = 1
          /\ q.cnt > 1 => q.cnt - 1 \in Nat /\ q.cnt - 1 >= 1
          /\ q.cnt = 1 => ~(q.cnt > 1)
      BY <1>3
    <2> QED BY <1>7, <2>1, <2>2, ZenonT(40)
  <1> HIDE DEF r
  <1>10. /\ RecordOK(r) /\ StageOK(r)
         /\ q.cnt > 1 => PagesOf(r) = Group(q.page + 1, q.cnt - 1)
         /\ q.cnt = 1 => PagesOf(r) = {}
    <2>1. CASE q.cnt > 1
      <3>1. /\ q.desc \in Descs \cup {NONE} /\ q.pool \in Pools /\ q.idx \in Nat
            /\ q.ret \in {"none", "user", "big", "arena"}
        BY <1>2, Zenon DEF RecordOK
      <3>2. ~(q.cnt = 1)
        BY <2>1
      <3>3. /\ q.page + 1 \in Pages /\ q.cnt - 1 \in Nat /\ q.cnt - 1 >= 1
            /\ Has(r, "reset", q.desc, q.pool, q.cnt - 1, q.idx, q.page + 1, q.ret, <<>>, <<>>)
        BY <1>8, <1>9, <2>1, Zenon
      <3>4. q.page + 1 # NONE /\ "reset" \in Labels
        BY <3>3, BlockFacts, Zenon DEF Labels
      <3>5. RecordOK(r)
        BY <3>1, <3>3, <3>4, Zenon DEF RecordOK, Has
      <3>6. StageOK(r)
        BY <3>3, <3>4, Zenon DEF StageOK, Has, Searching
      <3>7. PagesOf(r) = Group(q.page + 1, q.cnt - 1)
        BY <3>3, <3>4, Zenon DEF PagesOf, Has
      <3> QED BY <3>2, <3>5, <3>6, <3>7, Zenon
    <2>2. CASE q.cnt = 1
      <3>1. ~(q.cnt > 1)
        BY <2>2
      <3> QED BY <1>9, <2>2, <3>1, IdleFacts, Zenon
    <2> QED BY <1>9, <2>1, <2>2, Zenon
  <1>11. PagesOf(r) = Group(q.page, q.cnt) \ {q.page} /\ q.page \in Group(q.page, q.cnt)
    BY <1>3, <1>9, <1>10, GroupFacts, ZenonT(40)
  <1>12. HandOf(r) = HandOf(q) /\ Found(r) /\ ListUse(r) /\ r.pc \in {"reset", "idle"}
    BY <1>2, <1>3, <1>8 DEF HandOf, Found, ListUse, Has, Searching
  <1>13. /\ LockUse(r) => lock'[r.desc] = t
         /\ \A d \in Descs : lock'[d] # lock[d] => lock[d] \in {NOBODY, t}
         /\ lock' \in [Descs -> Threads \cup {NOBODY}]
    <2>1. q.desc # NONE => lock[q.desc] = t /\ q.desc \in Descs
      BY <1>1, <1>2 DEF LocksOK, LockUse, RecordOK
    <2>2. lock \in [Descs -> Threads \cup {NOBODY}]
      BY <1>1, Zenon DEF TypeOK
    <2>3. /\ q.cnt > 1 => r.desc = q.desc
          /\ q.cnt = 1 => r.desc = NONE
      BY <1>8 DEF Has
    <2>4. LockUse(r) => r.desc # NONE
      BY DEF LockUse
    <2>5. CASE q.cnt = 1 /\ q.desc # NONE
      <3>1. lock' = [lock EXCEPT ![q.desc] = NOBODY] /\ ~LockUse(r)
        BY <1>4, <2>3, <2>4, <2>5, Zenon
      <3> QED BY <2>1, <2>2, <2>5, <3>1, Zenon
    <2>6. CASE ~(q.cnt = 1 /\ q.desc # NONE)
      <3>1. lock' = lock
        BY <1>4, <2>6, Zenon
      <3>2. q.cnt = 1 \/ q.cnt > 1
        BY <1>3
      <3>3. LockUse(r) => q.desc # NONE /\ r.desc = q.desc
        BY <2>3, <2>4, <2>6, <3>2, Zenon
      <3> QED BY <2>1, <2>2, <3>1, <3>3, Zenon
    <2> QED BY <2>5, <2>6, Zenon
  <1>14. Exclusive(Own, used)'
    <2>1. Own'[h] = Own[h] \ {q.page}
      BY <1>5, <1>6, <1>11, OwnIs DEF Own, Moved, Holders
    <2>2. \A k \in Holders : k # h => Own'[k] = Own[k]
      BY <1>1, <1>4, <1>5, OwnMoved, Zenon
    <2>3. q.page \in Own[h]
      BY <1>6, <1>11, Zenon
    <2> QED BY <1>1, <1>4, <1>6, <2>1, <2>2, <2>3, ExRelease, ZenonT(40)
  <1>15. FoundOK'
    BY <1>1, <1>4, <1>5, <1>12, FoundMoved, Zenon
  <1>16. TakenOK' /\ \A b \in Blocks : Taken(b)' <=> Taken(b)
    BY <1>1, <1>4, <1>5, <1>12, HandSame, ZenonT(40) DEF Hand
  <1>17. /\ used' \subseteq Pages /\ pages' \subseteq Pages /\ blocks' \subseteq Blocks
         /\ pool_lock' \in [Pools -> Threads \cup {NOBODY}]
    BY <1>1, <1>4, ZenonT(40) DEF TypeOK
  <1> QED BY <1>2, <1>4, <1>5, <1>10, <1>12, <1>13, <1>14, <1>15, <1>16, <1>17, ListsAlone, Zenon

(* Where no step changes an arena, only the user page p changes holders.    *)
LEMMA OwnUser ==
    ASSUME TypeOK, NEW t \in Threads, NEW r, Moved(t, r), UNCHANGED arena, NEW p \in Pages,
           \A x \in Pages : x # p => (x \in pages' <=> x \in pages)
    PROVE  \A h \in Holders : h # <<"thread", t>> /\ h # <<"user", p>> => Own'[h] = Own[h]
  <1> TAKE h \in Holders
  <1>1. CASE \E x \in Pages : h = <<"arena", x>>
    <2>1. PICK x \in Pages : h = <<"arena", x>>
      BY <1>1, Zenon
    <2>2. Own[h] = OfArena(x) /\ Own'[h] = OfArena(x)'
      BY <2>1, OwnIs, OwnIsPrime, Zenon
    <2> QED BY <2>2, Zenon DEF OfArena
  <1>2. CASE \E x \in Pages : h = <<"user", x>>
    <2>1. PICK x \in Pages : h = <<"user", x>>
      BY <1>2, Zenon
    <2>2. Own[h] = OfUser(x) /\ Own'[h] = OfUser(x)'
      BY <2>1, OwnIs, OwnIsPrime, Zenon
    <2>3. x # p => OfUser(x)' = OfUser(x)
      BY Zenon DEF OfUser
    <2> QED BY <2>1, <2>2, <2>3, Zenon
  <1>3. CASE \E u \in Threads : h = <<"thread", u>>
    BY <1>3 DEF Own, Holders, Moved
  <1> QED BY <1>1, <1>2, <1>3, OwnIs, ZenonT(40)

(* A caller gets its user page.                                             *)
LEMMA GotUserStep ==
    ASSUME AllocInv, NEW t \in Threads, GotUser(t)
    PROVE  AllocInv'
  <1> DEFINE q == th[t]
             h == <<"thread", t>>
             g == <<"user", q.page>>
  <1>1. TypeOK /\ Exclusive(Own, used) /\ FoundOK /\ TakenOK
    BY Zenon DEF AllocInv, PagesOK, BlocksOK
  <1>2. RecordOK(q) /\ StageOK(q) /\ q.pc = "user"
    BY <1>1, Zenon DEF TypeOK, GotUser
  <1>3. q.cnt = 1 /\ q.page \in Pages \cup {NONE} /\ HandOf(q) = <<>>
    BY <1>2, Zenon DEF RecordOK, StageOK, CallOK, HandOf
  <1>4. /\ Moved(t, Idle) /\ pages' = pages \cup ({q.page} \ {NONE})
        /\ UNCHANGED <<pool_lock, used, arena, free_list, lock, blocks, panicked>>
    BY <1>1, GotoMoves, Zenon DEF GotUser
  <1>5. Own'[h] = {} /\ h \in Holders
    BY <1>4, OwnIs, IdleFacts, Zenon DEF Own, Moved, Holders
  <1>6. Exclusive(Own, used)'
    <2>1. CASE q.page = NONE
      <3>1. Own[h] = {}
        BY <2>1, OwnIs DEF PagesOf
      <3>2. pages' = pages
        BY <1>4, <2>1, Zenon
      <3>3. \A k \in Holders : Own'[k] = Own[k]
        BY <1>1, <1>4, <1>5, <3>1, <3>2, OwnMoved, Zenon
      <3> QED BY <1>1, <1>4, <3>3, ExSame, Zenon
    <2>2. CASE q.page # NONE
      <3>1. q.page \in Pages /\ q.page \in Nat
        BY <1>3, <2>2, BlockFacts, Zenon
      <3>2. Own[h] = {q.page}
        <4>1. Own[h] = Group(q.page, 1)
          BY <1>2, <1>3, <2>2, OwnIs, Zenon DEF PagesOf
        <4>2. 1 \in Nat
          OBVIOUS
        <4> QED BY <3>1, <4>1, <4>2, GroupFacts, Zenon
      <3>3. g \in Holders /\ g # h /\ Own[g] = {q.page} \cap pages
        BY <3>1, OwnIs DEF OfUser
      <3>4. Own[g] = {}
        BY <1>1, <1>5, <3>2, <3>3, Zenon DEF Exclusive
      <3>5. Own'[g] = {q.page}
        BY <1>4, <2>2, <3>1, <3>3, Zenon DEF Own, OfUser, Holders
      <3>6. \A k \in Holders : k # h /\ k # g => Own'[k] = Own[k]
        BY <1>1, <1>4, <2>2, <3>1, OwnUser
      <3>7. Own'[g] = Own[h]
        BY <3>2, <3>5
      <3> QED BY <1>1, <1>4, <1>5, <3>3, <3>4, <3>6, <3>7, ExTransfer
    <2> QED BY <2>1, <2>2, ZenonT(40)
  <1>7. FoundOK'
    BY <1>1, <1>4, IdleFacts, FoundMoved, Zenon
  <1>8. TakenOK' /\ \A b \in Blocks : Taken(b)' <=> Taken(b)
    BY <1>1, <1>3, <1>4, IdleFacts, HandSame, Zenon DEF Hand
  <1>9. /\ used' \subseteq Pages /\ pages' \subseteq Pages /\ blocks' \subseteq Blocks
        /\ pool_lock' \in [Pools -> Threads \cup {NOBODY}]
        /\ lock' \in [Descs -> Threads \cup {NOBODY}]
    BY <1>1, <1>3, <1>4, Zenon DEF TypeOK
  <1> QED BY <1>2, <1>4, <1>6, <1>7, <1>8, <1>9, IdleFacts, ListsAlone, Zenon

(* A caller frees its user page.                                            *)
LEMMA FreeUserStep ==
    ASSUME AllocInv, NEW t \in Threads, FreeUser(t)
    PROVE  AllocInv'
  <1> DEFINE q == th[t]
             h == <<"thread", t>>
  <1>1. TypeOK /\ Exclusive(Own, used) /\ FoundOK /\ TakenOK
    BY Zenon DEF AllocInv, PagesOK, BlocksOK
  <1>2. RecordOK(q) /\ StageOK(q) /\ q.pc = "idle"
    BY <1>1 DEF TypeOK, FreeUser
  <1>3. PICK p \in pages : /\ pages' = pages \ {p}
                           /\ StartReset(t, Idle, p, 1, TRUE)
                           /\ UNCHANGED <<pool_lock, used, arena, free_list, lock, blocks>>
    BY Zenon DEF FreeUser
  <1> DEFINE g == <<"user", p>>
             r == [Idle EXCEPT !.pc = "reset", !.page = p, !.cnt = 1, !.block = <<>>]
  <1>4. p \in Pages /\ p \in Nat /\ p # NONE
    BY <1>1, <1>3, BlockFacts DEF TypeOK
  <1>5. Moved(t, r)
    BY <1>1, <1>3, GotoMoves DEF StartReset
  <1>6. Has(r, "reset", NONE, "kernel", 1, 0, p, "none", <<>>, <<>>)
    BY DEF Idle, Has, Fields
  <1> HIDE DEF r
  <1>7. RecordOK(r) /\ StageOK(r)
    BY <1>4, <1>6 DEF RecordOK, StageOK, Has, Labels, Searching, Pools
  <1>8. PagesOf(r) = Group(p, 1) /\ Group(p, 1) = {p}
    BY <1>4, <1>6 DEF PagesOf, Has, Group
  <1>9. HandOf(r) = HandOf(q) /\ Found(r) /\ ListUse(r) /\ ~LockUse(r) /\ r.pc = "reset"
    BY <1>2, <1>6, Zenon DEF StageOK, HandOf, Found, ListUse, LockUse, Has, Searching
  <1>10. g \in Holders /\ h \in Holders /\ g # h /\ Own[g] = {p} /\ Own[h] = {}
    BY <1>2, <1>3, <1>4, OwnIs, Zenon DEF OfUser, PagesOf
  <1>11. Own'[g] = {} /\ Own'[h] = {p}
    BY <1>3, <1>5, <1>8, <1>10, ZenonT(40) DEF Own, Holders, OfUser, Moved
  <1>12. \A k \in Holders : k # g /\ k # h => Own'[k] = Own[k]
    BY <1>1, <1>3, <1>4, <1>5, OwnUser
  <1> HIDE DEF g, h
  <1>13. Exclusive(Own, used)'
    <2>1. Own'[h] = Own[g]
      BY <1>10, <1>11
    <2>2. g \in Holders /\ h \in Holders /\ g # h /\ Own[h] = {} /\ Own'[g] = {}
      BY <1>10, <1>11, Zenon
    <2>3. Exclusive(Own', used)
      BY <1>1, <1>12, <2>1, <2>2, ExTransfer
    <2> QED BY <1>3, <2>3
  <1>14. FoundOK'
    BY <1>1, <1>3, <1>5, <1>9, FoundMoved, Zenon
  <1>15. TakenOK' /\ \A b \in Blocks : Taken(b)' <=> Taken(b)
    BY <1>1, <1>3, <1>5, <1>9, HandSame, Zenon DEF Hand
  <1>16. /\ used' \subseteq Pages /\ pages' \subseteq Pages /\ blocks' \subseteq Blocks
         /\ pool_lock' \in [Pools -> Threads \cup {NOBODY}]
         /\ lock' \in [Descs -> Threads \cup {NOBODY}]
    BY <1>1, <1>3 DEF TypeOK
  <1>17. panicked' = panicked
    <2>1. p \in Own[g] /\ InPool(Own[g])
      BY <1>1, <1>10, Zenon DEF Exclusive
    <2>2. p \in used /\ InPool({p})
      BY <1>1, <1>10, <2>1 DEF Exclusive
    <2>3. (\E pool \in Pools : page_from_pool(pool, p)) /\ Group(p, 1) \subseteq used
      BY <1>8, <2>2 DEF InPool
    <2>4. panicked' = FALSE
      BY <1>3, <2>3, Zenon DEF StartReset
    <2> QED BY <1>1, <2>4, Zenon DEF TypeOK
  <1> QED BY <1>2, <1>3, <1>5, <1>7, <1>9, <1>13, <1>14, <1>15, <1>16, <1>17, ListsAlone, ZenonT(40)
-----------------------------------------------------------------------------
(* malloc finds no page: realloc leaves the old block to its caller.        *)
LEMMA ReturnNone ==
    ASSUME TypeOK, TakenOK, NEW t \in Threads, th[t].block = <<>>, Return(t, <<>>), arena' = arena
    PROVE  /\ Moved(t, Idle) /\ blocks' \subseteq Blocks
           /\ TakenOK' /\ \A b \in Blocks : Taken(b)' <=> Taken(b)
  <1> DEFINE old == th[t].old
  <1>1. Moved(t, Idle)
    BY GotoMoves DEF Return
  <1>2. blocks' = blocks \cup ({old} \ {<<>>}) /\ old \in Blocks \cup {<<>>} /\ Hand(t) = old
    BY Zenon DEF Return, TypeOK, RecordOK, Hand, HandOf
  <1>3. blocks' \subseteq Blocks
    BY <1>2, Zenon DEF TypeOK
  <1>4. CASE old = <<>>
    <2>1. blocks' = blocks /\ HandOf(Idle) = Hand(t)
      BY <1>2, <1>4, IdleFacts, ZenonT(40)
    <2> QED BY <1>1, <1>3, <2>1, HandSame
  <1>5. CASE old # <<>>
    <2>1. blocks' = blocks \cup {Hand(t)} /\ Hand(t) # <<>>
      BY <1>2, <1>5, ZenonT(30)
    <2> QED BY <1>1, <1>3, <2>1, IdleFacts, HandGives
  <1> QED BY <1>4, <1>5

(* malloc returns a block: realloc goes on to free the old one.             *)
LEMMA ReturnBlock ==
    ASSUME TypeOK, NEW t \in Threads, th[t].block = <<>>, NEW b \in Blocks, Return(t, b)
    PROVE  /\ blocks' = blocks \cup {b} /\ blocks' \subseteq Blocks
           /\ \E r : /\ Moved(t, r) /\ RecordOK(r) /\ StageOK(r) /\ PagesOf(r) = {} /\ Found(r)
                     /\ ~LockUse(r) /\ r.pc \in {"idle", "free"} /\ HandOf(r) = Hand(t)
  <1> DEFINE q == th[t]
             r == IF q.old # <<>> THEN [Idle EXCEPT !.pc = "free", !.block = q.old] ELSE Idle
  <1>1. b # <<>> /\ q.old \in Blocks \cup {<<>>} /\ Hand(t) = q.old
    BY BlockFacts DEF TypeOK, RecordOK, Hand, HandOf
  <1>2. blocks' = blocks \cup {b} /\ Moved(t, r)
    BY <1>1, GotoMoves DEF Return
  <1>3. /\ q.old # <<>> => Has(r, "free", NONE, "kernel", 0, 0, NONE, "none", q.old, <<>>)
        /\ q.old = <<>> => Has(r, "idle", NONE, "kernel", 0, 0, NONE, "none", <<>>, <<>>)
    BY ZenonT(40) DEF Idle, Has, Fields
  <1> HIDE DEF r
  <1>4. RecordOK(r) /\ StageOK(r) /\ PagesOf(r) = {} /\ Found(r) /\ ~LockUse(r)
        /\ r.pc \in {"idle", "free"} /\ HandOf(r) = q.old
    BY <1>1, <1>3 DEF RecordOK, StageOK, Has, Labels, Searching, Pools, PagesOf, Found,
       LockUse,
                      HandOf
  <1>5. blocks' \subseteq Blocks
    BY <1>2, Zenon DEF TypeOK
  <1> QED BY <1>1, <1>2, <1>4, <1>5, Zenon

(* Only the arena on page p and thread t change holdings.                   *)
LEMMA OwnArena ==
    ASSUME TypeOK, NEW t \in Threads, NEW r, Moved(t, r), UNCHANGED pages, NEW p \in Pages,
           \A x \in Pages : x # p => arena'[x] = arena[x]
    PROVE  \A h \in Holders : h # <<"thread", t>> /\ h # <<"arena", p>> => Own'[h] = Own[h]
  <1> TAKE h \in Holders
  <1>1. CASE \E x \in Pages : h = <<"arena", x>>
    <2>1. PICK x \in Pages : h = <<"arena", x>>
      BY <1>1, Zenon
    <2>2. Own[h] = OfArena(x) /\ Own'[h] = OfArena(x)'
      BY <2>1, OwnIs, OwnIsPrime, Zenon
    <2>3. x # p => OfArena(x)' = OfArena(x)
      BY Zenon DEF OfArena
    <2> QED BY <2>1, <2>2, <2>3, Zenon
  <1>2. CASE \E x \in Pages : h = <<"user", x>>
    <2>1. PICK x \in Pages : h = <<"user", x>>
      BY <1>2, Zenon
    <2>2. Own[h] = OfUser(x) /\ Own'[h] = OfUser(x)'
      BY <2>1, OwnIs, OwnIsPrime, Zenon
    <2> QED BY <2>2, Zenon DEF OfUser
  <1>3. CASE \E u \in Threads : h = <<"thread", u>>
    BY <1>3 DEF Own, Holders, Moved
  <1> QED BY <1>1, <1>2, <1>3, OwnIs

(* A page that a thread just got has no arena yet, and so no blocks.        *)
LEMMA NewPage ==
    ASSUME AllocInv, NEW t \in Threads, th[t].pc \in {"big", "arena"}, th[t].page # NONE
    PROVE  LET p == th[t].page
           IN  /\ p \in Pages /\ arena[p].desc = NONE /\ arena[p].free_cnt = 0
               /\ Own[<<"arena", p>>] = {} /\ Own[<<"thread", t>>] = Group(p, th[t].cnt)
               /\ \A b \in Blocks : b[1] = p => ~InArena(b)
  <1> DEFINE p == th[t].page
  <1>1. TypeOK /\ Exclusive(Own, used) /\ RecordOK(th[t]) /\ StageOK(th[t])
    BY Zenon DEF AllocInv, PagesOK, TypeOK
  <1>2. p \in Pages /\ p \in Nat /\ th[t].cnt \in Nat /\ th[t].cnt >= 1
    BY <1>1, BlockFacts, Zenon DEF RecordOK, StageOK, CallOK
  <1>3. Own[<<"thread", t>>] = Group(p, th[t].cnt) /\ p \in Group(p, th[t].cnt)
    BY <1>2, OwnIs DEF PagesOf, Group
  <1>4. Own[<<"arena", p>>] = OfArena(p) /\ p \notin OfArena(p)
    <2>1. /\ <<"arena", p>> \in Holders /\ <<"thread", t>> \in Holders
          /\ <<"arena", p>> # <<"thread", t>> /\ Own[<<"arena", p>>] = OfArena(p)
      BY <1>2, OwnIs, Zenon
    <2>2. Own[<<"arena", p>>] \cap Own[<<"thread", t>>] = {}
      BY <1>1, <2>1, Zenon DEF Exclusive
    <2> QED BY <1>3, <2>1, <2>2, Zenon
  <1>5. arena[p].desc \in Descs \cup {NONE} /\ arena[p].free_cnt \in Nat
    BY <1>1, <1>2, ZenonT(40) DEF TypeOK
  <1>6. arena[p].desc = NONE /\ arena[p].free_cnt = 0
    BY <1>2, <1>4, <1>5 DEF OfArena, Group
  <1>7. OfArena(p) = {}
    BY <1>2, <1>6 DEF OfArena, Group
  <1>8. \A b \in Blocks : b[1] = p => ~InArena(b)
    BY <1>6 DEF InArena
  <1> QED BY <1>2, <1>3, <1>4, <1>6, <1>7, <1>8, Zenon

(* The free lists hold blocks.                                              *)
LEMMA ListedBlock ==
    ASSUME TypeOK, NEW d \in Descs, NEW k \in 1 .. Len(free_list[d])
    PROVE  free_list[d][k] \in Blocks
  <1>1. free_list[d] \in Seq(Blocks)
    BY Zenon DEF TypeOK
  <1> QED BY <1>1

(* What is on them, with a name for the list.                               *)
LEMMA ListedOnce ==
    ASSUME ListsOK, NEW d \in Descs, NEW L, L = free_list[d], NEW k \in 1 .. Len(L)
    PROVE  /\ arena[L[k][1]].desc = d
           /\ L[k][2] < blocks_per_arena(d)
           /\ ~Taken(L[k])
           /\ \A l \in 1 .. Len(L) : L[k] = L[l] => k = l
  BY DEF ListsOK

(* A page that has no descriptor changes, and the lists do not.             *)
LEMMA BigChange ==
    ASSUME TypeOK, ListsOK, ArenasOK, ListUseOK, NEW t \in Threads, NEW r, Moved(t, r),
           NEW p \in Pages, arena[p].desc = NONE, arena'[p].desc = NONE, free_list' = free_list,
           \A x \in Pages : x # p => arena'[x] = arena[x],
           \A b \in Blocks : b[1] # p => (Taken(b)' <=> Taken(b)),
           th[t].pc # "pop", r.pc \in {"idle", "free", "reset"}
    PROVE  ListsOK' /\ ArenasOK' /\ ListUseOK'
  <1>1. \A d \in Descs : \A k \in 1 .. Len(free_list[d]) :
          /\ free_list[d][k] \in Blocks /\ free_list[d][k][1] \in Pages
          /\ free_list[d][k][1] # p
    <2> TAKE d \in Descs
    <2> TAKE k \in 1 .. Len(free_list[d])
    <2>1. free_list[d][k] \in Blocks
      BY ListedBlock, Zenon
    <2>2. arena[free_list[d][k][1]].desc = d /\ d # NONE
      BY DescFacts, Zenon DEF ListsOK
    <2> QED BY <2>1, <2>2, BlockFacts
  <1>2. ListsOK'
    <2> SUFFICES ASSUME NEW d \in Descs, NEW k \in 1 .. Len(free_list'[d])
                 PROVE  /\ arena'[free_list'[d][k][1]].desc = d
                        /\ free_list'[d][k][2] < blocks_per_arena(d)
                        /\ ~Taken(free_list[d][k])'
                        /\ \A l \in 1 .. Len(free_list'[d]) :
                             free_list'[d][k] = free_list'[d][l] => k = l
      BY Zenon DEF ListsOK
    <2>1. PICK L : L = free_list[d]
      OBVIOUS
    <2>2. free_list'[d] = L /\ k \in 1 .. Len(L)
      BY <2>1, Zenon
    <2>3. /\ arena[L[k][1]].desc = d
          /\ L[k][2] < blocks_per_arena(d)
          /\ ~Taken(L[k])
          /\ \A l \in 1 .. Len(L) : L[k] = L[l] => k = l
      BY <2>1, <2>2, ListedOnce, Zenon
    <2>4. arena'[L[k][1]] = arena[L[k][1]] /\ ~Taken(L[k])'
      BY <1>1, <2>1, <2>2, <2>3, Zenon
    <2>5. ~Taken(free_list[d][k])'
      BY <2>2, <2>4, Zenon DEF Taken
    <2> QED BY <2>2, <2>3, <2>4, <2>5, Zenon
  <1>3. \A x \in Pages : x # p => FreeIn(x)' = FreeIn(x)
    BY Zenon DEF FreeIn, Listed
  <1>4. ArenasOK'
    <2> SUFFICES ASSUME NEW x \in Pages, arena'[x].desc # NONE
                 PROVE  ArenaOK(x)'
      BY Zenon DEF ArenasOK
    <2>1. x # p /\ arena'[x] = arena[x] /\ arena[x].desc \in Descs /\ ArenaOK(x)
      BY Zenon DEF TypeOK, ArenasOK
    <2>2. arena'[x].free_cnt = Cardinality(FreeIn(x)')
      BY <1>3, <2>1, Zenon DEF ArenaOK
    <2>3. ASSUME NEW i \in 0 .. blocks_per_arena(arena[x].desc) - 1
          PROVE  Listed(arena[x].desc, <<x, i>>)' \/ Taken(<<x, i>>)'
      <3>1. <<x, i>> \in Blocks /\ <<x, i>>[1] = x
        BY <2>1, DescFacts, BlockFacts
      <3>2. Listed(arena[x].desc, <<x, i>>) \/ Taken(<<x, i>>)
        BY <2>1, Zenon DEF ArenaOK
      <3>3. Listed(arena[x].desc, <<x, i>>) => Listed(arena[x].desc, <<x, i>>)'
        BY <2>1, Zenon DEF Listed
      <3> QED BY <2>1, <3>1, <3>2, <3>3, Zenon
    <2> QED BY <2>1, <2>2, <2>3, Zenon DEF ArenaOK
  <1>5. ASSUME NEW u \in Threads
        PROVE  ListUse(th[u])'
    <2>1. CASE u = t
      BY <2>1, Zenon DEF ListUse, Moved, Searching
    <2>2. CASE u # t
      <3>1. th'[u] = th[u] /\ ListUse(th[u]) /\ RecordOK(th[u]) /\ StageOK(th[u])
        BY <2>2, Zenon DEF Moved, ListUseOK, TypeOK
      <3>2. th[u].pc = "free_lock" => th[u].block[1] # p /\ th[u].block[1] \in Pages
        BY <3>1, BlockFacts, Zenon DEF ListUse, StageOK, RecordOK
      <3> QED BY <3>1, <3>2, Zenon DEF ListUse
    <2> QED BY <2>1, <2>2, Zenon
  <1>6. ASSUME NEW x \in Pages, arena'[x].desc # NONE,
               arena'[x].free_cnt >= blocks_per_arena(arena'[x].desc)
        PROVE  \E u \in Threads : /\ th'[u].pc = "pop" /\ th'[u].desc = arena'[x].desc
                                  /\ Head(free_list'[th'[u].desc])[1] = x
    <2>1. arena'[x] = arena[x]
      BY <1>6, Zenon
    <2>2. PICK u \in Threads : /\ th[u].pc = "pop" /\ th[u].desc = arena[x].desc
                               /\ Head(free_list[th[u].desc])[1] = x
      BY <1>6, <2>1, Zenon DEF ListUseOK
    <2>3. th'[u] = th[u]
      BY <2>2, Zenon DEF Moved
    <2> QED BY <2>1, <2>2, <2>3, Zenon
  <1> QED BY <1>2, <1>4, <1>5, <1>6, Zenon DEF ListUseOK

(* malloc gets the pages of a big block, or does not.                       *)
LEMMA GotBigStep ==
    ASSUME AllocInv, NEW t \in Threads, GotBig(t)
    PROVE  AllocInv'
  <1>1. PICK p : p = th[t].page
    OBVIOUS
  <1> DEFINE q == th[t]
             h == <<"thread", t>>
             g == <<"arena", p>>
  <1>2. TypeOK /\ LocksOK /\ Exclusive(Own, used) /\ FoundOK
        /\ TakenOK /\ ListsOK /\ ArenasOK /\ ListUseOK
    BY Zenon DEF AllocInv, PagesOK, BlocksOK
  <1>3. RecordOK(q) /\ StageOK(q) /\ q.pc = "big"
    BY <1>2, Zenon DEF TypeOK, GotBig
  <1>4. /\ q.cnt \in Nat /\ q.cnt >= 1 /\ q.block = <<>> /\ q.desc = NONE
        /\ q.old \in Blocks \cup {<<>>} /\ Hand(t) = q.old
    BY <1>3, Zenon DEF RecordOK, StageOK, CallOK, Hand, HandOf
  <1>5. /\ UNCHANGED <<pool_lock, used, free_list, lock, pages, panicked>>
        /\ used' \subseteq Pages /\ pages' \subseteq Pages /\ free_list' \in [Descs -> Seq(Blocks)]
        /\ lock' \in [Descs -> Threads \cup {NOBODY}]
        /\ pool_lock' \in [Pools -> Threads \cup {NOBODY}] /\ panicked' = FALSE
    BY <1>2, Zenon DEF GotBig, TypeOK
  <1>6. CASE p = NONE
    <2>1. arena' = arena /\ Return(t, <<>>)
      BY <1>1, <1>6, Zenon DEF GotBig
    <2>2. /\ Moved(t, Idle) /\ blocks' \subseteq Blocks
          /\ TakenOK' /\ \A b \in Blocks : Taken(b)' <=> Taken(b)
      BY <1>2, <1>4, <2>1, ReturnNone, Zenon
    <2>3. PagesOf(q) = {}
      BY <1>1, <1>6 DEF PagesOf
    <2> QED BY <1>3, <1>5, <2>1, <2>2, <2>3, IdleFacts, Passing, Zenon
  <1>7. CASE p # NONE
    <2> DEFINE b == <<p, 0>>
    <2>1. /\ p \in Pages /\ arena[p].desc = NONE /\ Own[g] = {} /\ Own[h] = Group(p, q.cnt)
          /\ \A c \in Blocks : c[1] = p => ~InArena(c)
      BY <1>1, <1>3, <1>7, NewPage, Zenon
    <2>2. b \in Blocks /\ b # <<>> /\ b[1] = p /\ b[2] = 0
      BY <2>1, BlockFacts
    <2>3. arena' = [arena EXCEPT ![p] = [desc |-> NONE, free_cnt |-> q.cnt]] /\ Return(t, b)
      BY <1>1, <1>7, Zenon DEF GotBig
    <2>4. /\ arena' \in [Pages -> [desc : Descs \cup {NONE}, free_cnt : Nat]]
          /\ arena'[p].desc = NONE /\ arena'[p].free_cnt = q.cnt
          /\ \A x \in Pages : x # p => arena'[x] = arena[x]
      BY <1>2, <1>4, <2>1, <2>3, Zenon DEF TypeOK
    <2> HIDE DEF b
    <2>5. blocks' = blocks \cup {b} /\ blocks' \subseteq Blocks
      BY <1>2, <1>4, <2>2, <2>3, ReturnBlock, Zenon
    <2>6. PICK r : /\ Moved(t, r) /\ RecordOK(r) /\ StageOK(r) /\ PagesOf(r) = {} /\ Found(r)
                   /\ ~LockUse(r) /\ r.pc \in {"idle", "free"} /\ HandOf(r) = Hand(t)
      BY <1>2, <1>4, <2>2, <2>3, ReturnBlock, Zenon
    <2>7. TypeOK'
      BY <1>2, <1>5, <2>4, <2>5, <2>6, TypeMoved, ZenonT(40)
    <2>8. LocksOK'
      BY <1>2, <1>5, <2>5, <2>6, LocksMoved
    <2>9. Exclusive(Own, used)'
      <3>1. g \in Holders /\ h \in Holders /\ g # h /\ Own[g] = {} /\ Own'[h] = {}
        BY <2>1, <2>5, <2>6, OwnIs, Zenon DEF Own, Holders, Moved
      <3>2. Own'[g] = Own[h]
        BY <2>1, <2>4, <3>1, Zenon DEF Own, OfArena, Holders
      <3>3. \A k \in Holders : k # g /\ k # h => Own'[k] = Own[k]
        BY <1>2, <1>5, <2>1, <2>4, <2>5, <2>6, OwnArena, Zenon
      <3> HIDE DEF g, h
      <3>4. /\ h # g
            /\ \A k \in Holders : k # h /\ k # g => Own'[k] = Own[k]
        BY <3>1, <3>3, Zenon
      <3> QED BY <1>2, <1>5, <3>1, <3>2, <3>4, OwnTransfer, Zenon
    <2>10. FoundOK'
      BY <1>2, <1>5, <2>5, <2>6, FoundMoved, Zenon
    <2>11. \A u \in Threads : Hand(u)' = Hand(u)
      BY <1>4, <2>5, <2>6, Zenon DEF Hand, Moved
    <2>12. \A c \in Blocks : c[1] # p => (Taken(c)' <=> Taken(c)) /\ (InArena(c)' <=> InArena(c))
      BY <2>2, <2>4, <2>5, <2>11, BlockFacts, Zenon DEF Taken, InArena
    <2>13. TakenOK'
      <3>1. InArena(b)' /\ b \notin blocks /\ \A u \in Threads : Hand(u) # b
        <4>1. InArena(b)'
          BY <1>4, <2>2, <2>4 DEF InArena
        <4>2. ~InArena(b)
          BY <2>1, <2>2, Zenon
        <4> QED BY <1>2, <2>2, <4>1, <4>2, ZenonT(40) DEF TakenOK
      <3>2. ASSUME NEW c \in Blocks, InArena(c) PROVE InArena(c)'
        BY <2>1, <2>12, <3>2, ZenonT(40)
      <3>3. \A u \in Threads : Hand(u) \in Blocks \cup {<<>>}
        BY <1>2 DEF TypeOK, RecordOK, Hand, HandOf
      <3>4. blocks \subseteq Blocks
        BY <1>2, Zenon DEF TypeOK
      <3>5. \A c \in blocks' : InArena(c)'
        BY <1>2, <2>5, <3>1, <3>2, <3>4, Zenon DEF TakenOK
      <3>6. ASSUME NEW u \in Threads, Hand(u) # <<>>
            PROVE  InArena(Hand(u))' /\ Hand(u) \notin blocks'
        <4>1. Hand(u) \in Blocks /\ InArena(Hand(u)) /\ Hand(u) \notin blocks
          BY <1>2, <3>3, <3>6 DEF TakenOK
        <4>2. \A c : c = Hand(u) => InArena(c)'
          BY <3>2, <4>1
        <4>3. Hand(u)' = Hand(u)
          BY <2>11, ZenonT(40)
        <4> QED BY <2>5, <3>1, <4>1, <4>2, <4>3, Zenon
      <3> QED BY <1>2, <2>11, <3>5, <3>6, Zenon DEF TakenOK
    <2>14. ListsOK' /\ ArenasOK' /\ ListUseOK'
      <3>1. \A c \in Blocks : c[1] # p => (Taken(c)' <=> Taken(c))
        BY <2>12, ZenonT(40)
      <3>2. arena[p].desc = NONE /\ p \in Pages /\ free_list' = free_list
        BY <1>5, <2>1
      <3>3. arena'[p].desc = NONE /\ \A x \in Pages : x # p => arena'[x] = arena[x]
        BY <2>4, ZenonT(40)
      <3>4. q.pc # "pop" /\ r.pc \in {"idle", "free", "reset"} /\ Moved(t, r)
        BY <1>3, <2>5, <2>6
      <3> QED BY <1>2, <3>1, <3>2, <3>3, <3>4, BigChange, ZenonT(40)
    <2> QED BY <2>7, <2>8, <2>9, <2>10, <2>13, <2>14, ZenonT(30) DEF AllocInv, PagesOK, BlocksOK
  <1> QED BY <1>6, <1>7

(* free finds the block's descriptor, or gives the pages of a big block     *)
(* back.                                                                    *)
LEMMA FreeBlockStep ==
    ASSUME AllocInv, NEW t \in Threads, FreeBlock(t)
    PROVE  AllocInv'
  <1>1. PICK b, p, d, n : /\ b = th[t].block /\ p = b[1]
                          /\ d = arena[p].desc /\ n = arena[p].free_cnt
    OBVIOUS
  <1> DEFINE q == th[t]
             h == <<"thread", t>>
             g == <<"arena", p>>
  <1>2. TypeOK /\ LocksOK /\ Exclusive(Own, used) /\ FoundOK
        /\ TakenOK /\ ListsOK /\ ArenasOK /\ ListUseOK
    BY DEF AllocInv, PagesOK, BlocksOK
  <1>3. RecordOK(q) /\ StageOK(q) /\ q.pc = "free"
    BY <1>2, Zenon DEF TypeOK, FreeBlock
  <1>4. b \in Blocks /\ b # <<>> /\ q.old = <<>> /\ q.desc = NONE /\ Hand(t) = b
    BY <1>1, <1>3, Zenon DEF RecordOK, StageOK, Hand, HandOf
  <1>5. p \in Pages /\ p \in Nat /\ p # NONE /\ d \in Descs \cup {NONE} /\ n \in Nat /\ InArena(b)
    BY <1>1, <1>2, <1>4, BlockFacts, ZenonT(40) DEF TypeOK, TakenOK
  <1>6. /\ UNCHANGED <<pool_lock, used, free_list, lock, blocks, pages>>
        /\ used' \subseteq Pages /\ pages' \subseteq Pages /\ free_list' \in [Descs -> Seq(Blocks)]
        /\ lock' \in [Descs -> Threads \cup {NOBODY}] /\ blocks' \subseteq Blocks
        /\ pool_lock' \in [Pools -> Threads \cup {NOBODY}]
    BY <1>2 DEF FreeBlock, TypeOK
  <1>7. CASE d # NONE
    <2> DEFINE r == [q EXCEPT !.pc = "free_lock", !.desc = d]
    <2>1. UNCHANGED <<arena, panicked>> /\ Moved(t, r)
      BY <1>1, <1>2, <1>7, GotoMoves DEF FreeBlock
    <2>2. Has(r, "free_lock", d, q.pool, q.cnt, q.idx, q.page, q.ret, q.block, q.old)
      BY <1>3, Zenon DEF RecordOK, Has, Fields
    <2> HIDE DEF r
    <2>3. RecordOK(r) /\ StageOK(r)
      BY <1>3, <1>4, <1>5, <1>7, <2>2, Zenon DEF RecordOK, StageOK, CallOK, Has, Labels,
         Searching
    <2>4. /\ PagesOf(r) = PagesOf(q) /\ HandOf(r) = HandOf(q) /\ Found(r) /\ ListUse(r)
          /\ r.pc = "free_lock" /\ ~LockUse(r)
      BY <1>1, <1>3, <2>2, Zenon DEF PagesOf, HandOf, Found, ListUse, LockUse, Has, Searching
    <2> QED BY <1>3, <1>6, <2>1, <2>3, <2>4, Quiet, Zenon
  <1>8. CASE d = NONE
    <2> DEFINE r == [q EXCEPT !.pc = "reset", !.page = p, !.cnt = n, !.block = <<>>]
    <2>1. StartReset(t, q, p, n, TRUE) /\ arena' = [arena EXCEPT ![p] = NoArena]
      BY <1>1, <1>8, Zenon DEF FreeBlock
    <2>2. Moved(t, r)
      BY <1>2, <2>1, GotoMoves DEF StartReset
    <2>3. Has(r, "reset", NONE, q.pool, n, q.idx, p, q.ret, <<>>, <<>>)
      BY <1>3, <1>4, ZenonT(40) DEF RecordOK, Has, Fields
    <2> HIDE DEF r
    <2>4. n >= 1 /\ b[2] = 0
      BY <1>1, <1>5, <1>8 DEF InArena
    <2>5. RecordOK(r) /\ StageOK(r)
      BY <1>3, <1>5, <2>3, <2>4, Zenon DEF RecordOK, StageOK, Has, Labels, Searching
    <2>6. PagesOf(r) = Group(p, n) /\ PagesOf(q) = {} /\ Found(r) /\ ~LockUse(r)
          /\ r.pc = "reset" /\ HandOf(r) = <<>>
      BY <1>3, <1>5, <2>3, Zenon DEF PagesOf, Found, LockUse, HandOf, Has, Searching
    <2>7. /\ arena' \in [Pages -> [desc : Descs \cup {NONE}, free_cnt : Nat]]
          /\ arena'[p].desc = NONE /\ arena'[p].free_cnt = 0
          /\ \A x \in Pages : x # p => arena'[x] = arena[x]
      BY <1>2, <1>5, <2>1, Zenon DEF TypeOK, NoArena
    <2>8. Own[g] = Group(p, n) /\ g \in Holders /\ p \in Group(p, n)
      <3>1. OfArena(p) = Group(p, n)
        BY <1>1, <1>8 DEF OfArena
      <3>2. p \in Group(p, n)
        BY <1>5, <2>4 DEF Group
      <3> QED BY <1>5, <3>1, <3>2, OwnIs, Zenon
    <2>9. panicked' = FALSE
      <3>1. InPool(Own[g]) /\ Own[g] \subseteq used
        BY <1>2, <2>8 DEF Exclusive
      <3>2. (\E pool \in Pools : page_from_pool(pool, p)) /\ Group(p, n) \subseteq used
        BY <2>8, <3>1, Zenon DEF InPool
      <3> QED BY <2>1, <3>2, Zenon DEF StartReset
    <2>10. TypeOK'
      BY <1>2, <1>6, <2>2, <2>5, <2>7, <2>9, TypeMoved, Zenon
    <2>11. LocksOK'
      BY <1>2, <1>6, <2>2, <2>6, LocksMoved, Zenon
    <2>12. Exclusive(Own, used)'
      <3>1. h \in Holders /\ g # h /\ Own[h] = {}
        BY <2>6, OwnIs, Zenon
      <3>2. Own'[h] = Own[g] /\ Own'[g] = {}
        <4>1. Own'[h] = Own[g]
          BY <2>2, <2>6, <2>8, <3>1, Zenon DEF Own, Holders, Moved
        <4>2. Own'[g] = Group(p, 0)
          BY <1>5, <2>7, <2>8, Zenon DEF Own, Holders, OfArena
        <4> QED BY <1>5, <4>1, <4>2 DEF Group
      <3>3. \A k \in Holders : k # g /\ k # h => Own'[k] = Own[k]
        BY <1>2, <1>5, <1>6, <2>2, <2>7, OwnArena, Zenon
      <3> HIDE DEF g, h
      <3>4. g \in Holders
        BY <2>8, Zenon
      <3> QED BY <1>2, <1>6, <3>1, <3>2, <3>3, <3>4, OwnTransfer, Zenon
    <2>13. FoundOK'
      BY <1>2, <1>6, <2>2, <2>6, FoundMoved, Zenon
    <2>14. Hand(t)' = <<>> /\ \A u \in Threads : u # t => Hand(u)' = Hand(u)
      BY <2>2, <2>6 DEF Hand, Moved
    <2>15. \A c \in Blocks : c[1] # p => (Taken(c)' <=> Taken(c)) /\ (InArena(c)' <=> InArena(c))
      <3>1. \A c \in Blocks : c[1] # p => (InArena(c)' <=> InArena(c))
        BY <2>7, BlockFacts DEF InArena
      <3>2. \A c \in Blocks : c[1] # p => c # b /\ c # <<>>
        BY <1>1, BlockFacts, ZenonT(30)
      <3>3. \A c \in Blocks : c[1] # p => (Taken(c)' <=> Taken(c))
        BY <1>4, <1>6, <2>14, <3>2 DEF Taken
      <3> QED BY <3>1, <3>3, Zenon
    <2>16. TakenOK'
      <3>1. \A c \in Blocks : c[1] = p /\ InArena(c) => c = b
        BY <1>1, <1>4, <1>8, <2>4, BlockFacts, Zenon DEF InArena
      <3>2. b \notin blocks /\ \A u \in Threads : u # t => Hand(u) # b
        BY <1>2, <1>4, Zenon DEF TakenOK
      <3>3. \A u \in Threads : Hand(u) \in Blocks \cup {<<>>}
        BY <1>2 DEF TypeOK, RecordOK, Hand, HandOf
      <3>4. \A c \in blocks : c \in Blocks /\ c[1] # p
        BY <1>2, <3>1, <3>2 DEF TypeOK, TakenOK
      <3>5. \A u \in Threads : u # t /\ Hand(u) # <<>> => Hand(u) \in Blocks /\ Hand(u)[1] # p
        BY <1>2, <3>1, <3>2, <3>3, Zenon DEF TakenOK
      <3> QED BY <1>2, <1>6, <2>14, <2>15, <3>4, <3>5, ZenonT(40) DEF TakenOK
    <2>17. ListsOK' /\ ArenasOK' /\ ListUseOK'
      <3>1. \A c \in Blocks : c[1] # p => (Taken(c)' <=> Taken(c))
        BY <2>15, Zenon
      <3>2. arena[p].desc = NONE /\ p \in Pages /\ free_list' = free_list
        BY <1>1, <1>5, <1>6, <1>8
      <3>3. arena'[p].desc = NONE /\ \A x \in Pages : x # p => arena'[x] = arena[x]
        BY <2>7, Zenon
      <3>4. q.pc # "pop" /\ r.pc \in {"idle", "free", "reset"} /\ Moved(t, r)
        BY <1>3, <2>2, <2>6
      <3> QED BY <1>2, <3>1, <3>2, <3>3, <3>4, BigChange, ZenonT(40)
    <2> QED BY <2>10, <2>11, <2>12, <2>13, <2>16, <2>17 DEF AllocInv, PagesOK, BlocksOK
  <1> QED BY <1>7, <1>8
=============================================================================
