----------------------------- MODULE AllocProofs ----------------------------
(***************************************************************************)
(* What holds of the page and block allocators whatever the number of      *)
(* threads, pages and block sizes and wherever threads are preempted: a    *)
(* page and a block have one holder, and no ASSERT fails.                  *)
(***************************************************************************)
EXTENDS AllocSteps

(* What the counting of blocks rests on: the size of an interval, of the    *)
(* empty set, of a set with one element more or less, of a subset, of a     *)
(* difference, and of a set of which a function reaches each element once.  *)
IntervalFact == \A n \in Nat : IsFiniteSet(0 .. n - 1) /\ Cardinality(0 .. n - 1) = n
EmptyFact ==
    \A S : IsFiniteSet(S) => Cardinality(S) \in Nat /\ (Cardinality(S) = 0 <=> S = {})
ElementFact ==
    \A S, x : IsFiniteSet(S) =>
      /\ x \notin S => Cardinality(S \cup {x}) = Cardinality(S) + 1
      /\ x \in S => IsFiniteSet(S \ {x}) /\ Cardinality(S \ {x}) = Cardinality(S) - 1
SubsetFact ==
    \A S : IsFiniteSet(S) => \A T \in SUBSET S :
      /\ IsFiniteSet(T) /\ Cardinality(T) <= Cardinality(S)
      /\ Cardinality(S) = Cardinality(T) => S = T
DifferenceFact ==
    \A S, T : IsFiniteSet(S) =>
      /\ IsFiniteSet(S \ T)
      /\ Cardinality(S \ T) = Cardinality(S) - Cardinality(S \cap T)
OntoFact ==
    \A S, T : \A f \in [S -> T] :
      /\ IsFiniteSet(T)
      /\ \A x, y \in S : f[x] = f[y] => x = y
      /\ \A z \in T : \E x \in S : f[x] = z
      => Cardinality(S) = Cardinality(T)

FiniteSetFacts ==
    IntervalFact /\ EmptyFact /\ ElementFact /\ SubsetFact /\ DifferenceFact /\ OntoFact

(* The free list of a descriptor is in order.                               *)
ListOK(d) ==
    \A k \in 1 .. Len(free_list[d]) :
      /\ arena[free_list[d][k][1]].desc = d
      /\ free_list[d][k][2] < blocks_per_arena(d)
      /\ ~Taken(free_list[d][k])
      /\ \A l \in 1 .. Len(free_list[d]) : free_list[d][k] = free_list[d][l] => k = l

(* Only the list of descriptor d and the arena on page p change.            *)
ArenaFrame(p, d) ==
    /\ arena[p].desc \in {d, NONE} /\ arena'[p].desc \in {d, NONE}
    /\ \A x \in Pages : x # p => arena'[x] = arena[x]
    /\ \A e \in Descs : e # d => free_list'[e] = free_list[e]

(* When only one arena and the list of its descriptor change, the other     *)
(* lists and arenas stay in order.                                          *)
LEMMA ArenaChange ==
    ASSUME TypeOK, ListsOK, ArenasOK, NEW p \in Pages, NEW d \in Descs, ArenaFrame(p, d),
           \A b \in Blocks : b[1] # p => /\ Listed(d, b)' <=> Listed(d, b)
                                         /\ Taken(b)' <=> Taken(b),
           ListOK(d)', arena'[p].desc # NONE => ArenaOK(p)'
    PROVE  ListsOK' /\ ArenasOK'
  <1>1. ASSUME NEW e \in Descs, e # d
        PROVE  ListOK(e)'
    <2>1. free_list'[e] = free_list[e] /\ ListOK(e)
      BY <1>1 DEF ArenaFrame, ListsOK, ListOK
    <2>2. ASSUME NEW k \in 1 .. Len(free_list[e])
          PROVE  /\ free_list[e][k] \in Blocks /\ free_list[e][k][1] \in Pages
                 /\ free_list[e][k][1] # p
      <3>1. free_list[e][k] \in Blocks
        BY DEF TypeOK
      <3>2. arena[free_list[e][k][1]].desc = e /\ e # NONE
        BY <2>1, DescFacts DEF ListOK
      <3> QED BY <1>1, <3>1, <3>2, BlockFacts DEF ArenaFrame
    <2>3. \A k \in 1 .. Len(free_list[e]) : arena'[free_list[e][k][1]] = arena[free_list[e][k][1]]
      BY <2>2 DEF ArenaFrame
    <2>4. \A k \in 1 .. Len(free_list[e]) : Taken(free_list[e][k])' <=> Taken(free_list[e][k])
      <3> TAKE k \in 1 .. Len(free_list[e])
      <3>1. PICK b : b = free_list[e][k]
        OBVIOUS
      <3>2. Taken(b)' <=> Taken(b)
        BY <2>2, <3>1
      <3> QED BY <2>1, <3>1, <3>2 DEF Taken
    <2> QED BY <2>1, <2>3, <2>4 DEF ListOK
  <1>2. ListsOK'
    BY <1>1 DEF ListsOK, ListOK
  <1>3. ASSUME NEW x \in Pages, x # p, arena'[x].desc # NONE
        PROVE  ArenaOK(x)'
    <2>1. PICK e : e = arena[x].desc
      OBVIOUS
    <2>2. arena'[x] = arena[x] /\ e \in Descs /\ ArenaOK(x) /\ arena'[x].desc = e
      BY <1>3, <2>1 DEF ArenaFrame, TypeOK, ArenasOK
    <2>3. ASSUME NEW i \in 0 .. blocks_per_arena(e) - 1
          PROVE  /\ Listed(e, <<x, i>>)' <=> Listed(e, <<x, i>>)
                 /\ Taken(<<x, i>>)' <=> Taken(<<x, i>>)
      <3>1. <<x, i>> \in Blocks /\ <<x, i>>[1] = x
        BY <2>2, DescFacts, BlockFacts
      <3>2. e # d => (Listed(e, <<x, i>>)' <=> Listed(e, <<x, i>>))
        BY <2>2, Zenon DEF Listed, ArenaFrame
      <3> QED BY <1>3, <3>1, <3>2
    <2>4. FreeIn(x)' = FreeIn(x)
      <3>1. FreeIn(x) = {i \in 0 .. blocks_per_arena(e) - 1 : Listed(e, <<x, i>>)}
        BY <2>1 DEF FreeIn
      <3>2. FreeIn(x)' = {i \in 0 .. blocks_per_arena(e) - 1 : Listed(e, <<x, i>>)'}
        BY <2>2 DEF FreeIn, Listed
      <3> QED BY <2>3, <3>1, <3>2
    <2> QED BY <2>1, <2>2, <2>3, <2>4 DEF ArenaOK
  <1> QED BY <1>2, <1>3 DEF ArenasOK

(* An arena that is entirely unused, and the thread that is about to take a *)
(* block of it.                                                             *)
Unused(p) == arena[p].desc # NONE /\ arena[p].free_cnt >= blocks_per_arena(arena[p].desc)
Taking(r, p) == /\ r.pc = "pop" /\ r.desc = arena[p].desc
                /\ Head(free_list[r.desc])[1] = p

(* ListUseOK in terms of unused arenas.                                     *)
LEMMA UnusedIs ==
    ListUseOK <=> /\ \A t \in Threads : ListUse(th[t])
                  /\ \A p \in Pages : Unused(p) => \E t \in Threads : Taking(th[t], p)
  BY DEF ListUseOK, Unused, Taking

(* When only one arena and the list of its descriptor change, by a thread   *)
(* that has or could take the lock, no other thread is misled.              *)
LEMMA ListUseChange ==
    ASSUME TypeOK, LocksOK, ListUseOK, NEW t \in Threads, NEW r, Moved(t, r),
           NEW p \in Pages, NEW d \in Descs, ArenaFrame(p, d), lock[d] \in {t, NOBODY},
           \A u \in Threads : u # t /\ th[u].pc = "free_lock" /\ th[u].block[1] = p =>
                                arena'[p].desc = arena[p].desc,
           ListUse(th[t])', Unused(p)' => Taking(th[t], p)',
           \A x \in Pages : Taking(th[t], x) => x = p
    PROVE  ListUseOK'
  <1>1. \A u \in Threads : /\ RecordOK(th[u]) /\ StageOK(th[u]) /\ ListUse(th[u])
                           /\ LockUse(th[u]) => lock[th[u].desc] = u
    BY DEF TypeOK, LocksOK, ListUseOK
  <1>2. ASSUME NEW u \in Threads, u # t
        PROVE  /\ th'[u] = th[u]
               /\ LockUse(th[u]) => free_list'[th[u].desc] = free_list[th[u].desc]
    <2>1. th'[u] = th[u]
      BY <1>2 DEF Moved
    <2>2. LockUse(th[u]) => th[u].desc # d /\ th[u].desc \in Descs
      BY <1>1, <1>2, AllocAssumption DEF LockUse, RecordOK
    <2> QED BY <2>1, <2>2 DEF ArenaFrame
  <1>3. ASSUME NEW u \in Threads
        PROVE  ListUse(th[u])'
    <2>1. CASE u = t
      BY <2>1, Zenon
    <2>2. CASE u # t
      <3>1. th'[u] = th[u] /\ ListUse(th[u]) /\ RecordOK(th[u]) /\ StageOK(th[u])
        BY <1>1, <1>2, <2>2, Zenon
      <3>2. th[u].desc # NONE /\ th[u].pc \in Searching \cup {"arena"} =>
              free_list'[th[u].desc] = <<>>
        BY <1>2, <2>2, <3>1, Zenon DEF LockUse, ListUse
      <3>3. th[u].pc = "pop" => free_list'[th[u].desc] # <<>>
        BY <1>2, <2>2, <3>1, Zenon DEF LockUse, ListUse, StageOK
      <3>4. th[u].pc = "free_lock" => arena'[th[u].block[1]].desc = th[u].desc
        <4>1. th[u].pc = "free_lock" => th[u].block[1] \in Pages
          BY <3>1, BlockFacts DEF RecordOK, StageOK
        <4> QED BY <2>2, <3>1, <4>1, Zenon DEF ListUse, ArenaFrame
      <3> QED BY <3>1, <3>2, <3>3, <3>4, Zenon DEF ListUse
    <2> QED BY <2>1, <2>2
  <1>4. ASSUME NEW x \in Pages, Unused(x)'
        PROVE  \E u \in Threads : Taking(th[u], x)'
    <2>1. CASE x = p
      BY <1>4, <2>1
    <2>2. CASE x # p
      <3>1. arena'[x] = arena[x] /\ Unused(x)
        BY <1>4, <2>2 DEF ArenaFrame, Unused
      <3>2. PICK u \in Threads : Taking(th[u], x)
        BY <3>1, UnusedIs
      <3>3. u # t
        BY <2>2, <3>2, ZenonT(40)
      <3>4. LockUse(th[u])
        BY <1>1, <3>2 DEF Taking, LockUse, StageOK
      <3>5. Taking(th[u], x)'
        BY <1>2, <3>1, <3>2, <3>3, <3>4, Zenon DEF Taking
      <3> QED BY <3>5
    <2> QED BY <2>1, <2>2
  <1>5. \A u \in Threads : ListUse(th[u])'
    BY <1>3
  <1>6. \A x \in Pages : Unused(x)' => \E u \in Threads : Taking(th[u], x)'
    BY <1>4
  <1> QED BY <1>5, <1>6 DEF ListUseOK, Unused, Taking

(* malloc makes a new arena, or finds no page for one.                      *)
LEMMA GotArenaStep ==
    ASSUME FiniteSetFacts, AllocInv, NEW t \in Threads, GotArena(t)
    PROVE  AllocInv'
  <1>1. PICK p, d, n : p = th[t].page /\ d = th[t].desc /\ n = blocks_per_arena(d)
    OBVIOUS
  <1> DEFINE q == th[t]
             h == <<"thread", t>>
             g == <<"arena", p>>
  <1>2. TypeOK /\ LocksOK /\ Exclusive(Own, used) /\ FoundOK
        /\ TakenOK /\ ListsOK /\ ArenasOK /\ ListUseOK
    BY Zenon DEF AllocInv, PagesOK, BlocksOK
  <1>3. RecordOK(q) /\ StageOK(q) /\ q.pc = "arena"
    BY <1>2, Zenon DEF TypeOK, GotArena
  <1>4. /\ q.cnt = 1 /\ q.block = <<>> /\ d \in Descs /\ d # NONE /\ n \in Nat /\ n >= 1
        /\ q.old \in Blocks \cup {<<>>} /\ Hand(t) = q.old
    <2>1. /\ q.cnt = 1 /\ q.block = <<>> /\ q.desc \in Descs
          /\ q.old \in Blocks \cup {<<>>}
      BY <1>3, Zenon DEF RecordOK, StageOK, CallOK
    <2>2. Hand(t) = q.old
      BY <2>1, Zenon DEF Hand, HandOf
    <2>3. n \in Nat \ {0} /\ d # NONE
      BY <1>1, <2>1, DescFacts, Zenon
    <2>4. n \in Nat /\ n >= 1
      BY <2>3
    <2> QED BY <1>1, <2>1, <2>2, <2>3, <2>4, Zenon
  <1>5. /\ UNCHANGED <<pool_lock, used, pages, panicked>>
        /\ used' \subseteq Pages /\ pages' \subseteq Pages
        /\ pool_lock' \in [Pools -> Threads \cup {NOBODY}] /\ panicked' = FALSE
    BY <1>2 DEF GotArena, TypeOK
  <1>6. lock[d] = t /\ free_list[d] = <<>>
    BY <1>1, <1>2, <1>3, <1>4, Zenon DEF LocksOK, LockUse, ListUseOK, ListUse
  <1>7. CASE p = NONE
    <2>1. UNCHANGED <<arena, free_list>> /\ Return(t, <<>>) /\ lock' = [lock EXCEPT ![d] = NOBODY]
      BY <1>1, <1>7, Zenon DEF GotArena
    <2>2. /\ Moved(t, Idle) /\ blocks' \subseteq Blocks
          /\ TakenOK' /\ \A b \in Blocks : Taken(b)' <=> Taken(b)
      BY <1>2, <1>4, <2>1, ReturnNone, Zenon
    <2>3. PagesOf(q) = {}
      BY <1>1, <1>7, Zenon DEF PagesOf
    <2>4. /\ lock' \in [Descs -> Threads \cup {NOBODY}]
          /\ \A e \in Descs : lock'[e] # lock[e] => lock[e] \in {NOBODY, t}
      BY <1>2, <1>4, <1>6, <2>1 DEF TypeOK
    <2> QED BY <1>3, <1>5, <2>1, <2>2, <2>3, <2>4, IdleFacts, Passing, Zenon
  <1>8. CASE p # NONE
    <2> DEFINE r == [q EXCEPT !.pc = "pop", !.page = NONE, !.cnt = 0]
    <2>1. /\ p \in Pages /\ arena[p].desc = NONE /\ Own[g] = {} /\ Own[h] = Group(p, 1)
          /\ \A c \in Blocks : c[1] = p => ~InArena(c)
      BY <1>1, <1>3, <1>4, <1>8, NewPage, Zenon
    <2>2. /\ arena' = [arena EXCEPT ![p] = [desc |-> d, free_cnt |-> n]]
          /\ free_list' = [free_list EXCEPT ![d] = @ \o [i \in 1 .. n |-> <<p, i - 1>>]]
          /\ Goto(t, r) /\ UNCHANGED <<lock, blocks>>
      BY <1>1, <1>8, Zenon DEF GotArena
    <2>3. Moved(t, r)
      BY <1>2, <2>2, GotoMoves
    <2>4. Has(r, "pop", d, q.pool, 0, q.idx, NONE, q.ret, <<>>, q.old)
      BY <1>1, <1>3, <1>4, ZenonT(40) DEF RecordOK, Has, Fields
    <2> HIDE DEF r
    <2>5. RecordOK(r) /\ StageOK(r) /\ PagesOf(r) = {} /\ Found(r) /\ HandOf(r) = q.old
          /\ r.pc = "pop" /\ r.desc = d
      BY <1>3, <1>4, <2>4 DEF RecordOK, StageOK, Has, Labels, Searching, PagesOf, Found,
         HandOf
    <2>6. /\ arena' \in [Pages -> [desc : Descs \cup {NONE}, free_cnt : Nat]]
          /\ arena'[p].desc = d /\ arena'[p].free_cnt = n
          /\ \A x \in Pages : x # p => arena'[x] = arena[x]
      BY <1>2, <1>4, <2>1, <2>2, Zenon DEF TypeOK
    <2>7. /\ free_list' \in [Descs -> Seq(Blocks)]
          /\ Len(free_list'[d]) = n /\ \A k \in 1 .. n : free_list'[d][k] = <<p, k - 1>>
          /\ \A e \in Descs : e # d => free_list'[e] = free_list[e]
      <3> DEFINE F == [i \in 1 .. n |-> <<p, i - 1>>]
      <3>1. \A k \in 1 .. n : <<p, k - 1>> \in Blocks
        BY <1>4, <2>1, BlockFacts
      <3>2. F \in Seq(Blocks) /\ Len(F) = n /\ \A k \in 1 .. n : F[k] = <<p, k - 1>>
        BY <1>4, <3>1
      <3>3. free_list[d] \o F = F
        BY <1>6, <3>2
      <3> HIDE DEF F
      <3>4. free_list' = [free_list EXCEPT ![d] = free_list[d] \o F]
        BY <2>2, Zenon DEF F
      <3>5. free_list'[d] = F /\ \A e \in Descs : e # d => free_list'[e] = free_list[e]
        BY <1>2, <1>4, <3>3, <3>4 DEF TypeOK
      <3>6. free_list' \in [Descs -> Seq(Blocks)]
        BY <1>2, <3>2, <3>3, <3>4, ZenonT(40) DEF TypeOK
      <3> QED BY <3>2, <3>5, <3>6, Zenon
    <2>8. blocks' \subseteq Blocks /\ lock' \in [Descs -> Threads \cup {NOBODY}]
      BY <1>2, <2>2 DEF TypeOK
    <2>9. TypeOK'
      BY <1>2, <1>5, <2>3, <2>5, <2>6, <2>7, <2>8, TypeMoved, Zenon
    <2>10. LocksOK'
      BY <1>2, <1>5, <1>6, <2>2, <2>3, <2>5, LocksMoved, Zenon
    <2>11. Exclusive(Own, used)'
      <3>1. g \in Holders /\ h \in Holders /\ g # h /\ Own[g] = {} /\ Own'[h] = {}
        BY <2>1, <2>3, <2>5, OwnIs, Zenon DEF Own, Holders, Moved
      <3>2. Own'[g] = Own[h]
        <4>1. Own'[g] = {p}
          BY <1>4, <2>1, <2>6, <3>1 DEF Own, OfArena, Holders
        <4>2. Group(p, 1) = {p}
          BY <2>1, BlockFacts DEF Group
        <4> QED BY <2>1, <4>1, <4>2, ZenonT(40)
      <3>3. \A k \in Holders : k # g /\ k # h => Own'[k] = Own[k]
        BY <1>2, <1>5, <2>1, <2>3, <2>6, OwnArena, ZenonT(40)
      <3> HIDE DEF g, h
      <3>4. Exclusive(Own', used)
        BY <1>2, <3>1, <3>2, <3>3, ExTransfer
      <3> QED BY <1>5, <3>4, Zenon
    <2>12. FoundOK'
      BY <1>2, <1>5, <2>3, <2>5, FoundMoved, Zenon
    <2>13. \A u \in Threads : Hand(u)' = Hand(u)
      BY <1>4, <2>3, <2>5 DEF Hand, Moved
    <2>14. \A c : Taken(c)' <=> Taken(c)
      BY <2>2, <2>13 DEF Taken
    <2>15. \A c \in Blocks : Taken(c) => InArena(c) /\ c[1] # p
      BY <1>2, <2>1, BlockFacts DEF Taken, TakenOK
    <2>16. \A c \in Blocks : c[1] # p => (InArena(c)' <=> InArena(c))
      BY <2>6, BlockFacts DEF InArena
    <2>17. TakenOK'
      <3>1. \A c \in blocks : InArena(c)'
        BY <1>2, <2>15, <2>16 DEF TypeOK, Taken
      <3>2. ASSUME NEW u \in Threads, Hand(u) # <<>>
            PROVE  InArena(Hand(u))'
        <4>1. PICK c : c = Hand(u)
          BY Zenon
        <4>2. c \in Blocks /\ Taken(c)
          BY <1>2, <3>2, <4>1 DEF TypeOK, RecordOK, Hand, HandOf, Taken
        <4>3. InArena(c)'
          BY <2>15, <2>16, <4>2, Zenon
        <4> QED BY <2>13, <4>1, <4>3
      <3> QED BY <1>2, <2>2, <2>13, <3>1, <3>2, ZenonT(40) DEF TakenOK
    <2>18. ArenaFrame(p, d)
      BY <2>1, <2>6, <2>7, ZenonT(40) DEF ArenaFrame
    <2>19. \A k \in 1 .. n : <<p, k - 1>> \in Blocks
      BY <1>4, <2>1, BlockFacts
    <2>20. ListOK(d)'
      <3>1. \A k \in 1 .. n : ~Taken(<<p, k - 1>>)'
        BY <2>14, <2>15, <2>19, BlockFacts, Zenon
      <3>2. \A k, l \in 1 .. n : /\ <<p, k - 1>>[1] = p /\ <<p, k - 1>>[2] < n
                                 /\ <<p, k - 1>> = <<p, l - 1>> => k = l
        BY <1>4
      <3>3. \A k \in 1 .. n : ~Taken(free_list[d][k])'
        BY <2>7, <3>1, ZenonT(40) DEF Taken
      <3>4. ASSUME NEW k \in 1 .. n
            PROVE  /\ arena'[free_list'[d][k][1]].desc = d
                   /\ free_list'[d][k][2] < blocks_per_arena(d)
                   /\ \A l \in 1 .. n : free_list'[d][k] = free_list'[d][l] => k = l
        BY <1>1, <2>6, <2>7, <3>2
      <3> QED BY <2>7, <3>3, <3>4 DEF ListOK
    <2>21. \A c : Listed(d, c)' <=> \E k \in 1 .. n : c = <<p, k - 1>>
      BY <2>7, Zenon DEF Listed
    <2>22. ArenaOK(p)'
      <3>1. FreeIn(p)' = 0 .. n - 1
        <4>1. \A i \in 0 .. n - 1 : i + 1 \in 1 .. n /\ <<p, i>> = <<p, i + 1 - 1>>
          BY <1>4
        <4>2. \A i \in 0 .. n - 1 : Listed(d, <<p, i>>)'
          BY <2>21, <4>1
        <4>3. FreeIn(p)' = {i \in 0 .. n - 1 : Listed(d, <<p, i>>)'}
          BY <1>1, <2>6, Zenon DEF FreeIn, Listed
        <4> QED BY <4>2, <4>3
      <3>2. Cardinality(0 .. n - 1) = n
        BY <1>4 DEF FiniteSetFacts, IntervalFact
      <3>3. \A i \in 0 .. n - 1 : Listed(d, <<p, i>>)'
        BY <1>1, <2>6, <3>1, Zenon DEF FreeIn, Listed
      <3> QED BY <1>1, <2>6, <3>1, <3>2, <3>3, Zenon DEF ArenaOK, Listed
    <2>23. \A c \in Blocks : c[1] # p => (Listed(d, c)' <=> Listed(d, c)) /\ (Taken(c)' <=> Taken(c))
      BY <1>6, <2>14, <2>21 DEF Listed
    <2>24. ListsOK' /\ ArenasOK'
      BY <1>2, <1>4, <2>1, <2>18, <2>20, <2>22, <2>23, ArenaChange, ZenonT(40)
    <2>25. ListUseOK'
      <3>1. ListUse(th[t])'
        <4>1. free_list'[d] # <<>>
          BY <1>4, <2>7
        <4> QED BY <2>3, <2>5, <4>1, Zenon DEF ListUse, Moved, Searching
      <3>2. Taking(th[t], p)'
        <4>1. Head(free_list'[d]) = <<p, 0>>
          BY <1>4, <2>7
        <4>2. th'[t] = r
          BY <2>3, Zenon DEF Moved
        <4>3. <<p, 0>>[1] = p
          OBVIOUS
        <4> QED BY <2>5, <2>6, <4>1, <4>2, <4>3, ZenonT(40) DEF Taking
      <3>3. \A x \in Pages : ~Taking(th[t], x)
        BY <1>3 DEF Taking
      <3>4. \A u \in Threads : th[u].pc = "free_lock" => th[u].block[1] # p
        <4> SUFFICES ASSUME NEW u \in Threads, th[u].pc = "free_lock" PROVE th[u].block[1] # p
          BY Zenon
        <4>1. Hand(u) = th[u].block /\ Hand(u) \in Blocks
          BY <1>2, Zenon DEF TypeOK, RecordOK, StageOK, Hand, HandOf
        <4>2. Taken(Hand(u))
          BY DEF Taken
        <4> QED BY <2>15, <4>1, <4>2
      <3> QED BY <1>2, <1>4, <1>6, <2>1, <2>3, <2>18, <3>1, <3>2, <3>3, <3>4, ListUseChange,
                 ZenonT(40)
    <2> QED BY <2>9, <2>10, <2>11, <2>12, <2>17, <2>24, <2>25, Zenon DEF AllocInv, PagesOK, BlocksOK
  <1> QED BY <1>7, <1>8

(* An arena has finitely many free blocks.                                  *)
LEMMA FreeFinite ==
    ASSUME FiniteSetFacts, TypeOK, NEW p \in Pages, arena[p].desc # NONE
    PROVE  IsFiniteSet(FreeIn(p)) /\ Cardinality(FreeIn(p)) \in Nat
  <1>1. blocks_per_arena(arena[p].desc) \in Nat
    BY DescFacts DEF TypeOK
  <1>2. IsFiniteSet(0 .. blocks_per_arena(arena[p].desc) - 1)
    BY <1>1 DEF FiniteSetFacts, IntervalFact
  <1>3. IsFiniteSet(FreeIn(p))
    BY <1>2, Zenon DEF FiniteSetFacts, SubsetFact, FreeIn
  <1> QED BY <1>3 DEF FiniteSetFacts, EmptyFact

(* A list, and a list without its first element.                            *)
LEMMA SeqFacts ==
    ASSUME NEW S, NEW s \in Seq(S)
    PROVE  /\ Len(s) \in Nat /\ DOMAIN s = 1 .. Len(s)
           /\ \A k \in 1 .. Len(s) : s[k] \in S
           /\ s # <<>> => /\ Len(s) >= 1 /\ Head(s) = s[1] /\ s[1] \in S
                         /\ Tail(s) \in Seq(S) /\ Len(Tail(s)) = Len(s) - 1
                         /\ \A k \in 1 .. Len(s) - 1 : Tail(s)[k] = s[k + 1]
  <1>1. Len(s) \in Nat /\ DOMAIN s = 1 .. Len(s)
    OBVIOUS
  <1>2. \A k \in 1 .. Len(s) : s[k] \in S
    OBVIOUS
  <1>3. s # <<>> => Len(s) >= 1 /\ Head(s) = s[1]
    OBVIOUS
  <1>4. s # <<>> => Tail(s) \in Seq(S) /\ Len(Tail(s)) = Len(s) - 1
    OBVIOUS
  <1>5. s # <<>> => \A k \in 1 .. Len(s) - 1 : Tail(s)[k] = s[k + 1]
    OBVIOUS
  <1>6. s # <<>> => 1 \in 1 .. Len(s)
    BY <1>1, <1>3
  <1> QED BY <1>1, <1>2, <1>3, <1>4, <1>5, <1>6, Zenon

(* The block in hand, and every taken block, is one of its arena.           *)
LEMMA HandFacts ==
    ASSUME TypeOK, TakenOK
    PROVE  /\ \A u \in Threads : Hand(u) \in Blocks \cup {<<>>}
           /\ \A c \in Blocks : Taken(c) => InArena(c)
           /\ \A u \in Threads : th[u].pc = "free_lock" => Hand(u) = th[u].block /\ Hand(u) \in Blocks
  <1>1. \A u \in Threads : Hand(u) \in Blocks \cup {<<>>}
    BY DEF TypeOK, RecordOK, Hand, HandOf
  <1>2. \A c \in Blocks : Taken(c) => InArena(c)
    BY BlockFacts, ZenonT(40) DEF Taken, TakenOK
  <1>3. \A u \in Threads : th[u].pc = "free_lock" => Hand(u) = th[u].block /\ Hand(u) \in Blocks
    BY ZenonT(40) DEF TypeOK, RecordOK, StageOK, Hand, HandOf
  <1> QED BY <1>1, <1>2, <1>3, Zenon

(* malloc takes a block off the free list.                                  *)
LEMMA PopStep ==
    ASSUME FiniteSetFacts, AllocInv, NEW t \in Threads, Pop(t)
    PROVE  AllocInv'
  <1>1. PICK d, n : d = th[t].desc /\ n = blocks_per_arena(d)
    OBVIOUS
  <1>2. PICK F : F = free_list[d]
    OBVIOUS
  <1>3. PICK b, p : b = F[1] /\ p = b[1]
    OBVIOUS
  <1>4. PICK m : m = arena[p].free_cnt
    BY Zenon
  <1> DEFINE q == th[t]
             h == <<"thread", t>>
             g == <<"arena", p>>
  <1>5. TypeOK /\ LocksOK /\ Exclusive(Own, used) /\ FoundOK
        /\ TakenOK /\ ListsOK /\ ArenasOK /\ ListUseOK
    BY DEF AllocInv, PagesOK, BlocksOK
  <1>6. RecordOK(q) /\ StageOK(q) /\ q.pc = "pop"
    BY <1>5, Zenon DEF TypeOK, Pop
  <1>7. /\ q.block = <<>> /\ d \in Descs /\ d # NONE /\ n \in Nat /\ n >= 1
        /\ q.old \in Blocks \cup {<<>>} /\ Hand(t) = q.old
    <2>1. q.block = <<>> /\ q.desc \in Descs /\ q.old \in Blocks \cup {<<>>}
      BY <1>6, Zenon DEF RecordOK, StageOK
    <2>2. Hand(t) = q.old
      BY <2>1, Zenon DEF Hand, HandOf
    <2>3. n \in Nat \ {0} /\ d # NONE
      BY <1>1, <2>1, DescFacts, Zenon
    <2>4. n \in Nat /\ n >= 1
      BY <2>3
    <2> QED BY <1>1, <2>1, <2>2, <2>3, <2>4, Zenon
  <1>8. /\ F \in Seq(Blocks) /\ F # <<>> /\ lock[d] = t
    BY <1>1, <1>2, <1>5, <1>6, <1>7, Zenon DEF TypeOK, ListUseOK, ListUse, LocksOK, LockUse
  <1>9. /\ Len(F) \in Nat /\ Len(F) >= 1 /\ Head(F) = b /\ b \in Blocks
        /\ Tail(F) \in Seq(Blocks) /\ Len(Tail(F)) = Len(F) - 1
        /\ \A k \in 1 .. Len(F) - 1 : Tail(F)[k] = F[k + 1]
        /\ \A k \in 1 .. Len(F) : F[k] \in Blocks
    BY <1>3, <1>8, SeqFacts, Zenon
  <1>10. /\ \A k \in 1 .. Len(F) : arena[F[k][1]].desc = d /\ F[k][2] < n /\ ~Taken(F[k])
         /\ \A k, l \in 1 .. Len(F) : F[k] = F[l] => k = l
    <2>1. ListsOK /\ d \in Descs /\ F = free_list[d] /\ n = blocks_per_arena(d)
      BY <1>1, <1>2, <1>5, <1>7, ZenonT(40)
    <2>2. ASSUME NEW k \in 1 .. Len(F)
          PROVE  /\ arena[F[k][1]].desc = d /\ F[k][2] < n /\ ~Taken(F[k])
                 /\ \A l \in 1 .. Len(F) : F[k] = F[l] => k = l
      BY <2>1, ListedOnce
    <2> QED BY <2>2, Zenon
  <1>11. p \in Pages /\ arena[p].desc = d /\ b[2] \in 0 .. n - 1 /\ ~Taken(b) /\ b = <<p, b[2]>>
    <2>1. 1 \in 1 .. Len(F)
      BY <1>9
    <2>2. arena[p].desc = d /\ b[2] < n /\ ~Taken(b)
      BY <1>3, <1>10, <2>1
    <2>3. p \in Pages /\ b[2] \in Nat /\ b = <<p, b[2]>>
      BY <1>3, <1>9, BlockFacts, Zenon
    <2> QED BY <1>7, <2>2, <2>3
  <1>12. /\ free_list' = [free_list EXCEPT ![d] = Tail(F)]
         /\ arena' = [arena EXCEPT ![p].free_cnt = @ - 1]
         /\ lock' = [lock EXCEPT ![d] = NOBODY]
         /\ Return(t, b)
         /\ panicked' = (arena[p].desc # d)
         /\ UNCHANGED <<pool_lock, used, pages>>
    BY <1>1, <1>2, <1>3, <1>9, ZenonT(40) DEF Pop
  <1>13. /\ blocks' = blocks \cup {b} /\ blocks' \subseteq Blocks
    BY <1>5, <1>7, <1>9, <1>12, ReturnBlock
  <1>14. PICK r : /\ Moved(t, r) /\ RecordOK(r) /\ StageOK(r) /\ PagesOf(r) = {} /\ Found(r)
                  /\ ~LockUse(r) /\ r.pc \in {"idle", "free"} /\ HandOf(r) = Hand(t)
    BY <1>5, <1>7, <1>9, <1>12, ReturnBlock, Zenon
  <1>15. /\ used' \subseteq Pages /\ pages' \subseteq Pages
         /\ pool_lock' \in [Pools -> Threads \cup {NOBODY}] /\ panicked' = FALSE
    BY <1>5, <1>11, <1>12, Zenon DEF TypeOK
  <1>16. /\ lock' \in [Descs -> Threads \cup {NOBODY}]
         /\ \A e \in Descs : lock'[e] # lock[e] => lock[e] \in {NOBODY, t}
    BY <1>5, <1>7, <1>8, <1>12 DEF TypeOK
  <1>17. /\ free_list' \in [Descs -> Seq(Blocks)] /\ free_list'[d] = Tail(F)
         /\ \A e \in Descs : e # d => free_list'[e] = free_list[e]
    BY <1>5, <1>7, <1>9, <1>12, Zenon DEF TypeOK
  <1>18. /\ FreeIn(p) = {i \in 0 .. n - 1 : \E k \in 1 .. Len(F) : F[k] = <<p, i>>}
         /\ IsFiniteSet(FreeIn(p)) /\ m = Cardinality(FreeIn(p)) /\ m \in Nat
         /\ b[2] \in FreeIn(p) /\ Cardinality(FreeIn(p) \ {b[2]}) = m - 1
    <2>1. FreeIn(p) = {i \in 0 .. n - 1 : Listed(d, <<p, i>>)}
      BY <1>1, <1>11 DEF FreeIn
    <2>2. FreeIn(p) = {i \in 0 .. n - 1 : \E k \in 1 .. Len(F) : F[k] = <<p, i>>}
      BY <1>2, <2>1, Zenon DEF Listed
    <2>3. IsFiniteSet(FreeIn(p)) /\ Cardinality(FreeIn(p)) \in Nat
      BY <1>5, <1>7, <1>11, FreeFinite, Zenon
    <2>4. m = Cardinality(FreeIn(p))
      BY <1>4, <1>5, <1>7, <1>11, Zenon DEF ArenasOK, ArenaOK
    <2>5. b[2] \in FreeIn(p)
      <3>1. 1 \in 1 .. Len(F) /\ F[1] = <<p, b[2]>>
        BY <1>3, <1>9, <1>11
      <3> QED BY <1>11, <2>2, <3>1, ZenonT(40)
    <2>6. Cardinality(FreeIn(p) \ {b[2]}) = Cardinality(FreeIn(p)) - 1
      BY <2>3, <2>5, Zenon DEF FiniteSetFacts, ElementFact
    <2> QED BY <2>2, <2>3, <2>4, <2>5, <2>6, ZenonT(40)
  <1>19. m >= 1 /\ m <= n
    <2>1. IsFiniteSet(0 .. n - 1) /\ Cardinality(0 .. n - 1) = n
      BY <1>7, Zenon DEF FiniteSetFacts, IntervalFact
    <2>2. FreeIn(p) \in SUBSET (0 .. n - 1)
      BY <1>18, ZenonT(40)
    <2>3. m <= n
      <3>1. Cardinality(FreeIn(p)) <= Cardinality(0 .. n - 1)
        BY <2>1, <2>2, Zenon DEF FiniteSetFacts, SubsetFact
      <3> QED BY <1>18, <2>1, <3>1
    <2>4. m # 0
      BY <1>18, Zenon DEF FiniteSetFacts, EmptyFact
    <2> QED BY <1>18, <2>3, <2>4
  <1>20. /\ arena' \in [Pages -> [desc : Descs \cup {NONE}, free_cnt : Nat]]
         /\ arena'[p].desc = d /\ arena'[p].free_cnt = m - 1
         /\ \A x \in Pages : x # p => arena'[x] = arena[x]
    <2>1. m \in Nat /\ m - 1 \in Nat
      BY <1>18, <1>19
    <2>2. arena \in [Pages -> [desc : Descs \cup {NONE}, free_cnt : Nat]]
      BY <1>5 DEF TypeOK
    <2>3. arena' = [arena EXCEPT ![p] = [desc |-> d, free_cnt |-> m - 1]]
      <3>1. arena[p] = [desc |-> d, free_cnt |-> m]
        BY <1>4, <1>11, <2>2, Zenon
      <3>2. [arena[p] EXCEPT !.free_cnt = arena[p].free_cnt - 1] = [desc |-> d, free_cnt |-> m - 1]
        BY <3>1
      <3>3. arena' = [arena EXCEPT ![p] = [arena[p] EXCEPT !.free_cnt = arena[p].free_cnt - 1]]
        BY <1>12
      <3> QED BY <3>2, <3>3, Zenon
    <2> QED BY <1>7, <1>11, <2>1, <2>2, <2>3, Zenon
  <1>21. TypeOK'
    BY <1>5, <1>13, <1>14, <1>15, <1>16, <1>17, <1>20, TypeMoved, ZenonT(40)
  <1>22. LocksOK'
    BY <1>5, <1>12, <1>14, <1>16, LocksMoved, Zenon
  <1>23. Exclusive(Own, used)'
    <2>1. Own'[g] = Own[g] /\ Own'[h] = Own[h]
      <3>1. PagesOf(q) = {}
        BY <1>6 DEF PagesOf
      <3> QED BY <1>7, <1>11, <1>14, <1>20, <3>1, OwnIs, ZenonT(40) DEF Own, Holders, OfArena, Moved
    <2>2. \A k \in Holders : k # g /\ k # h => Own'[k] = Own[k]
      BY <1>5, <1>11, <1>12, <1>14, <1>20, OwnArena
    <2>3. Exclusive(Own', used)
      BY <1>5, <2>1, <2>2, ExSame, ZenonT(40)
    <2> QED BY <1>12, <2>3, Zenon
  <1>24. FoundOK'
    BY <1>5, <1>12, <1>14, FoundMoved, Zenon
  <1>25. \A u \in Threads : Hand(u)' = Hand(u)
    BY <1>14 DEF Hand, Moved
  <1>26. \A c : Taken(c)' <=> Taken(c) \/ c = b
    BY <1>13, <1>25 DEF Taken
  <1>27. \A c \in Blocks : InArena(c)' <=> InArena(c)
    BY <1>7, <1>11, <1>20, BlockFacts, Zenon DEF InArena
  <1>28. TakenOK'
    <2>1. InArena(b)
      BY <1>1, <1>3, <1>7, <1>11 DEF InArena
    <2>2. \A c \in blocks' : InArena(c)'
      BY <1>5, <1>9, <1>13, <1>27, <2>1, ZenonT(40) DEF TypeOK, TakenOK
    <2>3. ASSUME NEW u \in Threads, Hand(u) # <<>>
          PROVE  InArena(Hand(u))' /\ Hand(u) \notin blocks'
      <3>1. PICK c : c = Hand(u)
        OBVIOUS
      <3>2. c \in Blocks /\ Taken(c) /\ c \notin blocks /\ InArena(c)
        BY <1>5, <2>3, <3>1, HandFacts, Zenon DEF Taken, TakenOK
      <3>3. InArena(c)' /\ c # b
        BY <1>11, <1>27, <3>2, Zenon
      <3> QED BY <1>13, <1>25, <3>1, <3>2, <3>3, Zenon
    <2> QED BY <1>5, <1>25, <2>2, <2>3, ZenonT(40) DEF TakenOK
  <1>29. ArenaFrame(p, d)
    BY <1>11, <1>17, <1>20, Zenon DEF ArenaFrame
  <1>30. \A c : Listed(d, c)' <=> \E k \in 1 .. Len(F) : F[k] = c /\ c # b
    <2>1. \A k \in 1 .. Len(F) : F[k] # b => k - 1 \in 1 .. Len(F) - 1 /\ k = k - 1 + 1
      BY <1>3, <1>9
    <2>2. \A k \in 1 .. Len(F) - 1 : k + 1 \in 1 .. Len(F) /\ F[k + 1] # b
      <3> TAKE k \in 1 .. Len(F) - 1
      <3>1. k + 1 \in 1 .. Len(F) /\ 1 \in 1 .. Len(F) /\ k + 1 # 1
        BY <1>9
      <3> QED BY <1>3, <1>10, <3>1, Zenon
    <2>3. \A c : Listed(d, c)' <=> \E k \in 1 .. Len(F) - 1 : F[k + 1] = c
      BY <1>9, <1>17, ZenonT(40) DEF Listed
    <2> QED BY <1>9, <2>1, <2>2, <2>3, ZenonT(40)
  <1>31. ListOK(d)'
    <2> SUFFICES ASSUME NEW k \in 1 .. Len(F) - 1
                 PROVE  /\ arena'[F[k + 1][1]].desc = d /\ F[k + 1][2] < n /\ ~Taken(F[k + 1])'
                        /\ \A l \in 1 .. Len(F) - 1 : F[k + 1] = F[l + 1] => k = l
      BY <1>1, <1>9, <1>17 DEF ListOK, Taken
    <2>1. k + 1 \in 1 .. Len(F) /\ F[k + 1] # b
      <3>1. k + 1 \in 1 .. Len(F) /\ 1 \in 1 .. Len(F) /\ k + 1 # 1
        BY <1>9
      <3> QED BY <1>3, <1>10, <3>1
    <2>2. arena'[F[k + 1][1]].desc = d
      <3>1. F[k + 1] \in Blocks /\ arena[F[k + 1][1]].desc = d
        BY <1>9, <1>10, <2>1, Zenon
      <3> QED BY <1>20, <3>1, BlockFacts, Zenon
    <2>3. F[k + 1][2] < n /\ ~Taken(F[k + 1])'
      BY <1>10, <1>26, <2>1, ZenonT(40)
    <2>4. \A l \in 1 .. Len(F) - 1 : F[k + 1] = F[l + 1] => k = l
      BY <1>9, <1>10
    <2> QED BY <2>2, <2>3, <2>4, Zenon
  <1>32. ArenaOK(p)'
    <2>1. FreeIn(p)' = {i \in 0 .. n - 1 : Listed(d, <<p, i>>)'}
      BY <1>1, <1>20 DEF FreeIn, Listed
    <2>2. \A i \in 0 .. n - 1 : <<p, i>> = b <=> i = b[2]
      BY <1>11
    <2>3. FreeIn(p)' = FreeIn(p) \ {b[2]}
      BY <1>18, <1>30, <2>1, <2>2, ZenonT(40)
    <2>4. \A i \in 0 .. n - 1 : Listed(d, <<p, i>>)' \/ Taken(<<p, i>>)'
      <3> TAKE i \in 0 .. n - 1
      <3>1. Listed(d, <<p, i>>) \/ Taken(<<p, i>>)
        BY <1>1, <1>5, <1>7, <1>11, Zenon DEF ArenasOK, ArenaOK
      <3>2. Listed(d, <<p, i>>) => \E k \in 1 .. Len(F) : F[k] = <<p, i>>
        BY <1>2, Zenon DEF Listed
      <3> QED BY <1>26, <1>30, <3>1, <3>2
    <2> QED BY <1>1, <1>18, <1>20, <2>3, <2>4, ZenonT(40) DEF ArenaOK, Listed
  <1>33. \A c \in Blocks : c[1] # p => (Listed(d, c)' <=> Listed(d, c)) /\ (Taken(c)' <=> Taken(c))
    BY <1>2, <1>3, <1>26, <1>30, Zenon DEF Listed
  <1>34. ListsOK' /\ ArenasOK'
    BY <1>5, <1>7, <1>11, <1>29, <1>31, <1>32, <1>33, ArenaChange, ZenonT(40)
  <1>35. ListUseOK'
    <2>1. ~Unused(p)'
      BY <1>1, <1>7, <1>18, <1>19, <1>20 DEF Unused
    <2>2. ListUse(th[t])'
      BY <1>14, Zenon DEF ListUse, Moved, Searching
    <2>3. \A x \in Pages : Taking(th[t], x) => x = p
      BY <1>1, <1>2, <1>3, <1>9, ZenonT(40) DEF Taking
    <2>4. arena'[p].desc = arena[p].desc /\ lock[d] \in {t, NOBODY}
      BY <1>8, <1>11, <1>20
    <2> QED BY <1>5, <1>7, <1>11, <1>14, <1>29, <2>1, <2>2, <2>3, <2>4, ListUseChange, ZenonT(40)
  <1> QED BY <1>21, <1>22, <1>23, <1>24, <1>28, <1>34, <1>35, Zenon DEF AllocInv, PagesOK, BlocksOK

(* free gets the descriptor's lock: the block goes on the free list, and an *)
(* arena that is then unused is given back.                                 *)
LEMMA FreeLockStep ==
    ASSUME LeastFact, FiniteSetFacts, AllocInv, NEW t \in Threads, FreeLock(t)
    PROVE  AllocInv'
  <1>1. PICK b, p : b = th[t].block /\ p = b[1]
    OBVIOUS
  <1>2. PICK d, n : d = th[t].desc /\ n = blocks_per_arena(d)
    OBVIOUS
  <1>3. PICK F : F = free_list[d]
    OBVIOUS
  <1>4. PICK L : L = <<b>> \o F
    BY Zenon
  <1>5. PICK m : m = arena[p].free_cnt
    OBVIOUS
  <1> DEFINE q == th[t]
             h == <<"thread", t>>
             g == <<"arena", p>>
  <1>6. TypeOK /\ LocksOK /\ Exclusive(Own, used) /\ FoundOK
        /\ TakenOK /\ ListsOK /\ ArenasOK /\ ListUseOK
    BY ZenonT(40) DEF AllocInv, PagesOK, BlocksOK
  <1>7. RecordOK(q) /\ StageOK(q) /\ q.pc = "free_lock" /\ ListUse(q)
    BY <1>6 DEF TypeOK, FreeLock, ListUseOK
  <1>8. /\ b \in Blocks /\ b # <<>> /\ q.old = <<>> /\ d \in Descs /\ d # NONE
        /\ Hand(t) = b /\ arena[p].desc = d
    BY <1>1, <1>2, <1>7, Zenon DEF RecordOK, StageOK, Hand, HandOf, ListUse
  <1>9. /\ p \in Pages /\ p # NONE /\ p \in Nat /\ b[2] \in Nat /\ b = <<p, b[2]>>
        /\ n \in Nat /\ n >= 1
    <2>1. p \in Pages /\ b[2] \in Nat /\ b = <<p, b[2]>>
      BY <1>1, <1>8, BlockFacts
    <2>2. p # NONE /\ p \in Nat
      BY <2>1, BlockFacts
    <2>3. n \in Nat \ {0}
      BY <1>2, <1>8, DescFacts
    <2> QED BY <2>1, <2>2, <2>3
  <1>10. /\ InArena(b) /\ b \notin blocks /\ (\A u \in Threads : u # t => Hand(u) # b)
         /\ Taken(b) /\ b[2] \in 0 .. n - 1
    <2>1. InArena(b) /\ b \notin blocks /\ (\A u \in Threads : u # t => Hand(u) # b) /\ Taken(b)
      BY <1>6, <1>8, Zenon DEF TakenOK, Taken
    <2>2. b[2] < n
      BY <1>1, <1>2, <1>8, <2>1, ZenonT(40) DEF InArena
    <2> QED BY <1>9, <2>1, <2>2
  <1>11. /\ F \in Seq(Blocks) /\ Len(F) \in Nat
         /\ \A k \in 1 .. Len(F) : /\ F[k] \in Blocks /\ arena[F[k][1]].desc = d /\ F[k][2] < n
                                   /\ ~Taken(F[k])
         /\ \A k, l \in 1 .. Len(F) : F[k] = F[l] => k = l
    <2>1. F \in Seq(Blocks)
      BY <1>6, <1>3, <1>8, Zenon DEF TypeOK
    <2>2. \A k \in 1 .. Len(F) : arena[F[k][1]].desc = d /\ F[k][2] < n /\ ~Taken(F[k])
      BY <1>6, <1>2, <1>3, <1>8, Zenon DEF ListsOK
    <2>3. \A k, l \in 1 .. Len(F) : F[k] = F[l] => k = l
      <3>1. ListsOK /\ d \in Descs /\ F = free_list[d]
        BY <1>3, <1>6, <1>8, ZenonT(40)
      <3>2. ASSUME NEW k \in 1 .. Len(F)
            PROVE  \A l \in 1 .. Len(F) : F[k] = F[l] => k = l
        BY <3>1, ListedOnce
      <3> QED BY <3>2, Zenon
    <2> QED BY <2>1, <2>2, <2>3
  <1>12. /\ L \in Seq(Blocks) /\ Len(L) = Len(F) + 1 /\ L[1] = b
         /\ \A k \in 1 .. Len(F) : L[k + 1] = F[k]
    BY <1>4, <1>8, <1>11
  <1>13. /\ \A k \in 1 .. Len(L) : k = 1 \/ (k - 1 \in 1 .. Len(F) /\ L[k] = F[k - 1])
         /\ \A k \in 1 .. Len(F) : k + 1 \in 1 .. Len(L) /\ F[k] # b
         /\ 1 \in 1 .. Len(L)
    <2>1. \A k \in 1 .. Len(L) : k # 1 => k - 1 \in 1 .. Len(F) /\ k = (k - 1) + 1
      BY <1>11, <1>12
    <2>2. \A k \in 1 .. Len(L) : k # 1 => L[k] = F[k - 1]
      BY <1>12, <2>1, Zenon
    <2>3. \A k \in 1 .. Len(F) : F[k] # b
      BY <1>10, <1>11
    <2>4. 1 \in 1 .. Len(L) /\ \A k \in 1 .. Len(F) : k + 1 \in 1 .. Len(L)
      BY <1>11, <1>12
    <2> QED BY <2>1, <2>2, <2>3, <2>4, Zenon
  <1>14. \A k, l \in 1 .. Len(L) : L[k] = L[l] => k = l
    <2> SUFFICES ASSUME NEW k \in 1 .. Len(L), NEW l \in 1 .. Len(L), L[k] = L[l]
                 PROVE  k = l
      OBVIOUS
    <2>1. CASE k = 1 /\ l = 1
      BY <2>1
    <2>2. CASE k = 1 /\ l # 1
      BY <1>12, <1>13, <2>2
    <2>3. CASE k # 1 /\ l = 1
      BY <1>12, <1>13, <2>3
    <2>4. CASE k # 1 /\ l # 1
      <3>1. k - 1 \in 1 .. Len(F) /\ l - 1 \in 1 .. Len(F) /\ F[k - 1] = F[l - 1]
        BY <1>13, <2>4, Zenon
      <3> QED BY <1>11, <3>1
    <2> QED BY <2>1, <2>2, <2>3, <2>4, Zenon
  <1>15. /\ FreeIn(p) = {i \in 0 .. n - 1 : \E k \in 1 .. Len(F) : F[k] = <<p, i>>}
         /\ IsFiniteSet(FreeIn(p)) /\ m = Cardinality(FreeIn(p)) /\ m \in Nat
         /\ b[2] \notin FreeIn(p)
         /\ \A i \in 0 .. n - 1 : i \in FreeIn(p) \/ Taken(<<p, i>>)
    <2>1. FreeIn(p) = {i \in 0 .. n - 1 : Listed(d, <<p, i>>)}
      BY <1>2, <1>8 DEF FreeIn
    <2>2. FreeIn(p) = {i \in 0 .. n - 1 : \E k \in 1 .. Len(F) : F[k] = <<p, i>>}
      BY <1>3, <2>1 DEF Listed
    <2>3. IsFiniteSet(FreeIn(p)) /\ Cardinality(FreeIn(p)) \in Nat
      BY <1>6, <1>8, <1>9, FreeFinite, ZenonT(40)
    <2>4. ArenaOK(p)
      BY <1>6, <1>8, <1>9 DEF ArenasOK
    <2>5. m = Cardinality(FreeIn(p))
      BY <1>5, <2>4, Zenon DEF ArenaOK
    <2>6. \A i \in 0 .. n - 1 : i \in FreeIn(p) \/ Taken(<<p, i>>)
      BY <1>2, <1>8, <2>1, <2>4, Zenon DEF ArenaOK
    <2>7. b[2] \notin FreeIn(p)
      BY <1>9, <1>13, <2>2, Zenon
    <2> QED BY <2>2, <2>3, <2>5, <2>6, <2>7, Zenon
  <1>16. lock[d] = NOBODY
    BY <1>2, Zenon DEF FreeLock
  <1>17. /\ UNCHANGED <<pool_lock, used, blocks, pages>>
         /\ used' \subseteq Pages /\ pages' \subseteq Pages /\ blocks' \subseteq Blocks
         /\ pool_lock' \in [Pools -> Threads \cup {NOBODY}]
    BY <1>6 DEF FreeLock, TypeOK
  <1>18. m + 1 <= n /\ (m + 1 >= n => FreeIn(p) = (0 .. n - 1) \ {b[2]})
    <2> DEFINE S == (0 .. n - 1) \ {b[2]}
    <2>1. IsFiniteSet(0 .. n - 1) /\ Cardinality(0 .. n - 1) = n
      <3>1. n \in Nat /\ n >= 1
        BY <1>9
      <3> QED BY <3>1 DEF FiniteSetFacts, IntervalFact
    <2>2. IsFiniteSet(S) /\ Cardinality(S) = n - 1
      BY <1>10, <2>1, Zenon DEF FiniteSetFacts, ElementFact
    <2>3. FreeIn(p) \in SUBSET S
      BY <1>15
    <2> HIDE DEF S
    <2>4. m <= n - 1 /\ (n - 1 = m => FreeIn(p) = S)
      BY <1>15, <2>2, <2>3, Zenon DEF FiniteSetFacts, SubsetFact
    <2>5. n \in Nat /\ m \in Nat
      BY <1>9, <1>15
    <2>6. m + 1 <= n /\ (m + 1 >= n => n - 1 = m)
      BY <2>4, <2>5
    <2> QED BY <2>4, <2>6 DEF S
  <1>19. /\ \A c \in Blocks : Taken(c) => InArena(c)
         /\ \A u \in Threads : Hand(u) \in Blocks \cup {<<>>}
         /\ \A u \in Threads : th[u].pc = "free_lock" => Hand(u) = th[u].block /\ Hand(u) \in Blocks
    BY <1>6, HandFacts, Zenon
  <1>20. CASE ~(m + 1 >= n)
    <2>1. /\ free_list' = [free_list EXCEPT ![d] = L]
          /\ arena' = [arena EXCEPT ![p].free_cnt = @ + 1]
          /\ Goto(t, Idle) /\ UNCHANGED <<lock, panicked>>
      BY <1>1, <1>2, <1>3, <1>4, <1>5, <1>20, ZenonT(40) DEF FreeLock
    <2>2. Moved(t, Idle)
      BY <1>6, <2>1, GotoMoves
    <2>3. /\ free_list' \in [Descs -> Seq(Blocks)] /\ free_list'[d] = L
          /\ \A e \in Descs : e # d => free_list'[e] = free_list[e]
      BY <1>6, <1>8, <1>12, <2>1, Zenon DEF TypeOK
    <2>4. /\ arena' \in [Pages -> [desc : Descs \cup {NONE}, free_cnt : Nat]]
          /\ arena'[p].desc = d /\ arena'[p].free_cnt = m + 1
          /\ \A x \in Pages : x # p => arena'[x] = arena[x]
      <3>1. arena \in [Pages -> [desc : Descs \cup {NONE}, free_cnt : Nat]]
        BY <1>6 DEF TypeOK
      <3>2. arena[p] = [desc |-> d, free_cnt |-> m]
        BY <1>5, <1>8, <1>9, <3>1, Zenon
      <3>3. [arena[p] EXCEPT !.free_cnt = arena[p].free_cnt + 1] = [desc |-> d, free_cnt |-> m + 1]
        BY <3>2
      <3>4. arena' = [arena EXCEPT ![p] = [arena[p] EXCEPT !.free_cnt = arena[p].free_cnt + 1]]
        BY <2>1
      <3>5. arena' = [arena EXCEPT ![p] = [desc |-> d, free_cnt |-> m + 1]]
        BY <3>3, <3>4, ZenonT(40)
      <3>6. m + 1 \in Nat
        BY <1>15
      <3> QED BY <1>8, <1>9, <3>1, <3>5, <3>6, Zenon
    <2>5. lock' \in [Descs -> Threads \cup {NOBODY}] /\ panicked' = FALSE
      BY <1>6, <2>1 DEF TypeOK
    <2>6. TypeOK'
      BY <1>6, <1>17, <2>2, <2>3, <2>4, <2>5, IdleFacts, TypeMoved, ZenonT(40)
    <2>7. LocksOK'
      BY <1>6, <1>17, <2>1, <2>2, IdleFacts, LocksMoved, ZenonT(40)
    <2>8. Exclusive(Own, used)'
      <3>1. Own'[g] = Own[g] /\ Own'[h] = Own[h]
        <4>1. PagesOf(q) = {}
          BY <1>7, Zenon DEF PagesOf
        <4> QED BY <1>8, <1>9, <2>2, <2>4, <4>1, IdleFacts, OwnIs, ZenonT(40) DEF Own, Holders, OfArena, Moved
      <3>2. \A k \in Holders : k # g /\ k # h => Own'[k] = Own[k]
        BY <1>6, <1>9, <1>17, <2>2, <2>4, OwnArena, ZenonT(40)
      <3>3. Exclusive(Own', used)
        BY <1>6, <3>1, <3>2, ExSame, ZenonT(40)
      <3> QED BY <1>17, <3>3, Zenon
    <2>9. FoundOK'
      BY <1>6, <1>17, <2>2, IdleFacts, FoundMoved, Zenon
    <2>10. Hand(t)' = <<>> /\ \A u \in Threads : u # t => Hand(u)' = Hand(u)
      BY <2>2, IdleFacts DEF Hand, Moved
    <2>11. \A c \in Blocks : Taken(c)' <=> Taken(c) /\ c # b
      BY <1>8, <1>10, <1>17, <2>10, BlockFacts, ZenonT(40) DEF Taken
    <2>12. \A c \in Blocks : InArena(c)' <=> InArena(c)
      BY <1>8, <1>9, <2>4, BlockFacts, Zenon DEF InArena
    <2>13. TakenOK'
      <3>1. \A c \in blocks' : InArena(c)'
        BY <1>6, <1>17, <2>12, Zenon DEF TypeOK, TakenOK
      <3>2. ASSUME NEW u \in Threads, u # t, Hand(u) # <<>>
            PROVE  InArena(Hand(u))' /\ Hand(u) \notin blocks'
        <4>1. PICK c : c = Hand(u)
          OBVIOUS
        <4>2. c \in Blocks /\ c \notin blocks /\ InArena(c)
          BY <1>6, <1>19, <3>2, <4>1, Zenon DEF TakenOK
        <4>3. InArena(c)'
          BY <2>12, <4>2
        <4> QED BY <1>17, <2>10, <3>2, <4>1, <4>2, <4>3, ZenonT(40)
      <3> QED BY <1>6, <2>10, <3>1, <3>2, Zenon DEF TakenOK
    <2>14. ArenaFrame(p, d)
      BY <1>8, <2>3, <2>4, Zenon DEF ArenaFrame
    <2>15. \A c : Listed(d, c)' <=> (c = b \/ \E k \in 1 .. Len(F) : F[k] = c)
      <3>1. \A c : Listed(d, c)' <=> \E k \in 1 .. Len(L) : L[k] = c
        BY <2>3 DEF Listed
      <3>2. \A k \in 1 .. Len(L) : L[k] = b \/ \E l \in 1 .. Len(F) : F[l] = L[k]
        BY <1>12, <1>13
      <3>3. \E k \in 1 .. Len(L) : L[k] = b
        BY <1>12, <1>13, Zenon
      <3>4. \A l \in 1 .. Len(F) : \E k \in 1 .. Len(L) : L[k] = F[l]
        BY <1>12, <1>13
      <3> QED BY <3>1, <3>2, <3>3, <3>4, ZenonT(40)
    <2>16. ListOK(d)'
      <3> SUFFICES ASSUME NEW k \in 1 .. Len(L)
                   PROVE  /\ arena'[L[k][1]].desc = d /\ L[k][2] < n /\ ~Taken(L[k])'
                          /\ \A l \in 1 .. Len(L) : L[k] = L[l] => k = l
        BY <1>2, <2>3 DEF ListOK, Taken
      <3>1. PICK c : c = L[k]
        OBVIOUS
      <3>2. c \in Blocks /\ arena[c[1]].desc = d /\ c[2] < n /\ (c = b \/ ~Taken(c))
        <4>1. CASE k = 1
          <5>1. c = b /\ b[2] < n
            BY <1>9, <1>10, <1>12, <3>1, <4>1
          <5> QED BY <1>1, <1>8, <5>1, ZenonT(40)
        <4>2. CASE k # 1
          <5>1. PICK j \in 1 .. Len(F) : c = F[j]
            BY <1>13, <3>1, <4>2, Zenon
          <5> QED BY <1>11, <5>1, Zenon
        <4> QED BY <4>1, <4>2, Zenon
      <3>3. arena'[c[1]].desc = d
        BY <2>4, <3>2, BlockFacts, Zenon
      <3>4. ~Taken(c)'
        BY <2>11, <3>2, Zenon
      <3> QED BY <1>14, <3>1, <3>2, <3>3, <3>4, ZenonT(40)
    <2>17. ArenaOK(p)'
      <3>1. FreeIn(p)' = {i \in 0 .. n - 1 : Listed(d, <<p, i>>)'}
        BY <1>2, <2>4, Zenon DEF FreeIn, Listed
      <3>2. \A i \in 0 .. n - 1 : <<p, i>> = b <=> i = b[2]
        <4>1. b = <<p, b[2]>>
          BY <1>9, Zenon
        <4> QED BY <4>1
      <3>3. FreeIn(p)' = FreeIn(p) \cup {b[2]}
        <4>1. \A i \in 0 .. n - 1 : i \in FreeIn(p)' <=> i \in FreeIn(p) \/ i = b[2]
          BY <1>15, <2>15, <3>1, <3>2, Zenon
        <4>2. b[2] \in 0 .. n - 1 /\ \A i : i \in FreeIn(p) => i \in 0 .. n - 1
          BY <1>10, <1>15, Zenon
        <4>3. \A i : i \in FreeIn(p)' => i \in 0 .. n - 1
          BY <3>1, Zenon
        <4> QED BY <4>1, <4>2, <4>3, Zenon
      <3>4. Cardinality(FreeIn(p) \cup {b[2]}) = m + 1
        BY <1>15, Zenon DEF FiniteSetFacts, ElementFact
      <3>5. \A i \in 0 .. n - 1 : Listed(d, <<p, i>>)' \/ Taken(<<p, i>>)'
        <4> TAKE i \in 0 .. n - 1
        <4>1. <<p, i>> \in Blocks
          BY <1>9, BlockFacts
        <4>2. i \in FreeIn(p) => \E k \in 1 .. Len(F) : F[k] = <<p, i>>
          BY <1>15
        <4> QED BY <1>15, <2>11, <2>15, <4>1, <4>2, ZenonT(40)
      <3> QED BY <1>2, <2>4, <3>3, <3>4, <3>5, Zenon DEF ArenaOK, Listed
    <2>18. \A c \in Blocks : c[1] # p => (Listed(d, c)' <=> Listed(d, c)) /\ (Taken(c)' <=> Taken(c))
      BY <1>1, <1>3, <2>11, <2>15, Zenon DEF Listed
    <2>19. ListsOK' /\ ArenasOK'
      BY <1>6, <1>8, <1>9, <2>14, <2>16, <2>17, <2>18, ArenaChange, ZenonT(40)
    <2>20. ListUseOK'
      <3>1. ListUse(th[t])'
        BY <2>2, IdleFacts, Zenon DEF ListUse, Moved, Searching
      <3>2. ~Unused(p)'
        BY <1>2, <1>9, <1>15, <1>20, <2>4, Zenon DEF Unused
      <3>3. \A x \in Pages : ~Taking(th[t], x)
        BY <1>7, Zenon DEF Taking
      <3>4. arena'[p].desc = arena[p].desc /\ lock[d] \in {t, NOBODY}
        BY <1>8, <1>16, <2>4, ZenonT(40)
      <3> QED BY <1>6, <1>8, <1>9, <2>2, <2>14, <3>1, <3>2, <3>3, <3>4, ListUseChange, ZenonT(40)
    <2> QED BY <2>6, <2>7, <2>8, <2>9, <2>13, <2>19, <2>20, ZenonT(40) DEF AllocInv, PagesOK, BlocksOK
  <1>21. CASE m + 1 >= n
    <2>1. /\ free_list' = [free_list EXCEPT ![d] = RemoveBlocks(L, p)]
          /\ arena' = [arena EXCEPT ![p] = NoArena]
          /\ lock' = [lock EXCEPT ![d] = t]
          /\ StartReset(t, q, p, 1, m + 1 = n)
      BY <1>1, <1>2, <1>3, <1>4, <1>5, <1>21, Zenon DEF FreeLock
    <2> DEFINE r == [q EXCEPT !.pc = "reset", !.page = p, !.cnt = 1, !.block = <<>>]
    <2>2. Moved(t, r)
      BY <1>6, <2>1, GotoMoves DEF StartReset
    <2>3. Has(r, "reset", d, q.pool, 1, q.idx, p, q.ret, <<>>, <<>>)
      BY <1>2, <1>7, <1>8, Zenon DEF RecordOK, Has, Fields
    <2> HIDE DEF r
    <2>4. /\ RecordOK(r) /\ StageOK(r) /\ PagesOf(r) = Group(p, 1) /\ Found(r)
          /\ r.pc = "reset" /\ r.desc = d /\ HandOf(r) = <<>>
      <3>1. d \in Descs \cup {NONE} /\ 1 \in Nat /\ 1 >= 1 /\ p \in Pages
        BY <1>8, <1>9
      <3>2. q.pool \in Pools /\ q.idx \in Nat /\ q.ret \in {"none", "user", "big", "arena"}
        BY <1>7, Zenon DEF RecordOK
      <3> QED BY <2>3, <3>1, <3>2, ResetRecord, ZenonT(40)
    <2>5. PagesOf(r) = Group(p, 1) /\ Group(p, 1) = {p} /\ PagesOf(q) = {} /\ Found(r)
          /\ r.pc = "reset" /\ r.desc = d /\ HandOf(r) = <<>>
      <3>1. PagesOf(q) = {}
        BY <1>7, Zenon DEF PagesOf
      <3>2. Group(p, 1) = {p}
        BY <1>9 DEF Group
      <3> QED BY <2>4, <3>1, <3>2, Zenon
    <2>6. PICK K : K = RemoveBlocks(L, p)
      OBVIOUS
    <2>7. KeptOK(L, p, K, Len(L))
      BY <1>12, <1>14, <2>6, RemoveIs, Zenon
    <2>8. /\ K \in Seq(Blocks)
          /\ \A k \in 1 .. Len(K) : K[k][1] # p /\ \E j \in 1 .. Len(L) : K[k] = L[j]
          /\ \A j \in 1 .. Len(L) : L[j][1] # p => \E k \in 1 .. Len(K) : K[k] = L[j]
          /\ \A k, l \in 1 .. Len(K) : K[k] = K[l] => k = l
      BY <2>7, Zenon DEF KeptOK
    <2>9. /\ free_list' \in [Descs -> Seq(Blocks)] /\ free_list'[d] = K
          /\ \A e \in Descs : e # d => free_list'[e] = free_list[e]
      BY <1>6, <1>8, <2>1, <2>6, <2>8, Zenon DEF TypeOK
    <2>10. /\ arena' \in [Pages -> [desc : Descs \cup {NONE}, free_cnt : Nat]]
           /\ arena'[p].desc = NONE /\ arena'[p].free_cnt = 0
           /\ \A x \in Pages : x # p => arena'[x] = arena[x]
      BY <1>6, <1>9, <2>1, Zenon DEF TypeOK, NoArena
    <2>11. /\ lock' \in [Descs -> Threads \cup {NOBODY}] /\ lock'[d] = t
           /\ \A e \in Descs : lock'[e] # lock[e] => lock[e] \in {NOBODY, t}
      BY <1>6, <1>8, <1>16, <2>1, Zenon DEF TypeOK
    <2>12. Own[g] = {p} /\ g \in Holders
      BY <1>8, <1>9, OwnIs, Zenon DEF OfArena
    <2>13. panicked' = FALSE
      <3>1. InPool(Own[g]) /\ Own[g] \subseteq used
        BY <1>6, <2>12, Zenon DEF Exclusive
      <3>2. (\E pool \in Pools : page_from_pool(pool, p)) /\ Group(p, 1) \subseteq used
        BY <2>5, <2>12, <3>1, Zenon DEF InPool
      <3>3. m + 1 = n
        BY <1>9, <1>15, <1>18, <1>21
      <3> QED BY <2>1, <3>2, <3>3, Zenon DEF StartReset
    <2>14. TypeOK'
      BY <1>6, <1>17, <2>2, <2>4, <2>9, <2>10, <2>11, <2>13, TypeMoved, ZenonT(40)
    <2>15. LocksOK'
      BY <1>6, <1>17, <2>2, <2>5, <2>11, LocksMoved, Zenon
    <2>16. Exclusive(Own, used)'
      <3>1. g \in Holders /\ h \in Holders /\ g # h /\ Own[h] = {} /\ Own'[g] = {}
        <4>1. h \in Holders /\ g # h /\ Own[h] = {}
          BY <2>5, OwnIs, Zenon
        <4>2. Own'[g] = Group(p, 0)
          BY <1>9, <2>10, <2>12, Zenon DEF Own, Holders, OfArena
        <4>3. Group(p, 0) = {}
          BY <1>9 DEF Group
        <4> QED BY <2>12, <4>1, <4>2, <4>3, Zenon
      <3>2. Own'[h] = Own[g]
        BY <2>2, <2>5, <2>12, <3>1, Zenon DEF Own, Holders, Moved
      <3>3. \A k \in Holders : k # g /\ k # h => Own'[k] = Own[k]
        BY <1>6, <1>9, <1>17, <2>2, <2>10, OwnArena, ZenonT(40)
      <3> HIDE DEF g, h
      <3> QED BY <1>6, <1>17, <3>1, <3>2, <3>3, OwnTransfer, Zenon
    <2>17. FoundOK'
      BY <1>6, <1>17, <2>2, <2>5, FoundMoved, Zenon
    <2>18. Hand(t)' = <<>> /\ \A u \in Threads : u # t => Hand(u)' = Hand(u)
      BY <2>2, <2>5, ZenonT(40) DEF Hand, Moved
    <2>19. \A c \in Blocks : Taken(c)' <=> Taken(c) /\ c # b
      BY <1>8, <1>10, <1>17, <2>18, BlockFacts, Zenon DEF Taken
    <2>20. \A c \in Blocks : c[1] # p => (InArena(c)' <=> InArena(c))
      BY <2>10, BlockFacts, Zenon DEF InArena
    <2>21. \A c \in Blocks : Taken(c) /\ c[1] = p => c = b
      <3> SUFFICES ASSUME NEW c \in Blocks, Taken(c), c[1] = p, c # b PROVE FALSE
        OBVIOUS
      <3>1. c = <<p, c[2]>> /\ c[2] \in Nat /\ c[2] < n /\ c[2] # b[2]
        <4>1. c[2] < n
          BY <1>2, <1>8, <1>19, Zenon DEF InArena
        <4> QED BY <1>9, <4>1, BlockFacts, ZenonT(30)
      <3>2. c[2] \in FreeIn(p)
        BY <1>9, <1>18, <1>21, <3>1
      <3>3. PICK k \in 1 .. Len(F) : F[k] = c
        BY <1>15, <3>1, <3>2, ZenonT(40)
      <3> QED BY <1>11, <3>3
    <2>22. TakenOK'
      <3>1. \A c \in blocks : c \in Blocks /\ Taken(c) /\ InArena(c) /\ c # b
        BY <1>6, <1>10 DEF TypeOK, TakenOK, Taken
      <3>2. \A c \in blocks' : InArena(c)'
        BY <1>17, <2>20, <2>21, <3>1, Zenon
      <3>3. ASSUME NEW u \in Threads, u # t, Hand(u) # <<>>
            PROVE  InArena(Hand(u))' /\ Hand(u) \notin blocks'
        <4>1. PICK c : c = Hand(u)
          OBVIOUS
        <4>2. c \in Blocks /\ c \notin blocks /\ InArena(c) /\ Taken(c) /\ c # b
          BY <1>6, <1>10, <1>19, <3>3, <4>1, Zenon DEF TakenOK, Taken
        <4>3. InArena(c)'
          BY <2>20, <2>21, <4>2, Zenon
        <4> QED BY <1>17, <2>18, <3>3, <4>1, <4>2, <4>3, Zenon
      <3> QED BY <1>6, <2>18, <3>2, <3>3, Zenon DEF TakenOK
    <2>23. ArenaFrame(p, d)
      BY <1>8, <2>9, <2>10, Zenon DEF ArenaFrame
    <2>24. \A k \in 1 .. Len(K) : K[k][1] # p /\ \E j \in 1 .. Len(F) : K[k] = F[j]
      <3> TAKE k \in 1 .. Len(K)
      <3>1. PICK j \in 1 .. Len(L) : K[k] = L[j]
        BY <2>8, Zenon
      <3>2. K[k][1] # p /\ j # 1
        BY <1>1, <1>12, <2>8, <3>1, ZenonT(40)
      <3> QED BY <1>13, <3>1, <3>2, Zenon
    <2>25. ListOK(d)'
      <3> SUFFICES ASSUME NEW k \in 1 .. Len(K)
                   PROVE  /\ arena'[K[k][1]].desc = d /\ K[k][2] < n /\ ~Taken(K[k])'
                          /\ \A l \in 1 .. Len(K) : K[k] = K[l] => k = l
        BY <1>2, <2>9 DEF ListOK, Taken
      <3>1. PICK c : c = K[k]
        OBVIOUS
      <3>2. c \in Blocks /\ arena[c[1]].desc = d /\ c[2] < n /\ ~Taken(c) /\ c[1] # p
        BY <1>11, <2>24, <3>1
      <3>3. arena'[c[1]].desc = d
        BY <2>10, <3>2, BlockFacts
      <3>4. ~Taken(c)'
        BY <2>19, <3>2, Zenon
      <3> QED BY <2>8, <3>1, <3>2, <3>3, <3>4, Zenon
    <2>26. \A c \in Blocks : c[1] # p => (Listed(d, c)' <=> Listed(d, c)) /\ (Taken(c)' <=> Taken(c))
      <3>1. \A c : Listed(d, c)' <=> \E k \in 1 .. Len(K) : K[k] = c
        BY <2>9 DEF Listed
      <3>2. \A c : Listed(d, c) <=> \E k \in 1 .. Len(F) : F[k] = c
        BY <1>3 DEF Listed
      <3>3. \A c \in Blocks : c[1] # p /\ (\E k \in 1 .. Len(F) : F[k] = c) =>
              \E k \in 1 .. Len(K) : K[k] = c
        <4> SUFFICES ASSUME NEW c \in Blocks, c[1] # p, NEW k \in 1 .. Len(F), F[k] = c
                     PROVE  \E l \in 1 .. Len(K) : K[l] = c
          BY Zenon
        <4>1. k + 1 \in 1 .. Len(L) /\ L[k + 1] = c
          BY <1>11, <1>12
        <4>2. PICK j : j \in 1 .. Len(L) /\ L[j] = c
          BY <4>1, Zenon
        <4>3. L[j][1] # p
          BY <4>2, Zenon
        <4>4. PICK l \in 1 .. Len(K) : K[l] = L[j]
          BY <2>8, <4>2, <4>3, Zenon
        <4> QED BY <4>2, <4>4, Zenon
      <3>4. \A c \in Blocks : c[1] # p => c # b
        BY <1>1, Zenon
      <3> QED BY <2>19, <2>24, <3>1, <3>2, <3>3, <3>4, ZenonT(40)
    <2>27. ListsOK' /\ ArenasOK'
      BY <1>6, <1>8, <1>9, <2>10, <2>23, <2>25, <2>26, ArenaChange, ZenonT(40)
    <2>28. ListUseOK'
      <3>1. ListUse(th[t])'
        BY <2>2, <2>5, Zenon DEF ListUse, Moved, Searching
      <3>2. ~Unused(p)'
        BY <2>10, Zenon DEF Unused
      <3>3. \A x \in Pages : ~Taking(th[t], x)
        BY <1>7 DEF Taking
      <3>4. \A u \in Threads : u # t /\ th[u].pc = "free_lock" => th[u].block[1] # p
        <4> SUFFICES ASSUME NEW u \in Threads, u # t, th[u].pc = "free_lock", th[u].block[1] = p
                     PROVE  FALSE
          BY Zenon
        <4>1. Hand(u) = th[u].block /\ Hand(u) \in Blocks /\ Taken(Hand(u))
          BY <1>19 DEF Taken
        <4> QED BY <1>10, <2>21, <4>1, Zenon
      <3>5. lock[d] \in {t, NOBODY}
        BY <1>16
      <3> QED BY <1>6, <1>8, <1>9, <2>2, <2>23, <3>1, <3>2, <3>3, <3>4, <3>5, ListUseChange, ZenonT(40)
    <2> QED BY <2>14, <2>15, <2>16, <2>17, <2>22, <2>27, <2>28 DEF AllocInv, PagesOK, BlocksOK
  <1> QED BY <1>20, <1>21
-----------------------------------------------------------------------------
(* No page is in use at the start, and no call under way.                   *)
LEMMA InitInv == Init => AllocInv
  <1> SUFFICES ASSUME Init PROVE AllocInv
    OBVIOUS
  <1>1. \A t \in Threads : th[t] = Idle
    BY DEF Init
  <1>2. \A p \in Pages : arena[p] = NoArena /\ arena[p].desc = NONE /\ arena[p].free_cnt = 0
    BY DEF Init, Pages, NoArena
  <1>3. TypeOK
    <2>1. arena \in [Pages -> [desc : Descs \cup {NONE}, free_cnt : Nat]]
      BY DEF Init, Pages, NoArena
    <2>2. free_list \in [Descs -> Seq(Blocks)]
      BY DEF Init
    <2>3. DOMAIN th = Threads /\ \A t \in Threads : RecordOK(th[t]) /\ StageOK(th[t])
      BY <1>1, IdleFacts, Zenon DEF Init
    <2> QED BY <2>1, <2>2, <2>3 DEF Init, TypeOK
  <1>4. LocksOK
    BY <1>1 DEF LocksOK, LockUse, Idle, Searching
  <1>5. PagesOK
    <2>1. \A p \in Pages : Group(p, 0) = {}
      BY BlockFacts DEF Group
    <2>2. \A k \in Holders : Own[k] = {}
      <3> TAKE k \in Holders
      <3>1. CASE k[1] = "arena" /\ k[2] \in Pages
        BY <1>2, <2>1, <3>1 DEF Own, OfArena
      <3>2. CASE k[1] = "user"
        BY <3>2, Zenon DEF Own, OfUser, Init
      <3>3. CASE k[1] = "thread" /\ k[2] \in Threads
        BY <1>1, <3>3, IdleFacts, ZenonT(30) DEF Own
      <3> QED BY <3>1, <3>2, <3>3, Zenon DEF Holders
    <2>3. FoundOK
      BY <1>1 DEF FoundOK, Found, Idle
    <2>4. Exclusive(Own, used)
      BY <2>2, Zenon DEF Exclusive, InPool, Init, Pools
    <2> QED BY <2>3, <2>4 DEF PagesOK
  <1>6. BlocksOK
    <2>1. \A t \in Threads : Hand(t) = <<>>
      BY <1>1 DEF Hand, HandOf, Idle
    <2>2. TakenOK
      BY <2>1 DEF TakenOK, Init
    <2>3. ListsOK
      BY DEF ListsOK, Init
    <2>4. ArenasOK
      BY <1>2, Zenon DEF ArenasOK
    <2>5. ListUseOK
      BY <1>1, <1>2, IdleFacts, Zenon DEF ListUseOK
    <2> QED BY <2>2, <2>3, <2>4, <2>5 DEF BlocksOK
  <1> QED BY <1>3, <1>4, <1>5, <1>6 DEF AllocInv

(* A step of no allocator leaves every page and block where it is.          *)
LEMMA StutterInv == AllocInv /\ UNCHANGED vars => AllocInv'
  <1> SUFFICES ASSUME AllocInv, UNCHANGED vars PROVE AllocInv'
    OBVIOUS
  <1>1. UNCHANGED <<used, arena, free_list, pool_lock, lock, blocks, pages, th, panicked>>
    BY DEF vars
  <1>2. TypeOK'
    BY <1>1 DEF AllocInv, TypeOK
  <1>3. LocksOK'
    BY <1>1, Zenon DEF AllocInv, LocksOK
  <1>4. PagesOK'
    <2>1. Own' = Own
      BY <1>1, Zenon DEF Own, OfArena, OfUser
    <2> QED BY <1>1, <2>1 DEF AllocInv, PagesOK, FoundOK, Found
  <1>5. TakenOK' /\ ListsOK'
    <2>1. TakenOK'
      BY <1>1, Zenon DEF AllocInv, BlocksOK, TakenOK, Hand, InArena
    <2>2. \A c : Taken(c)' <=> Taken(c)
      BY <1>1, Zenon DEF Taken, Hand
    <2>3. ListsOK
      BY Zenon DEF AllocInv, BlocksOK
    <2>4. ListsOK'
      BY <1>1, <2>2, <2>3 DEF ListsOK
    <2> QED BY <2>1, <2>4
  <1>6. ArenasOK'
    BY <1>1, ZenonT(40) DEF AllocInv, BlocksOK, ArenasOK, ArenaOK, FreeIn, Listed, Taken, Hand
  <1>7. ListUseOK'
    BY <1>1 DEF AllocInv, BlocksOK, ListUseOK, ListUse
  <1> QED BY <1>2, <1>3, <1>4, <1>5, <1>6, <1>7, Zenon DEF AllocInv, BlocksOK

(* Each step of the allocators keeps the invariant, however the threads     *)
(* interleave.                                                              *)
LEMMA AllocStep ==
    ASSUME LeastFact, FiniteSetFacts, AllocInv, [Next]_vars
    PROVE  AllocInv'
  <1>1. CASE UNCHANGED vars
    BY <1>1, StutterInv
  <1>2. CASE Next
    <2>1. PICK t \in Threads :
            \/ GetLock(t) \/ Scan(t) \/ Flip(t) \/ Reset(t)
            \/ GetUser(t) \/ GotUser(t) \/ FreeUser(t)
            \/ \E size \in Sizes : Malloc(t, size) \/ Realloc(t, size)
            \/ GotBig(t) \/ MallocLock(t) \/ GotArena(t) \/ Pop(t)
            \/ Free(t) \/ FreeBlock(t) \/ FreeLock(t)
      BY <1>2 DEF Next
    <2>2. CASE GetLock(t) \/ Scan(t) \/ Flip(t) \/ Reset(t)
      BY <2>2, GetLockStep, ScanStep, FlipStep, ResetStep, Zenon
    <2>3. CASE GetUser(t) \/ GotUser(t) \/ FreeUser(t)
      BY <2>3, GetUserStep, GotUserStep, FreeUserStep, Zenon
    <2>4. CASE \E size \in Sizes : Malloc(t, size) \/ Realloc(t, size)
      BY <2>4, MallocStep, ReallocStep
    <2>5. CASE GotBig(t) \/ MallocLock(t) \/ GotArena(t) \/ Pop(t)
      BY <2>5, GotBigStep, MallocLockStep, GotArenaStep, PopStep, Zenon
    <2>6. CASE Free(t) \/ FreeBlock(t) \/ FreeLock(t)
      BY <2>6, FreeStep, FreeBlockStep, FreeLockStep, Zenon
    <2> QED BY <2>1, <2>2, <2>3, <2>4, <2>5, <2>6, ZenonT(40)
  <1> QED BY <1>1, <1>2

-----------------------------------------------------------------------------
(* What the list of held groups says of holder k.                           *)
Entry(k) ==
    CASE k[1] = "arena" -> IF arena[k[2]].desc # NONE THEN <<"arena", k[2], 1>>
                           ELSE <<"big", k[2], arena[k[2]].free_cnt>>
      [] k[1] = "user" -> <<"user", k[2], 1>>
      [] OTHER -> <<k[2], th[k[2]].page, th[k[2]].cnt>>

(* Every held group is the one of a holder.                                 *)
LEMMA HeldHasHolder ==
    ASSUME TypeOK, NEW h \in Held
    PROVE  \E k \in Holders : h = Entry(k) /\ Own[k] = Group(h[2], h[3])
  <1>1. \A p \in Pages : Group(p, 1) = {p}
    BY BlockFacts DEF Group
  <1>2. DOMAIN arena = Pages /\ pages \subseteq Pages
    BY Zenon DEF TypeOK
  <1>3. CASE \E p \in Pages : arena[p].desc # NONE /\ h = <<"arena", p, 1>>
    <2>1. PICK p \in Pages : arena[p].desc # NONE /\ h = <<"arena", p, 1>>
      BY <1>3
    <2>2. <<"arena", p>> \in Holders /\ Own[<<"arena", p>>] = {p}
      BY <2>1, OwnIs, Zenon DEF OfArena
    <2>3. Entry(<<"arena", p>>) = h
      BY <2>1 DEF Entry
    <2>4. Group(h[2], h[3]) = {p}
      BY <1>1, <2>1, <2>2, Zenon
    <2> QED BY <2>2, <2>3, <2>4, Zenon
  <1>4. CASE \E p \in Pages : arena[p].desc = NONE /\ h = <<"big", p, arena[p].free_cnt>>
    <2>1. PICK p \in Pages : arena[p].desc = NONE /\ h = <<"big", p, arena[p].free_cnt>>
      BY <1>4, Zenon
    <2>2. <<"arena", p>> \in Holders /\ Own[<<"arena", p>>] = Group(p, arena[p].free_cnt)
      BY <2>1, OwnIs, Zenon DEF OfArena
    <2>3. Entry(<<"arena", p>>) = h
      BY <2>1, Zenon DEF Entry
    <2> QED BY <2>1, <2>2, <2>3
  <1>5. CASE \E p \in pages : h = <<"user", p, 1>>
    <2>1. PICK p \in pages : h = <<"user", p, 1>>
      BY <1>5, Zenon
    <2>2. p \in Pages /\ <<"user", p>> \in Holders /\ Own[<<"user", p>>] = {p}
      BY <1>2, OwnIs DEF OfUser
    <2>3. Entry(<<"user", p>>) = h
      BY <2>1, Zenon DEF Entry
    <2>4. Group(h[2], h[3]) = {p}
      BY <1>1, <2>1, <2>2, ZenonT(40)
    <2> QED BY <2>2, <2>3, <2>4
  <1>6. CASE \E t \in Threads : /\ th[t].pc \in {"big", "arena", "user", "reset"}
                                /\ th[t].page # NONE /\ h = <<t, th[t].page, th[t].cnt>>
    <2>1. PICK t \in Threads : /\ th[t].pc \in {"big", "arena", "user", "reset"}
                               /\ th[t].page # NONE /\ h = <<t, th[t].page, th[t].cnt>>
      BY <1>6, Zenon
    <2>2. <<"thread", t>> \in Holders /\ Own[<<"thread", t>>] = PagesOf(th[t])
      BY OwnIs
    <2>3. Entry(<<"thread", t>>) = h
      BY <2>1, Zenon DEF Entry
    <2> QED BY <2>1, <2>2, <2>3 DEF PagesOf
  <1> QED BY <1>2, <1>3, <1>4, <1>5, <1>6, Zenon DEF Held

(* A holder with pages is on the list of held groups.                       *)
LEMMA HolderIsHeld ==
    ASSUME TypeOK, NEW k \in Holders, NEW p \in Own[k]
    PROVE  Entry(k) \in Held /\ Own[k] = Group(Entry(k)[2], Entry(k)[3])
  <1>1. \A x \in Pages : Group(x, 1) = {x} /\ Group(x, 0) = {}
    BY BlockFacts DEF Group
  <1>2. DOMAIN arena = Pages /\ pages \subseteq Pages /\ \A x \in Pages : arena[x].free_cnt \in Nat
    BY DEF TypeOK
  <1>3. ASSUME NEW x \in Pages, k = <<"arena", x>>
        PROVE  Entry(k) \in Held /\ Own[k] = Group(Entry(k)[2], Entry(k)[3])
    <2>1. Own[k] = OfArena(x)
      BY <1>3, OwnIs, Zenon
    <2>2. CASE arena[x].desc # NONE
      <3>1. Entry(k) = <<"arena", x, 1>>
        BY <1>3, <2>2, Zenon DEF Entry
      <3>2. <<"arena", x, 1>> \in Held
        BY <1>2, <2>2, Zenon DEF Held
      <3> QED BY <1>1, <2>1, <2>2, <3>1, <3>2 DEF OfArena
    <2>3. CASE arena[x].desc = NONE
      <3>1. Entry(k) = <<"big", x, arena[x].free_cnt>> /\ Own[k] = Group(x, arena[x].free_cnt)
        BY <1>3, <2>1, <2>3, Zenon DEF Entry, OfArena
      <3>2. arena[x].free_cnt > 0
        BY <1>1, <1>2, <3>1
      <3>3. <<"big", x, arena[x].free_cnt>> \in Held
        BY <1>2, <2>3, <3>2, Zenon DEF Held
      <3> QED BY <3>1, <3>3
    <2> QED BY <2>2, <2>3, Zenon
  <1>4. ASSUME NEW x \in Pages, k = <<"user", x>>
        PROVE  Entry(k) \in Held /\ Own[k] = Group(Entry(k)[2], Entry(k)[3])
    <2>1. Own[k] = {x} /\ x \in pages
      BY <1>4, OwnIs DEF OfUser
    <2>2. Entry(k) = <<"user", x, 1>>
      BY <1>4 DEF Entry
    <2>3. <<"user", x, 1>> \in Held
      BY <2>1, Zenon DEF Held
    <2>4. Entry(k)[2] = x /\ Entry(k)[3] = 1
      BY <2>2
    <2> QED BY <1>1, <1>4, <2>1, <2>2, <2>3, <2>4, ZenonT(40)
  <1>5. ASSUME NEW t \in Threads, k = <<"thread", t>>
        PROVE  Entry(k) \in Held /\ Own[k] = Group(Entry(k)[2], Entry(k)[3])
    <2>1. Own[k] = PagesOf(th[t])
      BY <1>5, OwnIs, Zenon
    <2>2. /\ th[t].pc \in {"big", "arena", "user", "reset"} /\ th[t].page # NONE
          /\ Own[k] = Group(th[t].page, th[t].cnt)
      BY <2>1 DEF PagesOf
    <2>3. Entry(k) = <<t, th[t].page, th[t].cnt>>
      BY <1>5, Zenon DEF Entry
    <2>4. <<t, th[t].page, th[t].cnt>> \in Held
      BY <2>2 DEF Held
    <2>5. Entry(k)[2] = th[t].page /\ Entry(k)[3] = th[t].cnt
      BY <2>3
    <2> QED BY <2>2, <2>3, <2>4, <2>5, Zenon
  <1>6. \/ \E x \in Pages : k = <<"arena", x>> \/ k = <<"user", x>>
        \/ \E t \in Threads : k = <<"thread", t>>
    BY DEF Holders
  <1> QED BY <1>3, <1>4, <1>5, <1>6, Zenon

(* The invariant says that each page has one holder.                        *)
LEMMA InvPagesHeldOnce == AllocInv => PagesHeldOnce
  <1> SUFFICES ASSUME AllocInv PROVE PagesHeldOnce
    OBVIOUS
  <1>1. TypeOK /\ Exclusive(Own, used)
    BY DEF AllocInv, PagesOK
  <1>2. ASSUME NEW p
        PROVE  p \in used <=> \E h \in Held : p \in Group(h[2], h[3])
    <2>1. ASSUME p \in used PROVE \E h \in Held : p \in Group(h[2], h[3])
      <3>1. PICK k \in Holders : p \in Own[k]
        BY <1>1, <2>1, Zenon DEF Exclusive
      <3> QED BY <1>1, <3>1, HolderIsHeld, Zenon
    <2>2. ASSUME NEW h \in Held, p \in Group(h[2], h[3]) PROVE p \in used
      <3>1. PICK k \in Holders : Own[k] = Group(h[2], h[3])
        BY <1>1, HeldHasHolder
      <3> QED BY <1>1, <2>2, <3>1 DEF Exclusive
    <2> QED BY <2>1, <2>2, Zenon
  <1>3. used = UNION {Group(h[2], h[3]) : h \in Held}
    BY <1>2, Zenon
  <1>4. ASSUME NEW g \in Held, NEW h \in Held, g # h
        PROVE  Group(g[2], g[3]) \cap Group(h[2], h[3]) = {}
    <2>1. PICK j \in Holders : g = Entry(j) /\ Own[j] = Group(g[2], g[3])
      BY <1>1, HeldHasHolder
    <2>2. PICK k \in Holders : h = Entry(k) /\ Own[k] = Group(h[2], h[3])
      BY <1>1, HeldHasHolder
    <2>3. j # k
      BY <1>4, <2>1, <2>2, Zenon
    <2> QED BY <1>1, <2>1, <2>2, <2>3, Zenon DEF Exclusive
  <1>5. ASSUME NEW h \in Held
        PROVE  \E pool \in Pools : \A p \in Group(h[2], h[3]) : page_from_pool(pool, p)
    <2>1. PICK k \in Holders : Own[k] = Group(h[2], h[3])
      BY <1>1, HeldHasHolder
    <2> QED BY <1>1, <2>1 DEF Exclusive, InPool
  <1> QED BY <1>3, <1>4, <1>5 DEF PagesHeldOnce

(* A thread's two blocks are never both there, so what is reserved is what  *)
(* somebody has.                                                            *)
LEMMA ReservedIs ==
    ASSUME TypeOK
    PROVE  /\ Reserved \subseteq Blocks \cup {<<>>}
           /\ \A c \in Blocks : c \in Reserved <=> Taken(c)
  <1>1. \A t \in Threads : th[t].block \in Blocks \cup {<<>>} /\ th[t].old \in Blocks \cup {<<>>}
    BY Zenon DEF TypeOK, RecordOK
  <1>2. \A t \in Threads : th[t].block = <<>> \/ th[t].old = <<>>
    <2> TAKE t \in Threads
    <2>1. th[t].pc \in Labels /\ StageOK(th[t])
      BY DEF TypeOK, RecordOK
    <2> QED BY <2>1 DEF StageOK, CallOK, Labels, Searching
  <1>3. \A t \in Threads : \A c \in Blocks :
          c = Hand(t) <=> (c = th[t].block \/ c = th[t].old)
    BY <1>2, BlockFacts DEF Hand, HandOf
  <1>4. blocks \subseteq Blocks
    BY DEF TypeOK
  <1> QED BY <1>1, <1>3, <1>4, ZenonT(40) DEF Reserved, Taken

(* An arena's count is the number of its blocks on the free list.           *)
LEMMA ListedCount ==
    ASSUME FiniteSetFacts, AllocInv, NEW p \in Pages, NEW d \in Descs, arena[p].desc = d
    PROVE  Cardinality({k \in DOMAIN free_list[d] : free_list[d][k][1] = p}) = arena[p].free_cnt
  <1>1. TypeOK /\ ListsOK /\ ArenasOK /\ d # NONE
    BY DescFacts, Zenon DEF AllocInv, BlocksOK
  <1>2. PICK F : F = free_list[d]
    OBVIOUS
  <1>3. PICK n : n = blocks_per_arena(d)
    OBVIOUS
  <1>4. F \in Seq(Blocks) /\ Len(F) \in Nat /\ DOMAIN F = 1 .. Len(F) /\ n \in Nat
    <2>1. F \in Seq(Blocks)
      BY <1>1, <1>2, Zenon DEF TypeOK
    <2>2. n \in Nat \ {0}
      BY <1>3, DescFacts, Zenon
    <2>3. n \in Nat
      BY <2>2
    <2> QED BY <2>1, <2>3, SeqFacts, Zenon
  <1>5. /\ \A k \in 1 .. Len(F) : F[k] \in Blocks /\ F[k][2] < n
        /\ \A k, l \in 1 .. Len(F) : F[k] = F[l] => k = l
    BY <1>1, <1>2, <1>3, <1>4 DEF ListsOK
  <1>6. FreeIn(p) = {i \in 0 .. n - 1 : \E k \in 1 .. Len(F) : F[k] = <<p, i>>}
    BY <1>2, <1>3, ZenonT(40) DEF FreeIn, Listed
  <1>7. IsFiniteSet(FreeIn(p)) /\ arena[p].free_cnt = Cardinality(FreeIn(p))
    BY <1>1, FreeFinite, Zenon DEF ArenasOK, ArenaOK
  <1> DEFINE S == {k \in 1 .. Len(F) : F[k][1] = p}
             f == [k \in S |-> F[k][2]]
  <1>8. \A k \in S : F[k] = <<p, F[k][2]>> /\ F[k][2] \in 0 .. n - 1
    <2> TAKE k \in S
    <2>1. F[k] \in Blocks /\ F[k][1] = p /\ F[k][2] < n
      BY <1>5
    <2> QED BY <1>4, <2>1, BlockFacts
  <1>9. f \in [S -> FreeIn(p)]
    BY <1>6, <1>8, Zenon
  <1>10. \A k, l \in S : f[k] = f[l] => k = l
    <2> SUFFICES ASSUME NEW k \in S, NEW l \in S, f[k] = f[l]
                 PROVE  k = l
      BY Zenon
    <2>1. f[k] = F[k][2] /\ f[l] = F[l][2]
      OBVIOUS
    <2> QED BY <1>5, <1>8, <2>1, ZenonT(40)
  <1>11. \A i \in FreeIn(p) : \E k \in S : f[k] = i
    <2> TAKE i \in FreeIn(p)
    <2>1. PICK k \in 1 .. Len(F) : F[k] = <<p, i>>
      BY <1>6, Zenon
    <2>2. k \in S /\ f[k] = i
      BY <2>1
    <2> QED BY <2>2
  <1> HIDE DEF S, f
  <1>12. Cardinality(S) = Cardinality(FreeIn(p))
    BY <1>7, <1>9, <1>10, <1>11, ZenonT(40) DEF FiniteSetFacts, OntoFact
  <1> QED BY <1>2, <1>4, <1>7, <1>12, Zenon DEF S

(* The blocks of an arena that are not on the list are those that somebody  *)
(* has.                                                                     *)
LEMMA TakenCount ==
    ASSUME FiniteSetFacts, AllocInv, NEW p \in Pages, NEW d \in Descs, arena[p].desc = d
    PROVE  arena[p].free_cnt + Cardinality({b \in Reserved \ {<<>>} : b[1] = p})
             = blocks_per_arena(d)
  <1>1. TypeOK /\ TakenOK /\ ListsOK /\ ArenasOK /\ d # NONE
    BY DescFacts DEF AllocInv, BlocksOK
  <1>2. PICK n : n = blocks_per_arena(d)
    OBVIOUS
  <1>3. n \in Nat /\ n >= 1
    BY <1>2, DescFacts
  <1>4. IsFiniteSet(FreeIn(p)) /\ arena[p].free_cnt = Cardinality(FreeIn(p))
    BY <1>1, FreeFinite DEF ArenasOK, ArenaOK
  <1>5. FreeIn(p) \subseteq 0 .. n - 1
    BY <1>2 DEF FreeIn
  <1>6. \A i \in 0 .. n - 1 : i \notin FreeIn(p) => Taken(<<p, i>>)
    BY <1>1, <1>2, Zenon DEF ArenasOK, ArenaOK, FreeIn
  <1>7. \A i \in FreeIn(p) : ~Taken(<<p, i>>)
    <2> TAKE i \in FreeIn(p)
    <2>1. PICK k \in 1 .. Len(free_list[d]) : free_list[d][k] = <<p, i>>
      BY DEF FreeIn, Listed
    <2>2. ~Taken(free_list[d][k])
      BY <1>1 DEF ListsOK
    <2> QED BY <2>1, <2>2
  <1>8. \A b \in Blocks : Taken(b) /\ b[1] = p => b[2] \in 0 .. n - 1
    <2> SUFFICES ASSUME NEW b \in Blocks, Taken(b), b[1] = p
                 PROVE  b[2] \in 0 .. n - 1
      OBVIOUS
    <2>1. InArena(b)
      BY <1>1, HandFacts, Zenon
    <2>2. b[2] < n
      BY <1>1, <1>2, <2>1 DEF InArena
    <2> QED BY <1>3, <2>2, BlockFacts
  <1> DEFINE I == 0 .. n - 1
             T == I \ FreeIn(p)
             S == {b \in Reserved \ {<<>>} : b[1] = p}
             f == [b \in S |-> b[2]]
  <1>9. \A b : b \in S <=> b \in Blocks /\ Taken(b) /\ b[1] = p
    BY <1>1, ReservedIs, BlockFacts
  <1>10. \A b \in S : b = <<p, b[2]>> /\ b[2] \in T
    <2> TAKE b \in S
    <2>1. b \in Blocks /\ Taken(b) /\ b[1] = p
      BY <1>9
    <2>2. b = <<p, b[2]>> /\ b[2] \in 0 .. n - 1
      BY <1>8, <2>1, BlockFacts
    <2>3. b[2] \notin FreeIn(p)
      BY <1>7, <2>1, <2>2
    <2> QED BY <2>2, <2>3
  <1>11. \A i \in T : <<p, i>> \in S
    <2> TAKE i \in T
    <2>1. i \in Nat /\ i \in 0 .. n - 1 /\ i \notin FreeIn(p)
      BY <1>3
    <2>2. <<p, i>> \in Blocks /\ Taken(<<p, i>>)
      BY <1>6, <2>1, BlockFacts
    <2> HIDE DEF S
    <2> QED BY <1>9, <2>2
  <1>12. IsFiniteSet(I) /\ Cardinality(I) = n
    BY <1>3 DEF FiniteSetFacts, IntervalFact
  <1>13. IsFiniteSet(T) /\ Cardinality(T) = n - Cardinality(FreeIn(p))
    <2>1. IsFiniteSet(T) /\ Cardinality(T) = Cardinality(I) - Cardinality(I \cap FreeIn(p))
      BY <1>12, Zenon DEF FiniteSetFacts, DifferenceFact
    <2>2. I \cap FreeIn(p) = FreeIn(p)
      BY <1>5
    <2> QED BY <1>12, <2>1, <2>2, Zenon
  <1> HIDE DEF S, T, I
  <1>14. f \in [S -> T] /\ \A b \in S : f[b] = b[2]
    BY <1>10
  <1> HIDE DEF f
  <1>15. \A b, c \in S : f[b] = f[c] => b = c
    BY <1>10, <1>14
  <1>16. \A i \in T : \E b \in S : f[b] = i
    BY <1>11, <1>14, Zenon
  <1>17. Cardinality(S) = Cardinality(T)
    BY <1>13, <1>14, <1>15, <1>16, ZenonT(40) DEF FiniteSetFacts, OntoFact
  <1>18. Cardinality(FreeIn(p)) \in Nat
    BY <1>4, Zenon DEF FiniteSetFacts, EmptyFact
  <1>19. arena[p].free_cnt + Cardinality(S) = n
    BY <1>3, <1>4, <1>13, <1>17, <1>18
  <1> QED BY <1>2, <1>19 DEF S

(* The indices of a sequence.                                               *)
LEMMA SeqDomain == ASSUME NEW S, NEW s \in Seq(S) PROVE DOMAIN s = 1 .. Len(s)
  OBVIOUS

(* The invariant says that each block is free or has one holder.            *)
LEMMA InvBlocksAccounted ==
    ASSUME FiniteSetFacts, AllocInv
    PROVE  BlocksAccounted
  <1>1. TypeOK /\ LocksOK /\ ListsOK /\ ArenasOK /\ ListUseOK
    BY DEF AllocInv, BlocksOK
  <1>2. ~panicked /\ DOMAIN arena = Pages /\ \A p \in Pages : arena[p].free_cnt \in Nat
    BY <1>1, ZenonT(40) DEF TypeOK
  <1>3. ASSUME NEW d \in Descs, NEW k \in DOMAIN free_list[d], NEW l \in DOMAIN free_list[d]
        PROVE  /\ arena[free_list[d][k][1]].desc = d
               /\ free_list[d][k] = free_list[d][l] => k = l
               /\ free_list[d][k] \notin Reserved
    <2>1. free_list[d] \in Seq(Blocks)
      BY <1>1, Zenon DEF TypeOK
    <2>2. k \in 1 .. Len(free_list[d]) /\ l \in 1 .. Len(free_list[d])
      BY <1>3, <2>1, SeqDomain, Zenon
    <2>3. free_list[d][k] \in Blocks
      BY <1>1, <2>2, ListedBlock, Zenon
    <2>4. /\ arena[free_list[d][k][1]].desc = d /\ ~Taken(free_list[d][k])
          /\ free_list[d][k] = free_list[d][l] => k = l
      BY <1>1, <2>2, Zenon DEF ListsOK
    <2>5. free_list[d][k] \notin Reserved
      BY <1>1, <2>3, <2>4, ReservedIs, ZenonT(40)
    <2> QED BY <2>4, <2>5
  <1>4. ASSUME NEW p \in Pages, NEW d \in Descs, arena[p].desc = d, lock[d] = NOBODY
        PROVE  arena[p].free_cnt < blocks_per_arena(d)
    <2>1. d # NONE /\ blocks_per_arena(d) \in Nat
      BY DescFacts
    <2>2. \A t \in Threads : ~(th[t].pc = "pop" /\ th[t].desc = d)
      BY <1>1, <1>4, <2>1, AllocAssumption, Zenon DEF LocksOK, LockUse
    <2>3. ~(arena[p].free_cnt >= blocks_per_arena(d))
      BY <1>1, <1>4, <2>1, <2>2, Zenon DEF ListUseOK
    <2> QED BY <1>2, <2>1, <2>3
  <1> QED BY <1>2, <1>3, <1>4, ListedCount, TakenCount, ZenonT(40) DEF BlocksAccounted
-----------------------------------------------------------------------------
Lib == INSTANCE FiniteSetTheorems

(* The theorems of Lib are about the same sets and the same cardinality.    *)
LEMMA SameSize ==
    ASSUME NEW S
    PROVE  (IsFiniteSet(S) <=> Lib!IsFiniteSet(S)) /\ Cardinality(S) = Lib!Cardinality(S)
  BY DEF IsFiniteSet, Lib!IsFiniteSet, Cardinality, Lib!Cardinality

(* The facts about finite sets that the counting of blocks rests on.        *)
LEMMA FiniteSetsCount == FiniteSetFacts
  <1>1. IntervalFact
    BY SameSize, Lib!FS_Interval DEF IntervalFact
  <1>2. EmptyFact
    BY SameSize, Lib!FS_EmptySet, Lib!FS_CardinalityType, Zenon DEF EmptyFact
  <1>3. ElementFact
    <2> SUFFICES ASSUME NEW S, NEW x, IsFiniteSet(S)
                 PROVE  /\ x \notin S => Cardinality(S \cup {x}) = Cardinality(S) + 1
                        /\ x \in S => /\ IsFiniteSet(S \ {x})
                                      /\ Cardinality(S \ {x}) = Cardinality(S) - 1
      BY Zenon DEF ElementFact
    <2>1. Lib!IsFiniteSet(S)
      BY SameSize, Zenon
    <2>2. Lib!Cardinality(S \cup {x}) =
            IF x \in S THEN Lib!Cardinality(S) ELSE Lib!Cardinality(S) + 1
      BY <2>1, Lib!FS_AddElement, Zenon
    <2>3. /\ Lib!IsFiniteSet(S \ {x})
          /\ Lib!Cardinality(S \ {x}) =
               IF x \in S THEN Lib!Cardinality(S) - 1 ELSE Lib!Cardinality(S)
      BY <2>1, Lib!FS_RemoveElement, Zenon
    <2>4. /\ Cardinality(S) = Lib!Cardinality(S) /\ IsFiniteSet(S \ {x})
          /\ Cardinality(S \cup {x}) = Lib!Cardinality(S \cup {x})
          /\ Cardinality(S \ {x}) = Lib!Cardinality(S \ {x})
      BY <2>3, SameSize, ZenonT(40)
    <2> QED BY <2>2, <2>3, <2>4, ZenonT(40)
  <1>4. SubsetFact
    <2> SUFFICES ASSUME NEW S, IsFiniteSet(S), NEW T \in SUBSET S
                 PROVE  /\ IsFiniteSet(T) /\ Cardinality(T) <= Cardinality(S)
                        /\ Cardinality(S) = Cardinality(T) => S = T
      BY Zenon DEF SubsetFact
    <2>1. Lib!IsFiniteSet(S)
      BY SameSize, Zenon
    <2>2. /\ Lib!IsFiniteSet(T) /\ Lib!Cardinality(T) <= Lib!Cardinality(S)
          /\ Lib!Cardinality(S) = Lib!Cardinality(T) => S = T
      BY <2>1, Lib!FS_Subset, ZenonT(40)
    <2>3. Cardinality(S) = Lib!Cardinality(S) /\ Cardinality(T) = Lib!Cardinality(T)
      BY SameSize, Zenon
    <2> QED BY <2>2, <2>3, SameSize, ZenonT(40)
  <1>5. DifferenceFact
    <2> SUFFICES ASSUME NEW S, NEW T, IsFiniteSet(S)
                 PROVE  /\ IsFiniteSet(S \ T)
                        /\ Cardinality(S \ T) = Cardinality(S) - Cardinality(S \cap T)
      BY Zenon DEF DifferenceFact
    <2>1. Lib!IsFiniteSet(S)
      BY SameSize, Zenon
    <2>2. /\ Lib!IsFiniteSet(S \ T)
          /\ Lib!Cardinality(S \ T) = Lib!Cardinality(S) - Lib!Cardinality(S \cap T)
      BY <2>1, Lib!FS_Difference, Zenon
    <2>3. /\ Cardinality(S) = Lib!Cardinality(S) /\ Cardinality(S \ T) = Lib!Cardinality(S \ T)
          /\ Cardinality(S \cap T) = Lib!Cardinality(S \cap T) /\ IsFiniteSet(S \ T)
      BY <2>2, SameSize, Zenon
    <2> QED BY <2>2, <2>3, Zenon
  <1>6. OntoFact
    <2> SUFFICES ASSUME NEW S, NEW T, NEW f \in [S -> T], IsFiniteSet(T),
                        \A x, y \in S : f[x] = f[y] => x = y,
                        \A z \in T : \E x \in S : f[x] = z
                 PROVE  Cardinality(S) = Cardinality(T)
      BY ZenonT(40) DEF OntoFact
    <2>1. f \in Lib!Injection(S, T) /\ f \in Lib!Surjection(S, T)
      BY Zenon DEF Lib!Injection, Lib!Surjection, Lib!IsInjective
    <2> QED BY <2>1, SameSize, Lib!FS_Injection, ZenonT(40)
  <1> QED BY <1>1, <1>2, <1>3, <1>4, <1>5, <1>6, ZenonT(40) DEF FiniteSetFacts

(* A set of naturals has a least element.                                   *)
LEMMA LeastNat == LeastFact
  <1> SUFFICES ASSUME NEW S \in SUBSET Nat, S # {} PROVE \E n \in S : \A m \in S : n <= m
    BY Zenon DEF LeastFact
  <1> DEFINE R == Lib!OpToRel(<, Nat)
  <1>1. Lib!IsWellFoundedOn(R, Nat)
    BY Lib!NatLessThanWellFounded, Zenon
  <1>2. \A m, n \in Nat : m < n => <<m, n>> \in R
    BY DEF Lib!OpToRel
  <1> HIDE DEF R
  <1>3. PICK n \in S : \A m \in S : ~(<<m, n>> \in R)
    BY <1>1, Lib!WFMin, Zenon
  <1>4. \A m \in S : ~(m < n)
    BY <1>2, <1>3, ZenonT(40)
  <1> QED BY <1>4

(* In every behaviour of the allocators pages, blocks, locks and the        *)
(* threads' own variables agree (palloc.c, malloc.c).                       *)
THEOREM AllocInvariant == Spec => []AllocInv
  <1>1. AllocInv /\ [Next]_vars => AllocInv'
    BY FiniteSetsCount, LeastNat, AllocStep, ZenonT(40)
  <1> QED BY <1>1, InitInv, PTL DEF Spec

(* A page belongs to one holder at a time, and is marked in the bitmaps as  *)
(* long as it has one, whatever the sizes of the pools and the number of    *)
(* threads in palloc_get_multiple and palloc_free_multiple.                 *)
THEOREM PagesHaveOneHolder == Spec => []PagesHeldOnce
  BY AllocInvariant, InvPagesHeldOnce, PTL

(* A block is free or somebody has it, an arena counts its free blocks and  *)
(* is given back with the last one that was in use, and no ASSERT of        *)
(* palloc.c and malloc.c fails, whatever the threads, pages and sizes.      *)
THEOREM BlocksHaveOneHolder == Spec => []BlocksAccounted
  <1>1. AllocInv => BlocksAccounted
    BY FiniteSetsCount, InvBlocksAccounted
  <1> QED BY <1>1, AllocInvariant, PTL
=============================================================================
