------------------------- MODULE BufferCacheProofs --------------------------
(***************************************************************************)
(* Proofs about the buffer cache, for any number of threads, of cache      *)
(* entries, of sectors and of values: it stays coherent with the disk, it  *)
(* gives its semaphore back, a flush that ended is durable, and to its     *)
(* users it is a store on which every call takes effect at one moment.     *)
(***************************************************************************)
EXTENDS BufferCache, TLAPS

InsideLabels == {"lookup", "evict", "load", "use", "scan"}
Labels == InsideLabels \cup {"idle", "enter", "return"}

TypeOK ==
    /\ cache_sema \in {0, 1}
    /\ used \in [Entries -> BOOLEAN] /\ dirty \in [Entries -> BOOLEAN]
    /\ sec_num \in [Entries -> Sectors \cup {None}]
    /\ data \in [Entries -> Values \cup {None}]
    /\ pc \in [Threads -> Labels]
    /\ op \in [Threads -> {"read", "write", "flush"}]
    /\ sector \in [Threads -> Sectors \cup {None}]
    /\ buffer \in [Threads -> Values \cup {None}]
    /\ idx \in [Threads -> 1 .. N + 1]
    /\ disk \in [Sectors -> Values]
    /\ since \in [Sectors -> SUBSET Values]

(* cache_sema is a mutual exclusion lock.                                   *)
Exclusive ==
    /\ \A t, u \in Threads : pc[t] \in InsideLabels /\ pc[u] \in InsideLabels => t = u
    /\ cache_sema = 1 <=> \A t \in Threads : pc[t] \notin InsideLabels

Coherent ==
    /\ CacheCoherent
    /\ \A i \in Entries : used[i] => /\ sec_num[i] \in Sectors
                                     /\ ~Loading(i) => data[i] \in Values

(* What a thread has been asked to do, by how far it is.                    *)
CallOK(t) ==
    /\ pc[t] = "idle" => buffer[t] = None
    /\ pc[t] = "scan" => op[t] = "flush"
    /\ pc[t] \in {"lookup", "evict", "load", "use", "return"} => op[t] # "flush"
    /\ pc[t] # "idle" /\ op[t] # "flush" => sector[t] \in Sectors
    /\ pc[t] # "idle" /\ op[t] = "write" => buffer[t] \in Values
    /\ pc[t] # "return" /\ op[t] = "read" => buffer[t] = None

(* What it knows of the cache while it is inside.                           *)
PlaceOK(t) ==
    /\ pc[t] \in {"evict", "load", "use"} => idx[t] \in Entries
    /\ pc[t] = "evict" => /\ dirty[idx[t]]
                          /\ \A i \in Entries : ~(used[i] /\ sec_num[i] = sector[t])
    /\ pc[t] \in {"load", "use"} => used[idx[t]] /\ sec_num[idx[t]] = sector[t]
    /\ pc[t] = "load" => ~dirty[idx[t]]
    /\ pc[t] = "scan" => \A i \in Entries : i < idx[t] => ~dirty[i]

(* Neither the disk nor the cache holds a value older than the last flush.  *)
Durable ==
    /\ FlushDurable
    /\ \A i \in Entries : used[i] /\ ~Loading(i) => data[i] \in since[sec_num[i]]

CacheInv ==
    /\ TypeOK
    /\ Exclusive
    /\ Coherent
    /\ \A t \in Threads : CallOK(t)
    /\ \A t \in Threads : PlaceOK(t)
    /\ Durable
-----------------------------------------------------------------------------
(* The invariant holds of an empty cache.                                   *)
LEMMA InitInv == Init => CacheInv
  <1> SUFFICES ASSUME Init PROVE CacheInv
    OBVIOUS
  <1>1. TypeOK
    BY CacheAssumption DEF Init, TypeOK, Labels
  <1>2. Exclusive
    BY DEF Init, Exclusive, InsideLabels
  <1>3. Coherent
    BY DEF Init, Coherent, CacheCoherent
  <1>4. \A t \in Threads : CallOK(t) /\ PlaceOK(t)
    BY DEF Init, CallOK, PlaceOK
  <1>5. Durable
    BY DEF Init, Durable, FlushDurable
  <1> QED
    BY <1>1, <1>2, <1>3, <1>4, <1>5 DEF CacheInv

(* Steps that leave the cache and whoever is inside it alone.               *)
LEMMA OutsideFrame ==
    ASSUME CacheInv, TypeOK', UNCHANGED <<cache_sema, used, dirty, sec_num, data, disk, since>>,
           \A u \in Threads : pc[u] \in InsideLabels \/ pc'[u] \in InsideLabels
                             => /\ pc'[u] = pc[u] /\ idx'[u] = idx[u]
                                /\ sector'[u] = sector[u],
           \A u \in Threads : CallOK(u)'
    PROVE  CacheInv'
  <1>1. \A i \in Entries : Loading(i)' <=> Loading(i)
    BY DEF Loading, InsideLabels
  <1>2. Exclusive'
    BY DEF CacheInv, Exclusive
  <1>3. Coherent' /\ Durable'
    BY <1>1 DEF CacheInv, Coherent, CacheCoherent, Durable, FlushDurable
  <1>4. \A u \in Threads : PlaceOK(u)'
    BY DEF CacheInv, PlaceOK, InsideLabels
  <1> QED
    BY <1>2, <1>3, <1>4 DEF CacheInv

(* A step of the thread inside the cache: it is alone there.                *)
LEMMA InsideStep ==
    ASSUME CacheInv, NEW t \in Threads, pc[t] \in InsideLabels, NEW l \in Labels,
           pc' = [pc EXCEPT ![t] = l],
           \A u \in Threads \ {t} : idx'[u] = idx[u] /\ sector'[u] = sector[u]
                                   /\ op'[u] = op[u] /\ buffer'[u] = buffer[u],
           cache_sema' = IF l \in InsideLabels THEN cache_sema ELSE cache_sema + 1
    PROVE  /\ \A u \in Threads : pc'[u] = IF u = t THEN l ELSE pc[u]
           /\ \A i : Loading(i) <=> pc[t] = "load" /\ idx[t] = i
           /\ \A i : Loading(i)' <=> l = "load" /\ idx'[t] = i
           /\ Exclusive'
           /\ cache_sema' \in {0, 1}
           /\ CallOK(t)' => \A u \in Threads : CallOK(u)'
           /\ PlaceOK(t)' => \A u \in Threads : PlaceOK(u)'
  <1>1. \A u \in Threads : pc'[u] = IF u = t THEN l ELSE pc[u]
    BY DEF CacheInv, TypeOK
  <1>2. \A u \in Threads \ {t} : pc[u] \notin InsideLabels /\ pc'[u] \notin InsideLabels
    BY <1>1 DEF CacheInv, Exclusive
  <1>3. \A i : Loading(i) <=> pc[t] = "load" /\ idx[t] = i
    BY <1>2 DEF Loading, InsideLabels
  <1>4. \A i : Loading(i)' <=> l = "load" /\ idx'[t] = i
    BY <1>1, <1>2 DEF Loading, InsideLabels
  <1>5. cache_sema = 0
    BY DEF CacheInv, TypeOK, Exclusive
  <1>6. Exclusive' /\ cache_sema' \in {0, 1}
    BY <1>1, <1>2, <1>5 DEF Exclusive
  <1>7. CallOK(t)' => \A u \in Threads : CallOK(u)'
    BY <1>1 DEF CacheInv, CallOK
  <1>8. PlaceOK(t)' => \A u \in Threads : PlaceOK(u)'
    BY <1>1, <1>2 DEF PlaceOK, InsideLabels
  <1> QED
    BY <1>1, <1>3, <1>4, <1>6, <1>7, <1>8
-----------------------------------------------------------------------------
(* A thread calls buffer_cache_read, buffer_cache_write or                  *)
(* buffer_cache_flush_all.                                                  *)
LEMMA BeginInv ==
    ASSUME CacheInv, NEW t \in Threads,
           \/ \E s \in Sectors : CallRead(t, s) \/ \E v \in Values : CallWrite(t, s, v)
           \/ CallFlush(t)
    PROVE  CacheInv'
  <1>1. /\ pc[t] = "idle" /\ Goto(t, "enter")
        /\ UNCHANGED <<cache_sema, used, dirty, sec_num, data, disk, since, idx>>
    BY DEF CallRead, CallWrite, CallFlush, Begin, entryVars
  <1>2. /\ op' \in [Threads -> {"read", "write", "flush"}]
        /\ sector' \in [Threads -> Sectors \cup {None}]
        /\ buffer' \in [Threads -> Values \cup {None}]
        /\ \A u \in Threads \ {t} : op'[u] = op[u] /\ sector'[u] = sector[u] /\ buffer'[u] = buffer[u]
        /\ \/ op'[t] = "read" /\ sector'[t] \in Sectors /\ buffer'[t] = buffer[t]
           \/ op'[t] = "write" /\ sector'[t] \in Sectors /\ buffer'[t] \in Values
           \/ op'[t] = "flush"
    BY DEF CacheInv, TypeOK, CallRead, CallWrite, CallFlush, Begin
  <1>3. TypeOK' /\ \A u \in Threads : pc'[u] = IF u = t THEN "enter" ELSE pc[u]
    BY <1>1, <1>2, Zenon DEF CacheInv, TypeOK, Goto, Labels
  <1>4. \A u \in Threads : CallOK(u)'
    BY <1>1, <1>2, <1>3 DEF CacheInv, CallOK
  <1> QED
    BY <1>1, <1>2, <1>3, <1>4, OutsideFrame DEF InsideLabels

(* A call returns.                                                          *)
LEMMA ReturnInv ==
    ASSUME CacheInv, NEW t \in Threads, Return(t)
    PROVE  CacheInv'
  <1>1. TypeOK'
    BY CacheAssumption DEF CacheInv, TypeOK, Return, Leave, Goto, Labels, entryVars
  <1>2. /\ pc[t] = "return"
        /\ \A u \in Threads : pc'[u] = IF u = t THEN "idle" ELSE pc[u]
        /\ \A u \in Threads \ {t} : op'[u] = op[u] /\ sector'[u] = sector[u]
                                  /\ buffer'[u] = buffer[u] /\ idx'[u] = idx[u]
        /\ buffer'[t] = None
    BY DEF CacheInv, TypeOK, Return, Leave, Goto
  <1>3. UNCHANGED <<cache_sema, used, dirty, sec_num, data, disk, since>>
    BY DEF Return, entryVars
  <1>4. \A u \in Threads : CallOK(u)'
    BY <1>2 DEF CacheInv, CallOK
  <1> QED
    BY <1>1, <1>2, <1>3, <1>4, OutsideFrame DEF InsideLabels

(* sema_down of cache_sema.                                                 *)
LEMMA EnterInv ==
    ASSUME CacheInv, NEW t \in Threads, Enter(t)
    PROVE  CacheInv'
  <1>1. TypeOK'
    BY CacheAssumption
       DEF CacheInv, TypeOK, Enter, Goto, Labels, InsideLabels, entryVars, callVars
  <1>2. /\ pc[t] = "enter"
        /\ \A u \in Threads : pc'[u] = IF u # t THEN pc[u]
                                      ELSE IF op[t] = "flush" THEN "scan" ELSE "lookup"
        /\ \A u \in Threads : idx'[u] = IF u = t THEN 1 ELSE idx[u]
    BY DEF CacheInv, TypeOK, Enter, Goto
  <1>3. cache_sema = 1 /\ cache_sema' = 0
    BY DEF CacheInv, TypeOK, Enter
  <1>4. \A u \in Threads : pc[u] \notin InsideLabels
    BY <1>3 DEF CacheInv, Exclusive
  <1>5. Exclusive'
    BY <1>2, <1>3, <1>4 DEF Exclusive, InsideLabels
  <1>6. \A i : ~Loading(i) /\ ~Loading(i)'
    BY <1>2, <1>4 DEF Loading, InsideLabels
  <1>7. Coherent' /\ Durable'
    BY <1>6 DEF CacheInv, Coherent, CacheCoherent, Durable, FlushDurable, Enter, entryVars
  <1>8. \A u \in Threads : CallOK(u)'
    BY <1>2 DEF CacheInv, CallOK, Enter, callVars
  <1>9. \A u \in Threads : PlaceOK(u)'
    <2>1. \A i \in Entries : ~(i < 1)
      BY CacheAssumption DEF Entries
    <2> QED
      BY <1>2, <1>4, <2>1 DEF PlaceOK, InsideLabels
  <1> QED
    BY <1>1, <1>5, <1>7, <1>8, <1>9 DEF CacheInv

(* A clean or unused entry is given to a sector that is not in the cache:   *)
(* at once, or after the dirty victim has been written to the disk.         *)
LEMMA ClaimInv ==
    ASSUME CacheInv, NEW t \in Threads, NEW i \in Entries,
           pc[t] \in {"lookup", "evict"}, Claim(t, i), idx'[t] = i, idx' \in [Threads -> 1 .. N + 1],
           \A u \in Threads \ {t} : idx'[u] = idx[u],
           \A j \in Entries : ~(used[j] /\ sec_num[j] = sector[t]),
           \/ ~dirty[i] /\ UNCHANGED disk
           \/ dirty[i] /\ DiskWrite(i),
           UNCHANGED <<cache_sema, data, callVars, since>>
    PROVE  CacheInv'
  <1>1. sector[t] \in Sectors /\ op[t] # "flush"
    BY Zenon DEF CacheInv, CallOK
  <1>2. dirty[i] => sec_num[i] \in Sectors /\ data[i] \in Values /\ data[i] \in since[sec_num[i]]
    <2>1. ~Loading(i)
      BY DEF CacheInv, Exclusive, InsideLabels, Loading
    <2> QED
      BY <2>1 DEF CacheInv, Coherent, CacheCoherent, Durable
  <1>3. TypeOK'
    BY <1>1, <1>2, Zenon DEF CacheInv, TypeOK, Claim, Goto, DiskWrite, Labels, InsideLabels, callVars
  <1>4. /\ \A j \in Entries : used'[j] <=> j = i \/ used[j]
        /\ \A j \in Entries : dirty'[j] <=> j # i /\ dirty[j]
        /\ \A j \in Entries : sec_num'[j] = IF j = i THEN sector[t] ELSE sec_num[j]
        /\ \A s \in Sectors : disk'[s] = IF dirty[i] /\ s = sec_num[i] THEN data[i] ELSE disk[s]
    BY <1>2 DEF CacheInv, TypeOK, Claim, DiskWrite
  <1>5. /\ \A u \in Threads : pc'[u] = IF u = t THEN "load" ELSE pc[u]
        /\ \A j : ~Loading(j)
        /\ \A j : Loading(j)' <=> j = i
        /\ Exclusive'
        /\ CallOK(t)' => \A u \in Threads : CallOK(u)'
        /\ PlaceOK(t)' => \A u \in Threads : PlaceOK(u)'
    BY InsideStep, ZenonT(40) DEF Claim, Goto, InsideLabels, Labels, callVars
  <1>6. Coherent'
    <2>1. \A j, k \in Entries : used'[j] /\ used'[k] /\ sec_num'[j] = sec_num'[k] => j = k
      BY <1>4 DEF CacheInv, Coherent, CacheCoherent
    <2>2. \A j \in Entries : dirty'[j] => used'[j]
      BY <1>4 DEF CacheInv, Coherent, CacheCoherent
    <2>3. \A j \in Entries : used'[j] /\ ~dirty'[j] /\ ~Loading(j)' => data'[j] = disk'[sec_num'[j]]
      BY <1>2, <1>4, <1>5 DEF CacheInv, Coherent, CacheCoherent
    <2>4. \A j \in Entries : used'[j] => /\ sec_num'[j] \in Sectors
                                         /\ ~Loading(j)' => data'[j] \in Values
      BY <1>1, <1>4, <1>5 DEF CacheInv, Coherent
    <2> QED
      BY <2>1, <2>2, <2>3, <2>4 DEF Coherent, CacheCoherent
  <1>7. Durable'
    BY <1>2, <1>4, <1>5 DEF CacheInv, Durable, FlushDurable
  <1>8. CallOK(t)'
    BY <1>5, Zenon DEF CacheInv, CallOK, callVars
  <1>9. PlaceOK(t)'
    BY <1>4, <1>5 DEF PlaceOK, callVars
  <1> QED
    BY <1>3, <1>5, <1>6, <1>7, <1>8, <1>9, Zenon DEF CacheInv

(* buffer_cache_find looks for the first entry of a sector: as there is at  *)
(* most one, none is missed.                                                *)
LEMMA MissIsAbsent ==
    ASSUME CacheInv, NEW s, \A j \in Entries : ~Hit(s, j)
    PROVE  \A j \in Entries : ~(used[j] /\ sec_num[j] = s)
  <1> SUFFICES ASSUME NEW i \in Entries, used[i], sec_num[i] = s PROVE FALSE
    OBVIOUS
  <1>1. \A j \in 1 .. i - 1 : j \in Entries /\ j # i
    BY CacheAssumption DEF Entries
  <1>2. Hit(s, i)
    BY <1>1 DEF Hit, CacheInv, Coherent, CacheCoherent
  <1> QED
    BY <1>2

(* buffer_cache_find, and the choice of an entry when it finds none.        *)
LEMMA LookupInv ==
    ASSUME CacheInv, NEW t \in Threads, Lookup(t)
    PROVE  CacheInv'
  <1>0. pc[t] = "lookup" /\ UNCHANGED <<cache_sema, data, callVars, disk, since>>
    BY DEF Lookup
  <1>1. PICK i \in Entries :
          /\ idx' = [idx EXCEPT ![t] = i]
          /\ \/ Hit(sector[t], i) /\ Goto(t, "use") /\ UNCHANGED <<used, dirty, sec_num>>
             \/ /\ \A j \in Entries : ~Hit(sector[t], j)
                /\ IF dirty[i] THEN Goto(t, "evict") /\ UNCHANGED <<used, dirty, sec_num>>
                               ELSE Claim(t, i)
    BY Zenon DEF Lookup
  <1>2. i \in 1 .. N + 1
    BY CacheAssumption DEF Entries
  <1>3. /\ idx' \in [Threads -> 1 .. N + 1]
        /\ idx'[t] = i /\ \A u \in Threads \ {t} : idx'[u] = idx[u]
    BY <1>1, <1>2 DEF CacheInv, TypeOK
  <1>4. ASSUME NEW l \in {"use", "evict"}, Goto(t, l), UNCHANGED <<used, dirty, sec_num>>,
               PlaceOK(t)'
        PROVE  CacheInv'
    <2>1. TypeOK'
      BY <1>0, <1>3, <1>4 DEF CacheInv, TypeOK, Goto, Labels, InsideLabels, callVars
    <2>2. /\ pc'[t] = l
          /\ \A j : ~Loading(j) /\ ~Loading(j)'
          /\ Exclusive'
          /\ CallOK(t)' => \A u \in Threads : CallOK(u)'
          /\ PlaceOK(t)' => \A u \in Threads : PlaceOK(u)'
      <3>1. pc[t] \in InsideLabels /\ l \in Labels /\ l \in InsideLabels
        BY <1>0, <1>4 DEF InsideLabels, Labels
      <3>2. cache_sema' = IF l \in InsideLabels THEN cache_sema ELSE cache_sema + 1
        BY <1>0, <3>1
      <3>3. \A u \in Threads \ {t} : idx'[u] = idx[u] /\ sector'[u] = sector[u]
                                   /\ op'[u] = op[u] /\ buffer'[u] = buffer[u]
        BY <1>0, <1>3 DEF callVars
      <3>4. pc' = [pc EXCEPT ![t] = l]
        BY <1>4 DEF Goto
      <3>5. pc'[t] = l
        BY <3>4 DEF CacheInv, TypeOK
      <3> QED
        BY <1>0, <1>4, <3>1, <3>2, <3>3, <3>4, <3>5, InsideStep, ZenonT(30)
    <2>3. Coherent' /\ Durable'
      BY <1>0, <1>4, <2>2 DEF CacheInv, Coherent, CacheCoherent, Durable, FlushDurable
    <2>4. CallOK(t)'
      BY <1>0, <1>4, <2>2 DEF CacheInv, CallOK, callVars
    <2> QED
      BY <1>4, <2>1, <2>2, <2>3, <2>4 DEF CacheInv
  <1>5. CASE Hit(sector[t], i) /\ Goto(t, "use") /\ UNCHANGED <<used, dirty, sec_num>>
    <2>1. pc'[t] = "use"
      BY <1>5 DEF CacheInv, TypeOK, Goto
    <2>2. PlaceOK(t)'
      BY <1>0, <1>3, <1>5, <2>1 DEF PlaceOK, Hit, callVars
    <2> QED
      BY <1>4, <1>5, <2>2
  <1>6. CASE /\ \A j \in Entries : ~Hit(sector[t], j)
             /\ dirty[i] /\ Goto(t, "evict") /\ UNCHANGED <<used, dirty, sec_num>>
    <2>1. pc'[t] = "evict"
      BY <1>6 DEF CacheInv, TypeOK, Goto
    <2>2. PlaceOK(t)'
      BY <1>0, <1>3, <1>6, <2>1, MissIsAbsent, Zenon DEF PlaceOK, callVars
    <2> QED
      BY <1>4, <1>6, <2>2
  <1>7. CASE (\A j \in Entries : ~Hit(sector[t], j)) /\ ~dirty[i] /\ Claim(t, i)
    BY <1>0, <1>3, <1>7, MissIsAbsent, ClaimInv
  <1> QED
    BY <1>1, <1>5, <1>6, <1>7

(* The entry that is chosen is written back if dirty and claimed.           *)
LEMMA EvictInv ==
    ASSUME CacheInv, NEW t \in Threads, Evict(t)
    PROVE  CacheInv'
  <1>1. /\ pc[t] = "evict" /\ DiskWrite(idx[t]) /\ Claim(t, idx[t])
        /\ UNCHANGED <<cache_sema, data, callVars, idx, since>>
    BY DEF Evict
  <1>2. /\ idx[t] \in Entries /\ dirty[idx[t]]
        /\ \A j \in Entries : ~(used[j] /\ sec_num[j] = sector[t])
    BY <1>1 DEF CacheInv, PlaceOK
  <1>3. idx' \in [Threads -> 1 .. N + 1]
    BY <1>1 DEF CacheInv, TypeOK
  <1> QED
    BY <1>1, <1>2, <1>3, ClaimInv

(* The sector is read into the claimed entry.                               *)
LEMMA LoadInv ==
    ASSUME CacheInv, NEW t \in Threads, Load(t)
    PROVE  CacheInv'
  <1> DEFINE i == idx[t]
  <1>0. /\ pc[t] = "load" /\ Goto(t, "use") /\ data' = [data EXCEPT ![i] = disk[sector[t]]]
        /\ UNCHANGED <<cache_sema, used, dirty, sec_num, callVars, idx, disk, since>>
    BY DEF Load
  <1>1. /\ i \in Entries /\ used[i] /\ ~dirty[i] /\ sec_num[i] = sector[t]
        /\ sector[t] \in Sectors /\ disk[sector[t]] \in Values
    BY <1>0 DEF CacheInv, PlaceOK, CallOK, TypeOK
  <1>2. TypeOK'
    BY <1>0, <1>1 DEF CacheInv, TypeOK, Goto, Labels, InsideLabels, callVars
  <1>3. \A j \in Entries : data'[j] = IF j = i THEN disk[sector[t]] ELSE data[j]
    BY <1>0, <1>1 DEF CacheInv, TypeOK
  <1>4. /\ pc'[t] = "use"
        /\ \A j : Loading(j) <=> i = j
        /\ \A j : ~Loading(j)'
        /\ Exclusive'
        /\ CallOK(t)' => \A u \in Threads : CallOK(u)'
        /\ PlaceOK(t)' => \A u \in Threads : PlaceOK(u)'
    <2>1. "load" \in InsideLabels /\ "use" \in Labels /\ "use" \in InsideLabels
      BY DEF InsideLabels, Labels
    <2>2. \A u \in Threads \ {t} : idx'[u] = idx[u] /\ sector'[u] = sector[u]
                                 /\ op'[u] = op[u] /\ buffer'[u] = buffer[u]
      BY <1>0 DEF callVars
    <2>3. pc' = [pc EXCEPT ![t] = "use"]
      BY <1>0 DEF Goto
    <2>4. pc'[t] = "use"
      BY <2>3 DEF CacheInv, TypeOK
    <2>5. cache_sema' = IF "use" \in InsideLabels THEN cache_sema ELSE cache_sema + 1
      BY <1>0, <2>1
    <2> QED
      BY <1>0, <2>1, <2>2, <2>3, <2>4, <2>5, InsideStep, ZenonT(30)
  <1> HIDE DEF i
  <1>5. Coherent'
    BY <1>0, <1>1, <1>3, <1>4, ZenonT(40) DEF CacheInv, Coherent, CacheCoherent
  <1>6. Durable'
    BY <1>0, <1>1, <1>3, <1>4 DEF CacheInv, Durable, FlushDurable
  <1>7. CallOK(t)'
    BY <1>0, <1>4, Zenon DEF CacheInv, CallOK, callVars
  <1>8. PlaceOK(t)'
    BY <1>0, <1>1, <1>4 DEF PlaceOK, callVars, i
  <1> QED
    BY <1>2, <1>4, <1>5, <1>6, <1>7, <1>8 DEF CacheInv

(* buffer_cache_write copies into the entry.                                *)
LEMMA UseWriteInv ==
    ASSUME CacheInv, NEW t \in Threads, UseWrite(t)
    PROVE  CacheInv'
  <1> DEFINE i == idx[t]
  <1>0. /\ pc[t] = "use" /\ op[t] = "write" /\ Goto(t, "return")
        /\ dirty' = [dirty EXCEPT ![i] = TRUE] /\ data' = [data EXCEPT ![i] = buffer[t]]
        /\ since' = [since EXCEPT ![sector[t]] = @ \cup {buffer[t]}]
        /\ cache_sema' = cache_sema + 1 /\ idx' = [idx EXCEPT ![t] = 1]
        /\ UNCHANGED <<used, sec_num, callVars, disk>>
    BY Zenon DEF UseWrite
  <1>1. /\ i \in Entries /\ used[i] /\ sec_num[i] = sector[t]
        /\ sector[t] \in Sectors /\ buffer[t] \in Values
    BY <1>0 DEF CacheInv, PlaceOK, CallOK
  <1>2. /\ \A j \in Entries : data'[j] = IF j = i THEN buffer[t] ELSE data[j]
        /\ \A j \in Entries : dirty'[j] <=> j = i \/ dirty[j]
        /\ \A s \in Sectors : since'[s] = IF s = sector[t] THEN since[s] \cup {buffer[t]}
                                                           ELSE since[s]
        /\ \A u \in Threads \ {t} : idx'[u] = idx[u]
    BY <1>0, <1>1, Zenon DEF CacheInv, TypeOK
  <1>3. /\ pc'[t] = "return"
        /\ \A j : ~Loading(j) /\ ~Loading(j)'
        /\ Exclusive' /\ cache_sema' \in {0, 1}
        /\ CallOK(t)' => \A u \in Threads : CallOK(u)'
        /\ PlaceOK(t)' => \A u \in Threads : PlaceOK(u)'
    <2>1. "use" \in InsideLabels /\ "return" \in Labels /\ "return" \notin InsideLabels
      BY DEF InsideLabels, Labels
    <2>2. \A u \in Threads \ {t} : idx'[u] = idx[u] /\ sector'[u] = sector[u]
                                 /\ op'[u] = op[u] /\ buffer'[u] = buffer[u]
      BY <1>0, <1>2 DEF callVars
    <2>3. pc' = [pc EXCEPT ![t] = "return"]
      BY <1>0 DEF Goto
    <2>4. pc'[t] = "return"
      BY <2>3 DEF CacheInv, TypeOK
    <2>5. cache_sema' = IF "return" \in InsideLabels THEN cache_sema ELSE cache_sema + 1
      BY <1>0, <2>1
    <2> QED
      BY <1>0, <2>1, <2>2, <2>3, <2>4, <2>5, InsideStep, ZenonT(40)
  <1>4. TypeOK'
    <2>1. 1 \in 1 .. N + 1 /\ "return" \in Labels /\ TRUE \in BOOLEAN
      BY CacheAssumption DEF Labels
    <2>2. /\ pc' \in [Threads -> Labels] /\ idx' \in [Threads -> 1 .. N + 1]
          /\ dirty' \in [Entries -> BOOLEAN]
      BY <1>0, <2>1, Zenon DEF CacheInv, TypeOK, Goto
    <2>3. data' \in [Entries -> Values \cup {None}]
      BY <1>0, <1>1, Zenon DEF CacheInv, TypeOK
    <2>4. since' \in [Sectors -> SUBSET Values]
      <3>1. since \in [Sectors -> SUBSET Values]
        BY Zenon DEF CacheInv, TypeOK
      <3>2. since[sector[t]] \cup {buffer[t]} \in SUBSET Values
        BY <1>1, <3>1, Zenon
      <3> QED
        BY <1>0, <3>1, <3>2, Zenon
    <2> QED
      BY <1>0, <1>3, <2>2, <2>3, <2>4, Zenon DEF CacheInv, TypeOK, callVars
  <1> HIDE DEF i
  <1>5. Coherent'
    <2>1. UNCHANGED <<used, sec_num, disk>>
      BY <1>0
    <2>2. \A j \in Entries : dirty'[j] => used'[j]
      BY <1>1, <1>2, <2>1, Zenon DEF CacheInv, Coherent, CacheCoherent
    <2>3. \A j \in Entries : used'[j] /\ ~dirty'[j] /\ ~Loading(j)' => data'[j] = disk'[sec_num'[j]]
      BY <1>2, <1>3, <2>1, Zenon DEF CacheInv, Coherent, CacheCoherent
    <2>4. \A j \in Entries : used'[j] => /\ sec_num'[j] \in Sectors
                                         /\ ~Loading(j)' => data'[j] \in Values
      BY <1>1, <1>2, <1>3, <2>1 DEF CacheInv, Coherent
    <2> QED
      BY <2>1, <2>2, <2>3, <2>4, Zenon DEF CacheInv, Coherent, CacheCoherent
  <1>6. Durable'
    <2>1. UNCHANGED <<used, sec_num, disk>>
      BY <1>0
    <2>2. FlushDurable'
      BY <1>2, <2>1, Zenon DEF CacheInv, Durable, FlushDurable
    <2>3. \A j \in Entries : used'[j] /\ ~Loading(j)' => data'[j] \in since'[sec_num'[j]]
      <3>1. ASSUME NEW j \in Entries, used[j] PROVE data'[j] \in since'[sec_num[j]]
        <4>1. sec_num[j] \in Sectors /\ (j # i => data[j] \in since[sec_num[j]])
          BY <1>3, <3>1 DEF CacheInv, Coherent, Durable
        <4> QED
          BY <1>1, <1>2, <4>1, ZenonT(40)
      <3> QED
        BY <2>1, <3>1
    <2> QED
      BY <2>2, <2>3 DEF Durable
  <1>7. CallOK(t)' /\ PlaceOK(t)'
    BY <1>0, <1>1, <1>3, Zenon DEF CallOK, PlaceOK, callVars
  <1> QED
    BY <1>3, <1>4, <1>5, <1>6, <1>7 DEF CacheInv

(* buffer_cache_read copies out of the entry.                               *)
LEMMA UseReadInv ==
    ASSUME CacheInv, NEW t \in Threads, UseRead(t)
    PROVE  CacheInv'
  <1>0. /\ pc[t] = "use" /\ op[t] = "read" /\ Goto(t, "return")
        /\ buffer' = [buffer EXCEPT ![t] = data[idx[t]]]
        /\ cache_sema' = cache_sema + 1 /\ idx' = [idx EXCEPT ![t] = 1]
        /\ UNCHANGED <<used, dirty, sec_num, data, op, sector, disk, since>>
    BY Zenon DEF UseRead, entryVars
  <1>1. idx[t] \in Entries /\ sector[t] \in Sectors
    BY <1>0 DEF CacheInv, PlaceOK, CallOK
  <1>2. \A u \in Threads \ {t} : idx'[u] = idx[u] /\ buffer'[u] = buffer[u]
    BY <1>0 DEF CacheInv, TypeOK
  <1>3. /\ pc'[t] = "return"
        /\ \A j : ~Loading(j) /\ ~Loading(j)'
        /\ Exclusive' /\ cache_sema' \in {0, 1}
        /\ CallOK(t)' => \A u \in Threads : CallOK(u)'
        /\ PlaceOK(t)' => \A u \in Threads : PlaceOK(u)'
    <2>1. "use" \in InsideLabels /\ "return" \in Labels /\ "return" \notin InsideLabels
      BY DEF InsideLabels, Labels
    <2>2. \A u \in Threads \ {t} : idx'[u] = idx[u] /\ sector'[u] = sector[u]
                                 /\ op'[u] = op[u] /\ buffer'[u] = buffer[u]
      BY <1>0, <1>2
    <2>3. pc' = [pc EXCEPT ![t] = "return"]
      BY <1>0 DEF Goto
    <2>4. pc'[t] = "return"
      BY <2>3 DEF CacheInv, TypeOK
    <2>5. cache_sema' = IF "return" \in InsideLabels THEN cache_sema ELSE cache_sema + 1
      BY <1>0, <2>1
    <2> QED
      BY <1>0, <2>1, <2>2, <2>3, <2>4, <2>5, InsideStep, ZenonT(40)
  <1>4. TypeOK'
    BY <1>0, <1>1, <1>3, CacheAssumption DEF CacheInv, TypeOK, Goto, Labels
  <1>5. Coherent' /\ Durable'
    BY <1>0, <1>3, Zenon DEF CacheInv, Coherent, CacheCoherent, Durable, FlushDurable
  <1>6. CallOK(t)' /\ PlaceOK(t)'
    BY <1>0, <1>1, <1>3, Zenon DEF CallOK, PlaceOK
  <1> QED
    BY <1>3, <1>4, <1>5, <1>6 DEF CacheInv

(* buffer_cache_flush writes one entry back.                                *)
LEMMA ScanInv ==
    ASSUME CacheInv, NEW t \in Threads, Scan(t)
    PROVE  CacheInv'
  <1> DEFINE i == idx[t]
  <1>0. /\ pc[t] = "scan" /\ i \in Entries /\ idx' = [idx EXCEPT ![t] = @ + 1]
        /\ UNCHANGED <<cache_sema, used, sec_num, data, pc, callVars, since>>
    BY DEF Scan
  <1>1. /\ \A j : ~Loading(j) /\ ~Loading(j)'
        /\ \A u \in Threads \ {t} : pc'[u] \notin InsideLabels
        /\ Exclusive'
    BY <1>0, Zenon DEF CacheInv, Exclusive, InsideLabels, Loading
  <1>2. dirty[i] => /\ used[i] /\ sec_num[i] \in Sectors
                    /\ data[i] \in Values /\ data[i] \in since[sec_num[i]]
    BY <1>0, <1>1 DEF CacheInv, Coherent, CacheCoherent, Durable
  <1>3. i + 1 \in 1 .. N + 1 /\ i \in Nat
    BY <1>0, CacheAssumption DEF Entries
  <1>4. /\ dirty' \in [Entries -> BOOLEAN] /\ disk' \in [Sectors -> Values]
        /\ \A j \in Entries : dirty'[j] <=> j # i /\ dirty[j]
        /\ \A s \in Sectors : disk'[s] = IF dirty[i] /\ s = sec_num[i] THEN data[i] ELSE disk[s]
    <2>1. CASE dirty[i]
      <3>1. disk' = [disk EXCEPT ![sec_num[i]] = data[i]] /\ dirty' = [dirty EXCEPT ![i] = FALSE]
        BY <1>0, <2>1 DEF Scan, DiskWrite
      <3>2. i \in Entries /\ sec_num[i] \in Sectors /\ data[i] \in Values
        BY <1>0, <1>2, <2>1
      <3>3. dirty \in [Entries -> BOOLEAN] /\ disk \in [Sectors -> Values]
        BY DEF CacheInv, TypeOK
      <3> HIDE DEF i
      <3> QED
        BY <2>1, <3>1, <3>2, <3>3
    <2>2. CASE ~dirty[i]
      BY <1>0, <2>2, Zenon DEF Scan, CacheInv, TypeOK
    <2> QED
      BY <2>1, <2>2
  <1>5. TypeOK' /\ idx'[t] = i + 1
    BY <1>0, <1>3, <1>4, Zenon DEF CacheInv, TypeOK, callVars
  <1> HIDE DEF i
  <1>6. Coherent'
    <2>1. \A j \in Entries : dirty'[j] => used'[j]
      BY <1>0, <1>4, Zenon DEF CacheInv, Coherent, CacheCoherent
    <2>2. \A j \in Entries : used'[j] /\ ~dirty'[j] /\ ~Loading(j)' => data'[j] = disk'[sec_num'[j]]
      <3> SUFFICES ASSUME NEW j \in Entries, used'[j], ~dirty'[j]
                   PROVE  data[j] = disk'[sec_num[j]]
        BY <1>0, Zenon
      <3>1. used[j] /\ sec_num[j] \in Sectors /\ (j = i \/ ~dirty[j])
        BY <1>0, <1>4, Zenon DEF CacheInv, Coherent
      <3>2. ~dirty[j] => data[j] = disk[sec_num[j]]
        BY <1>1, <3>1, Zenon DEF CacheInv, Coherent, CacheCoherent
      <3>3. CASE dirty[i] /\ sec_num[j] = sec_num[i]
        <4>1. j = i
          BY <1>0, <1>2, <3>1, <3>3, Zenon DEF CacheInv, Coherent, CacheCoherent
        <4> QED
          BY <1>4, <3>1, <3>3, <4>1, Zenon
      <3>4. CASE ~(dirty[i] /\ sec_num[j] = sec_num[i])
        <4>1. ~dirty[j]
          BY <3>1, <3>4, Zenon
        <4>2. disk'[sec_num[j]] = disk[sec_num[j]]
          BY <1>4, <3>1, <3>4, Zenon
        <4> QED
          BY <3>2, <4>1, <4>2, Zenon
      <3> QED
        BY <3>3, <3>4, Zenon
    <2>3. \A j \in Entries : used'[j] => sec_num'[j] \in Sectors /\ data'[j] \in Values
      BY <1>0, <1>1, ZenonT(40) DEF CacheInv, Coherent
    <2> QED
      BY <1>0, <2>1, <2>2, <2>3, Zenon DEF CacheInv, Coherent, CacheCoherent
  <1>7. Durable'
    BY <1>0, <1>1, <1>2, <1>4, ZenonT(40) DEF CacheInv, Durable, FlushDurable
  <1>8. \A u \in Threads : CallOK(u)'
    BY <1>0, Zenon DEF CacheInv, CallOK, callVars
  <1>9. \A u \in Threads : PlaceOK(u)'
    <2>1. \A j \in Entries : j < i + 1 => ~dirty'[j]
      <3>1. \A j \in Entries : j < i + 1 => j = i \/ j < i
        BY <1>3 DEF Entries
      <3>2. \A j \in Entries : j < i => ~dirty[j]
        BY <1>0, Zenon DEF CacheInv, PlaceOK, i
      <3> QED
        BY <1>4, <3>1, <3>2
    <2>2. PlaceOK(t)'
      BY <1>0, <1>5, <2>1, Zenon DEF PlaceOK
    <2> QED
      BY <1>1, <2>2 DEF PlaceOK, InsideLabels
  <1> QED
    BY <1>1, <1>5, <1>6, <1>7, <1>8, <1>9, Zenon DEF CacheInv

(* What the users see of a sector: its cache entry if it has one that is    *)
(* not being loaded, otherwise the disk.                                    *)
LEMMA ContentsValue ==
    ASSUME CacheInv, NEW s \in Sectors
    PROVE  /\ \A i \in Entries : Cached(s, i) => Contents[s] = data[i]
           /\ (\A i \in Entries : ~Cached(s, i)) => Contents[s] = disk[s]
  <1>1. ASSUME NEW i \in Entries, Cached(s, i) PROVE Contents[s] = data[i]
    <2>1. \A j \in Entries : Cached(s, j) => j = i
      BY <1>1 DEF CacheInv, Coherent, CacheCoherent, Cached
    <2>2. (CHOOSE j \in Entries : Cached(s, j)) = i
      BY <1>1, <2>1
    <2> QED
      BY <1>1, <2>2, Zenon DEF Contents
  <1>2. ASSUME \A i \in Entries : ~Cached(s, i) PROVE Contents[s] = disk[s]
    BY <1>2 DEF Contents
  <1> QED
    BY <1>1, <1>2

(* When the scan is past the last entry, the disk has all there is.         *)
LEMMA ScannedIsOnDisk ==
    ASSUME CacheInv, NEW t \in Threads, pc[t] = "scan", idx[t] \notin Entries
    PROVE  /\ \A i \in Entries : ~dirty[i]
           /\ \A s \in Sectors : Contents[s] = disk[s]
  <1>1. \A i \in Entries : i < idx[t]
    <2>1. idx[t] \in 1 .. N + 1
      BY Zenon DEF CacheInv, TypeOK
    <2> QED
      BY <2>1, CacheAssumption DEF Entries
  <1>2. \A i \in Entries : ~dirty[i]
    BY <1>1, Zenon DEF CacheInv, PlaceOK
  <1> SUFFICES ASSUME NEW s \in Sectors PROVE Contents[s] = disk[s]
    BY <1>2, Zenon
  <1>3. ASSUME NEW i \in Entries, Cached(s, i) PROVE Contents[s] = disk[s]
    <2>1. data[i] = disk[s]
      BY <1>2, <1>3 DEF CacheInv, Coherent, CacheCoherent, Cached
    <2> QED
      BY <1>3, <2>1, ContentsValue
  <1> QED
    BY <1>3, ContentsValue

(* buffer_cache_flush_all has seen all entries.                             *)
LEMMA ScanEndInv ==
    ASSUME CacheInv, NEW t \in Threads, ScanEnd(t)
    PROVE  CacheInv'
  <1>0. /\ pc[t] = "scan" /\ idx[t] \notin Entries /\ Leave(t)
        /\ cache_sema' = cache_sema + 1
        /\ since' = [s \in Sectors |-> {Contents[s]}]
        /\ UNCHANGED <<used, dirty, sec_num, data, disk>>
    BY Zenon DEF ScanEnd, entryVars
  <1>1. /\ \A s \in Sectors : since'[s] = {disk[s]}
        /\ since' \in [Sectors -> SUBSET Values]
    <2>1. /\ \A s \in Sectors : Contents[s] = disk[s]
          /\ disk \in [Sectors -> Values]
      BY <1>0, ScannedIsOnDisk, Zenon DEF CacheInv, TypeOK
    <2>2. \A s \in Sectors : {Contents[s]} \in SUBSET Values
      BY <2>1, Zenon
    <2> QED
      BY <1>0, <2>1, <2>2, Zenon
  <1>2. \A u \in Threads \ {t} : idx'[u] = idx[u] /\ sector'[u] = sector[u]
                               /\ op'[u] = op[u] /\ buffer'[u] = buffer[u]
    BY <1>0, Zenon DEF Leave, CacheInv, TypeOK
  <1>3. pc'[t] = "idle" /\ buffer'[t] = None /\ op'[t] = "flush"
    BY <1>0, Zenon DEF Leave, Goto, CacheInv, TypeOK
  <1>4. /\ \A j : ~Loading(j) /\ ~Loading(j)'
        /\ Exclusive' /\ cache_sema' \in {0, 1}
        /\ CallOK(t)' => \A u \in Threads : CallOK(u)'
        /\ PlaceOK(t)' => \A u \in Threads : PlaceOK(u)'
    <2>1. "scan" \in InsideLabels /\ "idle" \in Labels /\ "idle" \notin InsideLabels
      BY DEF InsideLabels, Labels
    <2>2. pc' = [pc EXCEPT ![t] = "idle"]
      BY <1>0 DEF Leave, Goto
    <2>3. cache_sema' = IF "idle" \in InsideLabels THEN cache_sema ELSE cache_sema + 1
      BY <1>0, <2>1, Zenon
    <2>4. pc[t] = "scan" /\ pc[t] \in InsideLabels
      BY <1>0, <2>1
    <2>5. /\ \A u \in Threads : pc'[u] = IF u = t THEN "idle" ELSE pc[u]
          /\ \A j : Loading(j) <=> pc[t] = "load" /\ idx[t] = j
          /\ \A j : Loading(j)' <=> "idle" = "load" /\ idx'[t] = j
          /\ Exclusive'
          /\ cache_sema' \in {0, 1}
          /\ CallOK(t)' => \A u \in Threads : CallOK(u)'
          /\ PlaceOK(t)' => \A u \in Threads : PlaceOK(u)'
      BY <1>2, <2>1, <2>2, <2>3, <2>4, InsideStep, ZenonT(30)
    <2>6. \A j : ~Loading(j) /\ ~Loading(j)'
      BY <2>4, <2>5, Zenon
    <2> QED
      BY <2>5, <2>6
  <1>5. TypeOK'
    <2>1. 1 \in 1 .. N + 1 /\ "idle" \in Labels
      BY CacheAssumption DEF Labels
    <2>2. /\ pc' \in [Threads -> Labels] /\ idx' \in [Threads -> 1 .. N + 1]
          /\ op' \in [Threads -> {"read", "write", "flush"}]
          /\ sector' \in [Threads -> Sectors \cup {None}]
          /\ buffer' \in [Threads -> Values \cup {None}]
      BY <1>0, <2>1, Zenon DEF CacheInv, TypeOK, Leave, Goto
    <2> QED
      BY <1>0, <1>1, <1>4, <2>2, Zenon DEF CacheInv, TypeOK
  <1>6. Coherent'
    BY <1>0, <1>4 DEF CacheInv, Coherent, CacheCoherent
  <1>7. Durable'
    <2>1. \A i \in Entries : ~dirty[i]
      BY <1>0, ScannedIsOnDisk, Zenon
    <2> QED
      BY <1>0, <1>1, <1>4, <2>1, ZenonT(40) DEF CacheInv, Coherent, CacheCoherent, Durable, FlushDurable
  <1>8. CallOK(t)' /\ PlaceOK(t)'
    BY <1>3, Zenon DEF CallOK, PlaceOK
  <1> QED
    BY <1>4, <1>5, <1>6, <1>7, <1>8 DEF CacheInv

(* A crash keeps the disk and loses the cache.                              *)
LEMMA CrashInv ==
    ASSUME CacheInv, Crash
    PROVE  CacheInv'
  <1>1. TypeOK'
    BY CacheAssumption DEF CacheInv, TypeOK, Crash, Labels
  <1>2. Exclusive'
    BY Zenon DEF Crash, Exclusive, InsideLabels
  <1>3. Coherent'
    BY Zenon DEF Crash, Coherent, CacheCoherent
  <1>4. \A t \in Threads : CallOK(t)' /\ PlaceOK(t)'
    BY Zenon DEF Crash, CallOK, PlaceOK
  <1>5. Durable'
    BY DEF Crash, Durable, FlushDurable
  <1> QED
    BY <1>1, <1>2, <1>3, <1>4, <1>5, Zenon DEF CacheInv

(* Every step of the cache and its callers keeps the invariant.             *)
LEMMA CacheStep == CacheInv /\ [Next]_vars => CacheInv'
  <1> SUFFICES ASSUME CacheInv, [Next]_vars PROVE CacheInv'
    OBVIOUS
  <1>1. CASE UNCHANGED vars \/ Tick
    <2>1. UNCHANGED <<cache_sema, used, dirty, sec_num, data, pc, op, sector, buffer, idx,
                      disk, since>>
      BY <1>1, Zenon DEF vars, entryVars, callVars, Tick
    <2>2. TypeOK' /\ \A u \in Threads : CallOK(u)'
      BY <2>1 DEF CacheInv, TypeOK, CallOK
    <2> QED
      BY <2>1, <2>2, OutsideFrame
  <1> QED
    BY <1>1, BeginInv, EnterInv, LookupInv, EvictInv, LoadInv, UseWriteInv, UseReadInv,
       ScanInv, ScanEndInv, ReturnInv, CrashInv
       DEF Next, Inside

(* In every behaviour the semaphore guards the cache, no sector is cached   *)
(* twice, clean entries equal the disk, and a thread's place in its call    *)
(* fits what the cache holds (cache.c).                                     *)
THEOREM CacheInvariant == Spec => []CacheInv
  BY InitInv, CacheStep, PTL DEF Spec

(* buffer_cache_find may stop at its first match, and a clean entry may be  *)
(* dropped, in a cache of any size that any number of threads use.          *)
THEOREM CacheStaysCoherent == Spec => []CacheCoherent
  <1>1. CacheInv => CacheCoherent
    BY DEF CacheInv, Coherent
  <1> QED
    BY <1>1, CacheInvariant, PTL

(* What a crash leaves on the disk is never older than the last             *)
(* buffer_cache_flush_all that ran to its end.                              *)
THEOREM FlushIsDurable == Spec => []FlushDurable
  <1>1. CacheInv => FlushDurable
    BY DEF CacheInv, Durable
  <1> QED
    BY <1>1, CacheInvariant, PTL
-----------------------------------------------------------------------------
(* v is what the users see in sector s.                                     *)
Shows(s, v) ==
    \/ \E i \in Entries : Cached(s, i) /\ v = data[i]
    \/ (\A i \in Entries : ~Cached(s, i)) /\ v = disk[s]

(* What a sector shows to a reader is unique: the cached copy, else the     *)
(* disk.                                                                    *)
LEMMA ContentsShows ==
    CacheInv => /\ Contents = [s \in Sectors |-> Contents[s]]
                /\ \A s \in Sectors : \A v : Shows(s, v) <=> v = Contents[s]
  <1> SUFFICES ASSUME CacheInv PROVE /\ Contents = [s \in Sectors |-> Contents[s]]
                                     /\ \A s \in Sectors : \A v : Shows(s, v) <=> v = Contents[s]
    OBVIOUS
  <1>1. Contents = [s \in Sectors |-> Contents[s]]
    BY DEF Contents
  <1>2. ASSUME NEW s \in Sectors, NEW v PROVE Shows(s, v) <=> v = Contents[s]
    BY ContentsValue DEF Shows
  <1> QED
    BY <1>1, <1>2

(* The same after a step.                                                   *)
LEMMA ContentsShowsPrime ==
    ASSUME CacheInv'
    PROVE  /\ Contents' = [s \in Sectors |-> Contents'[s]]
           /\ \A s \in Sectors : \A v : Shows(s, v)' <=> v = Contents'[s]
  <1>1. (CacheInv => /\ Contents = [s \in Sectors |-> Contents[s]]
                     /\ \A s \in Sectors : \A v : Shows(s, v) <=> v = Contents[s])'
    BY ContentsShows, PTL
  <1> QED
    BY <1>1

(* A step after which every sector shows what it did before.                *)
LEMMA SameContents ==
    ASSUME CacheInv, CacheInv',
           \A s \in Sectors : \A v : Shows(s, v) => Shows(s, v)'
    PROVE  Contents' = Contents
  <1>1. \A s \in Sectors : Contents'[s] = Contents[s]
    BY ContentsShows, ContentsShowsPrime, Zenon
  <1> QED
    BY <1>1, ContentsShows, ContentsShowsPrime

Calls == [t \in Threads |-> CallOf(t)]

(* The members of a call that has taken effect.                             *)
LEMMA DoneFields ==
    ASSUME NEW o, NEW s, NEW d, NEW c,
           c = [op |-> o, sector |-> s, data |-> d, done |-> TRUE]
    PROVE  c.op = o /\ c.sector = s /\ c.data = d /\ c.done
  OBVIOUS

(* The members of a call that has not.                                      *)
LEMMA PendingFields ==
    ASSUME NEW o, NEW s, NEW d, NEW c,
           c = [op |-> o, sector |-> s, data |-> d, done |-> FALSE]
    PROVE  c.op = o /\ c.sector = s /\ c.data = d /\ ~c.done
  OBVIOUS

(* The calls that start.                                                    *)
LEMMA NewCall ==
    ASSUME NEW o, NEW s \in Sectors, NEW d,
           \/ o = "read" /\ d = None
           \/ o = "write" /\ d \in Values
    PROVE  [op |-> o, sector |-> s, data |-> d, done |-> FALSE] \in DS!NewCalls
  BY DEF DS!NewCalls

(* A thread inside a read or a write is seen in one by the cache's users.   *)
LEMMA InCall ==
    ASSUME CacheInv, NEW t \in Threads, pc[t] # "idle", op[t] # "flush"
    PROVE  /\ Calls[t] # NoCall
           /\ Calls[t] = [op |-> op[t], sector |-> sector[t], data |-> buffer[t],
                          done |-> pc[t] = "return"]
  <1>1. Calls[t] = [op |-> op[t], sector |-> sector[t], data |-> buffer[t],
                    done |-> pc[t] = "return"]
    BY DEF Calls, CallOf
  <1>2. /\ op[t] \in {"read", "write"} /\ sector[t] \in Sectors
        /\ buffer[t] \in Values \cup {None} /\ (pc[t] = "return") \in BOOLEAN
    BY Zenon DEF CacheInv, TypeOK, CallOK
  <1>3. Calls[t] \in [op : {"read", "write"}, sector : Sectors,
                      data : Values \cup {None}, done : BOOLEAN]
    BY <1>1, <1>2
  <1> QED
    BY <1>1, <1>3, CacheAssumption, Zenon

(* A step of one thread changes nothing in what the others have called.     *)
LEMMA CallFrame ==
    ASSUME CacheInv, NEW t \in Threads, NEW l, Goto(t, l),
           \A u \in Threads \ {t} :
              op'[u] = op[u] /\ sector'[u] = sector[u] /\ buffer'[u] = buffer[u]
    PROVE  /\ Calls' = [Calls EXCEPT ![t] = CallOf(t)']
           /\ pc'[t] = l
           /\ CallOf(t)' = CallOf(t) => Calls' = Calls
  <1>1. \A u \in Threads : pc'[u] = IF u = t THEN l ELSE pc[u]
    BY Zenon DEF CacheInv, TypeOK, Goto
  <1>2. \A u \in Threads \ {t} : CallOf(u)' = CallOf(u)
    BY <1>1 DEF CallOf
  <1> QED
    BY <1>1, <1>2, Zenon DEF Calls

(* Steps inside a call, between its start and the moment it takes effect.   *)
LEMMA CallStutter ==
    ASSUME CacheInv, NEW t \in Threads, NEW l, Goto(t, l), UNCHANGED callVars,
           pc[t] \notin {"idle", "return"}, l \notin {"idle", "return"}
    PROVE  Calls' = Calls
  <1>1. pc'[t] = l /\ (CallOf(t)' = CallOf(t) => Calls' = Calls)
    BY CallFrame, Zenon DEF callVars
  <1>2. CallOf(t)' = CallOf(t)
    BY <1>1, Zenon DEF CallOf, callVars
  <1> QED
    BY <1>1, <1>2, Zenon

(* Giving an entry away hides nothing: what a clean entry shows is on the   *)
(* disk, what a dirty one shows is written there first.                     *)
LEMMA ClaimContents ==
    ASSUME CacheInv, CacheInv', NEW t \in Threads, NEW i \in Entries,
           pc[t] \in {"lookup", "evict"}, Claim(t, i), idx'[t] = i,
           \A u \in Threads \ {t} : idx'[u] = idx[u],
           \/ ~dirty[i] /\ UNCHANGED disk
           \/ dirty[i] /\ DiskWrite(i),
           UNCHANGED <<cache_sema, data, callVars>>
    PROVE  Contents' = Contents
  <1>1. \A j : ~Loading(j) /\ (Loading(j)' <=> j = i)
    <2>1. pc[t] \in InsideLabels /\ "load" \in Labels /\ "load" \in InsideLabels
      BY DEF InsideLabels, Labels
    <2>2. cache_sema' = IF "load" \in InsideLabels THEN cache_sema ELSE cache_sema + 1
      BY <2>1
    <2>3. \A u \in Threads \ {t} : idx'[u] = idx[u] /\ sector'[u] = sector[u]
                                 /\ op'[u] = op[u] /\ buffer'[u] = buffer[u]
      BY Zenon DEF callVars
    <2>4. pc' = [pc EXCEPT ![t] = "load"]
      BY Zenon DEF Claim, Goto
    <2> QED
      BY <2>1, <2>2, <2>3, <2>4, InsideStep, ZenonT(40)
  <1>2. dirty[i] => used[i] /\ sec_num[i] \in Sectors
    BY Zenon DEF CacheInv, Coherent, CacheCoherent
  <1>3. /\ \A j \in Entries \ {i} : (used'[j] <=> used[j]) /\ sec_num'[j] = sec_num[j]
        /\ \A s \in Sectors : disk'[s] = IF dirty[i] /\ s = sec_num[i] THEN data[i] ELSE disk[s]
    BY <1>2 DEF CacheInv, TypeOK, Claim, DiskWrite
  <1>4. \A s \in Sectors : \A j \in Entries : Cached(s, j)' <=> j # i /\ Cached(s, j)
    BY <1>1, <1>3, Zenon DEF Cached
  <1>5. ASSUME NEW s \in Sectors, NEW v, Shows(s, v) PROVE Shows(s, v)'
    <2>1. ASSUME NEW j \in Entries \ {i}, Cached(s, j), v = data[j] PROVE Shows(s, v)'
      BY <1>4, <2>1 DEF Shows
    <2>2. CASE Cached(s, i) /\ v = data[i]
      <3>1. \A j \in Entries : Cached(s, j) => j = i
        BY <2>2, Zenon DEF Cached, CacheInv, Coherent, CacheCoherent
      <3>2. disk'[s] = data[i]
        BY <1>3, <2>2, ZenonT(40) DEF Cached, CacheInv, Coherent, CacheCoherent
      <3> QED
        BY <1>4, <2>2, <3>1, <3>2, Zenon DEF Shows
    <2>3. CASE (\A j \in Entries : ~Cached(s, j)) /\ v = disk[s]
      <3>1. disk'[s] = disk[s]
        BY <1>1, <1>2, <1>3, <2>3, Zenon DEF Cached
      <3> QED
        BY <1>4, <2>3, <3>1 DEF Shows
    <2> QED
      BY <1>5, <2>1, <2>2, <2>3, ZenonT(40) DEF Shows
  <1> QED
    BY <1>5, SameContents

(* Finding or choosing an entry changes no contents.                        *)
LEMMA LookupContents ==
    ASSUME CacheInv, CacheInv', NEW t \in Threads, Lookup(t)
    PROVE  Contents' = Contents /\ Calls' = Calls
  <1>0. pc[t] = "lookup" /\ UNCHANGED <<cache_sema, data, callVars, disk, since>>
    BY DEF Lookup
  <1>1. PICK i \in Entries :
          /\ idx' = [idx EXCEPT ![t] = i]
          /\ \/ (Goto(t, "use") \/ Goto(t, "evict")) /\ UNCHANGED <<used, dirty, sec_num>>
             \/ ~dirty[i] /\ Claim(t, i)
    BY Zenon DEF Lookup
  <1>2. idx'[t] = i /\ \A u \in Threads \ {t} : idx'[u] = idx[u]
    BY <1>1 DEF CacheInv, TypeOK
  <1>3. ASSUME NEW l \in {"use", "evict"}, Goto(t, l), UNCHANGED <<used, dirty, sec_num>>
        PROVE  Contents' = Contents /\ Calls' = Calls
    <2>1. \A j : ~Loading(j) /\ ~Loading(j)'
      <3>1. \A u \in Threads : pc[u] # "load" /\ pc'[u] # "load"
        BY <1>0, <1>3, Zenon DEF CacheInv, TypeOK, Exclusive, InsideLabels, Goto
      <3> QED
        BY <3>1, Zenon DEF Loading
    <2>2. \A s \in Sectors : \A v : Shows(s, v) => Shows(s, v)'
      BY <1>0, <1>3, <2>1, Zenon DEF Shows, Cached
    <2> QED
      BY <1>0, <1>3, <2>2, SameContents, CallStutter
  <1>4. CASE ~dirty[i] /\ Claim(t, i)
    BY <1>0, <1>2, <1>4, ClaimContents, CallStutter, Zenon DEF Claim
  <1> QED
    BY <1>1, <1>3, <1>4

(* Writing the chosen entry back and claiming it changes no contents.       *)
LEMMA EvictContents ==
    ASSUME CacheInv, CacheInv', NEW t \in Threads, Evict(t)
    PROVE  Contents' = Contents /\ Calls' = Calls
  <1>1. /\ pc[t] = "evict" /\ DiskWrite(idx[t]) /\ Claim(t, idx[t])
        /\ UNCHANGED <<cache_sema, data, callVars, idx>>
    BY Zenon DEF Evict
  <1>2. idx[t] \in Entries /\ dirty[idx[t]]
    BY <1>1, Zenon DEF CacheInv, PlaceOK
  <1> QED
    BY <1>1, <1>2, ClaimContents, CallStutter, Zenon DEF Claim

(* The sector that is read into the entry was, until now, seen on the disk. *)
LEMMA LoadContents ==
    ASSUME CacheInv, CacheInv', NEW t \in Threads, Load(t)
    PROVE  Contents' = Contents /\ Calls' = Calls
  <1>0. /\ pc[t] = "load" /\ Goto(t, "use")
        /\ UNCHANGED <<used, sec_num, callVars, idx, disk>>
    BY Zenon DEF Load
  <1>1. PICK i \in Entries :
          /\ idx[t] = i /\ data' = [data EXCEPT ![i] = disk[sector[t]]]
          /\ used[i] /\ sec_num[i] = sector[t] /\ sector[t] \in Sectors
    BY <1>0, Zenon DEF Load, CacheInv, PlaceOK, CallOK
  <1>2. \A j \in Entries : data'[j] = IF j = i THEN disk[sector[t]] ELSE data[j]
    BY <1>0, <1>1, ZenonT(30) DEF CacheInv, TypeOK
  <1>3. \A j : (Loading(j) <=> j = i) /\ ~Loading(j)'
    <2>1. \A u \in Threads : pc'[u] # "load" /\ (u # t => pc[u] # "load")
      BY <1>0, ZenonT(40) DEF CacheInv, TypeOK, Exclusive, InsideLabels, Goto
    <2> QED
      BY <1>0, <1>1, <2>1, ZenonT(40) DEF Loading
  <1>4. ASSUME NEW s \in Sectors, NEW v, Shows(s, v) PROVE Shows(s, v)'
    <2>1. \A j \in Entries : Cached(s, j)' <=> Cached(s, j) \/ (j = i /\ s = sector[t])
      BY <1>0, <1>1, <1>3, Zenon DEF Cached
    <2>2. \A j \in Entries : Cached(s, j) => j # i
      BY <1>3, Zenon DEF Cached
    <2>3. s = sector[t] => \A j \in Entries : ~Cached(s, j)
      BY <1>1, <2>2, ZenonT(40) DEF Cached, CacheInv, Coherent, CacheCoherent
    <2>4. CASE s = sector[t]
      <3>1. v = disk[s]
        BY <1>4, <2>3, <2>4, ZenonT(40) DEF Shows
      <3>2. Cached(s, i)' /\ data'[i] = v
        BY <1>1, <1>2, <2>1, <2>4, <3>1, Zenon
      <3> QED
        BY <1>1, <3>2 DEF Shows
    <2>5. CASE s # sector[t]
      <3>1. \A j \in Entries : (Cached(s, j)' <=> Cached(s, j)) /\ (Cached(s, j) => data'[j] = data[j])
        BY <1>2, <2>1, <2>2, <2>5
      <3> QED
        BY <1>0, <1>4, <3>1, ZenonT(40) DEF Shows
    <2> QED
      BY <2>4, <2>5, Zenon
  <1> QED
    BY <1>0, <1>4, SameContents, CallStutter

(* Nobody is loading an entry when a thread enters.                         *)
LEMMA EnterContents ==
    ASSUME CacheInv, CacheInv', NEW t \in Threads, Enter(t)
    PROVE  Contents' = Contents /\ Calls' = Calls
  <1>0. /\ pc[t] = "enter" /\ cache_sema = 1
        /\ Goto(t, IF op[t] = "flush" THEN "scan" ELSE "lookup")
        /\ UNCHANGED <<used, sec_num, data, callVars, disk>>
    BY DEF Enter, entryVars, CacheInv, TypeOK
  <1>1. \A u \in Threads : pc[u] # "load" /\ pc'[u] # "load"
    BY <1>0, ZenonT(40) DEF CacheInv, TypeOK, Exclusive, InsideLabels, Goto
  <1>2. \A s \in Sectors : \A v : Shows(s, v) => Shows(s, v)'
    BY <1>0, <1>1, ZenonT(40) DEF Shows, Cached, Loading
  <1> QED
    BY <1>0, <1>2, SameContents, CallStutter, Zenon

(* An entry that the scan writes to the disk is still the one that shows.   *)
LEMMA ScanContents ==
    ASSUME CacheInv, CacheInv', NEW t \in Threads, Scan(t)
    PROVE  Contents' = Contents /\ Calls' = Calls
  <1> DEFINE i == idx[t]
  <1>0. /\ pc[t] = "scan" /\ i \in Entries
        /\ (disk' = [disk EXCEPT ![sec_num[i]] = data[i]] /\ dirty[i]) \/ disk' = disk
        /\ UNCHANGED <<used, sec_num, data, pc, callVars>>
    BY ZenonT(40) DEF Scan, DiskWrite
  <1>1. \A u \in Threads : pc[u] # "load" /\ pc'[u] # "load"
    BY <1>0, ZenonT(40) DEF CacheInv, Exclusive, InsideLabels
  <1>2. \A s \in Sectors : \A j \in Entries : Cached(s, j)' <=> Cached(s, j)
    BY <1>0, <1>1, Zenon DEF Cached, Loading
  <1>3. \A s \in Sectors : (\A j \in Entries : ~Cached(s, j)) => disk'[s] = disk[s]
    <2>1. dirty[i] => sec_num[i] \in Sectors /\ Cached(sec_num[i], i)
      BY <1>0, <1>1, Zenon DEF CacheInv, Coherent, CacheCoherent, Cached, Loading
    <2> QED
      BY <1>0, <2>1, ZenonT(40) DEF CacheInv, TypeOK
  <1> HIDE DEF i
  <1>4. \A s \in Sectors : \A v : Shows(s, v) => Shows(s, v)'
    BY <1>0, <1>2, <1>3, Zenon DEF Shows
  <1>5. Calls' = Calls
    BY <1>0, Zenon DEF Calls, CallOf, callVars
  <1> QED
    BY <1>4, <1>5, SameContents, Zenon

(* Steps outside the cache show no sector any differently.                  *)
LEMMA OutsideContents ==
    ASSUME CacheInv, CacheInv', UNCHANGED <<used, sec_num, data, disk>>,
           \A u \in Threads : pc[u] = "load" \/ pc'[u] = "load" => pc'[u] = pc[u] /\ idx'[u] = idx[u]
    PROVE  Contents' = Contents
  <1>1. \A j \in Entries : Loading(j)' <=> Loading(j)
    BY ZenonT(40) DEF Loading
  <1>2. \A s \in Sectors : \A v : Shows(s, v) => Shows(s, v)'
    BY <1>1 DEF Shows, Cached
  <1> QED
    BY <1>2, SameContents
-----------------------------------------------------------------------------
(* A call is an invocation of the store, or a flush, of which the store     *)
(* knows nothing yet.                                                       *)
LEMMA BeginRefines ==
    ASSUME CacheInv, CacheInv', NEW t \in Threads,
           \/ \E s \in Sectors : CallRead(t, s) \/ \E v \in Values : CallWrite(t, s, v)
           \/ CallFlush(t)
    PROVE  DS!Invoke(t) \/ UNCHANGED <<Contents, Calls, since>>
  <1>0. /\ pc[t] = "idle" /\ Goto(t, "enter")
        /\ UNCHANGED <<used, sec_num, data, disk, since, idx>>
    BY Zenon DEF CallRead, CallWrite, CallFlush, Begin, entryVars
  <1>1. Contents' = Contents
    BY <1>0, OutsideContents, Zenon DEF CacheInv, TypeOK, Goto
  <1>2. /\ Calls' = [Calls EXCEPT ![t] = CallOf(t)'] /\ pc'[t] = "enter"
        /\ CallOf(t)' = CallOf(t) => Calls' = Calls
    <2>1. \A u \in Threads \ {t} : op'[u] = op[u] /\ sector'[u] = sector[u] /\ buffer'[u] = buffer[u]
      BY ZenonT(40) DEF CacheInv, TypeOK, CallRead, CallWrite, CallFlush, Begin
    <2> QED
      BY <1>0, <2>1, CallFrame, Zenon
  <1>3. CallOf(t) = NoCall /\ Calls[t] = NoCall
    BY <1>0, Zenon DEF CallOf, Calls
  <1>4. CASE CallFlush(t)
    <2>1. CallOf(t)' = NoCall
      BY <1>4, Zenon DEF CallFlush, Begin, CacheInv, TypeOK, CallOf
    <2> QED
      BY <1>0, <1>1, <1>2, <1>3, <2>1
  <1>5. CASE \E s \in Sectors : CallRead(t, s) \/ \E v \in Values : CallWrite(t, s, v)
    <2>1. \/ op'[t] = "read" /\ sector'[t] \in Sectors /\ buffer'[t] = buffer[t]
          \/ op'[t] = "write" /\ sector'[t] \in Sectors /\ buffer'[t] \in Values
      BY <1>5 DEF CacheInv, TypeOK, CallRead, CallWrite, Begin
    <2>2. buffer[t] = None
      BY <1>0, Zenon DEF CacheInv, CallOK
    <2>3. CallOf(t)' = [op |-> op'[t], sector |-> sector'[t], data |-> buffer'[t], done |-> FALSE]
      BY <1>2, <2>1, Zenon DEF CallOf
    <2>4. CallOf(t)' \in DS!NewCalls
      BY <2>1, <2>2, <2>3, NewCall, Zenon
    <2>5. Calls'[t] = CallOf(t)'
      BY Zenon DEF Calls
    <2> QED
      BY <1>0, <1>1, <1>2, <1>3, <2>4, <2>5, Zenon DEF DS!Invoke, Calls
  <1> QED
    BY <1>4, <1>5

(* A return is a return of the store.                                       *)
LEMMA ReturnRefines ==
    ASSUME CacheInv, CacheInv', NEW t \in Threads, Return(t)
    PROVE  DS!Return(t)
  <1>0. pc[t] = "return" /\ Goto(t, "idle") /\ UNCHANGED <<used, sec_num, data, disk, since>>
    BY Zenon DEF Return, Leave, entryVars
  <1>1. \A u \in Threads \ {t} : /\ op'[u] = op[u] /\ sector'[u] = sector[u]
                                 /\ buffer'[u] = buffer[u] /\ idx'[u] = idx[u] /\ pc'[u] = pc[u]
    BY ZenonT(40) DEF Return, Leave, Goto, CacheInv, TypeOK
  <1>2. Calls' = [Calls EXCEPT ![t] = CallOf(t)'] /\ pc'[t] = "idle"
    BY <1>0, <1>1, CallFrame
  <1>3. Contents' = Contents
    BY <1>0, <1>1, <1>2, OutsideContents, ZenonT(40)
  <1>4. CallOf(t)' = NoCall
    BY <1>2 DEF CallOf
  <1>5. Calls[t] # NoCall /\ Calls[t].done
    <2>1. pc[t] # "idle" /\ op[t] # "flush"
      BY <1>0, Zenon DEF CacheInv, CallOK
    <2>2. /\ Calls[t] # NoCall
          /\ Calls[t] = [op |-> op[t], sector |-> sector[t], data |-> buffer[t], done |-> TRUE]
      BY <1>0, <2>1, InCall, Zenon
    <2>3. PICK c, o, i, d : c = Calls[t] /\ o = op[t] /\ i = sector[t] /\ d = buffer[t]
      OBVIOUS
    <2>4. c = [op |-> o, sector |-> i, data |-> d, done |-> TRUE]
      BY <2>2, <2>3, Zenon
    <2>5. c.done
      BY <2>4, DoneFields
    <2> QED
      BY <2>2, <2>3, <2>5, Zenon
  <1> QED
    BY <1>0, <1>2, <1>3, <1>4, <1>5 DEF DS!Return, Calls

(* A write takes effect, for readers and for a crash, when it is in the     *)
(* cache.                                                                   *)
LEMMA UseWriteRefines ==
    ASSUME CacheInv, CacheInv', NEW t \in Threads, UseWrite(t)
    PROVE  DS!PerformWrite(t)
  <1>0. /\ pc[t] = "use" /\ op[t] = "write" /\ Goto(t, "return")
        /\ since' = [since EXCEPT ![sector[t]] = @ \cup {buffer[t]}]
        /\ UNCHANGED <<used, sec_num, callVars, disk>>
    BY Zenon DEF UseWrite
  <1>1. PICK i \in Entries :
          /\ idx[t] = i /\ data' = [data EXCEPT ![i] = buffer[t]]
          /\ used[i] /\ sec_num[i] = sector[t] /\ sector[t] \in Sectors
    BY <1>0, Zenon DEF UseWrite, CacheInv, PlaceOK, CallOK
  <1>2. \A j \in Entries : data'[j] = IF j = i THEN buffer[t] ELSE data[j]
    BY <1>1, Zenon DEF CacheInv, TypeOK
  <1>3. \A u \in Threads : pc[u] # "load" /\ pc'[u] # "load"
    BY <1>0, Zenon DEF CacheInv, TypeOK, Exclusive, InsideLabels, Goto
  <1>4. \A s \in Sectors : \A j \in Entries : Cached(s, j)' <=> Cached(s, j)
    BY <1>0, <1>3, Zenon DEF Cached, Loading
  <1>5. \A s \in Sectors : Contents'[s] = IF s = sector[t] THEN buffer[t] ELSE Contents[s]
    <2>1. ASSUME NEW s \in Sectors, s # sector[t], NEW v, Shows(s, v) PROVE Shows(s, v)'
      <3>1. ~Cached(s, i)
        BY <1>1, <2>1 DEF Cached
      <3> QED
        BY <1>0, <1>2, <1>4, <2>1, <3>1, ZenonT(40) DEF Shows
    <2>2. ASSUME NEW s \in Sectors, s # sector[t] PROVE Contents'[s] = Contents[s]
      BY <2>1, <2>2, ContentsShows, ContentsShowsPrime
    <2>3. ASSUME NEW s, s = sector[t] PROVE Contents'[s] = buffer[t]
      <3>1. Cached(s, i)' /\ data'[i] = buffer[t]
        BY <1>1, <1>2, <1>3, <1>4, <2>3, ZenonT(30) DEF Cached, Loading
      <3>2. ASSUME NEW v, v = buffer[t] PROVE Shows(s, v)'
        BY <3>1, <3>2 DEF Shows
      <3> QED
        BY <1>1, <2>3, <3>2, ContentsShowsPrime, ZenonT(30)
    <2> QED
      BY <1>1, <2>2, <2>3, Zenon
  <1>6. Contents' = [Contents EXCEPT ![sector[t]] = buffer[t]]
    BY <1>1, <1>5, ContentsShows, ContentsShowsPrime, ZenonT(40)
  <1>7. Calls' = [Calls EXCEPT ![t] = CallOf(t)'] /\ pc'[t] = "return"
    BY <1>0, CallFrame, Zenon DEF callVars
  <1>8. /\ Calls[t] # NoCall
        /\ Calls[t] = [op |-> "write", sector |-> sector[t], data |-> buffer[t], done |-> FALSE]
    BY <1>0, InCall, Zenon
  <1>9. CallOf(t)' = [op |-> "write", sector |-> sector[t], data |-> buffer[t], done |-> TRUE]
    BY <1>0, <1>7, Zenon DEF CallOf, callVars
  <1>10. /\ Calls[t].op = "write" /\ ~Calls[t].done
         /\ Calls[t].sector = sector[t] /\ Calls[t].data = buffer[t]
    <2>1. PICK c : c = Calls[t]
      BY Zenon
    <2>2. c = [op |-> "write", sector |-> sector[t], data |-> buffer[t], done |-> FALSE]
      BY <1>8, <2>1, Zenon
    <2>3. c.op = "write" /\ c.sector = sector[t] /\ c.data = buffer[t] /\ c.done = FALSE
      BY <2>2, Zenon
    <2> QED BY <2>1, <2>3, Zenon
  <1>11. CallOf(t)' = DS!Performed(Calls[t], Calls[t].data)
    BY <1>9, <1>10, Zenon DEF DS!Performed
  <1> QED
    BY <1>0, <1>6, <1>7, <1>8, <1>10, <1>11, Zenon DEF DS!PerformWrite, Calls

(* A read takes effect when the entry is copied.                            *)
LEMMA UseReadRefines ==
    ASSUME CacheInv, CacheInv', NEW t \in Threads, UseRead(t)
    PROVE  DS!PerformRead(t)
  <1>0. /\ pc[t] = "use" /\ op[t] = "read" /\ Goto(t, "return")
        /\ buffer' = [buffer EXCEPT ![t] = data[idx[t]]]
        /\ UNCHANGED <<used, sec_num, data, op, sector, disk, since>>
    BY Zenon DEF UseRead, entryVars
  <1>1. \A u \in Threads : pc[u] # "load" /\ pc'[u] # "load"
    BY <1>0, Zenon DEF CacheInv, TypeOK, Exclusive, InsideLabels, Goto
  <1>2. Contents' = Contents
    BY <1>0, <1>1, OutsideContents, Zenon
  <1>3. sector[t] \in Sectors /\ data[idx[t]] = Contents[sector[t]]
    <2>1. /\ idx[t] \in Entries /\ Cached(sector[t], idx[t]) /\ sector[t] \in Sectors
      BY <1>0, <1>1, ZenonT(40) DEF CacheInv, PlaceOK, CallOK, Cached, Loading
    <2> QED
      BY <2>1, ContentsValue, Zenon
  <1>4. Calls' = [Calls EXCEPT ![t] = CallOf(t)'] /\ pc'[t] = "return"
    BY <1>0, CallFrame DEF CacheInv, TypeOK
  <1>5. /\ Calls[t] # NoCall
        /\ Calls[t] = [op |-> "read", sector |-> sector[t], data |-> buffer[t], done |-> FALSE]
    BY <1>0, InCall, Zenon
  <1>6. CallOf(t)' = [op |-> "read", sector |-> sector[t], data |-> Contents[sector[t]], done |-> TRUE]
    BY <1>0, <1>3, <1>4, Zenon DEF CallOf, CacheInv, TypeOK
  <1>7. Calls[t].op = "read" /\ Calls[t].sector = sector[t] /\ ~Calls[t].done
    <2>1. PICK c, i, d : c = Calls[t] /\ i = sector[t] /\ d = buffer[t]
      OBVIOUS
    <2>2. c = [op |-> "read", sector |-> i, data |-> d, done |-> FALSE]
      BY <1>5, <2>1, Zenon
    <2>3. c.op = "read" /\ c.sector = i /\ ~c.done
      BY <2>2, PendingFields
    <2> QED
      BY <2>1, <2>3, ZenonT(40)
  <1>8. CallOf(t)' = DS!Performed(Calls[t], Contents[Calls[t].sector])
    BY <1>6, <1>7, Zenon DEF DS!Performed
  <1> QED
    BY <1>0, <1>2, <1>4, <1>5, <1>7, <1>8, Zenon DEF DS!PerformRead, Calls

(* The flush takes effect when it has passed over all entries.              *)
LEMMA ScanEndRefines ==
    ASSUME CacheInv, CacheInv', NEW t \in Threads, ScanEnd(t)
    PROVE  DS!Flush
  <1>0. /\ pc[t] = "scan" /\ Goto(t, "idle") /\ since' = [s \in Sectors |-> {Contents[s]}]
        /\ UNCHANGED <<used, sec_num, data, disk>>
    BY Zenon DEF ScanEnd, Leave, entryVars
  <1>1. \A u \in Threads : pc[u] # "load" /\ pc'[u] # "load"
    BY <1>0, Zenon DEF CacheInv, TypeOK, Exclusive, InsideLabels, Goto
  <1>2. Contents' = Contents
    BY <1>0, <1>1, OutsideContents, Zenon
  <1>3. pc'[t] = "idle" /\ (CallOf(t)' = CallOf(t) => Calls' = Calls)
    <2>1. \A u \in Threads \ {t} : op'[u] = op[u] /\ sector'[u] = sector[u] /\ buffer'[u] = buffer[u]
      BY ZenonT(40) DEF ScanEnd, Leave, CacheInv, TypeOK
    <2> QED
      BY <1>0, <2>1, CallFrame, Zenon
  <1>4. CallOf(t)' = CallOf(t)
    BY <1>0, <1>3, Zenon DEF CallOf, CacheInv, CallOK
  <1> QED
    BY <1>0, <1>2, <1>3, <1>4, Zenon DEF DS!Flush, Calls

(* A crash takes each sector back to what the disk has.                     *)
LEMMA CrashRefines ==
    ASSUME CacheInv, CacheInv', Crash
    PROVE  DS!Crash
  <1>1. \A s \in Sectors : Contents'[s] = disk[s]
    <2>1. ASSUME NEW s \in Sectors, NEW v, v = disk[s] PROVE Shows(s, v)'
      BY <2>1, ZenonT(30) DEF Shows, Cached, Crash
    <2> QED
      BY <2>1, ContentsShowsPrime, Zenon
  <1>2. \A s \in Sectors : Contents'[s] \in since[s]
    BY <1>1, ZenonT(30) DEF CacheInv, Durable, FlushDurable
  <1>3. since' = [s \in Sectors |-> {Contents'[s]}]
    BY <1>1, Zenon DEF Crash
  <1>4. Calls' = [t \in Threads |-> NoCall]
    BY DEF Calls, CallOf, Crash
  <1> QED
    BY <1>2, <1>3, <1>4 DEF DS!Crash, Calls

(* Every step of the cache is a step of the durable store or none.          *)
LEMMA StepRefines ==
    CacheInv /\ CacheInv' /\ [Next]_vars => [DS!StoreNext]_<<Contents, Calls, since>>
  <1> SUFFICES ASSUME CacheInv, CacheInv', [Next]_vars
               PROVE  DS!StoreNext \/ UNCHANGED <<Contents, Calls, since>>
    BY Zenon
  <1>1. CASE UNCHANGED vars \/ Tick
    <2>1. UNCHANGED <<used, sec_num, data, disk, since, pc, op, sector, buffer, idx>>
      BY <1>1, ZenonT(40) DEF vars, entryVars, callVars, Tick
    <2>2. Calls' = Calls
      BY <2>1, ZenonT(40) DEF Calls, CallOf
    <2> QED
      BY <2>1, <2>2, OutsideContents
  <1>2. ASSUME NEW t \in Threads,
               Enter(t) \/ Lookup(t) \/ Evict(t) \/ Load(t) \/ Scan(t)
        PROVE  UNCHANGED <<Contents, Calls, since>>
    <2>1. since' = since
      BY <1>2, Zenon DEF Enter, Lookup, Evict, Load, Scan
    <2> QED
      BY <1>2, <2>1, EnterContents, LookupContents, EvictContents, LoadContents, ScanContents, Zenon
  <1>3. ASSUME NEW t \in Threads,
               UseWrite(t) \/ UseRead(t) \/ ScanEnd(t) \/ Return(t)
        PROVE  DS!StoreNext
    BY <1>3, UseWriteRefines, UseReadRefines, ScanEndRefines, ReturnRefines DEF DS!StoreNext
  <1>4. CASE Crash
    BY <1>4, CrashRefines DEF DS!StoreNext
  <1>5. ASSUME NEW t \in Threads,
               \/ \E s \in Sectors : CallRead(t, s) \/ \E v \in Values : CallWrite(t, s, v)
               \/ CallFlush(t)
        PROVE  DS!StoreNext \/ UNCHANGED <<Contents, Calls, since>>
    BY <1>5, BeginRefines DEF DS!StoreNext
  <1> QED
    BY <1>1, <1>2, <1>3, <1>4, <1>5 DEF Next, Inside

(* The cache is transparent and its flush durable, for any number of        *)
(* threads and entries: every buffer_cache_read and buffer_cache_write      *)
(* takes effect at one moment of its call, and a crash undoes no write that *)
(* a completed buffer_cache_flush_all followed.                             *)
THEOREM CacheIsDurableStore == Spec => CacheRefinement
  <1>1. Init => DS!StoreInit
    <2> SUFFICES ASSUME Init PROVE DS!StoreInit
      OBVIOUS
    <2>1. Contents = disk
      BY Zenon DEF Init, Contents, Cached
    <2>2. [t \in Threads |-> CallOf(t)] = [t \in Threads |-> NoCall]
      BY DEF Init, CallOf
    <2> QED
      BY <2>1, <2>2, Zenon DEF DS!StoreInit, Init
  <1>2. CacheInv /\ CacheInv' /\ [Next]_vars
          => [DS!StoreNext]_<<Contents, [t \in Threads |-> CallOf(t)], since>>
    BY StepRefines DEF Calls
  <1> QED
    BY <1>1, <1>2, CacheInvariant, PTL DEF Spec, CacheRefinement, DS!Spec
-----------------------------------------------------------------------------
Lib == INSTANCE FiniteSetTheorems

(* The theorems of Lib are about the same cardinality.                      *)
LEMMA SameCardinality ==
    ASSUME NEW S
    PROVE  Cardinality(S) = Lib!Cardinality(S)
  BY Zenon DEF Cardinality, Lib!Cardinality

(* cache_sema is down exactly while one thread is inside the cache.         *)
THEOREM SemaIsAccounted == Spec => []SemaAccounted
  <1>1. CacheInv => SemaAccounted
    <2> SUFFICES ASSUME CacheInv PROVE SemaAccounted
      OBVIOUS
    <2> DEFINE In == {t \in Threads : pc[t] \in InsideLabels}
    <2>1. CASE cache_sema = 1
      <3>1. In = {}
        BY <2>1 DEF CacheInv, Exclusive
      <3>2. Cardinality(In) = 0
        BY <3>1, SameCardinality, Lib!FS_EmptySet
      <3> QED
        BY <2>1, <3>2 DEF SemaAccounted, InsideLabels
    <2>2. CASE cache_sema = 0
      <3>1. PICK t \in Threads : pc[t] \in InsideLabels
        BY <2>2 DEF CacheInv, Exclusive
      <3>2. In = {t}
        BY <3>1 DEF CacheInv, Exclusive
      <3>3. Cardinality(In) = 1
        BY <3>2, SameCardinality, Lib!FS_Singleton, Zenon
      <3> QED
        BY <2>2, <3>3 DEF SemaAccounted, InsideLabels
    <2> QED
      BY <2>1, <2>2 DEF CacheInv, TypeOK
  <1> QED
    BY <1>1, CacheInvariant, PTL
=============================================================================
