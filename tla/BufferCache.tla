---------------------------- MODULE BufferCache -----------------------------
(***************************************************************************)
(* The write-back buffer cache of filesys/cache.c.  All its users go       *)
(* through cache_sema; a disk access inside takes time, so other threads   *)
(* run then.  The disk is used through what module Disk shows of it: a     *)
(* disk_read or disk_write takes effect at one moment.                     *)
(*                                                                         *)
(* Any thread may call buffer_cache_read, buffer_cache_write and           *)
(* buffer_cache_flush_all at any time; the thread of periodic_flush_all is *)
(* one that only flushes.  A crash loses the cache and keeps the disk.     *)
(***************************************************************************)
EXTENDS Naturals, FiniteSets

CONSTANTS Threads,
          N,                \* number of cache entries, 64 in the code
          Sectors, Values, NoCall,
          None,             \* contents of memory that is not in use
          MaxTicks          \* bound on the timer

ASSUME CacheAssumption ==
    /\ N \in Nat \ {0}
    /\ None \notin Sectors /\ None \notin Values
    /\ NoCall \notin [op : {"read", "write"}, sector : Sectors,
                      data : Values \cup {None}, done : BOOLEAN]
    /\ MaxTicks \in Nat

VARIABLES
    cache_sema,
    used, dirty, sec_num, data, access_time,   \* struct buffer_cache_entry
    pc, op, sector, buffer,                    \* each thread's call
    idx,                                       \* and its entry or loop index
    disk, ticks,
    since        \* the values a sector has had since the last whole flush

entryVars == <<used, dirty, sec_num, data, access_time>>
callVars == <<op, sector, buffer>>
vars == <<cache_sema, entryVars, pc, callVars, idx, disk, ticks, since>>

Entries == 1 .. N

(* After buffer_cache_init (), on a disk with some contents.                *)
Init ==
    /\ cache_sema = 1
    /\ used = [i \in Entries |-> FALSE]
    /\ dirty = [i \in Entries |-> FALSE]
    /\ access_time = [i \in Entries |-> 0]
    /\ sec_num = [i \in Entries |-> None]
    /\ data = [i \in Entries |-> None]
    /\ sector = [t \in Threads |-> None]
    /\ buffer = [t \in Threads |-> None]
    /\ pc = [t \in Threads |-> "idle"]
    /\ op = [t \in Threads |-> "flush"]
    /\ idx = [t \in Threads |-> 1]
    /\ disk \in [Sectors -> Values]
    /\ ticks = 0
    /\ since = [s \in Sectors |-> {disk[s]}]

Goto(t, label) == pc' = [pc EXCEPT ![t] = label]

(* The function returns and its variables are gone.                         *)
Leave(t) ==
    /\ Goto(t, "idle")
    /\ op' = [op EXCEPT ![t] = "flush"]
    /\ sector' = [sector EXCEPT ![t] = None]
    /\ buffer' = [buffer EXCEPT ![t] = None]
    /\ idx' = [idx EXCEPT ![t] = 1]
-----------------------------------------------------------------------------
(* The entries buffer_cache_find returns: at most one, by CacheCoherent.    *)
Hit(s, i) ==
    /\ used[i] /\ sec_num[i] = s
    /\ \A j \in 1 .. i - 1 : ~(used[j] /\ sec_num[j] = s)

(* The entry that buffer_cache_lru_eviction returns.                        *)
Victim(i) ==
    IF \E j \in Entries : ~used[j]
    THEN ~used[i] /\ \A j \in 1 .. i - 1 : used[j]
    ELSE \A j \in Entries : /\ access_time[i] <= access_time[j]
                            /\ j < i => access_time[i] < access_time[j]

(* disk_write (..., sec_num, buffer): the effect of buffer_cache_flush on   *)
(* the disk.                                                                *)
DiskWrite(i) == disk' = [disk EXCEPT ![sec_num[i]] = data[i]]

(* The entry is given to a sector, which is read into it afterwards.        *)
Claim(t, i) ==
    /\ used' = [used EXCEPT ![i] = TRUE]
    /\ dirty' = [dirty EXCEPT ![i] = FALSE]
    /\ sec_num' = [sec_num EXCEPT ![i] = sector[t]]
    /\ Goto(t, "load")
-----------------------------------------------------------------------------
(* A call of buffer_cache_read, buffer_cache_write or                       *)
(* buffer_cache_flush_all.                                                  *)
Begin(t, o) ==
    /\ pc[t] = "idle"
    /\ op' = [op EXCEPT ![t] = o]
    /\ Goto(t, "enter")
    /\ UNCHANGED <<cache_sema, entryVars, idx, disk, ticks, since>>

CallRead(t, s) ==
    /\ Begin(t, "read")
    /\ sector' = [sector EXCEPT ![t] = s]
    /\ UNCHANGED buffer

CallWrite(t, s, v) ==
    /\ Begin(t, "write")
    /\ sector' = [sector EXCEPT ![t] = s]
    /\ buffer' = [buffer EXCEPT ![t] = v]

CallFlush(t) == Begin(t, "flush") /\ UNCHANGED <<sector, buffer>>

(* sema_down (&cache_sema).                                                 *)
Enter(t) ==
    /\ pc[t] = "enter"
    /\ cache_sema > 0
    /\ cache_sema' = cache_sema - 1
    /\ idx' = [idx EXCEPT ![t] = 1]
    /\ Goto(t, IF op[t] = "flush" THEN "scan" ELSE "lookup")
    /\ UNCHANGED <<entryVars, callVars, disk, ticks, since>>

(* buffer_cache_find, and on a miss the choice of the victim.               *)
Lookup(t) ==
    /\ pc[t] = "lookup"
    /\ \E i \in Entries :
         /\ idx' = [idx EXCEPT ![t] = i]
         /\ \/ /\ Hit(sector[t], i)
               /\ Goto(t, "use")
               /\ UNCHANGED <<used, dirty, sec_num>>
            \/ /\ \A j \in Entries : ~Hit(sector[t], j)
               /\ Victim(i)
               /\ IF dirty[i]
                  THEN Goto(t, "evict") /\ UNCHANGED <<used, dirty, sec_num>>
                  ELSE Claim(t, i)
    /\ UNCHANGED <<cache_sema, data, access_time, callVars, disk, ticks, since>>

EvictWithoutFlush(t) ==
    /\ pc[t] = "evict"
    /\ Claim(t, idx[t])
    /\ UNCHANGED <<cache_sema, data, access_time, callVars, idx, disk, ticks, since>>

(* buffer_cache_flush of the victim.                                        *)
Evict(t) ==
    /\ pc[t] = "evict"
    /\ DiskWrite(idx[t])
    /\ Claim(t, idx[t])
    /\ UNCHANGED <<cache_sema, data, access_time, callVars, idx, ticks, since>>

(* disk_read (..., sector, buffer_cache[evict_idx].buffer).                 *)
Load(t) ==
    /\ pc[t] = "load"
    /\ data' = [data EXCEPT ![idx[t]] = disk[sector[t]]]
    /\ Goto(t, "use")
    /\ UNCHANGED <<cache_sema, used, dirty, sec_num, access_time, callVars, idx, disk,
                   ticks, since>>

(* The end of buffer_cache_write.                                           *)
UseWrite(t) ==
    /\ pc[t] = "use"
    /\ op[t] = "write"
    /\ dirty' = [dirty EXCEPT ![idx[t]] = TRUE]
    /\ access_time' = [access_time EXCEPT ![idx[t]] = ticks]
    /\ data' = [data EXCEPT ![idx[t]] = buffer[t]]
    /\ since' = [since EXCEPT ![sector[t]] = @ \cup {buffer[t]}]
    /\ cache_sema' = cache_sema + 1
    /\ Goto(t, "return")
    /\ idx' = [idx EXCEPT ![t] = 1]
    /\ UNCHANGED <<used, sec_num, callVars, disk, ticks>>

UseReadKeepsSema(t) ==
    /\ pc[t] = "use"
    /\ op[t] = "read"
    /\ buffer' = [buffer EXCEPT ![t] = data[idx[t]]]
    /\ Goto(t, "return")
    /\ idx' = [idx EXCEPT ![t] = 1]
    /\ UNCHANGED <<cache_sema, entryVars, op, sector, disk, ticks, since>>

(* The end of buffer_cache_read, up to its call of read_ahead.              *)
UseRead(t) ==
    /\ pc[t] = "use"
    /\ op[t] = "read"
    /\ buffer' = [buffer EXCEPT ![t] = data[idx[t]]]
    /\ cache_sema' = cache_sema + 1
    /\ Goto(t, "return")
    /\ idx' = [idx EXCEPT ![t] = 1]
    /\ UNCHANGED <<entryVars, op, sector, disk, ticks, since>>

(* The return, after read_ahead () in buffer_cache_read: that reads the     *)
(* sector into a buffer of its own, for a thread that never uses it, since  *)
(* while (read_ahead_flag = 1) in read_ahead_func does not end.             *)
Return(t) ==
    /\ pc[t] = "return"
    /\ Leave(t)
    /\ UNCHANGED <<cache_sema, entryVars, disk, ticks, since>>

ScanClearsOnly(t) ==
    /\ pc[t] = "scan"
    /\ idx[t] \in Entries
    /\ dirty' = [dirty EXCEPT ![idx[t]] = FALSE]
    /\ idx' = [idx EXCEPT ![t] = @ + 1]
    /\ UNCHANGED <<cache_sema, used, sec_num, data, access_time, pc, callVars, disk,
                   ticks, since>>

ScanSkipsLast(t) ==
    /\ pc[t] = "scan"
    /\ idx[t] \in Entries
    /\ IF dirty[idx[t]] /\ idx[t] < N
       THEN DiskWrite(idx[t]) /\ dirty' = [dirty EXCEPT ![idx[t]] = FALSE]
       ELSE UNCHANGED <<disk, dirty>>
    /\ idx' = [idx EXCEPT ![t] = @ + 1]
    /\ UNCHANGED <<cache_sema, used, sec_num, data, access_time, pc, callVars, ticks,
                   since>>

(* One turn of buffer_cache_flush_all's loop.                               *)
Scan(t) ==
    /\ pc[t] = "scan"
    /\ idx[t] \in Entries
    /\ IF dirty[idx[t]]
       THEN DiskWrite(idx[t]) /\ dirty' = [dirty EXCEPT ![idx[t]] = FALSE]
       ELSE UNCHANGED <<disk, dirty>>
    /\ idx' = [idx EXCEPT ![t] = @ + 1]
    /\ UNCHANGED <<cache_sema, used, sec_num, data, access_time, pc, callVars, ticks,
                   since>>
-----------------------------------------------------------------------------
(* An entry whose sector is still to be read from the disk.                 *)
Loading(i) == \E t \in Threads : pc[t] = "load" /\ idx[t] = i

Cached(s, i) == used[i] /\ sec_num[i] = s /\ ~Loading(i)

(* The contents of the file system's disk as its users see them.            *)
Contents == [s \in Sectors |-> IF \E i \in Entries : Cached(s, i)
                               THEN data[CHOOSE i \in Entries : Cached(s, i)]
                               ELSE disk[s]]

(* The end of buffer_cache_flush_all.                                       *)
ScanEnd(t) ==
    /\ pc[t] = "scan"
    /\ idx[t] \notin Entries
    /\ cache_sema' = cache_sema + 1
    /\ since' = [s \in Sectors |-> {Contents[s]}]
    /\ Leave(t)
    /\ UNCHANGED <<entryVars, disk, ticks>>

Tick ==
    /\ ticks < MaxTicks
    /\ ticks' = ticks + 1
    /\ UNCHANGED <<cache_sema, entryVars, pc, callVars, idx, disk, since>>

(* The machine stops and starts again with the disk it has.                 *)
Crash ==
    /\ cache_sema' = 1
    /\ used' = [i \in Entries |-> FALSE]
    /\ dirty' = [i \in Entries |-> FALSE]
    /\ access_time' = [i \in Entries |-> 0]
    /\ sec_num' = [i \in Entries |-> None]
    /\ data' = [i \in Entries |-> None]
    /\ pc' = [t \in Threads |-> "idle"]
    /\ op' = [t \in Threads |-> "flush"]
    /\ sector' = [t \in Threads |-> None]
    /\ buffer' = [t \in Threads |-> None]
    /\ idx' = [t \in Threads |-> 1]
    /\ since' = [s \in Sectors |-> {disk[s]}]
    /\ ticks' = 0
    /\ UNCHANGED disk

Inside(t) ==
    \/ Lookup(t) \/ Evict(t) \/ Load(t) \/ UseWrite(t) \/ UseRead(t)
    \/ Scan(t) \/ ScanEnd(t) \/ Return(t)

Next ==
    \/ \E t \in Threads :
         \/ \E s \in Sectors : CallRead(t, s) \/ \E v \in Values : CallWrite(t, s, v)
         \/ CallFlush(t)
         \/ Enter(t)
         \/ Inside(t)
    \/ Tick
    \/ Crash

Spec == Init /\ [][Next]_vars
-----------------------------------------------------------------------------
(* buffer_cache_find may stop at the first match: no sector is in the cache *)
(* twice.  A clean entry has what the disk has, so dropping it loses        *)
(* nothing.                                                                 *)
CacheCoherent ==
    /\ \A i, j \in Entries : used[i] /\ used[j] /\ sec_num[i] = sec_num[j] => i = j
    /\ \A i \in Entries :
         used[i] /\ ~dirty[i] /\ ~Loading(i) => data[i] = disk[sec_num[i]]
    /\ \A i \in Entries : dirty[i] => used[i]

(* After a crash a sector holds a value it had at, or was given after, the  *)
(* last buffer_cache_flush_all that ran to its end: nothing written before  *)
(* that flush can be lost.                                                  *)
FlushDurable == \A s \in Sectors : disk[s] \in since[s]

CallOf(t) == IF pc[t] = "idle" \/ op[t] = "flush" THEN NoCall
             ELSE [op |-> op[t], sector |-> sector[t], data |-> buffer[t],
                   done |-> pc[t] = "return"]

DS == INSTANCE DurableStore
        WITH store <- Contents, call <- [t \in Threads |-> CallOf(t)], may <- since,
             NoData <- None

(* The cache is transparent and its flush durable: to its users it is a     *)
(* store in which every read and write takes effect at one moment, whatever *)
(* is evicted, flushed or loaded meanwhile, and a crash undoes no write     *)
(* that a completed buffer_cache_flush_all followed.                        *)
CacheRefinement == DS!Spec

(* Every path through the cache gives cache_sema back, once: it is down     *)
(* exactly while a thread is between sema_down and sema_up.                 *)
SemaAccounted ==
    cache_sema + Cardinality({t \in Threads :
                                pc[t] \in {"lookup", "evict", "load", "use", "scan"}}) = 1
=============================================================================
