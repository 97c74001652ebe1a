--------------------------------- MODULE VM ---------------------------------
(***************************************************************************)
(* Paging: the frame table (vm/frame.c), the supplemental page tables      *)
(* (vm/page.c), swapping (vm/swap.c), page directories                     *)
(* (userprog/pagedir.c), page_fault, stack growth, mmap and munmap.        *)
(*                                                                         *)
(* A process runs programs one at a time and waits for each, so that the   *)
(* process last created is the one that runs.  What the functions change   *)
(* is the record vm, which they take and return; kpage is the result of    *)
(* frame_get_fte.  A slot of swap stands for the eight sectors of a page.  *)
(***************************************************************************)
EXTENDS Integers, FiniteSets, SequencesExt

CONSTANTS
    Procs,          \* 1 .. n: process i + 1 is a child of process i
    Code, Data,     \* pages of the segments that are read-only and writable
    Stack,          \* pages of the stack, the highest of which is set up first
    Mapped,         \* pages that are mapped to a file
    Frames,         \* pages of the user pool
    Slots,          \* of the swap disk
    MIN_OWN         \* frames a process has before it evicts its own (5)

Pages == Code \cup Data \cup Stack \cup Mapped
NONE == 0

ASSUME VMAssumption ==
    /\ Procs = 1 .. Cardinality(Procs)
    /\ Pages \subseteq Nat \ {0} /\ Frames \subseteq Nat \ {0} /\ Slots \subseteq Nat \ {0}
    /\ Stack # {} /\ MIN_OWN \in Nat

VARIABLES vm,
          live,     \* processes 1 .. live exist, and process live runs
          mmf_list, \* the processes that have the file mapped
          file      \* what each page of the mapped file holds

vars == <<vm, live, mmf_list, file>>

(* Contents of a page: nothing but zeros, a page of the executable or of    *)
(* the file, the arguments, or what a process wrote.                        *)
Content(kind, p, u) == [kind |-> kind, p |-> p, u |-> u]
NoPage == Content("none", 0, 0)
Zero == Content("zero", 0, 0)
Filled == Content("0xcc", 0, 0)
Args == Content("args", 0, 0)
Exe(u) == Content("exe", 0, u)
User(p, u) == Content("user", p, u)

(* A page table entry, as lazy_load and page_map make it; and an entry of a *)
(* page directory.                                                          *)
NoPTE == [paddr |-> NONE, swapped |-> FALSE, load |-> FALSE, loaded |-> FALSE,
          writable |-> FALSE, valid |-> FALSE]
Lazy(u) == [NoPTE EXCEPT !.load = TRUE, !.writable = u \notin Code, !.valid = TRUE]
Resident(k, w) == [NoPTE EXCEPT !.paddr = k, !.writable = w, !.valid = TRUE]
NotPresent == [frame |-> NONE, writable |-> FALSE, dirty |-> FALSE]

Top == CHOOSE u \in Stack : \A x \in Stack : x <= u

Init ==
    /\ vm = [fte |-> <<>>, free |-> Frames, kpage |-> NONE,
             mem |-> [k \in Frames |-> Filled],
             pd |-> [p \in Procs |-> [u \in Pages |-> NotPresent]],
             pt |-> [p \in Procs |-> [u \in Pages |-> NoPTE]],
             ste |-> [p \in Procs |-> [u \in Pages |-> NONE]],
             used |-> {}, swap |-> [s \in Slots |-> Zero], panic |-> "none"]
    /\ live = 0
    /\ mmf_list = {}
    /\ file = [u \in Mapped |-> Exe(u)]

(* The next step of a function, unless the kernel has panicked.             *)
Then(s, Step(_)) == IF s.panic = "none" THEN Step(s) ELSE s
Panic(s, why) == [s EXCEPT !.panic = why]
-----------------------------------------------------------------------------
(* frame.c                                                                  *)

frame_get_fte(s, p, u) ==
    IF s.free = {} THEN [s EXCEPT !.kpage = NONE]
    ELSE LET k == CHOOSE k \in s.free : \A x \in s.free : k <= x
         IN  [s EXCEPT !.kpage = k, !.free = @ \ {k}, !.mem[k] = Zero,
                       !.fte = Append(@, [paddr |-> k, uaddr |-> u, usertid |-> p])]

FrameFte(s, k) == {i \in DOMAIN s.fte : s.fte[i].paddr = k}

(* Mutant: the frame is not given back to the pool.                         *)
RemoveLeaks(s, p, k) ==
    IF FrameFte(s, k) = {} THEN s
    ELSE LET i == CHOOSE i \in FrameFte(s, k) : TRUE
         IN  [s EXCEPT !.fte = RemoveAt(@, i), !.pd[p][s.fte[i].uaddr] = NotPresent]

(* frame_remove_fte run by p, and parent_remove_fte for p.  The bits that a *)
(* page keeps when it is no longer present are never looked at.             *)
frame_remove_fte(s, p, k) ==
    IF FrameFte(s, k) = {} THEN s
    ELSE LET i == CHOOSE i \in FrameFte(s, k) : TRUE
         IN  [s EXCEPT !.fte = RemoveAt(@, i), !.free = @ \cup {k},
                       !.mem[k] = Filled,
                       !.pd[p][s.fte[i].uaddr] = NotPresent]
-----------------------------------------------------------------------------
(* swap.c                                                                   *)

(* Mutant: the slot is written but not marked in the bitmap.                *)
SwapOutUnmarked(s, p, u) ==
    LET slot == CHOOSE i \in Slots \ s.used : \A x \in Slots \ s.used : i <= x
        k == s.pt[p][u].paddr
    IN  frame_remove_fte([s EXCEPT !.ste[p][u] = IF @ = NONE THEN slot ELSE @,
                                   !.pt[p][u].swapped = TRUE,
                                   !.swap[slot] = s.mem[k]], p, k)

(* swap_out of page u of p, and swap_parent for a page of the parent p.     *)
swap_out(s, p, u) ==
    LET slot == CHOOSE i \in Slots \ s.used : \A x \in Slots \ s.used : i <= x
        k == s.pt[p][u].paddr
    IN  IF Slots \subseteq s.used THEN Panic(s, "swap full")
        ELSE frame_remove_fte([s EXCEPT !.ste[p][u] = IF @ = NONE THEN slot ELSE @,
                                        !.pt[p][u].swapped = TRUE,
                                        !.swap[slot] = s.mem[k],
                                        !.used = @ \cup {slot}], p, k)

Own(s, p) == SelectSeq(s.fte, LAMBDA f : f.usertid = p)

(* Mutant: off by one in the number of frames a process keeps.              *)
EvictAbove(s, p) ==
    IF Len(Own(s, p)) > MIN_OWN THEN swap_out(s, p, Own(s, p)[1].uaddr)
    ELSE IF Own(s, p - 1) # <<>> THEN swap_out(s, p - 1, Own(s, p - 1)[1].uaddr)
    ELSE Panic(s, "no victim")

(* frame_fifo_fte, and swap_out of what it returns.  When the parent has no *)
(* frame either, the code goes on with the last entry of the list as if it  *)
(* were the parent's.                                                       *)
Evict(s, p) ==
    IF Len(Own(s, p)) >= MIN_OWN THEN swap_out(s, p, Own(s, p)[1].uaddr)
    ELSE IF Own(s, p - 1) # <<>> THEN swap_out(s, p - 1, Own(s, p - 1)[1].uaddr)
    ELSE Panic(s, "no victim")

GetFrame(s, p, u) ==
    LET Retry(r) == frame_get_fte(r, p, u)
        Check(r) == IF r.kpage = NONE THEN Panic(r, "ASSERT (kpage != NULL)") ELSE r
        First    == frame_get_fte(s, p, u)
    IN  IF First.kpage # NONE THEN First
        ELSE Then(Then(Evict(s, p), Retry), Check)

(* pagedir_set_page of a page that must not be mapped yet.                  *)
install_page(s, p, u, k, w) ==
    IF s.pd[p][u].frame # NONE THEN Panic(s, "ASSERT (pagedir_get_page == NULL)")
    ELSE [s EXCEPT !.pd[p][u] = [frame |-> k, writable |-> w, dirty |-> FALSE]]

(* swap_remove_ste, which leaves the bitmap alone.                          *)
swap_remove_ste(s, p, u) == [s EXCEPT !.ste[p][u] = NONE]

(* Mutant: the entry stays in the swap table.                               *)
SwapInKeepsEntry(s, p, u) ==
    LET Fill(r) == IF r.kpage = NONE THEN r
                   ELSE install_page([r EXCEPT !.mem[r.kpage] = s.swap[s.ste[p][u]],
                                               !.used = @ \ {s.ste[p][u]},
                                               !.pt[p][u].paddr = r.kpage,
                                               !.pt[p][u].swapped = FALSE],
                                     p, u, r.kpage, TRUE)
    IN  Fill(frame_get_fte(s, p, u))

swap_in(s, p, u) ==
    LET Fill(r) == IF r.kpage = NONE THEN r
                   ELSE swap_remove_ste(
                          install_page([r EXCEPT !.mem[r.kpage] = s.swap[s.ste[p][u]],
                                                 !.used = @ \ {s.ste[p][u]},
                                                 !.pt[p][u].paddr = r.kpage,
                                                 !.pt[p][u].swapped = FALSE],
                                       p, u, r.kpage, TRUE), p, u)
    IN  Fill(frame_get_fte(s, p, u))
-----------------------------------------------------------------------------
(* page.c                                                                   *)

actual_load(s, p, u) ==
    LET Load(r) == install_page([r EXCEPT !.pt[p][u].paddr = r.kpage,
                                          !.pt[p][u].loaded = TRUE,
                                          !.mem[r.kpage] = Exe(u)],
                                p, u, r.kpage, s.pt[p][u].writable)
    IN  Then(GetFrame(s, p, u), Load)

page_map(s, p, u, k, w) == [s EXCEPT !.pt[p][u] = Resident(k, w)]
page_remove_pte(s, p, u) == [s EXCEPT !.pt[p][u] = NoPTE]

(* A fresh page of the stack or of a mapping, with contents c.              *)
NewPage(s, p, u, c, w) ==
    LET Put(r) == page_map(install_page([r EXCEPT !.mem[r.kpage] = c], p, u, r.kpage, TRUE),
                           p, u, r.kpage, w)
    IN  Then(GetFrame(s, p, u), Put)

(* Page by page: the frame that paddr names, the swap table entry, the page *)
(* table entry.                                                             *)
page_clear_all(s, p) ==
    LET Clear(r, u) == page_remove_pte(swap_remove_ste(
                         frame_remove_fte(r, p, r.pt[p][u].paddr), p, u), p, u)
    IN  FoldLeft(Clear, s, SetToSeq({u \in Pages : s.pt[p][u].valid}))

pagedir_destroy(s, p) ==
    [s EXCEPT !.free = @ \cup ({s.pd[p][u].frame : u \in Pages} \ {NONE}),
              !.pd[p] = [u \in Pages |-> NotPresent]]
-----------------------------------------------------------------------------
Run(p) == p = live /\ vm.panic = "none"

(* What a slot holds that no table names is never read again.               *)
Named(r) == {r.ste[p][u] : p \in Procs, u \in Pages}
Commit(r) == vm' = [r EXCEPT !.kpage = NONE,
                             !.swap = [i \in Slots |-> IF i \in Named(r) THEN @[i] ELSE Zero]]

(* A program starts: load lists the pages of its segments and setup_stack   *)
(* writes the arguments on the first page of the stack.                     *)
load(s, p) ==
    LET Segments(r) == [r EXCEPT !.pt[p] = [u \in Pages |-> IF u \in Code \cup Data
                                                           THEN Lazy(u) ELSE NoPTE]]
    IN  NewPage(Segments(s), p, Top, Args, FALSE)

Exec ==
    /\ vm.panic = "none"
    /\ live + 1 \in Procs
    /\ live' = live + 1
    /\ \E r \in {load(vm, live + 1)} : Commit(r)
    /\ UNCHANGED <<mmf_list, file>>

(* The program writes to a page, which the hardware marks dirty; only       *)
(* munmap looks at the mark.                                                *)
Write(p, u) ==
    /\ Run(p)
    /\ vm.pd[p][u].frame # NONE
    /\ vm.pd[p][u].writable
    /\ Commit([vm EXCEPT !.mem[vm.pd[p][u].frame] = User(p, u),
                         !.pd[p][u].dirty = u \in Mapped])
    /\ UNCHANGED <<live, mmf_list, file>>

Unloaded(s, p, u) == s.pt[p][u].load /\ ~s.pt[p][u].loaded

(* page_fault, when it returns to the program: the page is loaded, the      *)
(* stack grows, or the page is swapped in.  In every other case the process *)
(* exits, as it may at any time.                                            *)
fault(s, p, u) ==
    LET In(r) == swap_in(r, p, u)
    IN  IF Unloaded(s, p, u) THEN actual_load(s, p, u)
        ELSE IF ~s.pt[p][u].valid THEN NewPage(s, p, u, Zero, TRUE)
        ELSE IF s.free # {} THEN In(s)
        ELSE Then(Evict(s, p), In)

PageFault(p, u) ==
    /\ Run(p)
    /\ vm.pd[p][u].frame = NONE
    /\ \/ Unloaded(vm, p, u)
       \/ ~vm.pt[p][u].valid /\ u \in Stack
       \/ vm.pt[p][u].valid /\ vm.pt[p][u].swapped
    /\ \E r \in {fault(vm, p, u)} : Commit(r)
    /\ UNCHANGED <<live, mmf_list, file>>
-----------------------------------------------------------------------------
Ascending(S) == SetToSortSeq(S, <)

syscall_mmap(p) ==
    LET MapPage(s, u) == Then(s, LAMBDA r : NewPage(r, p, u, file[u], TRUE))
    IN  /\ Run(p)
        /\ \A u \in Mapped : ~vm.pt[p][u].valid
        /\ \E r \in {FoldLeft(MapPage, vm, Ascending(Mapped))} : Commit(r)
        /\ mmf_list' = mmf_list \cup {p}
        /\ UNCHANGED <<live, file>>

(* Pages that are swapped out come back, at the cost of another page even   *)
(* when frames are free.                                                    *)
BringBack(s, p, u) ==
    LET In(r) == swap_in(r, p, u)
    IN  IF s.panic = "none" /\ s.pt[p][u].swapped THEN Then(Evict(s, p), In) ELSE s

(* The loop of munmap: page by page, brought back and, when it is dirty,    *)
(* written to the file behind the n pages written before it.                *)
WriteBackPage(a, p, u) ==
    LET Save(r) == IF r.panic = "none" /\ r.pd[p][u].dirty
                   THEN [s |-> r, n |-> a.n + 1,
                         file |-> [a.file EXCEPT ![Ascending(Mapped)[a.n + 1]] =
                                     r.mem[r.pt[p][u].paddr]]]
                   ELSE [a EXCEPT !.s = r]
    IN  Save(BringBack(a.s, p, u))

WrittenBack(p) == FoldLeft(LAMBDA a, u : WriteBackPage(a, p, u),
                           [s |-> vm, file |-> file, n |-> 0], Ascending(Mapped))

unmap(s, p) ==
    LET Unmap(r, u) == page_remove_pte(frame_remove_fte(r, p, r.pt[p][u].paddr), p, u)
    IN  Then(s, LAMBDA r : FoldLeft(Unmap, r, Ascending(Mapped)))

syscall_munmap(p) ==
    /\ Run(p)
    /\ p \in mmf_list
    /\ mmf_list' = mmf_list \ {p}
    /\ \E a \in {WrittenBack(p)} :
         /\ file' = a.file
         /\ \E s \in {unmap(a.s, p)} : Commit(s)
    /\ UNCHANGED live

(* process_exit: every mapping, every page, the page directory.             *)
Exit(p) ==
    LET Clear(r) == pagedir_destroy(page_clear_all(r, p), p)
    IN  /\ Run(p)
        /\ \E a \in {IF p \in mmf_list THEN WrittenBack(p) ELSE [s |-> vm, file |-> file]} :
             /\ file' = a.file
             /\ \E s \in {IF p \in mmf_list THEN unmap(a.s, p) ELSE a.s} :
                  \E c \in {Then(s, Clear)} : Commit(c)
        /\ mmf_list' = mmf_list \ {p}
        /\ live' = live - 1

Next ==
    \/ Exec
    \/ \E p \in Procs :
         \/ syscall_mmap(p)
         \/ syscall_munmap(p)
         \/ Exit(p)
         \/ \E u \in Pages : Write(p, u) \/ PageFault(p, u)

Spec == Init /\ [][Next]_vars
-----------------------------------------------------------------------------
(* A frame is either free in the user pool or has one entry in the frame    *)
(* table, and between the operations the entries are exactly the pages that *)
(* are present: no frame is mapped twice, reachable after it was freed, or  *)
(* lost (frame_get_fte, frame_remove_fte, page_clear_all).                  *)
FramesAccounted ==
    vm.panic = "none" =>
      /\ vm.free = Frames \ {vm.fte[i].paddr : i \in DOMAIN vm.fte}
      /\ \A i, j \in DOMAIN vm.fte : vm.fte[i].paddr = vm.fte[j].paddr => i = j
      /\ {<<vm.fte[i].usertid, vm.fte[i].uaddr, vm.fte[i].paddr>> : i \in DOMAIN vm.fte}
           = {<<p, u, vm.pd[p][u].frame>> : p \in Procs, u \in Pages}
               \ {<<p, u, NONE>> : p \in Procs, u \in Pages}

SwappedOut(p, u) == vm.pt[p][u].valid /\ vm.pt[p][u].swapped

(* A page that was swapped out has slots of its own, marked in the bitmap,  *)
(* until swap_in takes them back.                                           *)
SlotsExclusive ==
    vm.panic = "none" =>
      \A p, q \in Procs : \A u, v \in Pages :
        /\ SwappedOut(p, u) => vm.ste[p][u] \in vm.used
        /\ SwappedOut(p, u) /\ SwappedOut(q, v) /\ vm.ste[p][u] = vm.ste[q][v]
             => p = q /\ u = v

(* The kernel stops for want of memory only when the swap disk is full: an  *)
(* eviction that is needed finds a victim, which leaves the frame that the  *)
(* caller's ASSERT (kpage != NULL) expects.  (munmap evicts although frames *)
(* may be free, and then may find none.)                                    *)
EvictionFindsVictim ==
    \/ vm.panic \in {"none", "swap full"}
    \/ vm.panic = "no victim" /\ vm.free # {}

(* The page that the tables say p has at u: loaded, swapped out, or still   *)
(* in the executable.                                                       *)
Page(p, u) ==
    IF ~vm.pt[p][u].valid THEN NoPage
    ELSE IF vm.pd[p][u].frame # NONE THEN vm.mem[vm.pd[p][u].frame]
    ELSE IF Unloaded(vm, p, u) THEN Exe(u)
    ELSE vm.swap[vm.ste[p][u]]

StartsWith(p, u) ==
    IF u \in Code \cup Data THEN {Exe(u)}
    ELSE IF u \in Mapped THEN {Exe(u)} \cup {User(q, v) : q \in Procs, v \in Mapped}
    ELSE {Zero, Args}

UserView == [p \in Procs |-> [u \in Pages |-> Page(p, u)]]

Memory == INSTANCE UserMemory WITH memory <- UserView,
                                   Initial <- StartsWith, Written <- User,
                                   NONE <- NoPage

(* Loading on demand, eviction of a page of its own or of its parent's, and *)
(* swapping are invisible to a program: every page holds what was last      *)
(* written to it (page_fault, swap_out, swap_parent, swap_in).              *)
MemoryRefinement == [][vm'.panic # "none" \/ Memory!Next]_UserView
=============================================================================
