------------------------------ MODULE FileSys ------------------------------
(***************************************************************************)
(* Files on the disk: free-map.c, inode.c, file.c and the operations of    *)
(* filesys.c on files of the root directory.                               *)
(*                                                                         *)
(* A sector holds data, an inode or a table of sector numbers.  The buffer *)
(* cache is used by what BufferCache shows of it, so a sector has one      *)
(* value.  Operations run one at a time.  free_map_allocate and            *)
(* free_map_release write the map to its file at once: free_map is the     *)
(* map in memory and its copy on disk.  Opened inodes of the free map and  *)
(* the root directory are never closed for good and are left out, as are   *)
(* the entries of the root directory, which fit in the sector it has from  *)
(* the start (up to 15 names).                                             *)
(***************************************************************************)
EXTENDS Integers, FiniteSets, SequencesExt

CONSTANTS Names,        \* file names
          Files,        \* struct file objects the callers can have
          Bytes,        \* byte values other than 0
          Sizes,        \* lengths of files created and of writes
          Offsets,      \* places where a write starts
          NSECTORS,     \* sectors on the disk
          SECTOR_SIZE,  \* bytes in a sector (512)
          DIRECT,       \* direct blocks of an inode (123)
          ENTRIES,      \* sector numbers in an indirect block (128)
          MAX_CREATES,  \* bound on calls of filesys_create
          NULL

(* Below the largest file: inode_indirect_alloc writes one table more than *)
(* an index block has room for when the last of them is full.               *)
ASSUME FileSysAssumption ==
    /\ \A c \in {SECTOR_SIZE, DIRECT, ENTRIES} : c \in Nat \ {0}
    /\ NSECTORS \in Nat /\ NSECTORS > 4
    /\ Sizes \subseteq Nat /\ Offsets \subseteq Nat
    /\ \A size \in Sizes, ofs \in Offsets :
          ofs + size < (DIRECT + ENTRIES + ENTRIES * ENTRIES) * SECTOR_SIZE
    /\ Cardinality(Names) <= 15

VARIABLES disk,      \* what each sector holds
          free_map,  \* the sectors marked in the free map
          root,      \* inode_sector of each name in the root directory, or 0
          inodes,    \* open_inodes, by sector
          files,     \* the open files
          panic,     \* the message of a PANIC or a failed ASSERT, or none
          creates    \* calls of filesys_create, for the bound

vars == <<disk, free_map, root, inodes, files, panic, creates>>

Sectors == 0 .. NSECTORS - 1
FREE_MAP_SECTOR == 0
ROOT_DIR_SECTOR == 1

Data(bytes) == [kind |-> "data", bytes |-> bytes]
Table(sec_num) == [kind |-> "table", sec_num |-> sec_num]
Inode(node) == [kind |-> "inode", node |-> node]
Reserved == [kind |-> "reserved"]   \* contents of the map and the root

zeros == Data([i \in 0 .. SECTOR_SIZE - 1 |-> 0])
NoEntries == [i \in 0 .. ENTRIES - 1 |-> 0]
NewNode(length) == [direct |-> [i \in 0 .. DIRECT - 1 |-> 0], indirect |-> 0,
                    dindirect |-> 0, length |-> length]

bytes_to_sectors(size) == (size + SECTOR_SIZE - 1) \div SECTOR_SIZE
UpTo(n) == [i \in 1 .. n |-> i - 1]   \* 0, ..., n - 1 in order
Lesser(a, b) == IF a < b THEN a ELSE b

(* After filesys_init (true): sectors 0 and 1 hold the inodes of the map    *)
(* and the root, 2 and 3 their contents.                                    *)
Init ==
    /\ disk = [s \in Sectors |->
                 CASE s = FREE_MAP_SECTOR -> Inode([NewNode(1) EXCEPT !.direct[0] = 2])
                   [] s = ROOT_DIR_SECTOR -> Inode([NewNode(1) EXCEPT !.direct[0] = 3])
                   [] s \in {2, 3} -> Reserved
                   [] OTHER -> zeros]
    /\ free_map = 0 .. 3
    /\ root = [n \in Names |-> 0]
    /\ inodes = <<>>
    /\ files = [f \in Files |-> NULL]
    /\ panic = "none"
    /\ creates = 0
-----------------------------------------------------------------------------
(***************************************************************************)
(* Allocation.  It goes on while result is "ok"; "full" is a failed        *)
(* free_map_allocate and "misread" a sector that is read as a table but    *)
(* holds something else.  node is the inode_disk in memory, table the      *)
(* index block at hand and outer the doubly indirect one.                  *)
(***************************************************************************)
Allocation(node) ==
    [free_map |-> free_map, disk |-> disk, node |-> node, sector |-> 0,
     table |-> NoEntries, outer |-> NoEntries, result |-> "ok"]

(* The next step, unless the allocation has failed.                         *)
Then(a, Step(_)) == IF a.result = "ok" THEN Step(a) ELSE a

free_map_allocate(a) ==
    LET free == Sectors \ a.free_map
    IN  IF free = {} THEN [a EXCEPT !.result = "full"]
        ELSE [a EXCEPT !.sector = Min(free), !.free_map = @ \cup {Min(free)}]

IsTable(d, s) == d[s].kind = "table" \/ d[s] = zeros
TableAt(d, s) == IF d[s].kind = "table" THEN d[s].sec_num ELSE NoEntries

ReadTable(a, s) == IF IsTable(a.disk, s) THEN [a EXCEPT !.table = TableAt(a.disk, s)]
                   ELSE [a EXCEPT !.result = "misread"]

(* Give entry i of the table a sector of zeros if it has none.              *)
AllocSlotDirty(a, i) ==
    IF a.result # "ok" \/ a.table[i] # 0 THEN a
    ELSE Then(free_map_allocate(a), LAMBDA b : [b EXCEPT !.table[i] = b.sector])

AllocSlot(a, i) ==
    IF a.result # "ok" \/ a.table[i] # 0 THEN a
    ELSE Then(free_map_allocate(a),
              LAMBDA b : [b EXCEPT !.table[i] = b.sector, !.disk[b.sector] = zeros])

AllocSlots(a, n) == FoldLeft(AllocSlot, a, UpTo(n))

DirectAlloc(a, n) ==
    LET Keep(b) == [b EXCEPT !.node.direct = b.table]
    IN  Keep(AllocSlots([a EXCEPT !.table = a.node.direct], n))

(* inode_indirect_alloc at level 0.  A failure leaves node.indirect set and *)
(* the block it names unwritten.                                            *)
IndirectAlloc(a, n) ==
    LET Block == IF a.node.indirect # 0 THEN ReadTable(a, a.node.indirect)
                 ELSE Then(free_map_allocate(a),
                           LAMBDA b : [b EXCEPT !.node.indirect = b.sector,
                                                !.table = NoEntries])
        Fill(b) == AllocSlots(b, n)
        Save(b) == [b EXCEPT !.disk[b.node.indirect] = Table(b.table)]
    IN  Then(Then(Block, Fill), Save)

(* Row i of the doubly indirect blocks, filled as far as n blocks go.       *)
AllocRow(a, i, n) ==
    LET Block(b) == IF b.outer[i] # 0 THEN b
                    ELSE Then(free_map_allocate(b),
                              LAMBDA c : [c EXCEPT !.outer[i] = c.sector,
                                                   !.disk[c.sector] = zeros])
        Read(b) == ReadTable(b, b.outer[i])
        Fill(b) == AllocSlots(b, IF i = n \div ENTRIES THEN n % ENTRIES ELSE ENTRIES)
        Save(b) == [b EXCEPT !.disk[b.outer[i]] = Table(b.table)]
    IN  Then(Then(Then(Then(a, Block), Read), Fill), Save)

(* inode_indirect_alloc at level 1.  A first doubly indirect block writes   *)
(* zeros to the sector dindirect names before it is set, sector 0.          *)
DindirectAlloc(a, n) ==
    LET Block == IF a.node.dindirect # 0 THEN ReadTable(a, a.node.dindirect)
                 ELSE Then(free_map_allocate([a EXCEPT !.disk[0] = zeros]),
                           LAMBDA b : [b EXCEPT !.node.dindirect = b.sector,
                                                !.table = NoEntries])
        Rows(b) == FoldLeft(LAMBDA c, i : AllocRow(c, i, n),
                            [b EXCEPT !.outer = b.table], UpTo(n \div ENTRIES + 1))
        Save(b) == [b EXCEPT !.disk[b.node.dindirect] = Table(b.outer)]
    IN  Then(Then(Block, Rows), Save)

inode_disk_allocate(a, sectors) ==
    LET Indirect(b) == IF sectors <= DIRECT THEN b
                       ELSE IndirectAlloc(b, Lesser(sectors - DIRECT, ENTRIES))
        Dindirect(b) == IF sectors <= DIRECT + ENTRIES THEN b
                        ELSE DindirectAlloc(b, sectors - DIRECT - ENTRIES)
    IN  Then(Then(DirectAlloc(a, Lesser(sectors, DIRECT)), Indirect), Dindirect)
-----------------------------------------------------------------------------
(* The sector of block index of a file, for a block the file has.           *)
BlockSector(d, node, index) ==
    LET i == index - DIRECT
        j == i - ENTRIES
    IN  IF index < DIRECT THEN node.direct[index]
        ELSE IF i < ENTRIES THEN TableAt(d, node.indirect)[i]
        ELSE TableAt(d, TableAt(d, node.dindirect)[j \div ENTRIES])[j % ENTRIES]

byte_to_sector(d, node, pos) == BlockSector(d, node, pos \div SECTOR_SIZE)

(* Whether byte_to_sector (inode, pos) is -1.  One byte past the end it is  *)
(* not, whatever it is, but where the block would be the first doubly       *)
(* indirect one: there the free map's own words are read as tables, and a   *)
(* map that starts with 32 marked sectors reads as -1.                      *)
PastEnd(node, pos) ==
    IF node.length < pos THEN {TRUE}
    ELSE IF /\ pos = node.length
            /\ pos \div SECTOR_SIZE >= DIRECT + ENTRIES
            /\ node.dindirect = 0
         THEN BOOLEAN ELSE {FALSE}

(* The loop of inode_write_at, sector by sector: bytes from to to - 1.      *)
WriteBlocks(d, node, from, to, b) ==
    LET Block(x, k) ==
            LET s == BlockSector(x, node, k)
            IN  [x EXCEPT ![s].bytes = [i \in DOMAIN @ |->
                    LET p == k * SECTOR_SIZE + i
                    IN  IF p >= from /\ p < to THEN b ELSE @[i]]]
        first == from \div SECTOR_SIZE
        count == bytes_to_sectors(to) - first
    IN  IF to <= from THEN d
        ELSE FoldLeft(Block, d, [i \in 1 .. count |-> first + i - 1])

(* inode_read_at over the whole file.                                       *)
Contents(d, node) ==
    [p \in 1 .. node.length |->
        d[byte_to_sector(d, node, p - 1)].bytes[(p - 1) % SECTOR_SIZE]]

(* The sectors inode_disk_free releases: after the single indirect ones it  *)
(* returns, and it releases no index block.                                 *)
FreedIndirect(d, node, n) ==
    {TableAt(d, node.indirect)[i] : i \in 0 .. n - 1}

inode_disk_free(d, node) ==
    LET sectors == bytes_to_sectors(node.length)
    IN  {node.direct[i] : i \in 0 .. Lesser(sectors, DIRECT) - 1}
          \cup (IF sectors <= DIRECT THEN {}
                ELSE FreedIndirect(d, node, Lesser(sectors - DIRECT, ENTRIES)))
-----------------------------------------------------------------------------
inode_open(table, s) ==
    IF s \in DOMAIN table THEN [table EXCEPT ![s].open_cnt = @ + 1]
    ELSE table @@ (s :> [open_cnt |-> 1, removed |-> FALSE, deny_write_cnt |-> 0,
                         data |-> disk[s].node])

(* inode_close, for the table of open inodes it starts from.  The last      *)
(* opener of a removed inode releases its blocks, which must be marked.     *)
CloseAlways(table, s) ==
    LET ino == table[s]
        released == {s} \cup inode_disk_free(disk, ino.data)
        last == ino.open_cnt = 1
    IN  /\ inodes' = IF last THEN Restrict(table, DOMAIN table \ {s})
                     ELSE [table EXCEPT ![s].open_cnt = @ - 1]
        /\ IF ~ino.removed
           THEN UNCHANGED <<free_map, panic>>
           ELSE /\ free_map' = free_map \ released
                /\ panic' = IF released \subseteq free_map THEN panic
                            ELSE "free_map_release"

inode_close(table, s) ==
    LET ino == table[s]
        released == {s} \cup inode_disk_free(disk, ino.data)
        last == ino.open_cnt = 1
    IN  /\ inodes' = IF last THEN Restrict(table, DOMAIN table \ {s})
                     ELSE [table EXCEPT ![s].open_cnt = @ - 1]
        /\ IF ~(last /\ ino.removed)
           THEN UNCHANGED <<free_map, panic>>
           ELSE /\ free_map' = free_map \ released
                /\ panic' = IF released \subseteq free_map THEN panic
                            ELSE "free_map_release"

Allow(table, f) ==
    IF files[f].deny_write THEN [table EXCEPT ![files[f].inode].deny_write_cnt = @ - 1]
    ELSE table
-----------------------------------------------------------------------------
(* The inode of a new file of a given size, written to the sector that was  *)
(* allocated for it.                                                        *)
inode_create(a, size) ==
    Then(inode_disk_allocate([a EXCEPT !.node = NewNode(size)], bytes_to_sectors(size)),
         LAMBDA b : [b EXCEPT !.disk[a.sector] = Inode(b.node)])

(* dir_add looks the new name up once it is there, which opens the inode,   *)
(* and never closes it.                                                     *)
dir_add(n, s, node) ==
    /\ root[n] = 0
    /\ root' = [root EXCEPT ![n] = s]
    /\ inodes' = inodes @@ (s :> [open_cnt |-> 1, removed |-> FALSE,
                                  deny_write_cnt |-> 0, data |-> node])

(* When the name is taken, or the disk fills up, only the sector of the     *)
(* inode is released again.                                                 *)
filesys_create(n, size) ==
    \E a \in {free_map_allocate(Allocation(NewNode(0)))} :
    \E b \in {inode_create(a, size)} :
        /\ creates < MAX_CREATES
        /\ a.result = "ok"
        /\ \/ /\ b.result = "ok"
              /\ dir_add(n, a.sector, b.node)
              /\ free_map' = b.free_map
           \/ /\ b.result # "ok" \/ root[n] # 0
              /\ free_map' = b.free_map \ {a.sector}
              /\ UNCHANGED <<root, inodes>>
        /\ disk' = b.disk
        /\ creates' = creates + 1
        /\ UNCHANGED <<files, panic>>

filesys_open(f, n) ==
    /\ files[f] = NULL
    /\ root[n] # 0
    /\ inodes' = inode_open(inodes, root[n])
    /\ files' = [files EXCEPT ![f] = [inode |-> root[n], deny_write |-> FALSE]]
    /\ UNCHANGED <<disk, free_map, root, panic>>

ReopenUncounted(f, g) ==
    /\ files[f] = NULL
    /\ files[g] # NULL
    /\ files' = [files EXCEPT ![f] = [inode |-> files[g].inode, deny_write |-> FALSE]]
    /\ UNCHANGED <<disk, free_map, root, inodes, panic>>

file_reopen(f, g) ==
    /\ files[f] = NULL
    /\ files[g] # NULL
    /\ inodes' = [inodes EXCEPT ![files[g].inode].open_cnt = @ + 1]
    /\ files' = [files EXCEPT ![f] = [inode |-> files[g].inode, deny_write |-> FALSE]]
    /\ UNCHANGED <<disk, free_map, root, panic>>

file_close(f) ==
    /\ files[f] # NULL
    /\ inode_close(Allow(inodes, f), files[f].inode)
    /\ files' = [files EXCEPT ![f] = NULL]
    /\ UNCHANGED <<disk, root>>

file_deny_write(f) ==
    /\ files[f] # NULL
    /\ ~files[f].deny_write
    /\ files' = [files EXCEPT ![f].deny_write = TRUE]
    /\ inodes' = [inodes EXCEPT ![files[f].inode].deny_write_cnt = @ + 1]
    /\ UNCHANGED <<disk, free_map, root, panic>>

file_allow_write(f) ==
    /\ files[f] # NULL
    /\ files[f].deny_write
    /\ files' = [files EXCEPT ![f].deny_write = FALSE]
    /\ inodes' = Allow(inodes, f)
    /\ UNCHANGED <<disk, free_map, root, panic>>

(* file_write after a file_seek to ofs.  Growth that fails leaves the inode *)
(* in memory with the blocks it got and the file as it was.                 *)
Grow(s, ofs, size, b) ==
    \E a \in {inode_disk_allocate(Allocation(inodes[s].data),
                                  bytes_to_sectors(ofs + size))} :
    \E node \in {[a.node EXCEPT !.length = ofs + size]} :
        /\ free_map' = a.free_map
        /\ \/ /\ a.result = "ok"
              /\ inodes' = [inodes EXCEPT ![s].data = node]
              /\ disk' = WriteBlocks([a.disk EXCEPT ![s] = Inode(node)],
                                     node, ofs, ofs + size, b)
           \/ /\ a.result # "ok"
              /\ inodes' = [inodes EXCEPT ![s].data = a.node]
              /\ disk' = a.disk
        /\ panic' = IF a.result = "misread" THEN "misread" ELSE panic

Overwrite(s, ofs, size, b) ==
    LET node == inodes[s].data
    IN  /\ disk' = WriteBlocks(disk, node, ofs, Lesser(ofs + size, node.length), b)
        /\ UNCHANGED <<free_map, inodes, panic>>

file_write(f, ofs, size, b) ==
    /\ files[f] # NULL
    /\ inodes[files[f].inode].deny_write_cnt = 0
    /\ LET s == files[f].inode
       IN  \E past \in PastEnd(inodes[s].data, ofs + size - 1) :
              \/ past /\ Grow(s, ofs, size, b)
              \/ ~past /\ Overwrite(s, ofs, size, b)
    /\ UNCHANGED <<root, files>>

(* Erase the entry, and open the inode, mark it and close it.               *)
dir_remove(n) ==
    /\ root' = [root EXCEPT ![n] = 0]
    /\ inode_close([inode_open(inodes, root[n]) EXCEPT ![root[n]].removed = TRUE],
                   root[n])

filesys_remove(n) ==
    /\ root[n] # 0
    /\ dir_remove(n)
    /\ UNCHANGED <<disk, files>>

(* free_map_open reads the map through the inode in sector 0.               *)
free_map_open ==
    panic' = IF disk[FREE_MAP_SECTOR].kind = "inode" THEN panic
             ELSE "can't read free map"

(* filesys_done, which flushes the cache, then filesys_init (false).        *)
Reboot ==
    /\ inodes' = <<>>
    /\ files' = [f \in Files |-> NULL]
    /\ free_map_open
    /\ UNCHANGED <<disk, free_map, root>>

Next ==
    /\ panic = "none"
    /\ \/ \E n \in Names, size \in Sizes : filesys_create(n, size)
       \/ /\ \/ \E n \in Names : filesys_remove(n)
             \/ \E f \in Files, n \in Names : filesys_open(f, n)
             \/ \E f, g \in Files : file_reopen(f, g)
             \/ \E f \in Files :
                   file_close(f) \/ file_deny_write(f) \/ file_allow_write(f)
             \/ \E f \in Files, ofs \in Offsets, size \in Sizes, b \in Bytes :
                   file_write(f, ofs, size, b)
             \/ Reboot
          /\ UNCHANGED creates

Spec == Init /\ [][Next]_vars
-----------------------------------------------------------------------------
(* The files there are: those with a name and those still open.             *)
Live == ({root[n] : n \in Names} \ {0}) \cup DOMAIN inodes
NodeOf(s) == IF s \in DOMAIN inodes THEN inodes[s].data ELSE disk[s].node

(* The places of a file that hold a sector number, with the sector: its     *)
(* directory entry, the members of its inode and the entries of its tables. *)
Entries(where, table) ==
    {<<where, i, table[i]>> : i \in {j \in DOMAIN table : table[j] # 0}}

Places(s) ==
    LET node == NodeOf(s)
        outer == IF node.dindirect = 0 THEN NoEntries ELSE TableAt(disk, node.dindirect)
    IN  {<<<<"inode">>, 0, s>>}
          \cup Entries(<<"direct">>, node.direct)
          \cup Entries(<<"member">>, <<node.indirect, node.dindirect>>)
          \cup (IF node.indirect = 0 THEN {}
                ELSE Entries(<<"indirect">>, TableAt(disk, node.indirect)))
          \cup Entries(<<"outer">>, outer)
          \cup UNION {Entries(<<"row", i>>, TableAt(disk, outer[i])) :
                        i \in {j \in DOMAIN outer : outer[j] # 0}}

Referred == UNION {{<<s, p>> : p \in Places(s)} : s \in Live}

(* No sector is in two files, or twice in one, and none that a file uses is *)
(* free for the next free_map_allocate: after any sequence of creations,    *)
(* growths, removals and reboots, allocations that failed half way          *)
(* included.  The sectors of the map and the root belong to no file.        *)
BlocksOwnedOnce ==
    LET used == {x[2][3] : x \in Referred}
    IN  /\ Cardinality(used) = Cardinality(Referred)
        /\ used \subseteq free_map \ 0 .. 3

(* struct inode is shared by its openers: as long as a struct file refers   *)
(* to one it stays in open_inodes, each opener is counted, and              *)
(* deny_write_cnt is the number of openers that deny writes, so that        *)
(* writing is possible again when the last of them has closed the file.     *)
OpenersCounted ==
    \A s \in Sectors :
        LET openers == {f \in Files : files[f] # NULL /\ files[f].inode = s}
            denying == {f \in openers : files[f].deny_write}
        IN  openers # {} =>
              /\ s \in DOMAIN inodes
              /\ Cardinality(openers) <= inodes[s].open_cnt
              /\ Cardinality(denying) = inodes[s].deny_write_cnt

(* The files behave as FileStore says: every operation changes the bytes of *)
(* its own file only, growth fills with zeros, and a reboot keeps them all. *)
Store == INSTANCE FileStore
             WITH file <- [s \in Live |-> Contents(disk, NodeOf(s))],
                  Ids <- Sectors, Lengths <- Sizes
FileRefinement == Store!StoreSpec
-----------------------------------------------------------------------------
=============================================================================
