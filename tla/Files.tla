------------------------------- MODULE Files --------------------------------
(***************************************************************************)
(* The names of files and the descriptors of processes: directory.c with   *)
(* the operations of filesys.c on directories, and the system calls on     *)
(* names and on openfile_list, the one list of open files that all         *)
(* processes share.                                                        *)
(*                                                                         *)
(* System calls run one at a time.  Since dir_add leaves what it creates   *)
(* open, no inode is freed before the system stops, so open counts are     *)
(* left out.  A path is a sequence of names and whether it starts with a   *)
(* slash.  Memory that was freed holds 0xcc, which no pointer into user    *)
(* space starts with: using a directory that was freed, or the parent of   *)
(* the root, which is never set, ends in page_fault and exit (-1).         *)
(***************************************************************************)
EXTENDS Integers, Sequences

CONSTANTS
    Procs,          \* processes
    Paths,          \* paths given to system calls
    RmParent,       \* processes whose program is called dir-rm-parent
    NINODES,        \* inodes the disk has room for
    MAX_OPEN,       \* bound: entries of openfile_list
    DIR_MAX,        \* mkdir fails when dir_num is larger (201)
    PWD_ABOVE       \* remove looks in pwd when dir_num is larger (100)

Inodes == 1 .. NINODES
ROOT == 1
NULL == 0       \* a null pointer
WILD == -1      \* a pointer that must not be used

ASSUME FilesAssumption == /\ NINODES \in Nat \ {0} /\ MAX_OPEN \in Nat
                          /\ RmParent \subseteq Procs
                          /\ Paths \subseteq [slash : BOOLEAN, names : Seq(STRING)]

VARIABLES inode,          \* what is in each inode, in use or free
          dir_num,        \* calls of mkdir that succeeded
          pwd,            \* of each process: an inode, NULL, or WILD when freed
          alive,          \* processes that exist
          openfile_list,
          panicked        \* a failed ASSERT

vars == <<inode, dir_num, pwd, alive, openfile_list, panicked>>

FreeInode == [used |-> FALSE, directory |-> FALSE, removed |-> FALSE,
              parent |-> NULL, entries |-> <<>>]
NewInode(directory, parent) ==
    [FreeInode EXCEPT !.used = TRUE, !.directory = directory,
                      !.parent = IF directory THEN parent ELSE NULL]

Init ==
    /\ inode = [i \in Inodes |-> IF i = ROOT THEN NewInode(TRUE, WILD) ELSE FreeInode]
    /\ dir_num = 0
    /\ pwd = [p \in Procs |-> NULL]
    /\ alive = Procs
    /\ openfile_list = <<>>
    /\ panicked = FALSE
-----------------------------------------------------------------------------
(* The entries of directory i with a name, first to last; lookup takes the  *)
(* first.                                                                   *)
Matches(i, name) ==
    {k \in DOMAIN inode[i].entries :
        inode[i].entries[k].in_use /\ inode[i].entries[k].name = name}
First(S) == CHOOSE k \in S : \A x \in S : k <= x

lookup(i, name) ==
    IF Matches(i, name) = {} THEN NULL
    ELSE inode[i].entries[First(Matches(i, name))].sector

present_dir_lookup(i, name) ==
    CASE name = "."  -> i
      [] name = ".." -> inode[i].parent
      [] OTHER       -> lookup(i, name)

(* The directory after each name of a path, or NULL or WILD once a name     *)
(* leads there.                                                             *)
Walk(i, names) ==
    LET dir[k \in 0 .. Len(names)] ==
          IF k = 0 THEN i
          ELSE IF dir[k - 1] \in {NULL, WILD} THEN dir[k - 1]
          ELSE present_dir_lookup(dir[k - 1], names[k])
    IN  dir[Len(names)]

Empty(path) == ~path.slash /\ path.names = <<>>

(* The directory part loses its slash when there is nothing else to it.     *)
Directory(path) ==
    IF Len(path.names) <= 1 THEN [slash |-> FALSE, names |-> <<>>]
    ELSE [path EXCEPT !.names = SubSeq(@, 1, Len(@) - 1)]
Filename(path) == IF path.names = <<>> THEN "" ELSE path.names[Len(path.names)]

(* A process that has no directory yet starts at the root.                  *)
Pwd(p) == IF pwd[p] = NULL THEN ROOT ELSE pwd[p]

dir_move(p, path) ==
    IF Empty(path) THEN Pwd(p)
    ELSE IF path.slash THEN Walk(ROOT, path.names)
    ELSE IF Pwd(p) = WILD THEN WILD ELSE Walk(Pwd(p), path.names)

(* What pwd is after dir_move: when the first name of a relative path is    *)
(* not found, the directory that is closed is pwd itself.                   *)
Moved(p, path) ==
    IF ~path.slash /\ path.names # <<>> /\ Pwd(p) # WILD
         /\ present_dir_lookup(Pwd(p), path.names[1]) = NULL
    THEN WILD ELSE Pwd(p)

(* A name that sorts before "/" is taken for the root, unless it is the     *)
(* whole of the path and one of "." and "..".                               *)
dir_lookup(p, path) ==
    LET dir == dir_move(p, Directory(path))
        whole == ~path.slash /\ Len(path.names) = 1
        file == Filename(path)
    IN  IF dir \in {NULL, WILD} THEN dir
        ELSE IF whole /\ file \in {".", ".."}
             THEN IF inode[dir].removed THEN NULL ELSE present_dir_lookup(dir, file)
        ELSE IF Directory(path).names = <<>> /\ file \in {"", ".", ".."} THEN ROOT
        ELSE lookup(dir, file)
-----------------------------------------------------------------------------
Calls(p) == ~panicked /\ p \in alive

(* The slot for a new entry: the first that is free, or one past the last.  *)
Slot(i) == First({k \in 1 .. Len(inode[i].entries) + 1 :
                    k \in DOMAIN inode[i].entries => ~inode[i].entries[k].in_use})

WithEntry(i, entry) ==
    [k \in 1 .. Len(inode[i].entries) + (IF Slot(i) > Len(inode[i].entries) THEN 1 ELSE 0) |->
        IF k = Slot(i) THEN entry ELSE inode[i].entries[k]]

Unused == {i \in Inodes : ~inode[i].used}

(* Whether dir_add goes on to write an entry.                               *)
Addable(dir, name) == name # "" /\ lookup(dir, name) = NULL

(* Mutant: a new directory takes the caller's for its parent.               *)
AddToParent(p, dir, name, directory) ==
    LET i == First(Unused)
    IN  inode' = [inode EXCEPT ![i] = NewInode(directory, Pwd(p)),
                               ![dir].entries = WithEntry(dir, [name |-> name, sector |-> i,
                                                                in_use |-> TRUE])]

AddTo(p, dir, name, directory) ==
    LET i == First(Unused)
    IN  inode' = [inode EXCEPT ![i] = NewInode(directory, dir),
                               ![dir].entries = WithEntry(dir, [name |-> name, sector |-> i,
                                                                in_use |-> TRUE])]

(* filesys_create, which asserts that the directory exists.  A sector that  *)
(* was allocated for nothing is released.                                   *)
filesys_create(p, path, directory) ==
    LET up == Directory(path)
        dir == dir_move(p, up)
    IN  /\ Unused # {}
        /\ pwd[p] # WILD
        /\ pwd[p] # NULL => ~inode[pwd[p]].removed
        /\ dir # WILD
        /\ pwd' = [pwd EXCEPT ![p] = Moved(p, up)]
        /\ panicked' = (dir = NULL)
        /\ IF dir # NULL /\ Addable(dir, Filename(path))
           THEN AddTo(p, dir, Filename(path), directory)
           ELSE UNCHANGED inode

syscall_create(p, path) ==
    /\ Calls(p)
    /\ filesys_create(p, path, FALSE)
    /\ UNCHANGED <<dir_num, alive, openfile_list>>

(* The whole path is looked up as one name in pwd.                          *)
Exists(p, path) ==
    ~path.slash /\ Len(path.names) = 1 /\ present_dir_lookup(Pwd(p), path.names[1]) # NULL

(* filesys_create fails before it gets to dir_move.                         *)
NoCreate(p) == Unused = {} \/ inode[Pwd(p)].removed

syscall_mkdir(p, path) ==
    LET up == Directory(path)
    IN  /\ Calls(p)
        /\ dir_num <= DIR_MAX
        /\ ~Empty(path)
        /\ pwd[p] # WILD
        /\ dir_move(p, up) # WILD
        /\ \/ /\ dir_move(p, up) = NULL \/ Exists(p, path) \/ NoCreate(p)
              /\ pwd' = [pwd EXCEPT ![p] = Moved(p, up)]
              /\ UNCHANGED <<inode, dir_num, panicked>>
           \/ /\ dir_move(p, up) # NULL
              /\ ~Exists(p, path)
              /\ filesys_create(p, path, TRUE)
              /\ dir_num' = IF inode' = inode THEN dir_num ELSE dir_num + 1
        /\ UNCHANGED <<alive, openfile_list>>

syscall_chdir(p, path) ==
    LET dir == dir_move(p, path)
    IN  /\ Calls(p)
        /\ dir # WILD
        /\ pwd' = [pwd EXCEPT ![p] = IF Empty(path) THEN WILD
                                     ELSE IF dir = NULL THEN Moved(p, path) ELSE dir]
        /\ UNCHANGED <<inode, dir_num, alive, openfile_list, panicked>>

dir_remove(dir, name) ==
    LET k == First(Matches(dir, name))
    IN  inode' = [inode EXCEPT ![dir].entries[k].in_use = FALSE,
                               ![lookup(dir, name)].removed = TRUE]

(* filesys_remove.  A bare name is looked up in the root until more than    *)
(* PWD_ABOVE directories were made.  A directory need not be empty, but     *)
(* for a program called dir-rm-parent every removal fails.                  *)
syscall_remove(p, path) ==
    LET up == Directory(path)
        dir == IF ~Empty(up) THEN dir_move(p, up)
               ELSE IF dir_num > PWD_ABOVE THEN pwd[p] ELSE ROOT
    IN  /\ Calls(p)
        /\ dir # WILD
        /\ pwd' = IF Empty(up) THEN pwd ELSE [pwd EXCEPT ![p] = Moved(p, up)]
        /\ IF dir # NULL /\ p \notin RmParent /\ lookup(dir, Filename(path)) # NULL
           THEN dir_remove(dir, Filename(path))
           ELSE UNCHANGED inode
        /\ UNCHANGED <<dir_num, alive, openfile_list, panicked>>
-----------------------------------------------------------------------------
(* The entry that a descriptor denotes is the first with its number,        *)
(* whoever opened it.                                                       *)
WithFd(fd) == {k \in DOMAIN openfile_list : openfile_list[k].fd = fd}

syscall_open(p, path) ==
    LET i == dir_lookup(p, path)
        up == Directory(path)
    IN  /\ Calls(p)
        /\ ~Empty(path)
        /\ i # WILD
        /\ Len(openfile_list) < MAX_OPEN
        /\ pwd' = [pwd EXCEPT ![p] = Moved(p, up)]
        /\ openfile_list' =
             IF i = NULL THEN openfile_list
             ELSE <<[fd |-> Len(openfile_list) + 3, opener |-> p, inode |-> i, pos |-> 1]>>
                    \o openfile_list
        /\ UNCHANGED <<inode, dir_num, alive, panicked>>

Without(list, k) == SubSeq(list, 1, k - 1) \o SubSeq(list, k + 1, Len(list))

(* Mutant: whoever opened it.                                               *)
CloseAny(p, fd) ==
    /\ Calls(p)
    /\ WithFd(fd) # {}
    /\ openfile_list' = Without(openfile_list, First(WithFd(fd)))
    /\ UNCHANGED <<inode, dir_num, pwd, alive, panicked>>

(* Closing what is not open, or not one's own, is an exit.                  *)
syscall_close(p, fd) ==
    /\ Calls(p)
    /\ WithFd(fd) # {}
    /\ openfile_list[First(WithFd(fd))].opener = p
    /\ openfile_list' = Without(openfile_list, First(WithFd(fd)))
    /\ UNCHANGED <<inode, dir_num, pwd, alive, panicked>>

(* The next entry in use, which ASSERTs that it reads a directory.          *)
syscall_readdir(p, fd) ==
    LET k == First(WithFd(fd))
        of == openfile_list[k]
        es == inode[of.inode].entries
        rest == {n \in DOMAIN es : n >= of.pos /\ es[n].in_use}
    IN  /\ Calls(p)
        /\ WithFd(fd) # {}
        /\ panicked' = ~inode[of.inode].directory
        /\ openfile_list' = [openfile_list EXCEPT ![k].pos =
                               IF ~inode[of.inode].directory THEN @
                               ELSE IF rest # {} THEN First(rest) + 1
                               ELSE IF of.pos > Len(es) THEN @ ELSE Len(es) + 1]
        /\ UNCHANGED <<inode, dir_num, pwd, alive>>

(* One turn of the loop of process_exit: take the first entry, and put it   *)
(* last if it is another's.                                                 *)
Turn(list, p) == IF Head(list).opener = p THEN Tail(list)
                 ELSE Append(Tail(list), Head(list))

Turns(list, p, n) ==
    LET after[k \in 0 .. n] == IF k = 0 THEN list ELSE Turn(after[k - 1], p)
    IN  after[n]

(* Mutant: one turn too few.                                                *)
CloseAllButOne(list, p) == Turns(list, p, IF list = <<>> THEN 0 ELSE Len(list) - 1)

CloseAll(list, p) == Turns(list, p, Len(list))

(* process_exit; pwd is not closed.                                         *)
Exit(p) ==
    /\ Calls(p)
    /\ openfile_list' = CloseAll(openfile_list, p)
    /\ alive' = alive \ {p}
    /\ pwd' = [pwd EXCEPT ![p] = NULL]
    /\ UNCHANGED <<inode, dir_num, panicked>>

(* A new process has no pwd, whatever its parent's is.                      *)
Exec(p) ==
    /\ ~panicked
    /\ p \notin alive
    /\ alive' = alive \cup {p}
    /\ UNCHANGED <<inode, dir_num, pwd, openfile_list, panicked>>

Fds == 3 .. MAX_OPEN + 2

Next ==
    \E p \in Procs :
      \/ Exit(p) \/ Exec(p)
      \/ \E path \in Paths : \/ syscall_create(p, path) \/ syscall_mkdir(p, path)
                             \/ syscall_chdir(p, path) \/ syscall_remove(p, path)
                             \/ syscall_open(p, path)
      \/ \E fd \in Fds : syscall_close(p, fd) \/ syscall_readdir(p, fd)

Spec == Init /\ [][Next]_vars
-----------------------------------------------------------------------------
InUse(i) == {k \in DOMAIN inode[i].entries : inode[i].entries[k].in_use}

(* The names form a tree below each directory: a directory has one entry in *)
(* use for a name, an inode is named once, by an entry of the directory     *)
(* that its ".." leads to, and what a name leads to is in use and was not   *)
(* removed (dir_add, dir_remove).                                           *)
NamesFormTree ==
    \A i \in Inodes : \A k \in InUse(i) :
      LET e == inode[i].entries[k]
      IN  /\ \A l \in InUse(i) : inode[i].entries[l].name = e.name => k = l
          /\ inode[e.sector].used /\ ~inode[e.sector].removed
          /\ inode[e.sector].directory => inode[e.sector].parent = i
          /\ \A j \in Inodes : \A l \in InUse(j) :
               inode[j].entries[l].sector = e.sector => i = j /\ k = l

(* Every file on openfile_list belongs to a process that exists: exit       *)
(* leaves none behind (process_exit).                                       *)
OpenersExist == \A k \in DOMAIN openfile_list : openfile_list[k].opener \in alive

(* The files of q among the first n of a list, in their order.              *)
OpenedTo(list, q, n) ==
    LET files[k \in 0 .. n] == IF k = 0 THEN <<>>
                               ELSE IF list[k].opener = q THEN Append(files[k - 1], list[k])
                               ELSE files[k - 1]
    IN  files[n]
Opened(list, q) == OpenedTo(list, q, Len(list))

(* A process that closes a file, or exits, leaves the files of every other  *)
(* process open, in their order on the shared list, although descriptors of *)
(* different processes may have the same number (syscall_close's check of   *)
(* the opener, the loop in process_exit).                                   *)
OthersKeepFiles ==
    [][\A p, q \in Procs :
         p # q /\ (Exit(p) \/ \E fd \in Fds : syscall_close(p, fd))
           => Opened(openfile_list', q) = Opened(openfile_list, q)]_vars
=============================================================================
