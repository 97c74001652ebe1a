---------------------------- MODULE FilesProofs -----------------------------
(***************************************************************************)
(* What holds of names and of open files whatever the number of processes  *)
(* and inodes and whatever the paths: names form a tree, every open file   *)
(* belongs to a process that exists, and no process closes another's.      *)
(***************************************************************************)
EXTENDS Files, WellFoundedInduction, TLAPS

NameSet == STRING \cup {""}
Entry == [name : NameSet, sector : Inodes, in_use : BOOLEAN]
InodeRec == [used : BOOLEAN, directory : BOOLEAN, removed : BOOLEAN,
             parent : Inodes \cup {NULL, WILD}, entries : Seq(Entry)]
OpenFile == [fd : Int, opener : Procs, inode : Inodes, pos : Int]
Path == [slash : BOOLEAN, names : Seq(STRING)]

(* What a walk through the directories can lead to.                         *)
Reach == {i \in Inodes : inode[i].used} \cup {NULL, WILD}

(* An inode that is in use has a parent in use, if any, and one that is not *)
(* in use has no entries.                                                   *)
InodesOK ==
    /\ inode \in [Inodes -> InodeRec]
    /\ inode[ROOT].used
    /\ \A i \in Inodes : inode[i].parent \in Reach
    /\ \A i \in Inodes : ~inode[i].used => inode[i].entries = <<>>

PwdOK == pwd \in [Procs -> Reach]

ListOK == alive \subseteq Procs /\ openfile_list \in Seq(OpenFile) /\ OpenersExist

FilesInv == InodesOK /\ NamesFormTree /\ PwdOK /\ ListOK
-----------------------------------------------------------------------------
(* A set of naturals that is not empty has a least element.                 *)
LEMMA LeastNat ==
    ASSUME NEW S, S \subseteq Nat, S # {}
    PROVE  \E n \in S : \A m \in S : n <= m
  <1> DEFINE R == OpToRel(<, Nat)
  <1>1. IsWellFoundedOn(R, Nat)
    BY NatLessThanWellFounded, Zenon
  <1>2. \A m, n \in Nat : m < n => <<m, n>> \in R
    BY DEF OpToRel
  <1> HIDE DEF R
  <1>3. PICK n \in S : \A m \in S : ~(<<m, n>> \in R)
    BY <1>1, WFMin, Zenon
  <1>4. \A m \in S : ~(m < n)
    BY <1>3, <1>2, Zenon
  <1> QED BY <1>4

(* First takes an element, and the least.                                   *)
LEMMA FirstIs ==
    ASSUME NEW S, S \subseteq Nat, S # {}
    PROVE  First(S) \in S /\ \A x \in S : First(S) <= x
  BY LeastNat, Zenon DEF First

(* The elements of a sequence.                                              *)
LEMMA SeqElement ==
    ASSUME NEW S, NEW s \in Seq(S)
    PROVE  DOMAIN s = 1 .. Len(s) /\ Len(s) \in Nat /\ \A k \in DOMAIN s : s[k] \in S
  OBVIOUS

(* The constants.                                                           *)
LEMMA InodeFacts ==
    /\ ROOT \in Inodes /\ NULL \notin Inodes /\ WILD \notin Inodes
    /\ Inodes \subseteq Nat
  BY FilesAssumption DEF ROOT, NULL, WILD, Inodes

(* What lookup finds is the sector of an entry in use, which is used.       *)
LEMMA LookupIs ==
    ASSUME InodesOK, NamesFormTree, NEW i \in Inodes, NEW name
    PROVE  \/ Matches(i, name) = {} /\ lookup(i, name) = NULL
           \/ LET k == First(Matches(i, name))
              IN  /\ k \in DOMAIN inode[i].entries
                  /\ inode[i].entries[k].in_use /\ inode[i].entries[k].name = name
                  /\ lookup(i, name) = inode[i].entries[k].sector
                  /\ lookup(i, name) \in Inodes /\ inode[lookup(i, name)].used
  <1>1. inode[i].entries \in Seq(Entry)
    BY DEF InodesOK, InodeRec
  <1>2. CASE Matches(i, name) = {}
    BY <1>2, Zenon DEF lookup
  <1>3. CASE Matches(i, name) # {}
    <2> DEFINE k == First(Matches(i, name))
    <2>1. Matches(i, name) \subseteq Nat
      BY <1>1 DEF Matches
    <2>2. k \in Matches(i, name)
      BY <1>3, <2>1, FirstIs, Zenon
    <2> HIDE DEF k
    <2>3. /\ k \in DOMAIN inode[i].entries
          /\ inode[i].entries[k].in_use /\ inode[i].entries[k].name = name
      BY <2>2, Zenon DEF Matches
    <2>4. lookup(i, name) = inode[i].entries[k].sector
      BY <1>3, Zenon DEF lookup, k
    <2>5. k \in InUse(i)
      BY <2>3, Zenon DEF InUse
    <2>6. inode[i].entries[k].sector \in Inodes
      <3>1. inode[i].entries[k] \in Entry
        BY <1>1, <2>3, SeqElement, Zenon
      <3> QED BY <3>1 DEF Entry
    <2>7. inode[inode[i].entries[k].sector].used
      BY <2>5, Zenon DEF NamesFormTree
    <2> QED BY <2>3, <2>4, <2>6, <2>7, Zenon DEF k
  <1> QED BY <1>2, <1>3

(* A name in a directory leads to what is used, if anywhere.                *)
LEMMA PresentReach ==
    ASSUME InodesOK, NamesFormTree, NEW i \in Inodes, inode[i].used, NEW name
    PROVE  present_dir_lookup(i, name) \in Reach /\ lookup(i, name) \in Reach
  <1>1. lookup(i, name) \in Reach
    BY LookupIs, Zenon DEF Reach
  <1>2. i \in Reach /\ inode[i].parent \in Reach
    BY Zenon DEF Reach, InodesOK
  <1> QED BY <1>1, <1>2, Zenon DEF present_dir_lookup

(* The directory after the first k names, in terms of the one before.       *)
WalkStep(i, names, G, k) ==
    IF k = 0 THEN i
    ELSE IF G[k - 1] \in {NULL, WILD} THEN G[k - 1]
    ELSE present_dir_lookup(G[k - 1], names[k])

IsWalk(i, names, m, G) == G = [k \in 0 .. m |-> WalkStep(i, names, G, k)]

(* A path can be walked to its end.                                         *)
LEMMA WalkExists ==
    ASSUME NEW names \in Seq(STRING), NEW i
    PROVE  \A m \in 0 .. Len(names) : \E G : IsWalk(i, names, m, G)
  <1> DEFINE S == {m \in 0 .. Len(names) : ~ \E G : IsWalk(i, names, m, G)}
  <1>1. SUFFICES ASSUME S # {} PROVE FALSE
    OBVIOUS
  <1> S \subseteq Nat
    OBVIOUS
  <1> HIDE DEF S
  <1>2. PICK m \in S : \A l \in S : m <= l
    BY <1>1, LeastNat, Zenon
  <1> USE DEF S
  <1>3. m \in Nat /\ m <= Len(names) /\ ~ \E G : IsWalk(i, names, m, G)
    BY <1>2
  <1>4. CASE m = 0
    <2>1. IsWalk(i, names, 0, [k \in 0 .. 0 |-> i])
      BY DEF IsWalk, WalkStep
    <2> QED BY <2>1, <1>3, <1>4
  <1>5. CASE m # 0
    <2>1. m - 1 \in 0 .. Len(names) /\ m - 1 \notin S
      BY <1>2, <1>3, <1>5
    <2>2. PICK G : IsWalk(i, names, m - 1, G)
      BY <2>1
    <2> DEFINE H == [k \in 0 .. m |-> IF k < m THEN G[k] ELSE WalkStep(i, names, G, m)]
    <2>3. \A k \in 0 .. m - 1 : G[k] = WalkStep(i, names, G, k)
      BY <2>2, <1>3, Zenon DEF IsWalk
    <2>4. \A k \in 0 .. m : H[k] = WalkStep(i, names, H, k)
      <3> TAKE k \in 0 .. m
      <3>1. k # 0 => k - 1 \in 0 .. m - 1 /\ H[k - 1] = G[k - 1]
        BY <1>3
      <3>2. WalkStep(i, names, H, k) = WalkStep(i, names, G, k)
        BY <3>1 DEF WalkStep
      <3>3. H[k] = WalkStep(i, names, G, k)
        BY <2>3, <1>3
      <3> QED BY <3>2, <3>3
    <2>5. IsWalk(i, names, m, H)
      BY <2>4 DEF IsWalk
    <2> QED BY <2>5, <1>3
  <1> QED BY <1>4, <1>5

(* It leads to what is used, if anywhere.                                   *)
LEMMA WalkReach ==
    ASSUME InodesOK, NamesFormTree, NEW names \in Seq(STRING),
           NEW i \in Inodes, inode[i].used
    PROVE  Walk(i, names) \in Reach
  <1>1. Len(names) \in 0 .. Len(names)
    OBVIOUS
  <1>2. \E G : IsWalk(i, names, Len(names), G)
    BY <1>1, WalkExists, Zenon
  <1>3. PICK G : /\ Walk(i, names) = G[Len(names)]
                 /\ G = [k \in 0 .. Len(names) |->
                           IF k = 0 THEN i
                           ELSE IF G[k - 1] \in {NULL, WILD} THEN G[k - 1]
                           ELSE present_dir_lookup(G[k - 1], names[k])]
    BY <1>2, Zenon DEF Walk, IsWalk, WalkStep
  <1>4. \A k \in 0 .. Len(names) : G[k] = WalkStep(i, names, G, k)
    BY <1>3, Zenon DEF WalkStep
  <1> DEFINE S == {m \in 0 .. Len(names) : G[m] \notin Reach}
  <1>5. SUFFICES ASSUME S # {} PROVE FALSE
    BY <1>1, <1>3, Zenon
  <1> S \subseteq Nat
    OBVIOUS
  <1> HIDE DEF S
  <1>6. PICK m \in S : \A l \in S : m <= l
    BY <1>5, LeastNat, Zenon
  <1> USE DEF S
  <1>7. m \in 0 .. Len(names) /\ G[m] \notin Reach /\ G[m] = WalkStep(i, names, G, m)
    BY <1>4, <1>6, Zenon
  <1>8. CASE m = 0
    BY <1>7, <1>8, Zenon DEF WalkStep, Reach
  <1>9. CASE m # 0
    <2>1. m - 1 \in 0 .. Len(names) /\ m - 1 \notin S
      BY <1>6, <1>7, <1>9
    <2>2. PICK d : d = G[m - 1]
      BY Zenon
    <2>3. d \in Reach
      BY <2>1, <2>2, Zenon
    <2>4. G[m] = IF d \in {NULL, WILD} THEN d ELSE present_dir_lookup(d, names[m])
      BY <1>7, <1>9, <2>2, Zenon DEF WalkStep
    <2>5. \/ d \in {NULL, WILD}
          \/ d \in Inodes /\ inode[d].used
      BY <2>3 DEF Reach
    <2> QED BY <1>7, <2>3, <2>4, <2>5, PresentReach, Zenon
  <1> QED BY <1>8, <1>9

(* Where dir_move leads, and what it makes of pwd.                          *)
LEMMA MoveReach ==
    ASSUME InodesOK, NamesFormTree, PwdOK, NEW p \in Procs, NEW path \in Path
    PROVE  Pwd(p) \in Reach /\ dir_move(p, path) \in Reach /\ Moved(p, path) \in Reach
  <1>1. pwd[p] \in Reach /\ ROOT \in Inodes /\ inode[ROOT].used
    BY InodeFacts, Zenon DEF PwdOK, InodesOK
  <1>2. Pwd(p) \in Reach /\ WILD \in Reach
    BY <1>1, Zenon DEF Pwd, Reach
  <1>3. Pwd(p) # WILD => Pwd(p) \in Inodes /\ inode[Pwd(p)].used
    <2>1. Pwd(p) # NULL
      BY InodeFacts DEF Pwd
    <2> QED BY <1>2, <2>1, Zenon DEF Reach
  <1>4. path.names \in Seq(STRING)
    BY Zenon DEF Path
  <1>5. dir_move(p, path) \in Reach
    BY <1>1, <1>2, <1>3, <1>4, WalkReach, Zenon DEF dir_move
  <1>6. Moved(p, path) \in Reach
    BY <1>2, Zenon DEF Moved
  <1> QED BY <1>2, <1>5, <1>6

(* The parts of a path.                                                     *)
LEMMA PathParts ==
    ASSUME NEW path \in Path
    PROVE  Directory(path) \in Path /\ Filename(path) \in NameSet
  <1>1. PICK names \in Seq(STRING) : path.names = names
    BY DEF Path
  <1>2. names # <<>> => names[Len(names)] \in STRING
    OBVIOUS
  <1>3. Len(names) > 1 => SubSeq(names, 1, Len(names) - 1) \in Seq(STRING)
    OBVIOUS
  <1>4. Filename(path) \in NameSet
    BY <1>1, <1>2, Zenon DEF Filename, NameSet
  <1>5. CASE Len(names) <= 1
    <2>1. Directory(path) = [slash |-> FALSE, names |-> <<>>]
      BY <1>1, <1>5, Zenon DEF Directory
    <2> QED BY <1>4, <2>1 DEF Path
  <1>6. CASE ~(Len(names) <= 1)
    <2>1. Directory(path) = [path EXCEPT !.names = SubSeq(names, 1, Len(names) - 1)]
      BY <1>1, <1>6, Zenon DEF Directory
    <2>2. SubSeq(names, 1, Len(names) - 1) \in Seq(STRING)
      BY <1>3, <1>6
    <2> QED BY <1>4, <2>1, <2>2, Zenon DEF Path
  <1> QED BY <1>5, <1>6

(* What open finds is used, if it finds anything.                           *)
LEMMA DirLookupReach ==
    ASSUME InodesOK, NamesFormTree, PwdOK, NEW p \in Procs, NEW path \in Path
    PROVE  dir_lookup(p, path) \in Reach
  <1>1. PICK dir : dir = dir_move(p, Directory(path))
    OBVIOUS
  <1>2. dir \in Reach
    BY <1>1, PathParts, MoveReach, Zenon
  <1>3. CASE dir \in {NULL, WILD}
    BY <1>1, <1>2, <1>3, Zenon DEF dir_lookup
  <1>4. CASE dir \in Inodes /\ inode[dir].used
    <2>1. PICK file : file = Filename(path)
      OBVIOUS
    <2>2. present_dir_lookup(dir, file) \in Reach /\ lookup(dir, file) \in Reach
      BY <1>4, PresentReach, Zenon
    <2>3. NULL \in Reach /\ ROOT \in Reach
      BY InodeFacts, Zenon DEF InodesOK, Reach
    <2>4. dir \notin {NULL, WILD}
      BY <1>4, InodeFacts, Zenon
    <2>5. dir_lookup(p, path) \in {NULL, ROOT, present_dir_lookup(dir, file), lookup(dir, file)}
      BY <1>1, <2>1, <2>4, Zenon DEF dir_lookup
    <2> QED BY <2>2, <2>3, <2>5, Zenon
  <1> QED BY <1>2, <1>3, <1>4 DEF Reach
-----------------------------------------------------------------------------
(* The indices of a sequence of which k is set, which may be one past it.   *)
LEMMA OneMore ==
    ASSUME NEW n \in Nat, NEW k \in 1 .. n + 1
    PROVE  LET m == n + (IF k > n THEN 1 ELSE 0)
           IN  m \in Nat /\ 1 .. m = (1 .. n) \cup {k} /\ k \in 1 .. m
  <1>1. CASE k = n + 1
    BY <1>1
  <1>2. CASE k \in 1 .. n
    BY <1>2
  <1> QED BY <1>1, <1>2

(* Sequence W has an entry at index k, which es does not use.               *)
Extends(es, W, entry, k) ==
    /\ k \in DOMAIN es => ~es[k].in_use
    /\ W \in Seq(Entry) /\ DOMAIN W = DOMAIN es \cup {k} /\ W[k] = entry
    /\ \A l \in DOMAIN es : l # k => W[l] = es[l]

(* The entries of a directory with one more.                                *)
LEMMA WithEntryIs ==
    ASSUME InodesOK, NEW i \in Inodes, NEW entry \in Entry,
           NEW es, es = inode[i].entries, NEW W, W = WithEntry(i, entry)
    PROVE  \E k : Extends(es, W, entry, k)
  <1>1. es \in Seq(Entry)
    BY DEF InodesOK, InodeRec
  <1>2. PICK n : n = Len(es) /\ n \in Nat /\ DOMAIN es = 1 .. n
    BY <1>1
  <1> DEFINE F == {l \in 1 .. n + 1 : l \in DOMAIN es => ~es[l].in_use}
  <1>3. F \subseteq Nat /\ n + 1 \in F
    BY <1>2
  <1>4. PICK k : k = First(F)
    BY Zenon
  <1>5. k \in F
    BY <1>3, <1>4, FirstIs, Zenon
  <1>6. Slot(i) = k
    BY <1>2, <1>4, Zenon DEF Slot
  <1>7. PICK m : m = n + (IF k > n THEN 1 ELSE 0)
    OBVIOUS
  <1>8. m \in Nat /\ 1 .. m = DOMAIN es \cup {k} /\ k \in 1 .. m
    <2>1. k \in 1 .. n + 1
      BY <1>5
    <2> QED BY <1>2, <1>7, <2>1, OneMore, Zenon
  <1>9. W = [l \in 1 .. m |-> IF l = k THEN entry ELSE es[l]]
    BY <1>2, <1>6, <1>7, Zenon DEF WithEntry
  <1>10. \A l \in 1 .. m : W[l] \in Entry
    BY <1>1, <1>8, <1>9, SeqElement, Zenon
  <1>11. W \in Seq(Entry)
    BY <1>8, <1>9, <1>10
  <1>12. /\ DOMAIN W = DOMAIN es \cup {k} /\ W[k] = entry
         /\ \A l \in DOMAIN es : l # k => W[l] = es[l]
    BY <1>8, <1>9
  <1>13. k \in DOMAIN es => ~es[k].in_use
    BY <1>5
  <1> QED BY <1>11, <1>12, <1>13, Zenon DEF Extends

(* What NamesFormTree says of the entry at index k of directory i.          *)
EntryOK(i, k) ==
    /\ \A l \in InUse(i) : inode[i].entries[l].name = inode[i].entries[k].name => k = l
    /\ inode[inode[i].entries[k].sector].used /\ ~inode[inode[i].entries[k].sector].removed
    /\ inode[inode[i].entries[k].sector].directory =>
         inode[inode[i].entries[k].sector].parent = i
    /\ \A j \in Inodes : \A l \in InUse(j) :
         inode[j].entries[l].sector = inode[i].entries[k].sector => i = j /\ k = l

(* The names form a tree when every entry in use is in order.               *)
LEMMA TreeIs == NamesFormTree <=> \A i \in Inodes : \A k \in InUse(i) : EntryOK(i, k)
  BY Zenon DEF NamesFormTree, EntryOK

(* The same after a step.                                                   *)
LEMMA TreeIsPrime == NamesFormTree' <=> \A i \in Inodes : \A k \in InUse(i)' : EntryOK(i, k)'
  BY Zenon DEF NamesFormTree, EntryOK

(* Entry e is added to directory dir.                                       *)
Added(dir, e) ==
    \E k : /\ k \notin InUse(dir) /\ InUse(dir)' = InUse(dir) \cup {k}
           /\ inode'[dir].entries[k] = e
           /\ \A l \in InUse(dir) : inode'[dir].entries[l] = inode[dir].entries[l]

(* A free inode i is taken, and an entry for it added to directory dir.      *)
IsAdd(i, dir, name, directory) ==
    /\ ~inode[i].used /\ inode' \in [Inodes -> InodeRec]
    /\ \A x \in Inodes : x # i =>
         /\ inode'[x].used = inode[x].used /\ inode'[x].removed = inode[x].removed
         /\ inode'[x].directory = inode[x].directory
         /\ inode'[x].parent = inode[x].parent
    /\ \A x \in Inodes : x # dir => inode'[x].entries = inode[x].entries
    /\ inode'[i].used /\ ~inode'[i].removed
    /\ inode'[i].parent = IF directory THEN dir ELSE NULL
    /\ inode'[i].directory = directory
    /\ Added(dir, [name |-> name, sector |-> i, in_use |-> TRUE])

(* Added as dir_add does, an entry leaves the rest alone.                   *)
LEMMA AddToIs ==
    ASSUME InodesOK, NamesFormTree, Unused # {}, NEW p, NEW dir \in Inodes, inode[dir].used,
           NEW name \in NameSet, NEW directory \in BOOLEAN, AddTo(p, dir, name, directory)
    PROVE  \E i \in Inodes : IsAdd(i, dir, name, directory)
  <1>1. PICK i : i = First(Unused)
    OBVIOUS
  <1>2. i \in Inodes /\ ~inode[i].used
    <2>1. Unused \subseteq Nat
      BY InodeFacts, Zenon DEF Unused
    <2>2. i \in Unused
      BY <1>1, <2>1, FirstIs, Zenon
    <2> QED BY <2>2, Zenon DEF Unused
  <1>3. i # dir /\ inode[i].entries = <<>>
    BY <1>2, Zenon DEF InodesOK
  <1>4. PICK e : e = [name |-> name, sector |-> i, in_use |-> TRUE]
    BY Zenon
  <1>5. e \in Entry /\ e.in_use
    BY <1>2, <1>4 DEF Entry
  <1>6. PICK es : es = inode[dir].entries
    OBVIOUS
  <1>7. PICK W : W = WithEntry(dir, e)
    OBVIOUS
  <1>8. PICK k : /\ k \in DOMAIN es => ~es[k].in_use
                 /\ W \in Seq(Entry) /\ DOMAIN W = DOMAIN es \cup {k} /\ W[k] = e
                 /\ \A l \in DOMAIN es : l # k => W[l] = es[l]
    <2>1. \E k : Extends(es, W, e, k)
      BY <1>5, <1>6, <1>7, WithEntryIs, Zenon
    <2> QED BY <2>1, Zenon DEF Extends
  <1>9. PICK N : N = NewInode(directory, dir)
    OBVIOUS
  <1>10. /\ N \in InodeRec /\ N.used /\ ~N.removed /\ N.directory = directory
         /\ N.parent = (IF directory THEN dir ELSE NULL) /\ N.entries = <<>>
    <2>1. PICK up : up = IF directory THEN dir ELSE NULL
      OBVIOUS
    <2>2. up \in Inodes \cup {NULL, WILD}
      BY <2>1, Zenon
    <2>3. N = [used |-> TRUE, directory |-> directory, removed |-> FALSE, parent |-> up,
               entries |-> <<>>]
      BY <1>9, <2>1, Zenon DEF NewInode, FreeInode
    <2>4. <<>> \in Seq(Entry)
      OBVIOUS
    <2>5. N \in InodeRec
      BY <2>2, <2>3, <2>4 DEF InodeRec
    <2> QED BY <2>1, <2>3, <2>5
  <1>11. inode' = [inode EXCEPT ![i] = N, ![dir].entries = W]
    BY <1>1, <1>4, <1>7, <1>9, Zenon DEF AddTo
  <1>12. PICK D : D = [inode[dir] EXCEPT !.entries = W]
    BY Zenon
  <1>13. inode[dir] \in InodeRec
    BY DEF InodesOK
  <1>14. /\ D \in InodeRec /\ D.used = inode[dir].used /\ D.removed = inode[dir].removed
         /\ D.directory = inode[dir].directory /\ D.parent = inode[dir].parent /\ D.entries = W
    BY <1>8, <1>12, <1>13, Zenon DEF InodeRec
  <1>15. /\ inode' \in [Inodes -> InodeRec] /\ inode'[i] = N /\ inode'[dir] = D
         /\ \A x \in Inodes : x # i /\ x # dir => inode'[x] = inode[x]
    BY <1>2, <1>3, <1>10, <1>11, <1>12, <1>14 DEF InodesOK
  <1>16. Added(dir, e)
    <2>1. /\ InUse(dir)' = {l \in DOMAIN W : W[l].in_use}
          /\ InUse(dir) = {l \in DOMAIN es : es[l].in_use}
      BY <1>6, <1>14, <1>15 DEF InUse
    <2>2. k \notin InUse(dir) /\ InUse(dir)' = InUse(dir) \cup {k}
      BY <1>5, <1>8, <2>1
    <2>3. \A l \in InUse(dir) : W[l] = es[l]
      BY <1>8, <2>1, <2>2
    <2> QED BY <1>6, <1>8, <1>14, <1>15, <2>2, <2>3, Zenon DEF Added
  <1>17. \A x \in Inodes : x # i =>
           /\ inode'[x].used = inode[x].used /\ inode'[x].removed = inode[x].removed
           /\ inode'[x].directory = inode[x].directory
           /\ inode'[x].parent = inode[x].parent
    BY <1>14, <1>15, Zenon
  <1>18. \A x \in Inodes : x # dir => inode'[x].entries = inode[x].entries
    BY <1>3, <1>10, <1>15, Zenon
  <1> QED BY <1>2, <1>4, <1>10, <1>15, <1>16, <1>17, <1>18, Zenon DEF IsAdd

(* dir_add keeps the names a tree, and takes nothing out of use.            *)
LEMMA AddToTree ==
    ASSUME InodesOK, NamesFormTree, Unused # {}, NEW p, NEW dir \in Inodes, inode[dir].used,
           NEW name \in NameSet, NEW directory \in BOOLEAN, Matches(dir, name) = {},
           AddTo(p, dir, name, directory)
    PROVE  InodesOK' /\ NamesFormTree' /\ Reach \subseteq Reach'
  <1>1. PICK i \in Inodes :
             /\ ~inode[i].used /\ inode' \in [Inodes -> InodeRec]
             /\ \A x \in Inodes : x # i =>
                  /\ inode'[x].used = inode[x].used /\ inode'[x].removed = inode[x].removed
                  /\ inode'[x].directory = inode[x].directory
                  /\ inode'[x].parent = inode[x].parent
             /\ \A x \in Inodes : x # dir => inode'[x].entries = inode[x].entries
             /\ inode'[i].used /\ ~inode'[i].removed
             /\ inode'[i].parent = IF directory THEN dir ELSE NULL
             /\ inode'[i].directory = directory
             /\ Added(dir, [name |-> name, sector |-> i, in_use |-> TRUE])
    <2>1. \E i \in Inodes : IsAdd(i, dir, name, directory)
      BY AddToIs, Zenon
    <2> QED BY <2>1, Zenon DEF IsAdd
  <1>2. PICK e : e = [name |-> name, sector |-> i, in_use |-> TRUE]
    BY Zenon
  <1>3. e.name = name /\ e.sector = i
    BY <1>2
  <1>4. PICK k : /\ k \notin InUse(dir) /\ InUse(dir)' = InUse(dir) \cup {k}
                 /\ inode'[dir].entries[k] = e
                 /\ \A l \in InUse(dir) : inode'[dir].entries[l] = inode[dir].entries[l]
    BY <1>1, <1>2, Zenon DEF Added
  <1>5. \A x \in Inodes : x # dir => InUse(x)' = InUse(x)
    BY <1>1, Zenon DEF InUse
  <1>6. ASSUME NEW x \in Inodes, NEW l \in InUse(x)'
        PROVE  \/ x = dir /\ l = k
               \/ l \in InUse(x) /\ inode'[x].entries[l] = inode[x].entries[l]
    <2>1. CASE x = dir
      BY <1>4, <1>6, <2>1, Zenon
    <2>2. CASE x # dir
      <3>1. InUse(x)' = InUse(x) /\ inode'[x].entries = inode[x].entries
        BY <1>1, <1>5, <2>2, Zenon
      <3> QED BY <1>6, <3>1, Zenon
    <2> QED BY <2>1, <2>2
  <1>7. ASSUME NEW x \in Inodes, NEW l \in InUse(x)
        PROVE  /\ inode[x].entries[l].sector \in Inodes
               /\ inode[x].entries[l].sector # i
               /\ x = dir => inode[x].entries[l].name # name
    <2>1. inode[x].entries \in Seq(Entry)
      BY DEF InodesOK, InodeRec
    <2>2. l \in DOMAIN inode[x].entries /\ inode[x].entries[l].in_use
      BY <1>7, Zenon DEF InUse
    <2>3. inode[x].entries[l] \in Entry
      BY <2>1, <2>2, SeqElement, Zenon
    <2>4. inode[x].entries[l].sector \in Inodes
      BY <2>3 DEF Entry
    <2>5. inode[x].entries[l].sector # i
      BY <1>1, <1>7, ZenonT(40) DEF NamesFormTree
    <2>6. x = dir => inode[x].entries[l].name # name
      BY <2>2, Zenon DEF Matches
    <2> QED BY <2>4, <2>5, <2>6
  <1>8. Reach \subseteq Reach'
    <2>1. \A x \in Inodes : inode[x].used => inode'[x].used
      BY <1>1, Zenon
    <2> QED BY <2>1, Zenon DEF Reach
  <1>9. InodesOK'
    <2>1. inode'[ROOT].used
      BY <1>1, InodeFacts, Zenon DEF InodesOK
    <2>2. NULL \in Reach' /\ dir \in Reach'
      BY <1>8, Zenon DEF Reach
    <2>3. \A x \in Inodes : inode'[x].parent \in Reach'
      BY <1>1, <1>8, <2>2, ZenonT(40) DEF InodesOK
    <2>4. \A x \in Inodes : ~inode'[x].used => inode'[x].entries = <<>>
      BY <1>1, Zenon DEF InodesOK
    <2> QED BY <1>1, <2>1, <2>3, <2>4, Zenon DEF InodesOK
  <1>10. NamesFormTree'
    <2> SUFFICES ASSUME NEW x \in Inodes, NEW l \in InUse(x)' PROVE EntryOK(x, l)'
      BY TreeIsPrime, Zenon
    <2>1. PICK f : f = inode'[x].entries[l]
      BY Zenon
    <2> SUFFICES /\ \A m \in InUse(x)' : inode'[x].entries[m].name = f.name => l = m
                 /\ inode'[f.sector].used /\ ~inode'[f.sector].removed
                 /\ inode'[f.sector].directory => inode'[f.sector].parent = x
                 /\ \A y \in Inodes : \A m \in InUse(y)' :
                      inode'[y].entries[m].sector = f.sector => x = y /\ l = m
      BY <2>1, Zenon DEF EntryOK
    <2>2. CASE x = dir /\ l = k
      <3>1. f = e
        BY <1>4, <2>2, <2>1, Zenon
      <3>2. ASSUME NEW m \in InUse(x)', inode'[x].entries[m].name = f.name PROVE l = m
        <4>1. f.name = name
          BY <1>3, <3>1, Zenon
        <4>2. m \in InUse(x) => inode'[x].entries[m].name = inode[x].entries[m].name
          BY <1>4, <2>2, Zenon
        <4>3. m \in InUse(x) => inode[x].entries[m].name # name
          BY <1>7, <2>2, Zenon
        <4>4. m \notin InUse(x)
          BY <3>2, <4>1, <4>2, <4>3, Zenon
        <4> QED BY <1>6, <2>2, <3>2, <4>4, Zenon
      <3>3. ASSUME NEW y \in Inodes, NEW m \in InUse(y)', inode'[y].entries[m].sector = f.sector
            PROVE  x = y /\ l = m
        <4>1. inode'[y].entries[m].sector = i
          BY <1>3, <3>1, <3>3, Zenon
        <4>2. m \in InUse(y) => inode[y].entries[m].sector # i
          BY <1>7, Zenon
        <4>3. ~(m \in InUse(y) /\ inode'[y].entries[m] = inode[y].entries[m])
          BY <4>1, <4>2, Zenon
        <4> QED BY <1>6, <2>2, <3>3, <4>3, Zenon
      <3>4. /\ inode'[f.sector].used /\ ~inode'[f.sector].removed
            /\ inode'[f.sector].directory => inode'[f.sector].parent = x
        BY <1>1, <1>3, <2>2, <3>1, Zenon
      <3> QED BY <3>2, <3>3, <3>4, Zenon
    <2>3. CASE l \in InUse(x) /\ f = inode[x].entries[l]
      <3>1. EntryOK(x, l)
        BY <2>3, TreeIs, Zenon
      <3>2. f.sector \in Inodes /\ f.sector # i /\ (x = dir => f.name # name)
        BY <1>7, <2>3, Zenon
      <3>3. \A m \in InUse(x)' : inode'[x].entries[m].name = f.name => l = m
        <4>1. \A m \in InUse(x) : inode[x].entries[m].name = f.name => l = m
          BY <2>3, <3>1, Zenon DEF EntryOK
        <4> SUFFICES ASSUME NEW m \in InUse(x)', inode'[x].entries[m].name = f.name PROVE l = m
          BY Zenon
        <4>2. CASE x = dir /\ m = k
          <5>1. inode'[x].entries[m].name = name
            BY <1>3, <1>4, <4>2, Zenon
          <5> QED BY <3>2, <4>2, <5>1, Zenon
        <4>3. CASE m \in InUse(x) /\ inode'[x].entries[m] = inode[x].entries[m]
          <5>1. inode[x].entries[m].name = f.name
            BY <4>3, Zenon
          <5> QED BY <4>1, <4>3, <5>1, Zenon
        <4> QED BY <1>6, <4>2, <4>3, Zenon
      <3>4. \A y \in Inodes : \A m \in InUse(y)' :
              inode'[y].entries[m].sector = f.sector => x = y /\ l = m
        <4>1. \A y \in Inodes : \A m \in InUse(y) :
                inode[y].entries[m].sector = f.sector => x = y /\ l = m
          BY <2>3, <3>1, Zenon DEF EntryOK
        <4> SUFFICES ASSUME NEW y \in Inodes, NEW m \in InUse(y)',
                            inode'[y].entries[m].sector = f.sector
                     PROVE  x = y /\ l = m
          BY Zenon
        <4>2. CASE y = dir /\ m = k
          <5>1. inode'[y].entries[m].sector = i
            BY <1>3, <1>4, <4>2, Zenon
          <5> QED BY <3>2, <5>1, Zenon
        <4>3. CASE m \in InUse(y) /\ inode'[y].entries[m] = inode[y].entries[m]
          <5>1. inode[y].entries[m].sector = f.sector
            BY <4>3, Zenon
          <5> QED BY <4>1, <4>3, <5>1, Zenon
        <4> QED BY <1>6, <4>2, <4>3, Zenon
      <3>5. /\ inode'[f.sector].used /\ ~inode'[f.sector].removed
            /\ inode'[f.sector].directory => inode'[f.sector].parent = x
        <4>1. /\ inode[f.sector].used /\ ~inode[f.sector].removed
              /\ inode[f.sector].directory => inode[f.sector].parent = x
          BY <2>3, <3>1, Zenon DEF EntryOK
        <4> QED BY <1>1, <3>2, <4>1, Zenon
      <3> QED BY <3>3, <3>4, <3>5, Zenon
    <2> QED BY <1>6, <2>2, <2>3, <2>1, Zenon
  <1> QED BY <1>8, <1>9, <1>10

(* An entry of directory dir is taken out of use, and what it led to marked *)
(* as removed.                                                              *)
IsRemove(dir, k, s) ==
    /\ inode' \in [Inodes -> InodeRec]
    /\ \A x \in Inodes :
         /\ inode'[x].used = inode[x].used /\ inode'[x].directory = inode[x].directory
         /\ inode'[x].parent = inode[x].parent
         /\ x # s => inode'[x].removed = inode[x].removed
         /\ x # dir => inode'[x].entries = inode[x].entries
    /\ InUse(dir)' = InUse(dir) \ {k}
    /\ \A l \in InUse(dir)' : inode'[dir].entries[l] = inode[dir].entries[l]

(* dir_remove does that, and nothing else.                                  *)
LEMMA RemoveFields ==
    ASSUME inode \in [Inodes -> InodeRec], NEW dir \in Inodes, NEW k \in DOMAIN inode[dir].entries,
           NEW s \in Inodes, inode' = [inode EXCEPT ![dir].entries[k].in_use = FALSE,
                                                    ![s].removed = TRUE]
    PROVE  IsRemove(dir, k, s)
  <1>1. PICK es : es = inode[dir].entries /\ es \in Seq(Entry) /\ k \in DOMAIN es
    BY DEF InodeRec
  <1>2. PICK W : W = [es EXCEPT ![k] = [es[k] EXCEPT !.in_use = FALSE]]
    BY Zenon
  <1>3. es[k] \in Entry
    BY <1>1, SeqElement, Zenon
  <1>4. PICK e : e = [es[k] EXCEPT !.in_use = FALSE]
    BY Zenon
  <1>5. e \in Entry /\ ~e.in_use
    BY <1>3, <1>4, Zenon DEF Entry
  <1>6. /\ W \in Seq(Entry) /\ DOMAIN W = DOMAIN es /\ ~W[k].in_use
        /\ \A l \in DOMAIN es : l # k => W[l] = es[l]
    BY <1>1, <1>2, <1>4, <1>5
  <1>7. PICK D : D = [inode[dir] EXCEPT !.entries = W]
    BY Zenon
  <1>8. /\ D \in InodeRec /\ D.used = inode[dir].used /\ D.removed = inode[dir].removed
        /\ D.directory = inode[dir].directory /\ D.parent = inode[dir].parent /\ D.entries = W
    <2>1. inode[dir] \in InodeRec
      OBVIOUS
    <2> QED BY <1>6, <1>7, <2>1, Zenon DEF InodeRec
  <1>9. PICK mid : mid = [inode EXCEPT ![dir] = D]
    BY Zenon
  <1>10. /\ mid \in [Inodes -> InodeRec] /\ mid[dir] = D
         /\ \A x \in Inodes : x # dir => mid[x] = inode[x]
    BY <1>8, <1>9
  <1>11. inode' = [mid EXCEPT ![s] = [mid[s] EXCEPT !.removed = TRUE]]
    BY <1>1, <1>2, <1>7, <1>9
  <1>12. PICK R : R = [mid[s] EXCEPT !.removed = TRUE]
    BY Zenon
  <1>13. /\ R \in InodeRec /\ R.used = mid[s].used /\ R.entries = mid[s].entries
         /\ R.directory = mid[s].directory /\ R.parent = mid[s].parent
    <2>1. mid[s] \in InodeRec
      BY <1>10, Zenon
    <2> QED BY <1>12, <2>1, Zenon DEF InodeRec
  <1>14. /\ inode' \in [Inodes -> InodeRec] /\ inode'[s] = R
         /\ \A x \in Inodes : x # s => inode'[x] = mid[x]
    BY <1>10, <1>11, <1>12, <1>13, ZenonT(40)
  <1>15. inode'[dir].entries = W
    BY <1>8, <1>10, <1>13, <1>14, Zenon
  <1>16. \A x \in Inodes :
           /\ inode'[x].used = inode[x].used /\ inode'[x].directory = inode[x].directory
           /\ inode'[x].parent = inode[x].parent
           /\ x # s => inode'[x].removed = inode[x].removed
           /\ x # dir => inode'[x].entries = inode[x].entries
    <2> TAKE x \in Inodes
    <2>1. /\ mid[x].used = inode[x].used /\ mid[x].directory = inode[x].directory
          /\ mid[x].parent = inode[x].parent /\ mid[x].removed = inode[x].removed
          /\ x # dir => mid[x].entries = inode[x].entries
      BY <1>8, <1>10, Zenon
    <2>2. /\ inode'[x].used = mid[x].used /\ inode'[x].directory = mid[x].directory
          /\ inode'[x].parent = mid[x].parent /\ inode'[x].entries = mid[x].entries
          /\ x # s => inode'[x].removed = mid[x].removed
      BY <1>13, <1>14, Zenon
    <2> QED BY <2>1, <2>2, Zenon
  <1>17. /\ InUse(dir)' = {l \in DOMAIN W : W[l].in_use}
         /\ InUse(dir) = {l \in DOMAIN es : es[l].in_use}
    BY <1>1, <1>15, Zenon DEF InUse
  <1>18. InUse(dir)' = InUse(dir) \ {k} /\ \A l \in InUse(dir)' : W[l] = es[l]
    BY <1>6, <1>17
  <1>19. \A l \in InUse(dir)' : inode'[dir].entries[l] = inode[dir].entries[l]
    BY <1>1, <1>15, <1>18, Zenon
  <1> QED BY <1>14, <1>16, <1>18, <1>19, Zenon DEF IsRemove

(* dir_remove keeps the names a tree.                                       *)
LEMMA RemoveTree ==
    ASSUME InodesOK, NamesFormTree, NEW dir \in Inodes, NEW name, lookup(dir, name) # NULL,
           dir_remove(dir, name)
    PROVE  InodesOK' /\ NamesFormTree' /\ Reach \subseteq Reach'
  <1>1. PICK k : k = First(Matches(dir, name))
    BY Zenon
  <1>2. PICK s : s = lookup(dir, name)
    BY Zenon
  <1>3. /\ k \in DOMAIN inode[dir].entries /\ inode[dir].entries[k].in_use
        /\ s = inode[dir].entries[k].sector /\ s \in Inodes
    BY <1>1, <1>2, LookupIs, ZenonT(40)
  <1>4. inode' = [inode EXCEPT ![dir].entries[k].in_use = FALSE, ![s].removed = TRUE]
    BY <1>1, <1>2, Zenon DEF dir_remove
  <1>5. IsRemove(dir, k, s)
    BY <1>3, <1>4, RemoveFields, Zenon DEF InodesOK
  <1>6. \A x \in Inodes :
          /\ inode'[x].used = inode[x].used /\ inode'[x].directory = inode[x].directory
          /\ inode'[x].parent = inode[x].parent
          /\ x # s => inode'[x].removed = inode[x].removed
          /\ x # dir => inode'[x].entries = inode[x].entries
    BY <1>5, Zenon DEF IsRemove
  <1>7. \A x \in Inodes : x # dir => InUse(x)' = InUse(x)
    BY <1>6, Zenon DEF InUse
  <1>8. ASSUME NEW x \in Inodes, NEW l \in InUse(x)'
        PROVE  /\ l \in InUse(x) /\ inode'[x].entries[l] = inode[x].entries[l]
               /\ ~(x = dir /\ l = k)
    <2>1. CASE x = dir
      BY <1>5, <1>8, <2>1, Zenon DEF IsRemove
    <2>2. CASE x # dir
      BY <1>6, <1>7, <1>8, <2>2, Zenon
    <2> QED BY <2>1, <2>2
  <1>9. Reach' = Reach
    BY <1>6, Zenon DEF Reach
  <1>10. InodesOK'
    <2>1. \A x \in Inodes : ~inode'[x].used => inode'[x].entries = <<>>
      <3>1. inode[dir].used
        BY <1>3 DEF InodesOK
      <3> QED BY <1>6, <3>1, Zenon DEF InodesOK
    <2> QED BY <1>5, <1>6, <1>9, <2>1, InodeFacts, Zenon DEF InodesOK, IsRemove
  <1>11. NamesFormTree'
    <2> SUFFICES ASSUME NEW x \in Inodes, NEW l \in InUse(x)' PROVE EntryOK(x, l)'
      BY TreeIsPrime, Zenon
    <2>1. PICK f : f = inode[x].entries[l]
      BY Zenon
    <2>2. l \in InUse(x) /\ f = inode'[x].entries[l] /\ ~(x = dir /\ l = k)
      BY <1>8, <2>1, Zenon
    <2>3. EntryOK(x, l) /\ k \in InUse(dir)
      BY <1>3, <2>2, TreeIs, Zenon DEF InUse
    <2>4. f.sector \in Inodes /\ f.sector # s
      <3>1. inode[x].entries \in Seq(Entry) /\ l \in DOMAIN inode[x].entries
        BY <2>2 DEF InodesOK, InodeRec, InUse
      <3>2. f \in Entry
        BY <2>1, <3>1, SeqElement, Zenon
      <3>3. f.sector \in Inodes
        BY <3>2 DEF Entry
      <3>4. f.sector # s
        BY <1>3, <2>1, <2>2, <2>3, Zenon DEF EntryOK
      <3> QED BY <3>3, <3>4
    <2>5. /\ inode'[f.sector].used /\ ~inode'[f.sector].removed
          /\ inode'[f.sector].directory => inode'[f.sector].parent = x
      BY <1>6, <2>1, <2>3, <2>4, Zenon DEF EntryOK
    <2>6. \A m \in InUse(x)' : inode'[x].entries[m].name = f.name => l = m
      BY <1>8, <2>1, <2>3, ZenonT(40) DEF EntryOK
    <2>7. \A y \in Inodes : \A m \in InUse(y)' :
            inode'[y].entries[m].sector = f.sector => x = y /\ l = m
      <3> TAKE y \in Inodes
      <3> TAKE m \in InUse(y)'
      <3>1. m \in InUse(y) /\ inode'[y].entries[m] = inode[y].entries[m]
        BY <1>8, Zenon
      <3>2. inode[y].entries[m].sector = f.sector => x = y /\ l = m
        BY <2>1, <2>3, <3>1, Zenon DEF EntryOK
      <3> QED BY <3>1, <3>2, Zenon
    <2> QED BY <2>2, <2>5, <2>6, <2>7, Zenon DEF EntryOK
  <1> QED BY <1>9, <1>10, <1>11, Zenon
-----------------------------------------------------------------------------
(* The list after the first k turns of process_exit's loop: what is left to *)
(* look at comes first, and behind it are files of others.                  *)
TurnOK(list, p, k, l) ==
    /\ l \in Seq(OpenFile)
    /\ Len(list) - k <= Len(l)
    /\ \A i \in 1 .. Len(list) - k : l[i] = list[k + i]
    /\ \A i \in DOMAIN l : i > Len(list) - k => l[i].opener # p
    /\ \A i \in DOMAIN l : \E j \in DOMAIN list : l[i] = list[j]

(* One turn.                                                                *)
LEMMA TurnStep ==
    ASSUME NEW list \in Seq(OpenFile), NEW p, NEW k \in 0 .. Len(list) - 1,
           NEW l, TurnOK(list, p, k, l)
    PROVE  TurnOK(list, p, k + 1, Turn(l, p))
  <1>1. PICK n : n = Len(list) /\ n \in Nat /\ k \in 0 .. n - 1 /\ DOMAIN list = 1 .. n
    OBVIOUS
  <1>2. PICK m : m = Len(l) /\ m \in Nat /\ n - k <= m /\ m >= 1 /\ DOMAIN l = 1 .. m
    <2>1. l \in Seq(OpenFile) /\ n - k <= Len(l)
      BY <1>1, Zenon DEF TurnOK
    <2>2. PICK m : m = Len(l) /\ m \in Nat /\ DOMAIN l = 1 .. m
      BY <2>1, SeqElement, Zenon
    <2>3. n - k <= m /\ m >= 1
      BY <1>1, <2>1, <2>2
    <2> QED BY <2>2, <2>3, Zenon
  <1>3. /\ l \in Seq(OpenFile) /\ l # <<>>
        /\ \A i \in 1 .. n - k : l[i] = list[k + i]
        /\ \A i \in 1 .. m : i > n - k => l[i].opener # p
        /\ \A i \in 1 .. m : \E j \in 1 .. n : l[i] = list[j]
    BY <1>1, <1>2 DEF TurnOK
  <1>4. /\ Head(l) = l[1] /\ Head(l) \in OpenFile
        /\ Tail(l) \in Seq(OpenFile) /\ Len(Tail(l)) = m - 1
        /\ \A i \in 1 .. m - 1 : Tail(l)[i] = l[i + 1]
    BY <1>2, <1>3
  <1>5. PICK r : r = Turn(l, p)
    OBVIOUS
  <1>6. CASE Head(l).opener = p
    <2>1. r = Tail(l)
      BY <1>5, <1>6, Zenon DEF Turn
    <2>2. r \in Seq(OpenFile) /\ Len(r) = m - 1 /\ DOMAIN r = 1 .. m - 1
      BY <1>2, <1>4, <2>1
    <2>3. /\ n - (k + 1) <= m - 1
          /\ \A i \in 1 .. n - (k + 1) : r[i] = list[(k + 1) + i]
      BY <1>1, <1>2, <1>3, <1>4, <2>1
    <2>4. /\ \A i \in 1 .. m - 1 : i > n - (k + 1) => r[i].opener # p
          /\ \A i \in 1 .. m - 1 : \E j \in 1 .. n : r[i] = list[j]
      BY <1>1, <1>2, <1>3, <1>4, <2>1
    <2> QED BY <1>1, <1>5, <2>2, <2>3, <2>4, ZenonT(40) DEF TurnOK
  <1>7. CASE Head(l).opener # p
    <2>1. r = Append(Tail(l), l[1]) /\ l[1].opener # p
      BY <1>4, <1>5, <1>7, Zenon DEF Turn
    <2>2. /\ r \in Seq(OpenFile) /\ Len(r) = m /\ DOMAIN r = 1 .. m
          /\ \A i \in 1 .. m - 1 : r[i] = l[i + 1]
          /\ r[m] = l[1]
      BY <1>2, <1>4, <2>1
    <2>3. /\ n - (k + 1) <= m
          /\ \A i \in 1 .. n - (k + 1) : r[i] = list[(k + 1) + i]
      <3>1. n - (k + 1) <= m /\ \A i \in 1 .. n - (k + 1) :
              i \in 1 .. m - 1 /\ i + 1 \in 1 .. n - k /\ k + (i + 1) = (k + 1) + i
        BY <1>1, <1>2
      <3> QED BY <1>3, <2>2, <3>1, Zenon
    <2>4. /\ \A i \in 1 .. m : i > n - (k + 1) => r[i].opener # p
          /\ \A i \in 1 .. m : \E j \in 1 .. n : r[i] = list[j]
      <3> SUFFICES ASSUME NEW i \in 1 .. m
                   PROVE  /\ i > n - (k + 1) => r[i].opener # p
                          /\ \E j \in 1 .. n : r[i] = list[j]
        OBVIOUS
      <3>1. CASE i = m
        BY <1>2, <1>3, <2>1, <2>2, <3>1
      <3>2. CASE i # m
        <4>1. i + 1 \in 1 .. m /\ r[i] = l[i + 1]
          BY <1>2, <2>2, <3>2
        <4>2. i > n - (k + 1) => i + 1 > n - k
          BY <1>1, <1>2
        <4>3. /\ i + 1 > n - k => l[i + 1].opener # p
              /\ \E j \in 1 .. n : l[i + 1] = list[j]
          BY <1>3, <4>1, Zenon
        <4> QED BY <4>1, <4>2, <4>3, Zenon
      <3> QED BY <3>1, <3>2
    <2>5. /\ Len(list) - (k + 1) <= Len(r)
          /\ \A i \in 1 .. Len(list) - (k + 1) : r[i] = list[(k + 1) + i]
      BY <1>1, <2>2, <2>3, Zenon
    <2>6. /\ \A i \in DOMAIN r : i > Len(list) - (k + 1) => r[i].opener # p
          /\ \A i \in DOMAIN r : \E j \in DOMAIN list : r[i] = list[j]
      BY <1>1, <2>2, <2>4, Zenon
    <2> QED BY <1>5, <2>2, <2>5, <2>6, Zenon DEF TurnOK
  <1> QED BY <1>6, <1>7

(* The list after each turn, in terms of the one before.                    *)
TurnsStep(list, p, G, k) == IF k = 0 THEN list ELSE Turn(G[k - 1], p)

IsTurns(list, p, m, G) == G = [k \in 0 .. m |-> TurnsStep(list, p, G, k)]

(* The loop ends.                                                           *)
LEMMA TurnsExist ==
    ASSUME NEW list, NEW p
    PROVE  \A m \in Nat : \E G : IsTurns(list, p, m, G)
  <1> DEFINE S == {m \in Nat : ~ \E G : IsTurns(list, p, m, G)}
  <1>1. SUFFICES ASSUME S # {} PROVE FALSE
    OBVIOUS
  <1> S \subseteq Nat
    OBVIOUS
  <1> HIDE DEF S
  <1>2. PICK m \in S : \A l \in S : m <= l
    BY <1>1, LeastNat, Zenon
  <1> USE DEF S
  <1>3. m \in Nat /\ ~ \E G : IsTurns(list, p, m, G)
    BY <1>2
  <1>4. CASE m = 0
    <2>1. IsTurns(list, p, 0, [k \in 0 .. 0 |-> list])
      BY DEF IsTurns, TurnsStep
    <2> QED BY <2>1, <1>3, <1>4
  <1>5. CASE m # 0
    <2>1. m - 1 \in Nat /\ m - 1 \notin S
      BY <1>2, <1>3, <1>5
    <2>2. PICK G : IsTurns(list, p, m - 1, G)
      BY <2>1
    <2> DEFINE H == [k \in 0 .. m |-> IF k < m THEN G[k] ELSE TurnsStep(list, p, G, m)]
    <2>3. \A k \in 0 .. m - 1 : G[k] = TurnsStep(list, p, G, k)
      BY <2>2, <1>3, Zenon DEF IsTurns
    <2>4. \A k \in 0 .. m : H[k] = TurnsStep(list, p, H, k)
      <3> TAKE k \in 0 .. m
      <3>1. k # 0 => k - 1 \in 0 .. m - 1 /\ H[k - 1] = G[k - 1]
        BY <1>3
      <3>2. TurnsStep(list, p, H, k) = TurnsStep(list, p, G, k)
        BY <3>1 DEF TurnsStep
      <3>3. H[k] = TurnsStep(list, p, G, k)
        BY <2>3, <1>3
      <3> QED BY <3>2, <3>3
    <2>5. IsTurns(list, p, m, H)
      BY <2>4 DEF IsTurns
    <2> QED BY <2>5, <1>3
  <1> QED BY <1>4, <1>5

PartOf(l, list) == \A i \in DOMAIN l : \E j \in DOMAIN list : l[i] = list[j]
NoneOf(p, l) == \A i \in DOMAIN l : l[i].opener # p

(* CloseAll takes the files of p off the list, and no others.               *)
LEMMA CloseAllIs ==
    ASSUME NEW list \in Seq(OpenFile), NEW p, NEW l, l = CloseAll(list, p)
    PROVE  l \in Seq(OpenFile) /\ NoneOf(p, l) /\ PartOf(l, list)
  <1>1. PICK n : n = Len(list) /\ n \in Nat /\ n \in 0 .. n /\ DOMAIN list = 1 .. n
    OBVIOUS
  <1>2. \E G : IsTurns(list, p, n, G)
    BY <1>1, TurnsExist, Zenon
  <1>3. PICK G : /\ CloseAll(list, p) = G[n]
                 /\ G = [k \in 0 .. n |-> IF k = 0 THEN list ELSE Turn(G[k - 1], p)]
    BY <1>1, <1>2, Zenon DEF CloseAll, Turns, IsTurns, TurnsStep
  <1>4. G[0] = list /\ \A k \in 1 .. n : G[k] = Turn(G[k - 1], p)
    BY <1>1, <1>3
  <1> DEFINE S == {m \in 0 .. n : ~TurnOK(list, p, m, G[m])}
  <1>5. S = {}
    <2>1. SUFFICES ASSUME S # {} PROVE FALSE
      BY Zenon
    <2> S \subseteq Nat
      OBVIOUS
    <2> HIDE DEF S
    <2>2. PICK m \in S : \A x \in S : m <= x
      BY <2>1, LeastNat, Zenon
    <2> USE DEF S
    <2>3. m \in 0 .. n /\ ~TurnOK(list, p, m, G[m])
      BY <2>2, Zenon
    <2>4. CASE m = 0
      <3>1. TurnOK(list, p, 0, list)
        BY <1>1 DEF TurnOK
      <3> QED BY <1>4, <2>3, <2>4, <3>1, Zenon
    <2>5. CASE m # 0
      <3>1. PICK k : k = m - 1
        OBVIOUS
      <3>2. k \in 0 .. n - 1 /\ k \in 0 .. n /\ k + 1 = m /\ ~(m <= k) /\ m \in 1 .. n
        BY <1>1, <2>3, <2>5, <3>1
      <3>3. TurnOK(list, p, k, G[k])
        BY <2>2, <3>2, Zenon
      <3>4. TurnOK(list, p, k + 1, Turn(G[k], p))
        BY <1>1, <3>2, <3>3, TurnStep, Zenon
      <3> QED BY <1>4, <2>3, <3>1, <3>2, <3>4, Zenon
    <2> QED BY <2>4, <2>5
  <1>6. TurnOK(list, p, n, l)
    BY <1>1, <1>3, <1>5, Zenon
  <1>7. l \in Seq(OpenFile) /\ \A i \in DOMAIN l : i > 0 => l[i].opener # p
    BY <1>1, <1>6 DEF TurnOK
  <1>8. \A i \in DOMAIN l : i > 0 /\ \E j \in DOMAIN list : l[i] = list[j]
    BY <1>6, <1>7 DEF TurnOK
  <1> QED BY <1>7, <1>8, Zenon DEF NoneOf, PartOf

Skips(M, list, k) ==
    /\ Len(M) = Len(list) - 1
    /\ \A i \in 1 .. Len(list) - 1 : M[i] = IF i < k THEN list[i] ELSE list[i + 1]

(* What two lists one after the other hold.                                 *)
LEMMA Joined ==
    ASSUME NEW S, NEW s \in Seq(S), NEW t \in Seq(S)
    PROVE  /\ s \o t \in Seq(S) /\ Len(s \o t) = Len(s) + Len(t)
           /\ \A i \in 1 .. Len(s) + Len(t) :
                (s \o t)[i] = IF i <= Len(s) THEN s[i] ELSE t[i - Len(s)]
  OBVIOUS

(* The list without one element.                                            *)
LEMMA WithoutElements ==
    ASSUME NEW S, NEW list \in Seq(S), NEW k \in DOMAIN list, NEW M, M = Without(list, k)
    PROVE  M \in Seq(S) /\ Skips(M, list, k)
  <1>1. PICK n : n = Len(list) /\ n \in Nat /\ DOMAIN list = 1 .. n /\ k \in 1 .. n
    OBVIOUS
  <1>2. PICK a : a = SubSeq(list, 1, k - 1)
    BY Zenon
  <1>3. PICK b : b = SubSeq(list, k + 1, n)
    BY Zenon
  <1>4. a \in Seq(S) /\ Len(a) = k - 1 /\ \A i \in 1 .. k - 1 : a[i] = list[i]
    BY <1>1, <1>2
  <1>5. b \in Seq(S) /\ Len(b) = n - k /\ \A i \in 1 .. n - k : b[i] = list[k + i]
    <2>1. b \in Seq(S) /\ Len(b) = n - k
      BY <1>1, <1>3
    <2>2. \A i \in 1 .. n - k : b[i] = list[k + i]
      BY <1>1, <1>3
    <2> QED BY <2>1, <2>2, Zenon
  <1>6. PICK c : c = a \o b
    BY Zenon
  <1>7. /\ c \in Seq(S) /\ DOMAIN c = 1 .. n - 1
        /\ \A i \in 1 .. n - 1 : c[i] = IF i <= k - 1 THEN a[i] ELSE b[i - (k - 1)]
    <2>1. /\ c \in Seq(S) /\ Len(c) = Len(a) + Len(b)
          /\ \A i \in 1 .. Len(a) + Len(b) :
               c[i] = IF i <= Len(a) THEN a[i] ELSE b[i - Len(a)]
      BY <1>4, <1>5, <1>6, Joined, ZenonT(40)
    <2>2. Len(a) = k - 1 /\ Len(b) = n - k
      BY <1>4, <1>5, Zenon
    <2>3. (k - 1) + (n - k) = n - 1
      BY <1>1
    <2>4. c \in Seq(S) /\ Len(c) = n - 1
      BY <2>1, <2>2, <2>3, Zenon
    <2>5. DOMAIN c = 1 .. n - 1
      BY <2>4
    <2> QED BY <2>1, <2>2, <2>3, <2>5, Zenon
  <1> Len(c) = n - 1
    BY <1>1, <1>7
  <1>8. \A i \in 1 .. n - 1 : c[i] = IF i < k THEN list[i] ELSE list[i + 1]
    <2> TAKE i \in 1 .. n - 1
    <2>1. CASE i < k
      BY <1>1, <1>4, <1>7, <2>1
    <2>2. CASE ~(i < k)
      <3>1. i - (k - 1) \in 1 .. n - k /\ k + (i - (k - 1)) = i + 1 /\ ~(i <= k - 1)
        BY <1>1, <2>2
      <3> QED BY <1>5, <1>7, <2>2, <3>1
    <2> QED BY <2>1, <2>2
  <1>9. M = c
    BY <1>1, <1>2, <1>3, <1>6, Zenon DEF Without
  <1> QED BY <1>1, <1>7, <1>8, <1>9, Zenon DEF Skips

(* It holds only what the list held.                                        *)
LEMMA WithoutIs ==
    ASSUME NEW S, NEW list \in Seq(S), NEW k \in DOMAIN list, NEW M, M = Without(list, k)
    PROVE  M \in Seq(S) /\ PartOf(M, list)
  <1>1. PICK n : n = Len(list) /\ n \in Nat /\ k \in 1 .. n /\ DOMAIN list = 1 .. n
    OBVIOUS
  <1>2. /\ M \in Seq(S) /\ Len(M) = n - 1
        /\ \A i \in 1 .. n - 1 : M[i] = IF i < k THEN list[i] ELSE list[i + 1]
    <2>1. M \in Seq(S) /\ Skips(M, list, k)
      BY WithoutElements, ZenonT(40)
    <2> QED BY <1>1, <2>1, Zenon DEF Skips
  <1>3. DOMAIN M = 1 .. n - 1
    BY <1>1, <1>2
  <1>4. \A i \in 1 .. n - 1 : i \in 1 .. n /\ i + 1 \in 1 .. n
    BY <1>1
  <1> QED BY <1>1, <1>2, <1>3, <1>4, Zenon DEF PartOf
-----------------------------------------------------------------------------
(* The initial state.                                                       *)
LEMMA InitInv == Init => FilesInv
  <1> SUFFICES ASSUME Init PROVE FilesInv
    OBVIOUS
  <1>1. FreeInode \in InodeRec /\ ~FreeInode.used /\ FreeInode.entries = <<>>
        /\ FreeInode.parent = NULL
    BY DEF FreeInode, InodeRec
  <1>2. PICK N : N = NewInode(TRUE, WILD)
    BY Zenon
  <1>3. N = [used |-> TRUE, directory |-> TRUE, removed |-> FALSE, parent |-> WILD, entries |-> <<>>]
    BY <1>2, Zenon DEF NewInode, FreeInode
  <1>4. N \in InodeRec /\ N.used /\ N.entries = <<>> /\ N.parent = WILD
    BY <1>3 DEF InodeRec
  <1>5. inode = [i \in Inodes |-> IF i = ROOT THEN N ELSE FreeInode]
    BY <1>2, Zenon DEF Init
  <1>6. /\ inode[ROOT] = N /\ inode \in [Inodes -> InodeRec]
        /\ \A i \in Inodes : inode[i] = N \/ inode[i] = FreeInode
    BY <1>1, <1>4, <1>5, InodeFacts, Zenon
  <1>7. NULL \in Reach /\ WILD \in Reach
    BY Zenon DEF Reach
  <1>8. \A i \in Inodes : inode[i].parent \in Reach /\ inode[i].entries = <<>>
    BY <1>1, <1>4, <1>6, <1>7, Zenon
  <1>9. InodesOK
    BY <1>4, <1>6, <1>8, Zenon DEF InodesOK
  <1>10. NamesFormTree
    <2>1. \A i \in Inodes : InUse(i) = {}
      BY <1>8 DEF InUse
    <2> QED BY <2>1, Zenon DEF NamesFormTree
  <1>11. PwdOK
    BY <1>7, Zenon DEF Init, PwdOK
  <1>12. ListOK
    BY DEF Init, ListOK, OpenersExist
  <1> QED BY <1>9, <1>10, <1>11, <1>12 DEF FilesInv

(* A step that leaves the inodes as they are, or adds or removes an entry,  *)
(* and changes pwd of one process.                                          *)
LEMMA PwdStep ==
    ASSUME FilesInv, InodesOK', NamesFormTree', Reach \subseteq Reach', NEW p \in Procs,
           NEW d \in Reach', pwd' = [pwd EXCEPT ![p] = d], UNCHANGED <<alive, openfile_list>>
    PROVE  FilesInv'
  <1>1. PwdOK'
    BY Zenon DEF FilesInv, PwdOK
  <1>2. ListOK'
    BY Zenon DEF FilesInv, ListOK, OpenersExist
  <1> QED BY <1>1, <1>2, Zenon DEF FilesInv

(* What InodesOK and NamesFormTree speak of is inode.                       *)
LEMMA SameInodes ==
    ASSUME FilesInv, UNCHANGED inode
    PROVE  InodesOK' /\ NamesFormTree' /\ Reach' = Reach
  <1>1. Reach' = Reach
    BY Zenon DEF Reach
  <1>2. InodesOK'
    BY <1>1, Zenon DEF FilesInv, InodesOK
  <1>3. NamesFormTree'
    <2>1. \A i : InUse(i)' = InUse(i)
      BY ZenonT(40) DEF InUse
    <2>2. ASSUME NEW i \in Inodes, NEW k \in InUse(i), EntryOK(i, k)
          PROVE  EntryOK(i, k)'
      <3>1. \A l \in InUse(i)' :
              inode'[i].entries[l].name = inode'[i].entries[k].name => k = l
        BY <2>1, <2>2, Zenon DEF EntryOK
      <3>2. /\ inode'[inode'[i].entries[k].sector].used
            /\ ~inode'[inode'[i].entries[k].sector].removed
            /\ inode'[inode'[i].entries[k].sector].directory =>
                 inode'[inode'[i].entries[k].sector].parent = i
        BY <2>2, Zenon DEF EntryOK
      <3>3. \A j \in Inodes : \A l \in InUse(j)' :
              inode'[j].entries[l].sector = inode'[i].entries[k].sector => i = j /\ k = l
        BY <2>1, <2>2, Zenon DEF EntryOK
      <3> QED BY <3>1, <3>2, <3>3, Zenon DEF EntryOK
    <2>3. \A i \in Inodes : \A k \in InUse(i) : EntryOK(i, k)
      BY TreeIs, Zenon DEF FilesInv
    <2>4. \A i \in Inodes : \A k \in InUse(i)' : EntryOK(i, k)'
      BY <2>1, <2>2, <2>3, Zenon
    <2> QED BY <2>4, TreeIsPrime, Zenon
  <1> QED BY <1>1, <1>2, <1>3

(* filesys_create, which makes a file or a directory.                       *)
LEMMA CreateStep ==
    ASSUME FilesInv, NEW p \in Procs, NEW path \in Path, NEW directory \in BOOLEAN,
           filesys_create(p, path, directory), UNCHANGED <<alive, openfile_list>>
    PROVE  FilesInv'
  <1>1. InodesOK /\ NamesFormTree /\ PwdOK
    BY Zenon DEF FilesInv
  <1>2. PICK up : up = Directory(path)
    BY Zenon
  <1>3. PICK dir : dir = dir_move(p, up)
    BY Zenon
  <1>4. PICK name : name = Filename(path)
    BY Zenon
  <1>5. up \in Path /\ name \in NameSet /\ dir \in Reach /\ Moved(p, up) \in Reach
    BY <1>1, <1>2, <1>3, <1>4, PathParts, MoveReach, Zenon
  <1>6. /\ Unused # {} /\ dir # WILD /\ pwd' = [pwd EXCEPT ![p] = Moved(p, up)]
        /\ IF dir # NULL /\ Addable(dir, name) THEN AddTo(p, dir, name, directory)
           ELSE UNCHANGED inode
    BY <1>2, <1>3, <1>4, Zenon DEF filesys_create
  <1>7. InodesOK' /\ NamesFormTree' /\ Reach \subseteq Reach'
    <2>1. CASE dir # NULL /\ Addable(dir, name)
      <3>1. dir \in Inodes /\ inode[dir].used
        BY <1>5, <1>6, <2>1 DEF Reach
      <3>2. lookup(dir, name) = NULL
        BY <2>1, Zenon DEF Addable
      <3>3. Matches(dir, name) = {}
        BY <1>1, <3>1, <3>2, LookupIs, InodeFacts, Zenon
      <3> QED BY <1>1, <1>5, <1>6, <2>1, <3>1, <3>3, AddToTree, Zenon
    <2>2. CASE ~(dir # NULL /\ Addable(dir, name))
      BY <1>6, <2>2, SameInodes, Zenon
    <2> QED BY <2>1, <2>2
  <1> QED BY <1>5, <1>6, <1>7, PwdStep, Zenon

(* syscall_remove.                                                          *)
LEMMA RemoveStep ==
    ASSUME FilesInv, NEW p \in Procs, NEW path \in Path, syscall_remove(p, path)
    PROVE  FilesInv'
  <1>1. InodesOK /\ NamesFormTree /\ PwdOK
    BY Zenon DEF FilesInv
  <1>2. PICK up : up = Directory(path)
    BY Zenon
  <1>3. PICK dir : dir = IF ~Empty(up) THEN dir_move(p, up)
                         ELSE IF dir_num > PWD_ABOVE THEN pwd[p] ELSE ROOT
    BY Zenon
  <1>4. PICK name : name = Filename(path)
    BY Zenon
  <1>5. up \in Path /\ dir_move(p, up) \in Reach /\ Moved(p, up) \in Reach
    BY <1>1, <1>2, PathParts, MoveReach, Zenon
  <1>6. ROOT \in Reach /\ pwd[p] \in Reach
    BY <1>1, InodeFacts, Zenon DEF InodesOK, PwdOK, Reach
  <1>7. dir \in Reach
    BY <1>3, <1>5, <1>6, Zenon
  <1>8. /\ dir # WILD /\ pwd' = IF Empty(up) THEN pwd ELSE [pwd EXCEPT ![p] = Moved(p, up)]
        /\ \/ dir # NULL /\ lookup(dir, name) # NULL /\ dir_remove(dir, name)
           \/ UNCHANGED inode
        /\ UNCHANGED <<alive, openfile_list>>
    BY <1>2, <1>3, <1>4, Zenon DEF syscall_remove
  <1>9. InodesOK' /\ NamesFormTree' /\ Reach \subseteq Reach'
    <2>1. CASE dir # NULL /\ lookup(dir, name) # NULL /\ dir_remove(dir, name)
      <3>1. dir \in Inodes
        BY <1>7, <1>8, <2>1 DEF Reach
      <3> QED BY <1>1, <2>1, <3>1, RemoveTree, Zenon
    <2>2. CASE UNCHANGED inode
      BY <2>2, SameInodes, Zenon
    <2> QED BY <1>8, <2>1, <2>2, Zenon
  <1>10. pwd' = [pwd EXCEPT ![p] = IF Empty(up) THEN pwd[p] ELSE Moved(p, up)]
    <2>1. CASE Empty(up)
      BY <1>1, <1>8, <2>1 DEF PwdOK
    <2>2. CASE ~Empty(up)
      BY <1>8, <2>2, Zenon
    <2> QED BY <2>1, <2>2
  <1> QED BY <1>5, <1>6, <1>8, <1>9, <1>10, PwdStep, Zenon

(* syscall_mkdir, which creates a directory or fails before.                *)
LEMMA MkdirStep ==
    ASSUME FilesInv, NEW p \in Procs, NEW path \in Path, syscall_mkdir(p, path)
    PROVE  FilesInv'
  <1>1. PICK up : up = Directory(path)
    BY Zenon
  <1>2. Moved(p, up) \in Reach
    BY <1>1, PathParts, MoveReach, Zenon DEF FilesInv
  <1>3. CASE UNCHANGED inode /\ pwd' = [pwd EXCEPT ![p] = Moved(p, up)]
    BY <1>2, <1>3, SameInodes, PwdStep, Zenon DEF syscall_mkdir
  <1>4. CASE filesys_create(p, path, TRUE)
    BY <1>4, CreateStep, Zenon DEF syscall_mkdir
  <1> QED BY <1>1, <1>3, <1>4, Zenon DEF syscall_mkdir

(* syscall_chdir.                                                           *)
LEMMA ChdirStep ==
    ASSUME FilesInv, NEW p \in Procs, NEW path \in Path, syscall_chdir(p, path)
    PROVE  FilesInv'
  <1>1. dir_move(p, path) \in Reach /\ Moved(p, path) \in Reach /\ WILD \in Reach
    BY MoveReach, Zenon DEF FilesInv, Reach
  <1>2. PICK d : d = IF Empty(path) THEN WILD
                     ELSE IF dir_move(p, path) = NULL THEN Moved(p, path) ELSE dir_move(p, path)
    BY Zenon
  <1>3. d \in Reach
    BY <1>1, <1>2, Zenon
  <1>4. pwd' = [pwd EXCEPT ![p] = d] /\ UNCHANGED <<inode, alive, openfile_list>>
    BY <1>2, Zenon DEF syscall_chdir
  <1> QED BY <1>3, <1>4, SameInodes, PwdStep, Zenon

(* The list of open files changes and the rest stays.                       *)
LEMMA ListStep ==
    ASSUME FilesInv, UNCHANGED <<inode, pwd, alive>>, openfile_list' \in Seq(OpenFile),
           \A k \in DOMAIN openfile_list' : \E j \in DOMAIN openfile_list :
             openfile_list'[k].opener = openfile_list[j].opener
    PROVE  FilesInv'
  <1>1. InodesOK' /\ NamesFormTree' /\ Reach' = Reach
    BY SameInodes, Zenon
  <1>2. PwdOK'
    BY <1>1, Zenon DEF FilesInv, PwdOK
  <1>3. ListOK'
    BY Zenon DEF FilesInv, ListOK, OpenersExist
  <1> QED BY <1>1, <1>2, <1>3, Zenon DEF FilesInv

(* syscall_open.                                                            *)
LEMMA OpenStep ==
    ASSUME FilesInv, NEW p \in Procs, NEW path \in Path, syscall_open(p, path)
    PROVE  FilesInv'
  <1>1. PICK i : i = dir_lookup(p, path)
    BY Zenon
  <1>2. PICK L : L = openfile_list /\ L \in Seq(OpenFile)
    BY Zenon DEF FilesInv, ListOK
  <1>3. PICK of : of = [fd |-> Len(L) + 3, opener |-> p, inode |-> i, pos |-> 1]
    BY Zenon
  <1>4. /\ p \in alive /\ i # WILD /\ pwd' = [pwd EXCEPT ![p] = Moved(p, Directory(path))]
        /\ openfile_list' = IF i = NULL THEN L ELSE <<of>> \o L
        /\ UNCHANGED <<inode, alive>>
    BY <1>1, <1>2, <1>3, Zenon DEF syscall_open, Calls
  <1>5. i \in Reach
    BY <1>1, DirLookupReach, Zenon DEF FilesInv
  <1>6. InodesOK' /\ NamesFormTree' /\ Reach' = Reach
    BY <1>4, SameInodes, Zenon
  <1>7. PwdOK'
    <2>1. Moved(p, Directory(path)) \in Reach
      BY PathParts, MoveReach, Zenon DEF FilesInv
    <2> QED BY <1>4, <1>6, <2>1, Zenon DEF FilesInv, PwdOK
  <1>8. alive \subseteq Procs /\ \A k \in DOMAIN L : L[k].opener \in alive
    BY <1>2, Zenon DEF FilesInv, ListOK, OpenersExist
  <1>9. ListOK'
    <2>1. CASE i = NULL
      BY <1>2, <1>4, <1>8, <2>1, Zenon DEF ListOK, OpenersExist
    <2>2. CASE i # NULL
      <3>1. i \in Inodes
        BY <1>4, <1>5, <2>2 DEF Reach
      <3>2. of \in OpenFile /\ of.opener = p
        <4>1. Len(L) + 3 \in Int
          BY <1>2
        <4> QED BY <1>3, <3>1, <4>1 DEF OpenFile
      <3>3. PICK M : M = <<of>> \o L
        BY Zenon
      <3>4. /\ M \in Seq(OpenFile) /\ M[1] = of
            /\ \A k \in DOMAIN M : k = 1 \/ (k - 1 \in DOMAIN L /\ M[k] = L[k - 1])
        BY <1>2, <3>2, <3>3
      <3>5. \A k \in DOMAIN M : M[k].opener \in alive
        BY <1>4, <1>8, <3>2, <3>4, Zenon
      <3> QED BY <1>4, <1>8, <2>2, <3>3, <3>4, <3>5, Zenon DEF ListOK, OpenersExist
    <2> QED BY <2>1, <2>2
  <1> QED BY <1>6, <1>7, <1>9, Zenon DEF FilesInv

(* First finds the number of a descriptor that is open.                     *)
LEMMA FirstFd ==
    ASSUME FilesInv, NEW fd, WithFd(fd) # {}
    PROVE  First(WithFd(fd)) \in DOMAIN openfile_list
  <1>1. openfile_list \in Seq(OpenFile)
    BY Zenon DEF FilesInv, ListOK
  <1>2. WithFd(fd) \subseteq Nat
    BY <1>1 DEF WithFd
  <1>3. First(WithFd(fd)) \in WithFd(fd)
    BY <1>2, FirstIs, Zenon
  <1> QED BY <1>3, Zenon DEF WithFd

(* syscall_close.                                                           *)
LEMMA CloseStep ==
    ASSUME FilesInv, NEW p \in Procs, NEW fd, syscall_close(p, fd)
    PROVE  FilesInv'
  <1>1. PICK k : k = First(WithFd(fd))
    BY Zenon
  <1>2. PICK M : M = Without(openfile_list, k)
    BY Zenon
  <1>3. k \in DOMAIN openfile_list
    BY <1>1, FirstFd, Zenon DEF syscall_close
  <1>4. M \in Seq(OpenFile) /\ PartOf(M, openfile_list)
    BY <1>2, <1>3, WithoutIs, Zenon DEF FilesInv, ListOK
  <1>5. openfile_list' = M /\ UNCHANGED <<inode, pwd, alive>>
    BY <1>1, <1>2, Zenon DEF syscall_close
  <1>6. \A i \in DOMAIN openfile_list' : \E j \in DOMAIN openfile_list :
          openfile_list'[i].opener = openfile_list[j].opener
    BY <1>4, <1>5, Zenon DEF PartOf
  <1> QED BY <1>4, <1>5, <1>6, ListStep, Zenon

(* syscall_readdir.                                                         *)
LEMMA ReaddirStep ==
    ASSUME FilesInv, NEW p \in Procs, NEW fd, syscall_readdir(p, fd)
    PROVE  FilesInv'
  <1>1. PICK k : k = First(WithFd(fd))
    BY Zenon
  <1>2. PICK L : L = openfile_list /\ L \in Seq(OpenFile)
    BY Zenon DEF FilesInv, ListOK
  <1>3. k \in DOMAIN L
    BY <1>1, <1>2, FirstFd, Zenon DEF syscall_readdir
  <1>4. L[k] \in OpenFile
    BY <1>2, <1>3, SeqElement, Zenon
  <1>5. L[k].inode \in Inodes /\ L[k].pos \in Int
    BY <1>4 DEF OpenFile
  <1>6. PICK es : es = inode[L[k].inode].entries
    BY Zenon
  <1>7. es \in Seq(Entry)
    BY <1>5, <1>6 DEF FilesInv, InodesOK, InodeRec
  <1>8. PICK rest : rest = {n \in DOMAIN es : n >= L[k].pos /\ es[n].in_use}
    BY Zenon
  <1>9. PICK pos : pos = IF ~inode[L[k].inode].directory THEN L[k].pos
                         ELSE IF rest # {} THEN First(rest) + 1
                         ELSE IF L[k].pos > Len(es) THEN L[k].pos ELSE Len(es) + 1
    BY Zenon
  <1>10. pos \in Int
    <2>1. rest \subseteq Nat /\ Len(es) + 1 \in Int
      BY <1>7, <1>8
    <2>2. ASSUME rest # {} PROVE First(rest) + 1 \in Int
      <3>1. PICK f : f = First(rest)
        BY Zenon
      <3>2. f \in Nat
        BY <2>1, <2>2, <3>1, FirstIs, Zenon
      <3>3. f + 1 \in Int
        BY <3>2
      <3> QED BY <3>1, <3>3, Zenon
    <2> QED BY <1>5, <1>9, <2>1, <2>2, Zenon
  <1>11. /\ openfile_list' = [L EXCEPT ![k].pos = pos]
         /\ UNCHANGED <<inode, pwd, alive>>
    BY <1>1, <1>2, <1>6, <1>8, <1>9, Zenon DEF syscall_readdir
  <1>12. PICK of : of = [L[k] EXCEPT !.pos = pos]
    BY Zenon
  <1>13. of \in OpenFile /\ of.opener = L[k].opener
    BY <1>4, <1>10, <1>12 DEF OpenFile
  <1>14. PICK M : M = [L EXCEPT ![k] = of]
    BY Zenon
  <1>15. /\ M \in Seq(OpenFile) /\ DOMAIN M = DOMAIN L
         /\ M[k] = of /\ \A i \in DOMAIN L : i # k => M[i] = L[i]
    BY <1>2, <1>3, <1>13, <1>14
  <1>16. openfile_list' = M
    BY <1>11, <1>12, <1>14, Zenon
  <1>17. \A i \in DOMAIN openfile_list' : \E j \in DOMAIN openfile_list :
           openfile_list'[i].opener = openfile_list[j].opener
    BY <1>2, <1>13, <1>15, <1>16, Zenon
  <1> QED BY <1>11, <1>15, <1>16, <1>17, ListStep, Zenon

(* Exit, after which no file of the process is open.                        *)
LEMMA ExitStep ==
    ASSUME FilesInv, NEW p \in Procs, Exit(p)
    PROVE  FilesInv'
  <1>1. /\ openfile_list' = CloseAll(openfile_list, p) /\ alive' = alive \ {p}
        /\ pwd' = [pwd EXCEPT ![p] = NULL] /\ UNCHANGED inode
    BY Zenon DEF Exit
  <1>2. InodesOK' /\ NamesFormTree' /\ Reach' = Reach
    BY <1>1, SameInodes, Zenon
  <1>3. PwdOK'
    BY <1>1, <1>2, Zenon DEF FilesInv, PwdOK, Reach
  <1>4. PICK M : M = openfile_list'
    BY Zenon
  <1>5. M \in Seq(OpenFile) /\ NoneOf(p, M) /\ PartOf(M, openfile_list)
    BY <1>1, <1>4, CloseAllIs, Zenon DEF FilesInv, ListOK
  <1>6. \A i \in DOMAIN M : M[i].opener \in alive'
    BY <1>1, <1>5, Zenon DEF FilesInv, ListOK, OpenersExist, NoneOf, PartOf
  <1>7. ListOK'
    BY <1>1, <1>4, <1>5, <1>6, Zenon DEF FilesInv, ListOK, OpenersExist
  <1> QED BY <1>2, <1>3, <1>7, Zenon DEF FilesInv

(* Exec.                                                                    *)
LEMMA ExecStep ==
    ASSUME FilesInv, NEW p \in Procs, Exec(p)
    PROVE  FilesInv'
  <1>1. alive' = alive \cup {p} /\ UNCHANGED <<inode, pwd, openfile_list>>
    BY Zenon DEF Exec
  <1>2. InodesOK' /\ NamesFormTree' /\ Reach' = Reach
    BY <1>1, SameInodes, Zenon
  <1>3. PwdOK'
    BY <1>1, <1>2, Zenon DEF FilesInv, PwdOK
  <1>4. ListOK'
    BY <1>1, Zenon DEF FilesInv, ListOK, OpenersExist
  <1> QED BY <1>2, <1>3, <1>4, Zenon DEF FilesInv
-----------------------------------------------------------------------------
(* Every system call keeps the invariant.                                   *)
LEMMA FilesStep ==
    ASSUME FilesInv, [Next]_vars
    PROVE  FilesInv'
  <1>1. CASE UNCHANGED vars
    <2>1. UNCHANGED <<inode, pwd, alive, openfile_list>>
      BY <1>1, Zenon DEF vars
    <2> QED BY <2>1, ListStep, Zenon DEF FilesInv, ListOK
  <1>2. CASE Next
    <2>1. PICK p \in Procs :
            \/ Exit(p) \/ Exec(p)
            \/ \E path \in Paths : \/ syscall_create(p, path) \/ syscall_mkdir(p, path)
                                   \/ syscall_chdir(p, path) \/ syscall_remove(p, path)
                                   \/ syscall_open(p, path)
            \/ \E fd \in Fds : syscall_close(p, fd) \/ syscall_readdir(p, fd)
      BY <1>2, Zenon DEF Next
    <2>2. CASE Exit(p) \/ Exec(p)
      BY <2>2, ExitStep, ExecStep, Zenon
    <2>3. ASSUME NEW path \in Paths,
                 \/ syscall_create(p, path) \/ syscall_mkdir(p, path)
                 \/ syscall_chdir(p, path) \/ syscall_remove(p, path)
                 \/ syscall_open(p, path)
          PROVE  FilesInv'
      <3>1. path \in Path
        BY FilesAssumption, Zenon DEF Path
      <3>2. CASE syscall_create(p, path)
        BY <3>1, <3>2, CreateStep, Zenon DEF syscall_create
      <3> QED BY <2>3, <3>1, <3>2, MkdirStep, ChdirStep, RemoveStep, OpenStep, Zenon
    <2>4. CASE \E fd \in Fds : syscall_close(p, fd) \/ syscall_readdir(p, fd)
      BY <2>4, CloseStep, ReaddirStep, Zenon
    <2> QED BY <2>1, <2>2, <2>3, <2>4, Zenon
  <1> QED BY <1>1, <1>2

(* In every behaviour of the system calls on names and descriptors the      *)
(* directories, the working directories and the list of open files agree    *)
(* (directory.c, syscall.c).                                                *)
THEOREM FilesInvariant == Spec => []FilesInv
  BY InitInv, FilesStep, PTL DEF Spec

(* The names form a tree below each directory, whatever paths processes     *)
(* create, remove and walk through (dir_add, dir_remove).                   *)
THEOREM NamesAlwaysFormTree == Spec => []NamesFormTree
  <1>1. FilesInv => NamesFormTree
    BY DEF FilesInv
  <1> QED BY <1>1, FilesInvariant, PTL

(* Every open file belongs to a process that exists, for any number of      *)
(* processes and whatever the order on the list they share (process_exit).  *)
THEOREM NoOrphanedFile == Spec => []OpenersExist
  <1>1. FilesInv => OpenersExist
    BY DEF FilesInv, ListOK
  <1> QED BY <1>1, FilesInvariant, PTL
-----------------------------------------------------------------------------
OpenedTurn(list, q, H, k) ==
    IF k = 0 THEN <<>>
    ELSE IF list[k].opener = q THEN Append(H[k - 1], list[k])
    ELSE H[k - 1]

Follows(list, q, n, H) == \A k \in 0 .. n : H[k] = OpenedTurn(list, q, H, k)

(* The files of a process among the first n can be collected for every n.   *)
LEMMA OpenedExists ==
    ASSUME NEW list, NEW q
    PROVE  \A n \in Nat : \E H : Follows(list, q, n, H)
  <1> DEFINE S == {m \in Nat : ~ \E H : Follows(list, q, m, H)}
  <1>1. SUFFICES ASSUME S # {} PROVE FALSE
    OBVIOUS
  <1> S \subseteq Nat
    OBVIOUS
  <1> HIDE DEF S
  <1>2. PICK m \in S : \A l \in S : m <= l
    BY <1>1, LeastNat, Zenon
  <1> USE DEF S
  <1>3. m \in Nat /\ ~ \E H : Follows(list, q, m, H)
    BY <1>2
  <1>4. CASE m = 0
    <2>1. Follows(list, q, 0, [k \in 0 .. 0 |-> <<>>])
      BY DEF Follows, OpenedTurn
    <2> QED BY <2>1, <1>3, <1>4
  <1>5. CASE m # 0
    <2>1. m - 1 \in Nat /\ m - 1 \notin S
      BY <1>2, <1>3, <1>5
    <2>2. PICK G : Follows(list, q, m - 1, G)
      BY <2>1
    <2> DEFINE H == [k \in 0 .. m |-> IF k < m THEN G[k] ELSE OpenedTurn(list, q, G, m)]
    <2>3. \A k \in 0 .. m - 1 : G[k] = OpenedTurn(list, q, G, k)
      BY <2>2, <1>3, ZenonT(40) DEF Follows
    <2>4. \A k \in 0 .. m : H[k] = OpenedTurn(list, q, H, k)
      <3> TAKE k \in 0 .. m
      <3>1. k # 0 => k - 1 \in 0 .. m - 1 /\ H[k - 1] = G[k - 1]
        BY <1>3
      <3>2. OpenedTurn(list, q, H, k) = OpenedTurn(list, q, G, k)
        BY <3>1 DEF OpenedTurn
      <3>3. H[k] = OpenedTurn(list, q, G, k)
        BY <2>3, <1>3
      <3> QED BY <3>2, <3>3
    <2>5. Follows(list, q, m, H)
      BY <2>4, Zenon DEF Follows
    <2> QED BY <2>5, <1>3
  <1> QED BY <1>4, <1>5

(* Whatever collects them the way OpenedTo does comes to what OpenedTo is.  *)
LEMMA OpenedIs ==
    ASSUME NEW list, NEW q, NEW n \in Nat, NEW H, Follows(list, q, n, H)
    PROVE  OpenedTo(list, q, n) = H[n]
  <1> DEFINE F == [k \in 0 .. n |-> H[k]]
  <1>1. F = [k \in 0 .. n |-> IF k = 0 THEN <<>>
                              ELSE IF list[k].opener = q THEN Append(F[k - 1], list[k])
                              ELSE F[k - 1]]
    <2> SUFFICES ASSUME NEW k \in 0 .. n
                 PROVE  H[k] = IF k = 0 THEN <<>>
                               ELSE IF list[k].opener = q THEN Append(F[k - 1], list[k])
                               ELSE F[k - 1]
      BY Zenon
    <2>1. k # 0 => k - 1 \in 0 .. n
      OBVIOUS
    <2>2. k # 0 => F[k - 1] = H[k - 1]
      BY <2>1, Zenon
    <2> QED BY <2>2, Zenon DEF Follows, OpenedTurn
  <1> HIDE DEF F
  <1>2. PICK G : /\ OpenedTo(list, q, n) = G[n]
                 /\ G = [k \in 0 .. n |->
                           IF k = 0 THEN <<>>
                           ELSE IF list[k].opener = q THEN Append(G[k - 1], list[k])
                           ELSE G[k - 1]]
    BY <1>1, Zenon DEF OpenedTo
  <1>3. \A k \in 0 .. n : G[k] = OpenedTurn(list, q, G, k)
    BY <1>2, Zenon DEF OpenedTurn
  <1> DEFINE S == {m \in 0 .. n : G[m] # H[m]}
  <1>4. SUFFICES ASSUME S # {} PROVE FALSE
    <2>1. n \in 0 .. n
      OBVIOUS
    <2> QED BY <1>2, <1>4, <2>1, Zenon
  <1> S \subseteq Nat
    OBVIOUS
  <1> HIDE DEF S
  <1>5. PICK m \in S : \A l \in S : m <= l
    BY <1>4, LeastNat, Zenon
  <1> USE DEF S
  <1>6. m \in 0 .. n /\ G[m] # H[m]
    BY <1>5, Zenon
  <1>7. m # 0 => m - 1 \in 0 .. n /\ ~(m <= m - 1)
    BY <1>6
  <1>8. m # 0 => G[m - 1] = H[m - 1]
    BY <1>5, <1>7, Zenon
  <1>9. OpenedTurn(list, q, G, m) = OpenedTurn(list, q, H, m)
    BY <1>8, Zenon DEF OpenedTurn
  <1> QED BY <1>3, <1>6, <1>9, Zenon DEF Follows

OneMoreOpened(files, of, q) == IF of.opener = q THEN Append(files, of) ELSE files

(* One more element of the list.                                            *)
LEMMA OpenedNext ==
    ASSUME NEW list, NEW q, NEW n \in Nat, NEW m, m = n + 1
    PROVE  OpenedTo(list, q, m) = OneMoreOpened(OpenedTo(list, q, n), list[m], q)
  <1>1. m \in Nat /\ m # 0 /\ m - 1 = n
    OBVIOUS
  <1>2. PICK H : Follows(list, q, m, H)
    BY <1>1, OpenedExists, Zenon
  <1>3. 0 .. n \subseteq 0 .. m /\ m \in 0 .. m
    BY <1>1
  <1>4. Follows(list, q, n, H)
    BY <1>2, <1>3, Zenon DEF Follows
  <1>5. OpenedTo(list, q, n) = H[n]
    BY <1>4, OpenedIs, Zenon
  <1>6. OpenedTo(list, q, m) = H[m]
    BY <1>1, <1>2, OpenedIs, ZenonT(40)
  <1>7. H[m] = IF list[m].opener = q THEN Append(H[n], list[m]) ELSE H[n]
    BY <1>1, <1>2, <1>3, Zenon DEF Follows, OpenedTurn
  <1> QED BY <1>5, <1>6, <1>7, Zenon DEF OneMoreOpened

Agree(l, m, n) == \A i \in 1 .. n : l[i] = m[i]

(* Only the first n elements matter.                                        *)
LEMMA OpenedSame ==
    ASSUME NEW l, NEW m, NEW q, NEW n \in Nat, Agree(l, m, n)
    PROVE  OpenedTo(l, q, n) = OpenedTo(m, q, n)
  <1>1. PICK H : Follows(l, q, n, H)
    BY OpenedExists, Zenon
  <1>2. \A k \in 0 .. n : k = 0 \/ k \in 1 .. n
    OBVIOUS
  <1>3. \A k \in 0 .. n : OpenedTurn(l, q, H, k) = OpenedTurn(m, q, H, k)
    BY <1>2, Zenon DEF OpenedTurn, Agree
  <1>4. Follows(m, q, n, H)
    BY <1>1, <1>3, Zenon DEF Follows
  <1>5. OpenedTo(l, q, n) = H[n]
    BY <1>1, OpenedIs, Zenon
  <1>6. OpenedTo(m, q, n) = H[n]
    BY <1>4, OpenedIs, Zenon
  <1> QED BY <1>5, <1>6, Zenon

(* Taking another's file off the list leaves the files of q.                *)
LEMMA WithoutKeeps ==
    ASSUME NEW S, NEW list \in Seq(S), NEW k \in DOMAIN list, NEW q, list[k].opener # q,
           NEW M, M = Without(list, k)
    PROVE  Opened(M, q) = Opened(list, q)
  <1>1. PICK n : n = Len(list) /\ n \in Nat /\ k \in 1 .. n /\ n - 1 \in Nat /\ n \in k .. n
    OBVIOUS
  <1>2. Len(M) = n - 1 /\ \A i \in 1 .. n - 1 : M[i] = IF i < k THEN list[i] ELSE list[i + 1]
    <2>1. Skips(M, list, k)
      BY WithoutElements, ZenonT(40)
    <2> QED BY <1>1, <2>1, Zenon DEF Skips
  <1> DEFINE T == {j \in k .. n : OpenedTo(M, q, j - 1) # OpenedTo(list, q, j)}
  <1>3. SUFFICES ASSUME T # {} PROVE FALSE
    BY <1>1, <1>2, <1>3, Zenon DEF Opened
  <1> T \subseteq Nat
    BY <1>1
  <1> HIDE DEF T
  <1>4. PICK j \in T : \A x \in T : j <= x
    BY <1>3, LeastNat, Zenon
  <1> USE DEF T
  <1>5. j \in k .. n /\ OpenedTo(M, q, j - 1) # OpenedTo(list, q, j)
    BY <1>4, Zenon
  <1>6. PICK i : i = j - 1 /\ i \in Nat /\ i + 1 = j
    BY <1>1, <1>5
  <1>7. OpenedTo(list, q, j) = OneMoreOpened(OpenedTo(list, q, i), list[j], q)
    BY <1>6, OpenedNext, ZenonT(40)
  <1>8. CASE j = k
    <2>1. Agree(M, list, i)
      BY <1>1, <1>2, <1>6, <1>8 DEF Agree
    <2>2. OpenedTo(M, q, i) = OpenedTo(list, q, i)
      <3>1. i \in Nat
        BY <1>6
      <3> QED BY <2>1, <3>1, OpenedSame, ZenonT(40)
    <2> QED BY <1>5, <1>6, <1>7, <1>8, <2>2, Zenon DEF OneMoreOpened
  <1>9. CASE j # k
    <2>1. PICK h : h = i - 1 /\ h \in Nat /\ h + 1 = i
      BY <1>1, <1>5, <1>6, <1>9
    <2>2. i \in k .. n /\ ~(j <= i) /\ M[i] = list[j]
      BY <1>1, <1>2, <1>5, <1>6, <1>9
    <2>3. OpenedTo(M, q, h) = OpenedTo(list, q, i)
      BY <1>4, <2>1, <2>2, Zenon
    <2>4. OpenedTo(M, q, i) = OneMoreOpened(OpenedTo(M, q, h), M[i], q)
      BY <2>1, OpenedNext, ZenonT(40)
    <2> QED BY <1>5, <1>6, <1>7, <2>2, <2>3, <2>4, Zenon
  <1> QED BY <1>8, <1>9

(* After k turns the list is what follows its first k elements, and then    *)
(* what was put back, K, with all the files of q among those k.             *)
Rotated(list, q, k, l, K) ==
    /\ l \in Seq(OpenFile) /\ K \in Seq(OpenFile)
    /\ Len(l) = (Len(list) - k) + Len(K)
    /\ \A i \in 1 .. Len(list) - k : l[i] = list[k + i]
    /\ \A i \in 1 .. Len(K) : l[(Len(list) - k) + i] = K[i]
    /\ OpenedTo(K, q, Len(K)) = OpenedTo(list, q, k)

(* One more turn.                                                           *)
LEMMA TurnKeeps ==
    ASSUME NEW list \in Seq(OpenFile), NEW p, NEW q, p # q, NEW k \in 0 .. Len(list) - 1,
           NEW l, NEW K, Rotated(list, q, k, l, K)
    PROVE  \E L : Rotated(list, q, k + 1, Turn(l, p), L)
  <1>1. PICK n : n = Len(list) /\ n \in Nat /\ k \in 0 .. n - 1 /\ k \in Nat
    OBVIOUS
  <1>2. PICK c : c = Len(K) /\ c \in Nat /\ K \in Seq(OpenFile)
    <2>1. K \in Seq(OpenFile)
      BY Zenon DEF Rotated
    <2> QED BY <2>1
  <1>3. /\ l \in Seq(OpenFile) /\ Len(l) = (n - k) + c /\ l # <<>>
        /\ \A i \in 1 .. n - k : l[i] = list[k + i]
        /\ \A i \in 1 .. c : l[(n - k) + i] = K[i]
    BY <1>1, <1>2 DEF Rotated
  <1>4. OpenedTo(K, q, c) = OpenedTo(list, q, k)
    BY <1>2, Zenon DEF Rotated
  <1>5. PICK e : e = list[k + 1]
    BY Zenon
  <1>6. /\ Head(l) = e /\ e \in OpenFile
        /\ Tail(l) \in Seq(OpenFile) /\ Len(Tail(l)) = (n - (k + 1)) + c
        /\ \A i \in 1 .. (n - (k + 1)) + c : Tail(l)[i] = l[i + 1]
    BY <1>1, <1>2, <1>3, <1>5
  <1>7. OpenedTo(list, q, k + 1) = OneMoreOpened(OpenedTo(list, q, k), e, q)
    BY <1>1, <1>5, OpenedNext, ZenonT(40)
  <1>8. /\ \A i \in 1 .. n - (k + 1) : Tail(l)[i] = list[(k + 1) + i]
        /\ \A i \in 1 .. c : Tail(l)[(n - (k + 1)) + i] = K[i]
    <2>1. \A i \in 1 .. n - (k + 1) : /\ i \in 1 .. (n - (k + 1)) + c /\ i + 1 \in 1 .. n - k
                                      /\ k + (i + 1) = (k + 1) + i
      BY <1>1, <1>2
    <2>2. \A i \in 1 .. c : /\ (n - (k + 1)) + i \in 1 .. (n - (k + 1)) + c
                            /\ ((n - (k + 1)) + i) + 1 = (n - k) + i
      BY <1>1, <1>2
    <2>3. \A i \in 1 .. n - (k + 1) : Tail(l)[i] = list[(k + 1) + i]
      BY <1>3, <1>6, <2>1, ZenonT(40)
    <2>4. \A i \in 1 .. c : Tail(l)[(n - (k + 1)) + i] = K[i]
      BY <1>3, <1>6, <2>2, ZenonT(40)
    <2> QED BY <2>3, <2>4, Zenon
  <1>9. CASE e.opener = p
    <2>1. Turn(l, p) = Tail(l)
      BY <1>6, <1>9, Zenon DEF Turn
    <2>2. OpenedTo(K, q, c) = OpenedTo(list, q, k + 1)
      BY <1>4, <1>7, <1>9, Zenon DEF OneMoreOpened
    <2>3. Rotated(list, q, k + 1, Tail(l), K)
      BY <1>1, <1>2, <1>6, <1>8, <2>2, Zenon DEF Rotated
    <2> QED BY <2>1, <2>3, Zenon
  <1>10. CASE e.opener # p
    <2>1. PICK r : r = Append(Tail(l), e) /\ r = Turn(l, p)
      BY <1>6, <1>10, Zenon DEF Turn
    <2>2. PICK L : L = Append(K, e)
      BY Zenon
    <2>3. /\ L \in Seq(OpenFile) /\ Len(L) = c + 1 /\ L[c + 1] = e
          /\ \A i \in 1 .. c : L[i] = K[i]
      BY <1>2, <1>6, <2>2
    <2>4. OpenedTo(L, q, c) = OpenedTo(list, q, k)
      <3>1. Agree(L, K, c)
        BY <2>3, Zenon DEF Agree
      <3>2. c \in Nat
        BY <1>2
      <3>3. OpenedTo(L, q, c) = OpenedTo(K, q, c)
        BY <3>1, <3>2, OpenedSame, ZenonT(40)
      <3> QED BY <1>4, <3>3, Zenon
    <2>5. OpenedTo(L, q, c + 1) = OpenedTo(list, q, k + 1)
      <3>1. OpenedTo(L, q, c + 1) = OneMoreOpened(OpenedTo(L, q, c), L[c + 1], q)
        BY <1>2, OpenedNext, ZenonT(40)
      <3> QED BY <1>7, <2>3, <2>4, <3>1, Zenon
    <2>6. PICK d : d = n - (k + 1) /\ d \in Nat
      BY <1>1
    <2>7. /\ r \in Seq(OpenFile) /\ Len(r) = d + (c + 1) /\ r[d + (c + 1)] = e
          /\ \A i \in 1 .. d + c : r[i] = Tail(l)[i]
      <3>1. PICK T : T = Tail(l)
        BY Zenon
      <3>2. T \in Seq(OpenFile) /\ Len(T) = d + c /\ e \in OpenFile /\ r = Append(T, e)
        BY <1>6, <2>1, <2>6, <3>1, Zenon
      <3>3. /\ r \in Seq(OpenFile) /\ Len(r) = d + (c + 1) /\ r[d + (c + 1)] = e
            /\ \A i \in 1 .. d + c : r[i] = T[i]
        BY <1>2, <2>6, <3>2
      <3> QED BY <3>1, <3>3, Zenon
    <2>8. \A i \in 1 .. d : r[i] = list[(k + 1) + i]
      <3>1. 1 .. d \subseteq 1 .. d + c
        BY <1>2, <2>6
      <3> QED BY <1>8, <2>6, <2>7, <3>1, Zenon
    <2>9. \A i \in 1 .. c + 1 : r[d + i] = L[i]
      <3> TAKE i \in 1 .. c + 1
      <3>1. CASE i = c + 1
        BY <2>3, <2>7, <3>1, Zenon
      <3>2. CASE i # c + 1
        <4>1. i \in 1 .. c /\ d + i \in 1 .. d + c
          BY <1>2, <2>6, <3>2
        <4> QED BY <1>8, <2>3, <2>6, <2>7, <4>1, Zenon
      <3> QED BY <3>1, <3>2
    <2>10. Rotated(list, q, k + 1, r, L)
      BY <1>1, <2>3, <2>5, <2>6, <2>7, <2>8, <2>9, Zenon DEF Rotated
    <2> QED BY <2>1, <2>10, Zenon
  <1> QED BY <1>9, <1>10

(* The files of another process stay, in their order, when one exits.       *)
LEMMA CloseAllKeeps ==
    ASSUME NEW list \in Seq(OpenFile), NEW p, NEW q, p # q, NEW l, l = CloseAll(list, p)
    PROVE  Opened(l, q) = Opened(list, q)
  <1>1. PICK n : n = Len(list) /\ n \in Nat /\ n \in 0 .. n
    OBVIOUS
  <1>2. \E G : IsTurns(list, p, n, G)
    BY <1>1, TurnsExist, Zenon
  <1>3. PICK G : /\ CloseAll(list, p) = G[n]
                 /\ G = [k \in 0 .. n |-> IF k = 0 THEN list ELSE Turn(G[k - 1], p)]
    BY <1>1, <1>2, Zenon DEF CloseAll, Turns, IsTurns, TurnsStep
  <1>4. G[0] = list /\ \A k \in 1 .. n : G[k] = Turn(G[k - 1], p)
    BY <1>1, <1>3
  <1> DEFINE S == {m \in 0 .. n : ~ \E K : Rotated(list, q, m, G[m], K)}
  <1>5. S = {}
    <2>1. SUFFICES ASSUME S # {} PROVE FALSE
      BY Zenon
    <2> S \subseteq Nat
      OBVIOUS
    <2> HIDE DEF S
    <2>2. PICK m \in S : \A x \in S : m <= x
      BY <2>1, LeastNat, Zenon
    <2> USE DEF S
    <2>3. m \in 0 .. n /\ ~ \E K : Rotated(list, q, m, G[m], K)
      BY <2>2, Zenon
    <2>4. CASE m = 0
      <3>1. PICK K : K = <<>>
        BY Zenon
      <3>2. K \in Seq(OpenFile) /\ Len(K) = 0
        BY <3>1
      <3>3. Agree(K, list, 0) /\ 0 \in Nat
        BY DEF Agree
      <3>4. OpenedTo(K, q, 0) = OpenedTo(list, q, 0)
        BY <3>3, OpenedSame, ZenonT(40)
      <3>5. /\ Len(list) = (Len(list) - 0) + 0
            /\ \A i \in 1 .. Len(list) - 0 : list[i] = list[0 + i]
            /\ \A i \in 1 .. 0 : list[(Len(list) - 0) + i] = K[i]
        BY <1>1
      <3>6. Rotated(list, q, 0, list, K)
        BY <3>2, <3>4, <3>5, Zenon DEF Rotated
      <3> QED BY <1>4, <2>3, <2>4, <3>6, Zenon
    <2>5. CASE m # 0
      <3>1. PICK k : k = m - 1
        OBVIOUS
      <3>2. k \in 0 .. n - 1 /\ k \in 0 .. n /\ k + 1 = m /\ ~(m <= k) /\ m \in 1 .. n
        BY <1>1, <2>3, <2>5, <3>1
      <3>3. PICK K : Rotated(list, q, k, G[k], K)
        BY <2>2, <3>2, Zenon
      <3>4. \E L : Rotated(list, q, k + 1, Turn(G[k], p), L)
        BY <1>1, <3>2, <3>3, TurnKeeps, ZenonT(40)
      <3> QED BY <1>4, <2>3, <3>1, <3>2, <3>4, Zenon
    <2> QED BY <2>4, <2>5
  <1>6. PICK K : Rotated(list, q, n, l, K)
    BY <1>1, <1>3, <1>5, ZenonT(40)
  <1>7. /\ l \in Seq(OpenFile) /\ K \in Seq(OpenFile) /\ Len(l) = (n - n) + Len(K)
        /\ \A i \in 1 .. Len(K) : l[(n - n) + i] = K[i]
        /\ OpenedTo(K, q, Len(K)) = OpenedTo(list, q, n)
    BY <1>1, <1>6, Zenon DEF Rotated
  <1>8. Len(K) \in Nat /\ Len(l) = Len(K) /\ \A i \in 1 .. Len(K) : l[i] = K[i]
    BY <1>1, <1>7
  <1>9. OpenedTo(l, q, Len(K)) = OpenedTo(K, q, Len(K))
    BY <1>8, OpenedSame, ZenonT(40) DEF Agree
  <1> QED BY <1>1, <1>7, <1>8, <1>9, Zenon DEF Opened

(* Whatever the number of processes and files and whatever their order on   *)
(* the shared list, a process that closes a file or exits leaves the files  *)
(* of every other process open, in their order (syscall_close,              *)
(* process_exit).                                                           *)
THEOREM OthersAlwaysKeepFiles == Spec => OthersKeepFiles
  <1>1. ASSUME FilesInv, NEW p \in Procs, NEW q \in Procs, p # q, Exit(p)
        PROVE  Opened(openfile_list', q) = Opened(openfile_list, q)
    <2>1. openfile_list' = CloseAll(openfile_list, p) /\ openfile_list \in Seq(OpenFile)
      BY <1>1, Zenon DEF Exit, FilesInv, ListOK
    <2>2. PICK l : l = openfile_list' /\ l = CloseAll(openfile_list, p)
      BY <2>1, Zenon
    <2>3. Opened(l, q) = Opened(openfile_list, q)
      <3>1. p # q /\ openfile_list \in Seq(OpenFile) /\ l = CloseAll(openfile_list, p)
        BY <1>1, <2>1, <2>2, Zenon
      <3> QED BY <3>1, CloseAllKeeps, ZenonT(40)
    <2> QED BY <2>2, <2>3, Zenon
  <1>2. ASSUME FilesInv, NEW p \in Procs, NEW q \in Procs, p # q, NEW fd, syscall_close(p, fd)
        PROVE  Opened(openfile_list', q) = Opened(openfile_list, q)
    <2>1. PICK k : k = First(WithFd(fd))
      BY Zenon
    <2>2. /\ k \in DOMAIN openfile_list /\ openfile_list \in Seq(OpenFile)
          /\ openfile_list[k].opener # q
      BY <1>2, <2>1, FirstFd, Zenon DEF syscall_close, FilesInv, ListOK
    <2>3. PICK M : M = openfile_list' /\ M = Without(openfile_list, k)
      BY <1>2, <2>1, Zenon DEF syscall_close
    <2>4. Opened(M, q) = Opened(openfile_list, q)
      BY <2>2, <2>3, WithoutKeeps, ZenonT(40)
    <2> QED BY <2>3, <2>4, Zenon
  <1>3. FilesInv /\ [Next]_vars =>
          [\A p, q \in Procs :
             p # q /\ (Exit(p) \/ \E fd \in Fds : syscall_close(p, fd))
               => Opened(openfile_list', q) = Opened(openfile_list, q)]_vars
    BY <1>1, <1>2, Zenon
  <1> QED BY <1>3, FilesInvariant, PTL DEF Spec, OthersKeepFiles
=============================================================================
