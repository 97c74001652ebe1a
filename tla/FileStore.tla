----------------------------- MODULE FileStore -----------------------------
(***************************************************************************)
(* What the file system promises its callers: a file is a sequence of      *)
(* bytes, the root directory gives names to files, and an operation on one *)
(* file changes no other.  A write puts in a first part of the bytes it is *)
(* given, growing the file if it must and filling any gap with zeros.  A   *)
(* file without a name goes away at some time after.                       *)
(***************************************************************************)
EXTENDS Integers, Sequences, Functions, TLC

CONSTANTS Names,       \* file names
          Ids,         \* identities of files
          Bytes,       \* byte values other than 0
          Lengths      \* lengths a file can be created with

VARIABLES file,   \* the bytes of every file that exists
          root    \* the root directory, 0 for a name not in use

storeVars == <<file, root>>

NoFile == 0
Named == {root[n] : n \in Names} \ {NoFile}

StoreInit ==
    /\ file = <<>>
    /\ root = [n \in Names |-> NoFile]

Create(n, id, size) ==
    /\ root[n] = NoFile
    /\ id \notin DOMAIN file
    /\ file' = file @@ (id :> [p \in 1 .. size |-> 0])
    /\ root' = [root EXCEPT ![n] = id]

(* The bytes s with size copies of b put in from offset ofs on.             *)
Splice(s, ofs, size, b) ==
    [p \in 1 .. (IF ofs + size > Len(s) THEN ofs + size ELSE Len(s)) |->
        IF p > ofs /\ p <= ofs + size THEN b
        ELSE IF p <= Len(s) THEN s[p] ELSE 0]

Write(id) ==
    /\ DOMAIN file' = DOMAIN file
    /\ \A other \in DOMAIN file \ {id} : file'[other] = file[other]
    /\ LET old == file[id]
           new == file'[id]
       IN  \E ofs, size \in 0 .. Len(new), b \in Bytes : new = Splice(old, ofs, size, b)
    /\ UNCHANGED root

Unlink(n) ==
    /\ root[n] # NoFile
    /\ root' = [root EXCEPT ![n] = NoFile]
    /\ file' \in {file, Restrict(file, DOMAIN file \ {root[n]})}

Forget ==
    /\ \E ids \in SUBSET (DOMAIN file \ Named) :
          file' = Restrict(file, DOMAIN file \ ids)
    /\ UNCHANGED root

StoreNext ==
    \/ \E n \in Names, id \in Ids, size \in Lengths : Create(n, id, size)
    \/ \E id \in DOMAIN file : Write(id)
    \/ \E n \in Names : Unlink(n)
    \/ Forget

StoreSpec == StoreInit /\ [][StoreNext]_storeVars
=============================================================================
