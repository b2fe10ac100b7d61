-------------------------------- MODULE Tfs --------------------------------
(***************************************************************************)
(* A program that uses TecnicoFS from one thread: each step is one API     *)
(* call.  last is what the call returned to it.                            *)
(***************************************************************************)
EXTENDS TfsState

CONSTANTS Texts,      \* what callers write, and the sources they copy in
          Lengths,    \* how much they read at a time
          MaxLinks,   \* bound on i_count: a call that makes it larger is not made
          Calls,      \* the calls they make
          Careful     \* the callers never truncate or delete a file that is open

VARIABLES fs, last

vars == <<fs, last>>

ASSUME CallersAssumption ==
  /\ \A s \in Texts : s \in Seq(Bytes)
  /\ Lengths \subseteq Nat \ {0}
  /\ MaxLinks \in Nat \ {0}
  /\ Calls \subseteq {"open", "close", "write", "read", "sym_link", "link", "unlink", "copy"}
  /\ Careful \in BOOLEAN

Modes == SUBSET {"creat", "trunc", "append"}

Busy(i) == \E h \in fs.opened : fs.file[h].inum = i

(* The program goes on only after a call that returns. *)
Step(call, r) == /\ call \in Calls
                 /\ last.ret \notin Dead
                 /\ fs' = r.fs
                 /\ last' = [ret |-> r.ret, out |-> r.out]

-----------------------------------------------------------------------------
Init == /\ fs = InitialState
        /\ last = [ret |-> 0, out |-> <<>>]

tfs_open(name, mode) ==
  /\ Careful /\ "trunc" \in mode => ~Busy(GetPath(fs, Lookup(fs, name)))
  /\ Step("open", Open(fs, name, mode))

tfs_close(h) == Step("close", Close(fs, h))

tfs_write(h, s) == Step("write", Write(fs, h, s))

tfs_read(h, len) == Step("read", Read(fs, h, len))

tfs_sym_link(target, name) == Step("sym_link", SymLink(fs, target, name))

tfs_link(target, name) ==
  /\ Lookup(fs, target) # None => fs.inode[Lookup(fs, target)].count < MaxLinks
  /\ Step("link", Link(fs, target, name))

tfs_unlink(name) ==
  LET i == Lookup(fs, name)
  IN /\ Careful /\ i # None => fs.inode[i].count > 1 \/ ~Busy(i)
     /\ Step("unlink", Unlink(fs, name))

tfs_copy_from_external_fs(s, name) ==
  /\ Careful => ~Busy(GetPath(fs, Lookup(fs, name)))
  /\ Step("copy", CopyFromExternal(fs, s, name))

Next == \/ \E name \in Names : \/ \E mode \in Modes : tfs_open(name, mode)
                               \/ tfs_unlink(name)
                               \/ \E target \in Names : \/ tfs_sym_link(target, name)
                                                        \/ tfs_link(target, name)
                               \/ \E s \in Texts : tfs_copy_from_external_fs(s, name)
        \/ \E h \in Handles : \/ tfs_close(h)
                              \/ \E s \in Texts : tfs_write(h, s)
                              \/ \E len \in Lengths : tfs_read(h, len)

Spec == Init /\ [][Next]_vars

-----------------------------------------------------------------------------
TypeOK == fs \in Tables /\ last \in [ret : Int, out : Seq(Bytes)]

EntriesOf(i) == {e \in Entries : fs.dir[e].inum = i}

(* A directory entry names a live inode, and an inode has no more entries  *)
(* than its link count: removing links one by one never frees an inode     *)
(* that a name still leads to, which inode_delete would abort on later.    *)
EntriesLive == /\ \A e \in Entries : fs.dir[e].inum \in (fs.inodes \ {Root}) \cup {None}
               /\ \A i \in fs.inodes : Cardinality(EntriesOf(i)) <= fs.inode[i].count

Owners(b) == {i \in fs.inodes : fs.inode[i].size > 0 /\ fs.inode[i].block = b}

(* A block is taken exactly while one inode holds contents in it: none     *)
(* leaks, and no two files share one.                                      *)
BlocksOwned == \A b \in Blocks : Cardinality(Owners(b)) = IF b \in fs.blocks THEN 1 ELSE 0

(* The contents the tables describe. *)
LiveFiles == {i \in fs.inodes : fs.inode[i].type = "file"}
FileContents == [i \in LiveFiles |->
                   [k \in 1 .. fs.inode[i].size |->
                      fs.data[fs.inode[i].block * BlockSize + k - 1]]]
Cursors == [h \in fs.opened |-> [file |-> fs.file[h].inum, offset |-> fs.file[h].offset]]

Promise == INSTANCE FileStore WITH store <- FileContents, cursor <- Cursors, got <- last.out,
                                   Files <- Inums, Descriptors <- Handles, MaxSize <- BlockSize

(* To callers that are careful and write no Nul, inodes, blocks and the    *)
(* open file table are what operations.h promises: what a handle reads is  *)
(* what was written there, whatever happened to other files since.         *)
ImplementsFileStore == Promise!Spec

SizeOf(h) == fs.inode[fs.file[h].inum].size

(* operations.h:111 says tfs_read "Returns the number of bytes that were   *)
(* copied from the file": no read goes past its end.                       *)
ReadsInsideFile == \A h \in fs.opened : fs.file[h].offset <= SizeOf(h)
=============================================================================
