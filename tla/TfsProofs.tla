------------------------------ MODULE TfsProofs ------------------------------
(***************************************************************************)
(* What holds of TecnicoFS whatever calls a program makes of it, and what  *)
(* holds when the program is careful with the files it has open.           *)
(***************************************************************************)
EXTENDS Tfs, TfsStateProofs, SequenceTheorems
(***************************************************************************)
(* The blocks and the open file table, while nobody truncates or deletes a *)
(* file that is open.                                                      *)
(***************************************************************************)
HasBlock(s, i) == s.inode[i].size > 0

Used(s, i) == \E h \in s.opened : s.file[h].inum = i

(* The blocks taken are those of the inodes that hold contents, one each;  *)
(* a handle is on a live inode, and at the start of one that holds none.   *)
FilesOK(s) ==
  /\ \A i \in s.inodes : HasBlock(s, i) => s.inode[i].block \in s.blocks
  /\ \A i, j \in s.inodes :
       HasBlock(s, i) /\ HasBlock(s, j) /\ s.inode[i].block = s.inode[j].block => i = j
  /\ \A b \in s.blocks : \E i \in s.inodes : HasBlock(s, i) /\ s.inode[i].block = b
  /\ \A h \in s.opened : /\ s.file[h].inum \in s.inodes
                         /\ ~HasBlock(s, s.file[h].inum) => s.file[h].offset = 0

(* The directory, the link counts and the contents of blocks may change.   *)
LEMMA FilesFrame ==
  ASSUME NEW s, NEW t, FilesOK(s), t.inodes = s.inodes, t.blocks = s.blocks,
         t.opened = s.opened, t.file = s.file,
         \A i \in s.inodes : /\ t.inode[i].size = s.inode[i].size
                             /\ t.inode[i].block = s.inode[i].block
  PROVE  FilesOK(t)
BY DEF FilesOK, HasBlock

(* A handle on a live inode; one on an inode without contents is at 0. *)
LEMMA AddToOpenFileTableFiles ==
  ASSUME NEW s \in Tables, FilesOK(s), NEW i \in s.inodes, NEW offset \in Nat,
         ~HasBlock(s, i) => offset = 0
  PROVE  FilesOK(AddToOpenFileTable(s, i, offset).fs)
<1> DEFINE h == FirstFree(Handles, s.opened)
           t == [s EXCEPT !.opened = @ \cup {h}, !.file[h] = [inum |-> i, offset |-> offset]]
<1>1. h \in (Handles \ s.opened) \cup {None}
  BY FirstFreeType, Sizes
<1>2. CASE h = None
  BY <1>2 DEF AddToOpenFileTable, Return
<1>3. CASE h \in Handles \ s.opened
  <2>1. AddToOpenFileTable(s, i, offset).fs = t
    BY <1>3, Sizes DEF AddToOpenFileTable, Return
  <2> HIDE DEF h
  <2>2. /\ t.inodes = s.inodes /\ t.blocks = s.blocks /\ t.inode = s.inode
        /\ t.opened = s.opened \cup {h}
        /\ t.file = [s.file EXCEPT ![h] = [inum |-> i, offset |-> offset]]
        /\ DOMAIN s.file = Handles
    BY DEF Tables
  <2> HIDE DEF t
  <2>3. \A g \in t.opened : /\ t.file[g].inum \in t.inodes
                            /\ ~HasBlock(t, t.file[g].inum) => t.file[g].offset = 0
    BY <1>3, <2>2 DEF FilesOK, HasBlock, Tables
  <2>4. FilesOK(t)
    BY <2>2, <2>3 DEF FilesOK, HasBlock
  <2> QED
    BY <2>1, <2>4
<1> QED
  BY <1>1, <1>2, <1>3

(* A new file has no contents. *)
LEMMA CreateFileFiles ==
  ASSUME NEW s \in Tables, FilesOK(s)
  PROVE  LET new == CreateFile(s)
             i == new.ret
         IN /\ FilesOK(new.fs)
            /\ i # None => i \in new.fs.inodes /\ ~HasBlock(new.fs, i) /\ ~Used(new.fs, i)
<1> DEFINE i == FirstFree(Inums, s.inodes)
           t == [s EXCEPT !.inodes = @ \cup {i}, !.inode[i] = NewFile]
<1>1. i \in (Inums \ s.inodes) \cup {None}
  BY FirstFreeType, Sizes
<1>2. CASE i = None
  BY <1>2 DEF CreateFile, Return
<1>3. CASE i \in Inums \ s.inodes
  <2>1. CreateFile(s).fs = t /\ CreateFile(s).ret = i
    BY <1>3, Sizes DEF CreateFile, Return
  <2> HIDE DEF i
  <2>2. /\ t.inodes = s.inodes \cup {i} /\ t.blocks = s.blocks /\ t.opened = s.opened
        /\ t.file = s.file /\ t.inode = [s.inode EXCEPT ![i] = NewFile]
        /\ DOMAIN s.inode = Inums
    BY DEF Tables
  <2> HIDE DEF t
  <2>3. t.inode[i].size = 0 /\ \A j \in s.inodes : t.inode[j] = s.inode[j]
    BY <1>3, <2>2 DEF NewFile, Tables
  <2>4. FilesOK(t)
    BY <1>3, <2>2, <2>3 DEF FilesOK, HasBlock
  <2>5. ~HasBlock(t, i) /\ ~Used(t, i) /\ i \in t.inodes
    BY <1>3, <2>2, <2>3 DEF FilesOK, HasBlock, Used
  <2> QED
    BY <2>1, <2>4, <2>5
<1> QED
  BY <1>1, <1>2, <1>3

(* inode_delete of an inode that is not open. *)
LEMMA InodeDeleteFiles ==
  ASSUME NEW s \in Tables, FilesOK(s), NEW i \in s.inodes, ~Used(s, i)
  PROVE  FilesOK(InodeDelete(s, i))
<1> DEFINE t == InodeDelete(s, i)
<1>1. /\ t.inodes = s.inodes \ {i} /\ t.inode = s.inode /\ t.opened = s.opened /\ t.file = s.file
      /\ t.blocks = IF HasBlock(s, i) THEN s.blocks \ {s.inode[i].block} ELSE s.blocks
  BY DEF InodeDelete, Tables, HasBlock
<1> HIDE DEF t
<1>2. \A h \in t.opened : t.file[h].inum \in t.inodes
  BY <1>1 DEF FilesOK, Used
<1>3. \A j \in t.inodes : HasBlock(t, j) => t.inode[j].block \in t.blocks
  BY <1>1 DEF FilesOK, HasBlock
<1>4. \A b \in t.blocks : \E j \in t.inodes : HasBlock(t, j) /\ t.inode[j].block = b
  BY <1>1 DEF FilesOK, HasBlock
<1>5. FilesOK(t)
  BY <1>1, <1>2, <1>3, <1>4 DEF FilesOK, HasBlock
<1> QED
  BY <1>5 DEF t

(* A symbolic link takes a block that was free. *)
LEMMA CreateLinkFiles ==
  ASSUME NEW s \in Tables, FilesOK(s)
  PROVE  FilesOK(CreateLink(s).fs)
<1> DEFINE i == FirstFree(Inums, s.inodes)
           b == FirstFree(Blocks, s.blocks)
           s1 == [s EXCEPT !.inodes = @ \cup {i}]
<1>1. i \in (Inums \ s.inodes) \cup {None} /\ b \in (Blocks \ s.blocks) \cup {None}
  BY FirstFreeType, Sizes
<1>2. CASE i = None
  BY <1>2 DEF CreateLink, Return
<1>3. CASE i \in Inums \ s.inodes
  <2>1. CreateLink(s) = FillLink(s1, i)
    BY <1>3, Sizes DEF CreateLink
  <2>2. s1.blocks = s.blocks
    BY DEF Tables
  <2>3. CASE b = None
    <3> DEFINE u == [s1 EXCEPT !.inodes = @ \ {i}, !.inode[i].type = "link",
                               !.inode[i].size = 0, !.inode[i].block = None]
    <3>1. CreateLink(s).fs = u
      BY <2>1, <2>2, <2>3 DEF FillLink, Return
    <3> HIDE DEF i
    <3>2. /\ u.inodes = s.inodes /\ u.blocks = s.blocks /\ u.opened = s.opened
          /\ u.file = s.file
      BY <1>3 DEF Tables
    <3>3. \A j \in s.inodes : u.inode[j] = s.inode[j]
      BY <1>3 DEF Tables
    <3> HIDE DEF u
    <3> QED
      BY <3>1, <3>2, <3>3, FilesFrame
  <2>4. CASE b \in Blocks \ s.blocks
    <3> DEFINE ino == [type |-> "link", size |-> MaxFileName, block |-> b, count |-> 1]
               u == [s1 EXCEPT !.blocks = @ \cup {b}, !.inode[i] = ino]
    <3>1. CreateLink(s).fs = u
      BY <2>1, <2>2, <2>4, Sizes DEF FillLink, Return
    <3> HIDE DEF i, b
    <3>2. /\ u.inodes = s.inodes \cup {i} /\ u.blocks = s.blocks \cup {b}
          /\ u.opened = s.opened /\ u.file = s.file
          /\ u.inode = [s.inode EXCEPT ![i] = ino] /\ DOMAIN s.inode = Inums
      BY DEF Tables
    <3> HIDE DEF u
    <3>3. /\ \A j \in s.inodes : u.inode[j] = s.inode[j]
          /\ u.inode[i].block = b /\ HasBlock(u, i)
      BY <1>3, <3>2 DEF Tables, HasBlock, MaxFileName
    <3>4. \A j \in s.inodes : HasBlock(u, j) <=> HasBlock(s, j)
      BY <3>3 DEF HasBlock
    <3>5. FilesOK(u)
      <4>1. \A j \in u.inodes : HasBlock(u, j) => u.inode[j].block \in u.blocks
        BY <3>2, <3>3, <3>4 DEF FilesOK
      <4>2. \A j, k \in u.inodes :
              HasBlock(u, j) /\ HasBlock(u, k) /\ u.inode[j].block = u.inode[k].block => j = k
        BY <2>4, <3>2, <3>3, <3>4 DEF FilesOK
      <4>3. \A c \in u.blocks : \E j \in u.inodes : HasBlock(u, j) /\ u.inode[j].block = c
        BY <3>2, <3>3, <3>4 DEF FilesOK
      <4>4. \A h \in u.opened : /\ u.file[h].inum \in u.inodes
                                /\ ~HasBlock(u, u.file[h].inum) => u.file[h].offset = 0
        BY <3>2, <3>4 DEF FilesOK
      <4> QED
        BY <4>1, <4>2, <4>3, <4>4 DEF FilesOK
    <3> QED
      BY <3>1, <3>5
  <2> QED
    BY <1>1, <2>3, <2>4
<1> QED
  BY <1>1, <1>2, <1>3

(* tfs_open, when a file it truncates is not open. *)
LEMMA OpenFiles ==
  ASSUME NEW s \in Tables, NamesOK(s), FilesOK(s), NEW name \in Names, NEW mode,
         "trunc" \in mode => ~Used(s, GetPath(s, Lookup(s, name)))
  PROVE  FilesOK(Open(s, name, mode).fs)
<1> DEFINE entry == Lookup(s, name)
           i == GetPath(s, entry)
           new == CreateFile(s)
           ino == s.inode[i]
           cut == IF "trunc" \in mode /\ ino.size > 0
                    THEN [s EXCEPT !.blocks = @ \ {ino.block}, !.inode[i].size = 0]
                    ELSE s
           added == AddDirEntry(new.fs, name, new.ret)
           offset == IF "append" \in mode THEN cut.inode[i].size ELSE 0
<1>1. /\ entry \in (s.inodes \ {Root}) \cup {None}
      /\ \A other : Lookup(s, other) \in (s.inodes \ {Root}) \cup {None}
  BY LookupNames
<1>2. i \in (s.inodes \ {Root}) \cup {None}
  <2> HIDE DEF entry
  <2> QED
    BY <1>1, GetPathType
<1>3. /\ new.fs \in Tables /\ FilesOK(new.fs)
      /\ new.ret # None => /\ new.ret \in new.fs.inodes /\ new.ret \in Inums
                           /\ ~HasBlock(new.fs, new.ret) /\ ~Used(new.fs, new.ret)
  BY CreateFileType, CreateFileFiles
<1>4. "trunc" \in mode => ~Used(s, i)
  OBVIOUS
<1> HIDE DEF entry, i, new
<1>5. CASE entry = None
  <2>1. CASE "creat" \notin mode \/ new.ret = None
    BY <1>5, <2>1 DEF Open, Return, entry, new
  <2>2. CASE ~("creat" \notin mode \/ new.ret = None) /\ Addable(s, name)
    <3>1. Open(s, name, mode) = AddToOpenFileTable(added, new.ret, 0)
      BY <1>5, <2>2 DEF Open, entry, new
    <3>2. /\ added.inodes = new.fs.inodes /\ added.blocks = new.fs.blocks
          /\ added.opened = new.fs.opened /\ added.file = new.fs.file
          /\ added.inode = new.fs.inode
      BY <1>3 DEF AddDirEntry, Tables
    <3>3. added \in Tables
      BY <1>3, <2>2, AddDirEntryType
    <3> HIDE DEF added
    <3>4. FilesOK(added)
      BY <1>3, <3>2, FilesFrame
    <3> QED
      BY <1>3, <2>2, <3>1, <3>2, <3>3, <3>4, AddToOpenFileTableFiles
  <2>3. CASE ~("creat" \notin mode \/ new.ret = None) /\ ~Addable(s, name)
    <3>1. Open(s, name, mode) = Return(InodeDelete(new.fs, new.ret), None)
      BY <1>5, <2>3 DEF Open, entry, new
    <3>2. FilesOK(InodeDelete(new.fs, new.ret))
      BY <1>3, <2>3, InodeDeleteFiles
    <3> QED
      BY <3>1, <3>2 DEF Return
  <2> QED
    BY <2>1, <2>2, <2>3
<1>6. CASE entry # None /\ (i = None \/ ino.type = "link")
  BY <1>6 DEF Open, Return, entry, i
<1>7. CASE entry # None /\ i # None /\ ino.type # "link"
  <2>1. Open(s, name, mode) = AddToOpenFileTable(cut, i, offset)
    BY <1>7 DEF Open, entry, i
  <2>2. i \in s.inodes /\ i \in Inums
    BY <1>2, <1>7 DEF Tables
  <2>3. cut \in Tables /\ FilesOK(cut) /\ i \in cut.inodes
    <3>1. CASE "trunc" \in mode /\ ino.size > 0
      <4> DEFINE t == [s EXCEPT !.blocks = @ \ {ino.block}, !.inode[i].size = 0]
      <4>1. ino \in Inodes
        BY <2>2 DEF Tables
      <4>2. [ino EXCEPT !.size = 0] \in Inodes
        BY <4>1, Sizes DEF Inodes
      <4>3. /\ t.inodes = s.inodes /\ t.blocks = s.blocks \ {ino.block}
            /\ t.opened = s.opened /\ t.file = s.file
            /\ t.inode = [s.inode EXCEPT ![i] = [ino EXCEPT !.size = 0]]
        BY <2>2 DEF Tables
      <4>4. t \in Tables
        BY <2>2, <4>2 DEF Tables
      <4>5. ~HasBlock(t, i) /\ \A j \in s.inodes \ {i} : t.inode[j] = s.inode[j]
        BY <2>2, <4>1, <4>3 DEF Tables, HasBlock, Inodes
      <4> HIDE DEF t
      <4>6. \A j \in s.inodes \ {i} : HasBlock(t, j) <=> HasBlock(s, j)
        BY <4>5 DEF HasBlock
      <4>7. HasBlock(s, i)
        BY <3>1 DEF HasBlock
      <4>8. \A j \in t.inodes : HasBlock(t, j) => t.inode[j].block \in t.blocks
        BY <2>2, <4>3, <4>5, <4>6, <4>7 DEF FilesOK
      <4>9. \A j, k \in t.inodes :
              HasBlock(t, j) /\ HasBlock(t, k) /\ t.inode[j].block = t.inode[k].block => j = k
        BY <4>3, <4>5, <4>6 DEF FilesOK
      <4>10. \A b \in t.blocks : \E j \in t.inodes : HasBlock(t, j) /\ t.inode[j].block = b
        BY <4>3, <4>5, <4>6 DEF FilesOK
      <4>11. \A h \in t.opened : /\ t.file[h].inum \in t.inodes
                                 /\ ~HasBlock(t, t.file[h].inum) => t.file[h].offset = 0
        BY <1>4, <3>1, <4>3, <4>6 DEF FilesOK, Used
      <4>12. FilesOK(t)
        BY <4>8, <4>9, <4>10, <4>11 DEF FilesOK
      <4> QED
        BY <2>2, <3>1, <4>3, <4>4, <4>12 DEF t
    <3> QED
      BY <2>2, <3>1
  <2> HIDE DEF cut
  <2>4. offset \in Nat /\ (~HasBlock(cut, i) => offset = 0)
    <3>1. cut.inode[i].size \in 0 .. BlockSize
      BY <2>2, <2>3 DEF Tables, Inodes
    <3> QED
      BY <3>1, Sizes DEF HasBlock
  <2> HIDE DEF offset
  <2> QED
    BY <2>1, <2>3, <2>4, AddToOpenFileTableFiles
<1> QED
  BY <1>5, <1>6, <1>7

(* tfs_sym_link and tfs_link move no contents of files. *)
LEMMA LinksFiles ==
  ASSUME NEW s \in Tables, FilesOK(s), NEW target \in Names, NEW name \in Names
  PROVE  FilesOK(SymLink(s, target, name).fs) /\ FilesOK(Link(s, target, name).fs)
<1>1. FilesOK(SymLink(s, target, name).fs)
  <2> DEFINE new == CreateLink(s)
             t == AddDirEntry(StoreTarget(new.fs, new.ret, target), name, new.ret)
  <2>1. FilesOK(new.fs)
    BY CreateLinkFiles
  <2>2. SymLink(s, target, name).fs \in {s, new.fs, t}
    BY DEF SymLink, Return
  <2> HIDE DEF new
  <2>3. /\ t.inodes = new.fs.inodes /\ t.blocks = new.fs.blocks /\ t.opened = new.fs.opened
        /\ t.file = new.fs.file /\ t.inode = new.fs.inode
    BY DEF AddDirEntry, StoreTarget, Store
  <2> HIDE DEF t
  <2>4. FilesOK(t)
    BY <2>1, <2>3, FilesFrame
  <2> QED
    BY <2>1, <2>2, <2>4
<1>2. FilesOK(Link(s, target, name).fs)
  <2> DEFINE i == Lookup(s, target)
             t == AddDirEntry([s EXCEPT !.inode[i].count = @ + 1], name, i)
  <2>1. Link(s, target, name).fs \in {s, t}
    BY DEF Link, Return
  <2> HIDE DEF i
  <2>2. t.inodes = s.inodes /\ t.blocks = s.blocks /\ t.opened = s.opened /\ t.file = s.file
    BY DEF AddDirEntry, Tables
  <2>3. \A j \in Inums : t.inode[j].size = s.inode[j].size /\ t.inode[j].block = s.inode[j].block
    BY DEF AddDirEntry, Tables, Inodes
  <2>4. s.inodes \subseteq Inums
    BY DEF Tables
  <2> HIDE DEF t
  <2>5. FilesOK(t)
    BY <2>2, <2>3, <2>4, FilesFrame
  <2> QED
    BY <2>1, <2>5
<1> QED
  BY <1>1, <1>2

(* tfs_unlink, when it does not delete a file that is open. *)
LEMMA UnlinkFiles ==
  ASSUME NEW s \in Tables, NamesOK(s), FilesOK(s), NEW name \in Names,
         LET i == Lookup(s, name) IN i # None => s.inode[i].count > 1 \/ ~Used(s, i)
  PROVE  FilesOK(Unlink(s, name).fs)
<1> DEFINE i == Lookup(s, name)
           t == ClearDirEntry(s, name)
<1>1. CASE i = None
  BY <1>1 DEF Unlink, Return
<1>2. CASE i # None
  <2>1. i \in s.inodes \ {Root} /\ t.inodes = s.inodes /\ t.inode = s.inode
    BY <1>2, ClearDirEntryNames
  <2>2. t.blocks = s.blocks /\ t.opened = s.opened /\ t.file = s.file
    BY DEF ClearDirEntry, Tables
  <2>3. Unlink(s, name) = DropLink(t, i)
    BY <1>2 DEF Unlink
  <2>4. t \in Tables
    BY ClearDirEntryType
  <2>5. s.inode[i].count > 1 \/ ~Used(s, i)
    BY <1>2
  <2> HIDE DEF t, i
  <2>6. FilesOK(t)
    BY <2>1, <2>2, FilesFrame
  <2>7. CASE t.inode[i].count > 1
    <3> DEFINE u == [t EXCEPT !.inode[i].count = @ - 1]
    <3>1. DropLink(t, i).fs = u
      BY <2>7 DEF DropLink, Return
    <3>2. u.inodes = t.inodes /\ u.blocks = t.blocks /\ u.opened = t.opened /\ u.file = t.file
      BY <2>4 DEF Tables
    <3>3. \A j \in Inums : u.inode[j].size = t.inode[j].size /\ u.inode[j].block = t.inode[j].block
      BY <2>4 DEF Tables, Inodes
    <3>4. t.inodes \subseteq Inums
      BY <2>4 DEF Tables
    <3> HIDE DEF u
    <3>5. FilesOK(u)
      BY <2>6, <3>2, <3>3, <3>4, FilesFrame
    <3> QED
      BY <2>3, <3>1, <3>5
  <2>8. CASE ~(t.inode[i].count > 1)
    <3>1. DropLink(t, i).fs = InodeDelete(t, i)
      BY <2>1, <2>8 DEF DropLink, Return
    <3>2. ~Used(t, i)
      BY <2>1, <2>2, <2>5, <2>8 DEF Used
    <3>3. FilesOK(InodeDelete(t, i))
      BY <2>1, <2>4, <2>6, <3>2, InodeDeleteFiles
    <3> QED
      BY <2>3, <3>1, <3>3
  <2> QED
    BY <2>7, <2>8
<1> QED
  BY <1>1, <1>2

(* Closing a handle leaves the blocks with their inodes.                   *)
LEMMA CloseFiles ==
  ASSUME NEW s, FilesOK(s), NEW h
  PROVE  FilesOK(Close(s, h).fs)
<1> DEFINE t == [s EXCEPT !.opened = @ \ {h}]
<1>1. CASE h \in s.opened
  <2>1. FilesOK(t)
    BY DEF FilesOK, HasBlock
  <2> QED
    BY <1>1, <2>1 DEF Close, Return
<1>2. CASE h \notin s.opened
  BY <1>2 DEF Close, Return
<1> QED
  BY <1>1, <1>2

(* tfs_read of an empty file moves nothing, from its start. *)
LEMMA ReadFiles ==
  ASSUME NEW s \in Tables, FilesOK(s), NEW h, NEW len \in Nat
  PROVE  FilesOK(Read(s, h, len).fs)
<1>1. CASE h \notin s.opened
  BY <1>1 DEF Read, Return
<1>2. CASE h \in s.opened
  <2> DEFINE i == s.file[h].inum
             n == ToRead(s, h, len)
             t == Copy(s, h, n).fs
  <2>1. h \in Handles /\ i \in s.inodes /\ Read(s, h, len).fs = t
    BY <1>2 DEF Tables, FilesOK, Read
  <2>2. i \in Inums /\ s.inode[i] \in Inodes /\ s.file[h].offset \in Nat
    BY <2>1 DEF Tables
  <2>3. CASE ~HasBlock(s, i)
    <3>1. s.file[h].offset = 0 /\ s.inode[i].size = 0
      BY <1>2, <2>2, <2>3 DEF FilesOK, HasBlock, Inodes
    <3>2. n = 0
      BY <3>1, MinOfTwo DEF ToRead
    <3>3. t = s
      BY <3>2 DEF Copy, Return
    <3> QED
      BY <2>1, <3>3
  <2>4. CASE HasBlock(s, i)
    <3>1. /\ t.inodes = s.inodes /\ t.inode = s.inode /\ t.blocks = s.blocks
          /\ t.opened = s.opened
          /\ \A g \in Handles : /\ t.file[g].inum = s.file[g].inum
                                /\ g # h => t.file[g] = s.file[g]
      BY <2>1, CopyMoves
    <3> HIDE DEF t
    <3>2. s.opened \subseteq Handles
      BY DEF Tables
    <3>3. \A g \in t.opened : /\ t.file[g].inum \in t.inodes
                              /\ ~HasBlock(t, t.file[g].inum) => t.file[g].offset = 0
      BY <2>4, <3>1, <3>2 DEF FilesOK, HasBlock
    <3>4. FilesOK(t)
      BY <3>1, <3>3 DEF FilesOK, HasBlock
    <3> QED
      BY <2>1, <3>4
  <2> QED
    BY <2>3, <2>4
<1> QED
  BY <1>1, <1>2

(* tfs_write gives an empty file a free block, and then contents. *)
LEMMA WriteFiles ==
  ASSUME NEW s \in Tables, FilesOK(s), NEW h, NEW text \in Seq(Bytes)
  PROVE  FilesOK(Write(s, h, text).fs)
<1> DEFINE i == s.file[h].inum
           b == FirstFree(Blocks, s.blocks)
           n == ToWrite(s, h, text)
           end == s.file[h].offset + n
           t == Reserve(s, h).fs
           u == Put(t, h, text).fs
<1>1. CASE h \notin s.opened \/ n = 0 \/ Reserve(s, h).ret = None
  BY <1>1 DEF Write, Return
<1>2. CASE ~(h \notin s.opened \/ n = 0 \/ Reserve(s, h).ret = None)
  <2>1. h \in Handles /\ i \in s.inodes /\ Write(s, h, text).fs = u
    BY <1>2 DEF Tables, FilesOK, Write
  <2>2. /\ i \in Inums /\ s.inode[i] \in Inodes /\ s.file[h].offset \in Nat
        /\ n \in Int /\ n # 0 /\ (n = Len(text) \/ n = BlockSize - s.file[h].offset)
        /\ s.inode[i].size \in Nat
    <3>1. i \in Inums /\ s.inode[i] \in Inodes /\ s.file[h].offset \in Nat
      BY <2>1 DEF Tables
    <3>2. s.inode[i].size \in Nat
      BY <3>1, Sizes DEF Inodes
    <3>3. n \in Int /\ (n = Len(text) \/ n = BlockSize - s.file[h].offset)
      BY <2>1, ToWriteType
    <3> HIDE DEF n, i
    <3> QED
      BY <1>2, <3>1, <3>2, <3>3
  <2>3. b \in (Blocks \ s.blocks) \cup {None}
    <3> HIDE DEF n, u, t, i
    <3>1. Blocks \in SUBSET Nat
      BY Sizes
    <3> QED
      BY <3>1, FirstFreeType
  <2>4. CASE HasBlock(s, i)
    <3>1. u = Put(s, h, text).fs
      BY <2>4 DEF Reserve, Return, HasBlock
    <3> HIDE DEF u
    <3>2. CASE n <= 0
      <4>1. Put(s, h, text).fs = s
        <5>1. ToWrite(s, h, text) <= 0
          BY <3>2
        <5> HIDE DEF n, i, b, end, t
        <5> QED
          BY <2>1, <5>1, PutMoves
      <4> QED
        BY <2>1, <3>1, <4>1
    <3>3. CASE n > 0
      <4>1. /\ u.inodes = s.inodes /\ u.blocks = s.blocks /\ u.opened = s.opened
            /\ \A j \in Inums : /\ j # i => u.inode[j] = s.inode[j]
                                /\ u.inode[j].block = s.inode[j].block
            /\ u.inode[i].size = IF s.inode[i].size >= end THEN s.inode[i].size ELSE end
            /\ \A g \in Handles : /\ g # h => u.file[g] = s.file[g]
                                  /\ u.file[g].inum = s.file[g].inum
        BY <2>1, <3>1, <3>3, PutMoves
      <4>2. end \in Int /\ s.inode[i].size \in Int /\ s.inodes \subseteq Inums
        <5> HIDE DEF n, i
        <5> QED
          BY <2>2 DEF Tables
      <4> HIDE DEF i, n, end
      <4>3. u.inode[i].size >= s.inode[i].size /\ u.inode[i].size \in Int
        BY <4>1, <4>2
      <4>4. \A j \in s.inodes : HasBlock(u, j) <=> HasBlock(s, j)
        <5>1. u.inode[i].size > 0 /\ s.inode[i].size > 0
          BY <2>4, <4>2, <4>3 DEF HasBlock
        <5> QED
          BY <4>1, <4>2, <5>1 DEF HasBlock
      <4>5. s.opened \subseteq Handles
        BY DEF Tables
      <4>6. FilesOK(u)
        <5>1. \A g \in u.opened : /\ u.file[g].inum \in u.inodes
                                  /\ ~HasBlock(u, u.file[g].inum) => u.file[g].offset = 0
          BY <2>4, <4>1, <4>4, <4>5 DEF FilesOK, i
        <5>2. \A j \in u.inodes : HasBlock(u, j) => u.inode[j].block \in u.blocks
          BY <4>1, <4>2, <4>4 DEF FilesOK
        <5>3. \A j, k \in u.inodes :
                HasBlock(u, j) /\ HasBlock(u, k) /\ u.inode[j].block = u.inode[k].block => j = k
          BY <4>1, <4>2, <4>4 DEF FilesOK
        <5>4. \A c \in u.blocks : \E j \in u.inodes : HasBlock(u, j) /\ u.inode[j].block = c
          BY <4>1, <4>2, <4>4 DEF FilesOK
        <5> QED
          BY <5>1, <5>2, <5>3, <5>4 DEF FilesOK
      <4> QED
        BY <2>1, <4>6
    <3> QED
      BY <2>2, <3>2, <3>3
  <2>5. CASE ~HasBlock(s, i)
    <3>1. s.file[h].offset = 0 /\ s.inode[i].size = 0
      BY <1>2, <2>2, <2>5 DEF FilesOK, HasBlock
    <3>2. n > 0 /\ end = n
      BY <2>2, <3>1, Sizes
    <3>3. b # None /\ t = [s EXCEPT !.blocks = @ \cup {b}, !.inode[i].block = b]
      BY <1>2, <2>5 DEF Reserve, Return, HasBlock
    <3>4. b \in Blocks \ s.blocks
      BY <2>3, <3>3
    <3> HIDE DEF b, i
    <3>5. /\ t.inodes = s.inodes /\ t.blocks = s.blocks \cup {b} /\ t.opened = s.opened
          /\ t.file = s.file /\ t.inode = [s.inode EXCEPT ![i].block = b]
      BY <3>3 DEF Tables
    <3>6. t \in Tables
      BY <2>1, ReserveType
    <3> HIDE DEF t
    <3>7. ToWrite(t, h, text) = n
      BY <3>5 DEF ToWrite
    <3>8. /\ u.inodes = t.inodes /\ u.blocks = t.blocks /\ u.opened = t.opened
          /\ \A j \in Inums : /\ j # i => u.inode[j] = t.inode[j]
                              /\ u.inode[j].block = t.inode[j].block
          /\ u.inode[i].size = IF t.inode[i].size >= end THEN t.inode[i].size ELSE end
          /\ \A g \in Handles : /\ g # h => u.file[g] = t.file[g]
                                /\ u.file[g].inum = t.file[g].inum
      <4>1. t.file[h].inum = i /\ t.file[h].offset = s.file[h].offset
        BY <3>5 DEF i
      <4> HIDE DEF n
      <4>2. end = t.file[h].offset + ToWrite(t, h, text) /\ ToWrite(t, h, text) > 0
        BY <3>2, <3>7, <4>1 DEF end
      <4> HIDE DEF end
      <4> QED
        BY <2>1, <3>6, <4>1, <4>2, PutMoves, SMTT(30)
    <3> HIDE DEF u, end, n
    <3>9. /\ \A j \in s.inodes \ {i} : u.inode[j] = s.inode[j]
          /\ u.inode[i].block = b /\ u.inode[i].size > 0
      <4>1. s.inodes \subseteq Inums /\ s.inode \in [Inums -> Inodes]
        BY DEF Tables
      <4>2. t.inode[i].block = b /\ t.inode[i].size = 0
        BY <2>2, <3>1, <3>5, <4>1 DEF Inodes, i
      <4>3. \A j \in s.inodes \ {i} : u.inode[j] = s.inode[j]
        BY <3>5, <3>8, <4>1
      <4> QED
        BY <2>2, <3>2, <3>8, <4>2, <4>3 DEF i
    <3>10. HasBlock(u, i) /\ \A j \in s.inodes \ {i} : HasBlock(u, j) <=> HasBlock(s, j)
      BY <3>9 DEF HasBlock
    <3>11. \A g \in s.opened : /\ u.file[g].inum = s.file[g].inum
                               /\ g # h => u.file[g] = s.file[g]
      BY <3>5, <3>8 DEF Tables
    <3>12. FilesOK(u)
      <4>1. \A g \in u.opened : /\ u.file[g].inum \in u.inodes
                                /\ ~HasBlock(u, u.file[g].inum) => u.file[g].offset = 0
        <5>1. u.opened = s.opened /\ u.inodes = s.inodes
          BY <3>5, <3>8
        <5>2. \A g \in s.opened : /\ s.file[g].inum \in s.inodes
                                  /\ ~HasBlock(s, s.file[g].inum) => s.file[g].offset = 0
          BY DEF FilesOK
        <5> SUFFICES ASSUME NEW g \in s.opened
                     PROVE  /\ u.file[g].inum \in s.inodes
                            /\ ~HasBlock(u, u.file[g].inum) => u.file[g].offset = 0
          BY <5>1
        <5> QED
          BY <3>10, <3>11, <5>2 DEF i
      <4>2. \A j \in u.inodes : HasBlock(u, j) => u.inode[j].block \in u.blocks
        BY <2>1, <3>5, <3>8, <3>9, <3>10 DEF FilesOK
      <4>3. \A j, k \in u.inodes :
              HasBlock(u, j) /\ HasBlock(u, k) /\ u.inode[j].block = u.inode[k].block => j = k
        BY <3>4, <3>5, <3>8, <3>9, <3>10 DEF FilesOK
      <4>4. \A c \in u.blocks : \E j \in u.inodes : HasBlock(u, j) /\ u.inode[j].block = c
        <5>1. i \in u.inodes
          BY <2>1, <3>5, <3>8 DEF i
        <5>2. \A c \in s.blocks : \E j \in s.inodes \ {i} : HasBlock(s, j) /\ s.inode[j].block = c
          BY <2>5 DEF FilesOK, i
        <5> QED
          BY <3>5, <3>8, <3>9, <3>10, <5>1, <5>2
      <4> QED
        BY <4>1, <4>2, <4>3, <4>4 DEF FilesOK
    <3> QED
      BY <2>1, <3>12
  <2> QED
    BY <2>4, <2>5
<1> QED
  BY <1>1, <1>2

(* tfs_copy_from_external_fs, onto a file that is not open. *)
LEMMA CopyFromExternalFiles ==
  ASSUME NEW s \in Tables, NamesOK(s), FilesOK(s), NEW text \in Seq(Bytes), NEW name \in Names,
         ~Used(s, GetPath(s, Lookup(s, name)))
  PROVE  FilesOK(CopyFromExternal(s, text, name).fs)
<1> DEFINE opened == Open(s, name, {"creat", "trunc"})
           written == Write(opened.fs, opened.ret, text)
<1>1. opened.fs \in Tables /\ FilesOK(opened.fs)
  BY OpenType, OpenFiles
<1> HIDE DEF opened
<1>2. written.fs \in Tables /\ FilesOK(written.fs)
  BY <1>1, WriteType, WriteFiles
<1> HIDE DEF written
<1>3. FilesOK(Close(written.fs, opened.ret).fs)
  BY <1>2, CloseFiles
<1> QED
  BY <1>1, <1>2, <1>3 DEF CopyFromExternal, Return, opened, written
-----------------------------------------------------------------------------
(* The tables keep their types, and a read gives the caller bytes of the   *)
(* data blocks, never what lies past them.                                 *)
THEOREM TypesCorrect == Spec => []TypeOK
<1>1. Init => TypeOK
  BY InitialStateType DEF Init, TypeOK
<1>2. TypeOK /\ [Next]_vars => TypeOK'
  <2> SUFFICES ASSUME TypeOK, [Next]_vars PROVE TypeOK'
    OBVIOUS
  <2>0. fs \in Tables /\ \A s \in Texts : s \in Seq(Bytes)
    BY CallersAssumption DEF TypeOK
  <2>1. ASSUME NEW call, NEW r, Step(call, r), r.fs \in Tables, r.ret \in Int,
               r.out \in Seq(Bytes)
        PROVE  TypeOK'
    BY <2>1 DEF Step, TypeOK
  <2>2. <<>> \in Seq(Bytes)
    OBVIOUS
  <2>3. ASSUME NEW name \in Names, NEW mode \in Modes, tfs_open(name, mode) PROVE TypeOK'
    BY <2>0, <2>1, <2>2, <2>3, OpenType, NothingOut DEF tfs_open
  <2>4. ASSUME NEW name \in Names, tfs_unlink(name) PROVE TypeOK'
    BY <2>0, <2>1, <2>2, <2>4, UnlinkType, NothingOut DEF tfs_unlink
  <2>5. ASSUME NEW target \in Names, NEW name \in Names, tfs_sym_link(target, name)
        PROVE  TypeOK'
    BY <2>0, <2>1, <2>2, <2>5, SymLinkType, NothingOut DEF tfs_sym_link
  <2>6. ASSUME NEW target \in Names, NEW name \in Names, tfs_link(target, name) PROVE TypeOK'
    BY <2>0, <2>1, <2>2, <2>6, LinkType, NothingOut DEF tfs_link
  <2>7. ASSUME NEW s \in Texts, NEW name \in Names, tfs_copy_from_external_fs(s, name)
        PROVE  TypeOK'
    BY <2>0, <2>1, <2>2, <2>7, CopyFromExternalType, NothingOut DEF tfs_copy_from_external_fs
  <2>8. ASSUME NEW h \in Handles, tfs_close(h) PROVE TypeOK'
    BY <2>0, <2>1, <2>2, <2>8, CloseType, NothingOut DEF tfs_close
  <2>9. ASSUME NEW h \in Handles, NEW s \in Texts, tfs_write(h, s) PROVE TypeOK'
    BY <2>0, <2>1, <2>2, <2>9, WriteType, NothingOut DEF tfs_write
  <2>10. ASSUME NEW h \in Handles, NEW len \in Lengths, tfs_read(h, len) PROVE TypeOK'
    <3>1. len \in Nat
      BY CallersAssumption
    <3> QED
      BY <2>0, <2>1, <2>10, <3>1, ReadType DEF tfs_read
  <2>11. CASE UNCHANGED vars
    BY <2>11 DEF vars, TypeOK
  <2> QED
    BY <2>3, <2>4, <2>5, <2>6, <2>7, <2>8, <2>9, <2>10, <2>11 DEF Next
<1> QED
  BY <1>1, <1>2, PTL DEF Spec

-----------------------------------------------------------------------------
(* The tables after tfs_init. *)
LEMMA InitialStateOK == NamesOK(InitialState) /\ FilesOK(InitialState)
<1>1. LET s == InitialState
      IN /\ s.inodes = {Root} /\ s.blocks = {0} /\ s.opened = {}
         /\ s.inode[Root].size = BlockSize /\ s.inode[Root].block = 0
  BY Sizes DEF InitialState
<1>2. FilesOK(InitialState)
  BY <1>1, Sizes DEF FilesOK, HasBlock
<1> QED
  BY <1>2, InitialNames

(* Every call keeps the directory and the link counts in step. *)
LEMMA NamesInvariant == Spec => [](TypeOK /\ NamesOK(fs))
<1> DEFINE Inv == NamesOK(fs)
<1>1. Init => Inv
  BY InitialStateOK DEF Init
<1>2. TypeOK /\ Inv /\ [Next]_vars => Inv'
  <2> SUFFICES ASSUME TypeOK, Inv, [Next]_vars PROVE Inv'
    OBVIOUS
  <2>0. fs \in Tables /\ NamesOK(fs) /\ \A s \in Texts : s \in Seq(Bytes)
    BY CallersAssumption DEF TypeOK
  <2>1. ASSUME NEW call, NEW r, Step(call, r), NamesOK(r.fs) PROVE Inv'
    BY <2>1 DEF Step
  <2> HIDE DEF Inv
  <2>2. ASSUME NEW name \in Names, NEW mode \in Modes, tfs_open(name, mode) PROVE Inv'
    BY <2>0, <2>1, <2>2, OpenNames DEF tfs_open
  <2>3. ASSUME NEW name \in Names, tfs_unlink(name) PROVE Inv'
    BY <2>0, <2>1, <2>3, UnlinkNames DEF tfs_unlink
  <2>4. ASSUME NEW target \in Names, NEW name \in Names, tfs_sym_link(target, name)
        PROVE  Inv'
    BY <2>0, <2>1, <2>4, SymLinkNames DEF tfs_sym_link
  <2>5. ASSUME NEW target \in Names, NEW name \in Names, tfs_link(target, name) PROVE Inv'
    BY <2>0, <2>1, <2>5, LinkNames DEF tfs_link
  <2>6. ASSUME NEW s \in Texts, NEW name \in Names, tfs_copy_from_external_fs(s, name)
        PROVE  Inv'
    BY <2>0, <2>1, <2>6, CopyFromExternalNames DEF tfs_copy_from_external_fs
  <2>7. ASSUME NEW h \in Handles, tfs_close(h) PROVE Inv'
    BY <2>0, <2>1, <2>7, HandleCallsNames DEF tfs_close
  <2>8. ASSUME NEW h \in Handles, NEW s \in Texts, tfs_write(h, s) PROVE Inv'
    BY <2>0, <2>1, <2>8, HandleCallsNames DEF tfs_write
  <2>9. ASSUME NEW h \in Handles, NEW len \in Lengths, tfs_read(h, len) PROVE Inv'
    <3>1. len \in Nat
      BY CallersAssumption
    <3> QED
      BY <2>0, <2>1, <2>9, <3>1, HandleCallsNames DEF tfs_read
  <2>10. CASE UNCHANGED vars
    BY <2>10 DEF vars, Inv
  <2> QED
    BY <2>2, <2>3, <2>4, <2>5, <2>6, <2>7, <2>8, <2>9, <2>10 DEF Next
<1> QED
  BY <1>1, <1>2, TypesCorrect, PTL DEF Spec

(* Whatever a program calls, careful or not: entries lead to live inodes,  *)
(* and no inode has more entries than links, so that tfs_unlink never      *)
(* frees an inode that has a name.                                         *)
THEOREM EntriesLeadToLiveInodes == Spec => []EntriesLive
<1>1. TypeOK /\ NamesOK(fs) => EntriesLive
  <2>1. \A i : EntriesOf(i) = Naming(fs, i)
    BY DEF EntriesOf, Naming
  <2> QED
    BY <2>1 DEF NamesOK, EntriesLive
<1> QED
  BY <1>1, NamesInvariant, PTL

(* Nobody truncates or deletes a file that is open. *)
LEMMA FilesInvariant == Careful => (Spec => [](TypeOK /\ FilesOK(fs)))
<1> SUFFICES ASSUME Careful PROVE Spec => [](TypeOK /\ FilesOK(fs))
  OBVIOUS
<1> DEFINE Inv == FilesOK(fs)
<1>1. Init => Inv
  BY InitialStateOK DEF Init
<1>2. TypeOK /\ NamesOK(fs) /\ Inv /\ [Next]_vars => Inv'
  <2> SUFFICES ASSUME TypeOK, NamesOK(fs), Inv, [Next]_vars PROVE Inv'
    OBVIOUS
  <2>0. /\ fs \in Tables /\ NamesOK(fs) /\ FilesOK(fs)
        /\ \A s \in Texts : s \in Seq(Bytes)
        /\ \A i : Busy(i) <=> Used(fs, i)
    BY CallersAssumption DEF TypeOK, Busy, Used
  <2>1. ASSUME NEW call, NEW r, Step(call, r), FilesOK(r.fs) PROVE Inv'
    BY <2>1 DEF Step
  <2> HIDE DEF Inv
  <2>2. ASSUME NEW name \in Names, NEW mode \in Modes, tfs_open(name, mode) PROVE Inv'
    BY <2>0, <2>1, <2>2, OpenFiles DEF tfs_open
  <2>3. ASSUME NEW name \in Names, tfs_unlink(name) PROVE Inv'
    BY <2>0, <2>1, <2>3, UnlinkFiles DEF tfs_unlink
  <2>4. ASSUME NEW target \in Names, NEW name \in Names, tfs_sym_link(target, name)
        PROVE  Inv'
    BY <2>0, <2>1, <2>4, LinksFiles DEF tfs_sym_link
  <2>5. ASSUME NEW target \in Names, NEW name \in Names, tfs_link(target, name) PROVE Inv'
    BY <2>0, <2>1, <2>5, LinksFiles DEF tfs_link
  <2>6. ASSUME NEW s \in Texts, NEW name \in Names, tfs_copy_from_external_fs(s, name)
        PROVE  Inv'
    BY <2>0, <2>1, <2>6, CopyFromExternalFiles DEF tfs_copy_from_external_fs
  <2>7. ASSUME NEW h \in Handles, tfs_close(h) PROVE Inv'
    BY <2>0, <2>1, <2>7, CloseFiles DEF tfs_close
  <2>8. ASSUME NEW h \in Handles, NEW s \in Texts, tfs_write(h, s) PROVE Inv'
    BY <2>0, <2>1, <2>8, WriteFiles DEF tfs_write
  <2>9. ASSUME NEW h \in Handles, NEW len \in Lengths, tfs_read(h, len) PROVE Inv'
    <3>1. len \in Nat
      BY CallersAssumption
    <3> QED
      BY <2>0, <2>1, <2>9, <3>1, ReadFiles DEF tfs_read
  <2>10. CASE UNCHANGED vars
    BY <2>10 DEF vars, Inv
  <2> QED
    BY <2>2, <2>3, <2>4, <2>5, <2>6, <2>7, <2>8, <2>9, <2>10 DEF Next
<1> QED
  BY <1>1, <1>2, NamesInvariant, PTL DEF Spec

(* To a program that does not truncate or delete what it has open, a block *)
(* is taken exactly while one inode holds contents in it.                  *)
THEOREM BlocksAreOwned == Careful => (Spec => []BlocksOwned)
<1> SUFFICES ASSUME Careful PROVE Spec => []BlocksOwned
  OBVIOUS
<1>1. TypeOK /\ FilesOK(fs) => BlocksOwned
  <2> SUFFICES ASSUME FilesOK(fs), NEW b \in Blocks
               PROVE  Cardinality(Owners(b)) = IF b \in fs.blocks THEN 1 ELSE 0
    BY DEF BlocksOwned
  <2>1. CASE b \in fs.blocks
    <3>1. PICK i \in fs.inodes : HasBlock(fs, i) /\ fs.inode[i].block = b
      BY <2>1 DEF FilesOK
    <3>2. Owners(b) = {i}
      BY <3>1 DEF FilesOK, HasBlock, Owners
    <3> QED
      BY <2>1, <3>2, FS_Singleton
  <2>2. CASE b \notin fs.blocks
    <3>1. Owners(b) = {}
      BY <2>2 DEF FilesOK, HasBlock, Owners
    <3> QED
      BY <2>2, <3>1, FS_EmptySet
  <2> QED
    BY <2>1, <2>2
<1> QED
  BY <1>1, FilesInvariant, PTL

-----------------------------------------------------------------------------
(***************************************************************************)
(* The promise of operations.h.  Everything a caller can tell of the       *)
(* contents is in Filed and Pointed; each call changes them as FileStore   *)
(* allows.                                                                 *)
(***************************************************************************)
Live(s) == {i \in s.inodes : s.inode[i].type = "file"}

Text(s, i) == [k \in 1 .. s.inode[i].size |-> s.data[s.inode[i].block * BlockSize + k - 1]]

Filed(s) == [i \in Live(s) |-> Text(s, i)]
Pointed(s) == [h \in s.opened |-> [file |-> s.file[h].inum, offset |-> s.file[h].offset]]

(* No file holds a Nul, and no handle is past the end of its file: what    *)
(* makes tfs_read return what is there.                                    *)
Plain(s) ==
  /\ \A i \in Inums : s.inode[i].type = "dir" <=> i = Root
  /\ \A i \in Live(s) : \A k \in 1 .. s.inode[i].size : Text(s, i)[k] # Nul
  /\ \A h \in s.opened : /\ s.file[h].inum \in Live(s)
                         /\ s.file[h].offset <= s.inode[s.file[h].inum].size

(* Bytes of two blocks are apart. *)
LEMMA BlocksApart ==
  ASSUME NEW b \in Blocks, NEW c \in Blocks, b # c,
         NEW j \in 0 .. BlockSize - 1, NEW k \in 0 .. BlockSize - 1
  PROVE  b * BlockSize + j # c * BlockSize + k
<1>1. ASSUME NEW m \in Nat, NEW n \in Nat, m < n
      PROVE  m * BlockSize + BlockSize <= n * BlockSize /\ m * BlockSize \in Nat
  <2>0. BlockSize \in Nat
    BY Sizes
  <2>1. PICK d \in Nat : n = (m + 1) + d
    <3>1. n - (m + 1) \in Nat /\ n = (m + 1) + (n - (m + 1))
      BY <1>1
    <3> QED
      BY <3>1
  <2>2. n * BlockSize = (m + 1) * BlockSize + d * BlockSize
    BY <2>0, <2>1
  <2>3. d * BlockSize \in Nat /\ (m + 1) * BlockSize = m * BlockSize + BlockSize
    BY <2>0
  <2>4. m * BlockSize \in Nat
    BY <2>0
  <2> HIDE <2>1
  <2> QED
    BY <2>0, <2>2, <2>3, <2>4
<1>2. b \in Nat /\ c \in Nat /\ (b < c \/ c < b) /\ BlockSize \in Nat
  BY Sizes
<1> DEFINE x == b * BlockSize
           y == c * BlockSize
<1>3. x + BlockSize <= y \/ y + BlockSize <= x
  BY <1>1, <1>2
<1>4. x \in Nat /\ y \in Nat
  BY <1>2
<1> HIDE DEF x, y
<1>5. x + j # y + k
  BY <1>2, <1>3, <1>4
<1> QED
  BY <1>5 DEF x, y

(* The contents of a file are bytes, as many as its size. *)
LEMMA TextType ==
  ASSUME NEW s \in Tables, NEW i \in Inums, s.inode[i].size > 0 => s.inode[i].block \in Blocks
  PROVE  /\ s.inode[i].size \in 0 .. BlockSize /\ s.inode[i].size \in Nat
         /\ Text(s, i) \in [1 .. s.inode[i].size -> Bytes]
         /\ Text(s, i) \in Seq(Bytes) /\ Len(Text(s, i)) = s.inode[i].size
<1> DEFINE n == s.inode[i].size
           b == s.inode[i].block
<1>1. s.inode[i] \in Inodes
  BY DEF Tables
<1>2. n \in 0 .. BlockSize /\ n \in Nat
  BY <1>1, Sizes DEF Inodes
<1>3. ASSUME NEW k \in 1 .. n PROVE s.data[b * BlockSize + k - 1] \in Bytes
  <2>1. k - 1 \in 0 .. BlockSize - 1 /\ b \in Blocks
    <3>1. /\ n > 0 /\ k \in Nat /\ k - 1 \in Nat /\ k <= n /\ n \in Nat /\ n <= BlockSize
          /\ BlockSize \in Nat
      BY <1>2, Sizes
    <3>2. b \in Blocks
      BY <3>1
    <3> HIDE DEF n, b
    <3> QED
      BY <3>1, <3>2
  <2>2. b * BlockSize \in Nat /\ b * BlockSize + (k - 1) \in 0 .. MaxBlocks * BlockSize - 1
    <3> HIDE DEF b
    <3> QED
      BY <2>1, BlockInside
  <2>3. s.data \in [0 .. MaxBlocks * BlockSize - 1 -> Bytes]
    BY DEF Tables
  <2> DEFINE base == b * BlockSize
  <2>4. base + (k - 1) = base + k - 1
    BY <2>2
  <2> HIDE DEF base
  <2>5. s.data[base + k - 1] \in Bytes
    BY <2>2, <2>3, <2>4 DEF base
  <2> QED
    BY <2>5 DEF base
<1>4. Text(s, i) \in [1 .. n -> Bytes]
  BY <1>3 DEF Text
<1> HIDE DEF n
<1>5. Text(s, i) \in Seq(Bytes) /\ Len(Text(s, i)) = n
  BY <1>2, <1>4, LenProperties
<1> QED
  BY <1>2, <1>4, <1>5 DEF n

(* Contents follow from sizes, blocks and data. *)
LEMMA TextSame ==
  ASSUME NEW s, NEW t, NEW i, t.inode[i].size = s.inode[i].size,
         t.inode[i].block = s.inode[i].block, t.data = s.data
  PROVE  Text(t, i) = Text(s, i)
BY DEF Text

(* Calls that touch neither files nor handles keep what callers can tell. *)
LEMMA ContentsFrame ==
  ASSUME NEW s, NEW t, Plain(s), t.opened = s.opened,
         \A h \in s.opened : t.file[h] = s.file[h],
         Live(t) = Live(s),
         \A i \in Live(s) : t.inode[i].size = s.inode[i].size /\ Text(t, i) = Text(s, i),
         \A i \in Inums : t.inode[i].type = "dir" <=> i = Root
  PROVE  Filed(t) = Filed(s) /\ Pointed(t) = Pointed(s) /\ Plain(t)
<1>1. Filed(t) = Filed(s)
  BY DEF Filed
<1>2. Pointed(t) = Pointed(s)
  BY DEF Pointed
<1>3. \A i \in Live(t) : \A k \in 1 .. t.inode[i].size : Text(t, i)[k] # Nul
  BY DEF Plain
<1>4. \A h \in t.opened : /\ t.file[h].inum \in Live(t)
                          /\ t.file[h].offset <= t.inode[t.file[h].inum].size
  BY DEF Plain
<1> QED
  BY <1>1, <1>2, <1>3, <1>4 DEF Plain

(* What is stored in one block does not show in a file that has another. *)
LEMMA StoreElsewhere ==
  ASSUME NEW s \in Tables, NEW i \in Inums, NEW b \in Blocks,
         s.inode[i].size > 0 => s.inode[i].block \in Blocks \ {b},
         NEW from \in Nat, NEW part, Len(part) \in Nat, from + Len(part) <= BlockSize,
         NEW t, t.data = Store(s, b, from, part).data,
         t.inode[i].size = s.inode[i].size,
         s.inode[i].size > 0 => t.inode[i].block = s.inode[i].block
  PROVE  Text(t, i) = Text(s, i)
<1> DEFINE n == s.inode[i].size
           c == s.inode[i].block
           at == b * BlockSize
           len == Len(part)
<1>1. n \in 0 .. BlockSize /\ n \in Nat /\ BlockSize \in Nat
  BY TextType, Sizes
<1>2. t.data = [p \in DOMAIN s.data |-> IF p \in at + from .. at + from + len - 1
                                          THEN part[p - at - from + 1] ELSE s.data[p]]
  BY DEF Store, Tables
<1>3. DOMAIN s.data = 0 .. MaxBlocks * BlockSize - 1
  BY DEF Tables
<1>4. ASSUME NEW k \in 1 .. n
      PROVE  t.data[c * BlockSize + k - 1] = s.data[c * BlockSize + k - 1]
  <2> DEFINE base == c * BlockSize
  <2>0. k \in Nat /\ k - 1 \in Nat /\ k <= n /\ n > 0
    BY <1>1
  <2>1. k - 1 \in 0 .. BlockSize - 1 /\ c \in Blocks /\ c # b
    <3>1. c \in Blocks \ {b}
      BY <2>0
    <3> HIDE DEF n, c
    <3> QED
      BY <1>1, <2>0, <3>1
  <2> HIDE DEF c, n
  <2>2. base \in Nat /\ base + (k - 1) \in 0 .. MaxBlocks * BlockSize - 1
    BY <2>1, BlockInside
  <2>3. at \in Nat
    <3>1. b \in Nat
      BY Sizes
    <3> QED
      BY <1>1, <3>1
  <2>4. \A j \in 0 .. BlockSize - 1 : base + (k - 1) # at + j
    BY <2>1, BlocksApart
  <2> HIDE DEF base, at, len
  <2>5. base + k - 1 \notin at + from .. at + from + len - 1
    <3> SUFFICES ASSUME base + k - 1 \in at + from .. at + from + len - 1 PROVE FALSE
      OBVIOUS
    <3>1. len \in Nat /\ from + len <= BlockSize
      BY DEF len
    <3> DEFINE j == base + k - 1 - at
    <3>2. j \in 0 .. BlockSize - 1 /\ base + (k - 1) = at + j
      BY <1>1, <2>0, <2>2, <2>3, <3>1
    <3> QED
      BY <2>4, <3>2
  <2>6. base + k - 1 = base + (k - 1)
    BY <2>0, <2>2
  <2>7. t.data[base + k - 1] = s.data[base + k - 1]
    BY <1>2, <1>3, <2>2, <2>5, <2>6
  <2> QED
    BY <2>7 DEF base
<1>5. \A k \in 1 .. n : t.inode[i].block = c
  BY <1>1
<1> QED
  BY <1>4, <1>5 DEF Text

(* A sequence that differs from T in part, from o + 1 on. *)
LEMMA Spliced ==
  ASSUME NEW S, NEW T \in Seq(S), NEW part \in Seq(S), NEW o \in 0 .. Len(T), NEW X \in Seq(S),
         Len(X) = IF Len(T) >= o + Len(part) THEN Len(T) ELSE o + Len(part),
         \A k \in 1 .. Len(X) :
           X[k] = IF k \in o + 1 .. o + Len(part) THEN part[k - o] ELSE T[k]
  PROVE  X = SubSeq(T, 1, o) \o part \o SubSeq(T, o + Len(part) + 1, Len(T))
<1> DEFINE L == Len(T)
           n == Len(part)
           head == SubSeq(T, 1, o)
           rest == SubSeq(T, o + n + 1, L)
           both == head \o part
<1>1. L \in Nat /\ n \in Nat /\ o \in Nat /\ o <= L
  BY LenProperties
<1>2. \A k \in 1 .. L : T[k] \in S
  BY LenProperties
<1>3. head \in Seq(S) /\ Len(head) = o /\ \A k \in 1 .. o : head[k] = T[k]
  <2>1. \A k \in 1 .. o : T[k] \in S
    BY <1>1, <1>2
  <2>2. /\ SubSeq(T, 1, o) \in Seq(S)
        /\ Len(SubSeq(T, 1, o)) = IF 1 <= o THEN o - 1 + 1 ELSE 0
        /\ \A k \in 1 .. o - 1 + 1 : SubSeq(T, 1, o)[k] = T[1 + k - 1]
    BY <1>1, <2>1, SubSeqProperties
  <2> HIDE DEF L
  <2> QED
    BY <1>1, <2>2
<1>4. /\ rest \in Seq(S) /\ Len(rest) = IF o + n + 1 <= L THEN L - (o + n) ELSE 0
      /\ \A k \in 1 .. L - (o + n) : rest[k] = T[o + n + k]
  <2> HIDE DEF L, n
  <2> DEFINE m == o + n + 1
  <2>0. m \in Int /\ L \in Int /\ \A k \in m .. L : T[k] \in S
    BY <1>1, <1>2
  <2>1. /\ SubSeq(T, m, L) \in Seq(S)
        /\ Len(SubSeq(T, m, L)) = IF m <= L THEN L - m + 1 ELSE 0
        /\ \A k \in 1 .. L - m + 1 : SubSeq(T, m, L)[k] = T[m + k - 1]
    <3> HIDE DEF m
    <3> QED
      BY <2>0, SubSeqProperties
  <2>2. L - m + 1 = L - (o + n) /\ \A k \in 1 .. L - (o + n) : m + k - 1 = o + n + k
    BY <1>1
  <2> QED
    BY <2>1, <2>2
<1> HIDE DEF head, rest, L, n
<1>5. /\ both \in Seq(S) /\ Len(both) = o + n
      /\ \A k \in 1 .. o + n : both[k] = IF k <= o THEN T[k] ELSE part[k - o]
  <2>1. /\ both \in Seq(S) /\ Len(both) = Len(head) + n
        /\ \A k \in 1 .. Len(head) + n : both[k] = IF k <= Len(head) THEN head[k]
                                                                    ELSE part[k - Len(head)]
    BY <1>3, ConcatProperties DEF n
  <2> HIDE DEF both
  <2> QED
    BY <1>1, <1>3, <2>1
<1> HIDE DEF both
<1> DEFINE Y == both \o rest
<1>6. /\ Y \in Seq(S) /\ Len(Y) = (o + n) + Len(rest)
      /\ \A k \in 1 .. (o + n) + Len(rest) : Y[k] = IF k <= o + n THEN both[k]
                                                                  ELSE rest[k - (o + n)]
  <2>1. both \in Seq(S) /\ rest \in Seq(S) /\ Len(both) = o + n
    BY <1>4, <1>5
  <2>2. /\ Y \in Seq(S) /\ Len(Y) = Len(both) + Len(rest)
        /\ \A k \in 1 .. Len(both) + Len(rest) :
             Y[k] = IF k <= Len(both) THEN both[k] ELSE rest[k - Len(both)]
    BY <2>1, ConcatProperties
  <2> HIDE DEF Y
  <2> QED
    BY <2>1, <2>2
<1> HIDE DEF Y
<1>7. Len(X) = Len(Y)
  <2>1. Len(X) = IF L >= o + n THEN L ELSE o + n
    BY DEF L, n
  <2>2. Len(rest) = IF o + n + 1 <= L THEN L - (o + n) ELSE 0
    BY <1>4
  <2>3. Len(Y) = (o + n) + Len(rest)
    BY <1>6
  <2>4. (o + n) + Len(rest) = IF L >= o + n THEN L ELSE o + n
    BY <1>1, <2>2
  <2> QED
    BY <2>1, <2>3, <2>4, Zenon
<1>8. ASSUME NEW k \in 1 .. Len(X) PROVE X[k] = Y[k]
  <2>0. /\ k \in Nat /\ k > 0 /\ k <= (o + n) + Len(rest) /\ Len(rest) \in Nat
        /\ X[k] = IF k \in o + 1 .. o + n THEN part[k - o] ELSE T[k]
    <3>1. Len(rest) \in Nat
      BY <1>1, <1>4
    <3>2. k \in 1 .. (o + n) + Len(rest)
      BY <1>6, <1>7
    <3>3. k \in Nat /\ k > 0 /\ k <= (o + n) + Len(rest)
      BY <1>1, <3>1, <3>2
    <3>4. X[k] = IF k \in o + 1 .. o + n THEN part[k - o] ELSE T[k]
      BY DEF n
    <3> QED
      BY <3>1, <3>3, <3>4
  <2>1. CASE k <= o
    BY <1>1, <1>5, <1>6, <2>0, <2>1
  <2>2. CASE k > o /\ k <= o + n
    BY <1>1, <1>5, <1>6, <2>0, <2>2
  <2>3. CASE k > o + n
    <3>1. k - (o + n) \in 1 .. L - (o + n)
      BY <1>1, <1>4, <2>0, <2>3
    <3>2. o + n + (k - (o + n)) = k
      BY <1>1, <2>0
    <3>3. Y[k] = T[k]
      <4>1. rest[k - (o + n)] = T[o + n + (k - (o + n))]
        BY <1>4, <3>1
      <4>2. k \in 1 .. (o + n) + Len(rest) /\ ~(k <= o + n)
        BY <1>1, <2>0, <2>3
      <4>3. Y[k] = rest[k - (o + n)]
        BY <1>6, <4>2
      <4> QED
        BY <3>2, <4>1, <4>3
    <3> QED
      BY <1>1, <2>0, <2>3, <3>3
  <2> QED
    BY <1>1, <2>0, <2>1, <2>2, <2>3
<1> QED
  BY <1>6, <1>7, <1>8, SeqEqual DEF Y, both, head, rest, L, n

(* The text of a file after part was put into it at offset o, as a whole   *)
(* and byte by byte.                                                       *)
SplicedText(s, t, i, o, part) ==
  LET T == Text(s, i)
      n == Len(part)
  IN /\ Text(t, i) = SubSeq(T, 1, o) \o part \o SubSeq(T, o + n + 1, Len(T))
     /\ \A k \in 1 .. t.inode[i].size :
          Text(t, i)[k] = IF k \in o + 1 .. o + n THEN part[k - o] ELSE T[k]

(* What is stored in a file's own block is spliced into its contents. *)
LEMMA StoreHere ==
  ASSUME NEW s \in Tables, NEW i \in Inums, NEW b \in Blocks,
         s.inode[i].size > 0 => s.inode[i].block = b,
         NEW o \in 0 .. s.inode[i].size, NEW part \in Seq(Bytes), o + Len(part) <= BlockSize,
         NEW t \in Tables, t.data = Store(s, b, o, part).data, t.inode[i].block = b,
         t.inode[i].size = IF s.inode[i].size >= o + Len(part) THEN s.inode[i].size
                                                               ELSE o + Len(part)
  PROVE  SplicedText(s, t, i, o, part)
<1> DEFINE T == Text(s, i)
           n == Len(part)
           size == s.inode[i].size
           new == t.inode[i].size
           at == b * BlockSize
<1>1. /\ size \in 0 .. BlockSize /\ size \in Nat /\ T \in Seq(Bytes) /\ Len(T) = size
  BY TextType
<1>2. Text(t, i) \in Seq(Bytes) /\ Len(Text(t, i)) = new /\ new \in 0 .. BlockSize
  BY TextType
<1>3. n \in Nat /\ o \in Nat /\ o <= size /\ BlockSize \in Nat /\ at \in Nat
  <2>1. n \in Nat
    BY LenProperties
  <2>2. o \in Nat /\ o <= size /\ BlockSize \in Nat
    BY <1>1, Sizes
  <2>3. b \in Nat
    BY Sizes
  <2>4. at \in Nat
    BY <2>2, <2>3
  <2> QED
    BY <2>1, <2>2, <2>4
<1>4. t.data = [p \in DOMAIN s.data |-> IF p \in at + o .. at + o + n - 1
                                          THEN part[p - at - o + 1] ELSE s.data[p]]
  BY DEF Store, Tables
<1>5. DOMAIN s.data = 0 .. MaxBlocks * BlockSize - 1
  BY DEF Tables
<1>6. new = IF size >= o + n THEN size ELSE o + n
  OBVIOUS
<1>7. ASSUME NEW k \in 1 .. new
      PROVE  Text(t, i)[k] = IF k \in o + 1 .. o + n THEN part[k - o] ELSE T[k]
  <2>0. Text(t, i)[k] = t.data[at + k - 1]
    BY DEF Text
  <2>1. k \in Nat /\ k > 0 /\ k <= new /\ k - 1 \in 0 .. BlockSize - 1
    <3> HIDE DEF new
    <3> QED
      BY <1>2, <1>3
  <2>2. at + (k - 1) \in 0 .. MaxBlocks * BlockSize - 1
    BY <2>1, BlockInside
  <2>3. k \in o + 1 .. o + n \/ (size > 0 /\ k \in 1 .. size)
    <3> HIDE DEF new, size, n
    <3> QED
      BY <1>1, <1>3, <1>6, <2>1
  <2>4. size > 0 /\ k \in 1 .. size => T[k] = s.data[at + k - 1]
    BY DEF Text
  <2> HIDE DEF at, n, size, new, T
  <2>5. at + (k - 1) = at + k - 1
    BY <1>3, <2>1
  <2>6. t.data[at + k - 1] = IF at + k - 1 \in at + o .. at + o + n - 1
                               THEN part[(at + k - 1) - at - o + 1] ELSE s.data[at + k - 1]
    <3>1. at + k - 1 \in DOMAIN s.data
      BY <1>5, <2>2, <2>5
    <3> QED
      BY <1>4, <3>1, Zenon
  <2>7. /\ at + k - 1 \in at + o .. at + o + n - 1 <=> k \in o + 1 .. o + n
        /\ (at + k - 1) - at - o + 1 = k - o
    BY <1>3, <2>1
  <2> QED
    BY <2>0, <2>3, <2>4, <2>6, <2>7
<1> HIDE DEF T, n, size, new
<1>8. Text(t, i) = SubSeq(T, 1, o) \o part \o SubSeq(T, o + n + 1, Len(T))
  <2>1. Len(Text(t, i)) = IF Len(T) >= o + n THEN Len(T) ELSE o + n
    BY <1>1, <1>2, <1>6
  <2>2. o \in 0 .. Len(T)
    BY <1>1, <1>3
  <2>3. \A k \in 1 .. Len(Text(t, i)) :
          Text(t, i)[k] = IF k \in o + 1 .. o + n THEN part[k - o] ELSE T[k]
    BY <1>2, <1>7
  <2>4. Text(t, i) \in Seq(Bytes) /\ T \in Seq(Bytes)
    BY <1>1, <1>2
  <2> USE DEF n
  <2> QED
    BY <2>1, <2>2, <2>3, <2>4, Spliced, ZenonT(40)
<1> QED
  BY <1>7, <1>8 DEF SplicedText, T, n, new

(* One file's contents are changed, or it is new. *)
LEMMA OneFile ==
  ASSUME NEW s, NEW t, NEW f, Live(t) = Live(s) \cup {f},
         \A i \in Live(s) \ {f} : Text(t, i) = Text(s, i)
  PROVE  /\ Filed(t) = Promise!With(Filed(s), f, Text(t, f))
         /\ Filed(t)[f] = Text(t, f)
<1>1. Filed(t) = Promise!With(Filed(s), f, Text(t, f))
  BY DEF Filed, Promise!With
<1>2. Filed(t)[f] = Text(t, f)
  BY DEF Filed
<1> QED
  BY <1>1, <1>2

(* t has the files and handles of s; inodes that are no files may differ. *)
Unmoved(s, t) ==
  /\ t.data = s.data /\ t.opened = s.opened /\ t.file = s.file /\ Live(t) = Live(s)
  /\ \A i \in Live(s) : /\ t.inode[i].size = s.inode[i].size
                        /\ t.inode[i].block = s.inode[i].block
  /\ \A i \in Inums : t.inode[i].type = "dir" <=> i = Root

(* Then callers can tell no difference. *)
LEMMA UnmovedContents ==
  ASSUME NEW s, NEW t, Plain(s), Unmoved(s, t)
  PROVE  Filed(t) = Filed(s) /\ Pointed(t) = Pointed(s) /\ Plain(t)
<1>1. \A i \in Live(s) : t.inode[i].size = s.inode[i].size /\ Text(t, i) = Text(s, i)
  BY TextSame DEF Unmoved
<1> QED
  BY <1>1, ContentsFrame DEF Unmoved

(* What tfs_open leaves when it finds or makes a file f: f as it was, or   *)
(* empty and of no other handle; and a handle at one of its ends, if there *)
(* was one.                                                                *)
Opened(s, r, f, mode) ==
  /\ r.fs.data = s.data /\ Live(r.fs) = Live(s) \cup {f}
  /\ \A i \in Live(s) \ {f} : r.fs.inode[i] = s.inode[i]
  /\ \A i \in Inums : r.fs.inode[i].type = "dir" <=> i = Root
  /\ \/ f \in Live(s) /\ r.fs.inode[f] = s.inode[f]
     \/ r.fs.inode[f].size = 0 /\ ~Used(s, f)
  /\ "trunc" \in mode => r.fs.inode[f].size = 0
  /\ \/ r.ret = None /\ r.fs.opened = s.opened /\ r.fs.file = s.file
     \/ /\ r.ret \in Handles \ s.opened /\ r.fs.opened = s.opened \cup {r.ret}
        /\ \E o \in {0, r.fs.inode[f].size} :
             r.fs.file = [s.file EXCEPT ![r.ret] = [inum |-> f, offset |-> o]]

(* add_to_open_file_table fills in a free entry, or there is none. *)
LEMMA AddToOpenFileTableDoes ==
  ASSUME NEW s \in Tables, NEW i, NEW offset
  PROVE  LET r == AddToOpenFileTable(s, i, offset)
         IN /\ r.fs.data = s.data /\ r.fs.inode = s.inode /\ r.fs.inodes = s.inodes
            /\ \/ r.ret = None /\ r.fs.opened = s.opened /\ r.fs.file = s.file
               \/ /\ r.ret \in Handles \ s.opened /\ r.fs.opened = s.opened \cup {r.ret}
                  /\ r.fs.file = [s.file EXCEPT ![r.ret] = [inum |-> i, offset |-> offset]]
<1> DEFINE h == FirstFree(Handles, s.opened)
           t == [s EXCEPT !.opened = @ \cup {h}, !.file[h] = [inum |-> i, offset |-> offset]]
<1>1. h \in (Handles \ s.opened) \cup {None}
  <2>1. Handles \in SUBSET Nat
    BY Sizes
  <2> QED
    BY <2>1, FirstFreeType
<1>2. CASE h = None
  BY <1>2 DEF AddToOpenFileTable, Return
<1>3. CASE h # None
  <2>1. AddToOpenFileTable(s, i, offset) = Return(t, h)
    BY <1>3 DEF AddToOpenFileTable
  <2> HIDE DEF h
  <2>2. /\ t.inodes = s.inodes /\ t.inode = s.inode /\ t.data = s.data
        /\ t.opened = s.opened \cup {h}
        /\ t.file = [s.file EXCEPT ![h] = [inum |-> i, offset |-> offset]]
    BY DEF Tables
  <2> HIDE DEF t
  <2> QED
    BY <1>1, <1>3, <2>1, <2>2 DEF Return
<1> QED
  BY <1>2, <1>3

(* tfs_open finds a file, makes one, or leaves everything as it was. *)
LEMMA OpenOpens ==
  ASSUME NEW s \in Tables, NamesOK(s), Plain(s), NEW name \in Names, NEW mode,
         "trunc" \in mode => ~Used(s, GetPath(s, Lookup(s, name)))
  PROVE  LET r == Open(s, name, mode)
         IN \/ r.ret < 0 /\ Unmoved(s, r.fs)
            \/ \E f \in Inums : Opened(s, r, f, mode)
<1> DEFINE entry == Lookup(s, name)
           i == GetPath(s, entry)
           new == CreateFile(s)
           ino == s.inode[i]
           cut == IF "trunc" \in mode /\ ino.size > 0
                    THEN [s EXCEPT !.blocks = @ \ {ino.block}, !.inode[i].size = 0]
                    ELSE s
           f == new.ret
           added == AddDirEntry(new.fs, name, f)
           offset == IF "append" \in mode THEN cut.inode[i].size ELSE 0
           r == Open(s, name, mode)
           Result == \/ r.ret < 0 /\ Unmoved(s, r.fs)
                     \/ \E g \in Inums : Opened(s, r, g, mode)
<1> SUFFICES Result
  OBVIOUS
<1>1. /\ entry \in (s.inodes \ {Root}) \cup {None}
      /\ \A other : Lookup(s, other) \in (s.inodes \ {Root}) \cup {None}
  BY LookupNames
<1>2. i \in (s.inodes \ {Root}) \cup {None}
  <2> HIDE DEF entry
  <2> QED
    BY <1>1, GetPathType
<1>3. /\ new.fs \in Tables
      /\ f # None => /\ f \in Inums \ s.inodes /\ f # Root
                     /\ new.fs = [s EXCEPT !.inodes = @ \cup {f}, !.inode[f] = NewFile]
  BY CreateFileType, CreateFileNames
<1>4. "trunc" \in mode => ~Used(s, i)
  OBVIOUS
<1>5. \A t : t.data = s.data /\ t.opened = s.opened /\ t.file = s.file /\ t.inode = s.inode
             /\ t.inodes = s.inodes => Unmoved(s, t)
  BY DEF Unmoved, Live, Plain
<1> HIDE DEF entry, i, new, Result
<1>6. CASE r.fs = s /\ r.ret < 0
  BY <1>5, <1>6 DEF Result
<1>7. CASE entry = None /\ "creat" \in mode /\ f # None
  <2>1. /\ new.fs.inodes = s.inodes \cup {f} /\ new.fs.data = s.data
        /\ new.fs.inode = [s.inode EXCEPT ![f] = NewFile]
        /\ new.fs.opened = s.opened /\ new.fs.file = s.file
    BY <1>3, <1>7 DEF Tables
  <2>2. /\ new.fs.inode[f] = NewFile /\ f \in Inums /\ f \notin s.inodes /\ f # Root
        /\ \A j \in Inums \ {f} : new.fs.inode[j] = s.inode[j]
        /\ s.inodes \subseteq Inums
    BY <1>3, <1>7, <2>1 DEF Tables
  <2>3. \A j \in Inums : new.fs.inode[j].type = "dir" <=> j = Root
    BY <2>2 DEF Plain, NewFile
  <2>4. Live(new.fs) = Live(s) \cup {f} /\ f \notin Live(s)
    BY <2>1, <2>2 DEF Live, NewFile
  <2>5. ~Used(s, f)
    BY <2>4 DEF Used, Plain
  <2>6. CASE Addable(s, name)
    <3>1. r = AddToOpenFileTable(added, f, 0)
      BY <1>7, <2>6 DEF Open, entry, new
    <3>2. /\ added.inodes = new.fs.inodes /\ added.data = new.fs.data
          /\ added.opened = new.fs.opened /\ added.file = new.fs.file
          /\ added.inode = new.fs.inode
      BY <1>3 DEF AddDirEntry, Tables
    <3>3. added \in Tables
      BY <1>3, <2>2, AddDirEntryType
    <3> HIDE DEF added, r
    <3>4. /\ r.fs.data = s.data /\ r.fs.inode = new.fs.inode /\ r.fs.inodes = new.fs.inodes
          /\ \/ r.ret = None /\ r.fs.opened = s.opened /\ r.fs.file = s.file
             \/ /\ r.ret \in Handles \ s.opened /\ r.fs.opened = s.opened \cup {r.ret}
                /\ r.fs.file = [s.file EXCEPT ![r.ret] = [inum |-> f, offset |-> 0]]
      BY <2>1, <3>1, <3>2, <3>3, AddToOpenFileTableDoes
    <3>5. Live(r.fs) = Live(s) \cup {f} /\ \A j \in Live(s) \ {f} : r.fs.inode[j] = s.inode[j]
      BY <2>2, <2>4, <3>4 DEF Live
    <3>6. r.fs.inode[f].size = 0
      BY <2>2, <3>4 DEF NewFile
    <3> HIDE DEF f
    <3>7. Opened(s, r, f, mode)
      BY <2>3, <2>5, <3>4, <3>5, <3>6 DEF Opened
    <3> QED
      BY <2>2, <3>7 DEF Result, r
  <2>7. CASE ~Addable(s, name)
    <3> DEFINE t == InodeDelete(new.fs, f)
    <3>1. r = Return(t, None)
      BY <1>7, <2>7 DEF Open, entry, new
    <3>2. /\ t.inodes = (s.inodes \cup {f}) \ {f} /\ t.inode = new.fs.inode
          /\ t.data = s.data /\ t.opened = s.opened /\ t.file = s.file
      BY <1>3, <2>1 DEF InodeDelete, Tables
    <3> HIDE DEF t
    <3>3. Live(t) = Live(s) /\ \A j \in Live(s) : t.inode[j] = s.inode[j]
      BY <2>2, <3>2 DEF Live
    <3>4. Unmoved(s, t)
      BY <2>3, <3>2, <3>3 DEF Unmoved
    <3> QED
      BY <3>1, <3>4, Sizes DEF Result, Return
  <2> QED
    BY <2>6, <2>7
<1>8. CASE entry # None /\ i # None /\ ino.type # "link"
  <2>1. r = AddToOpenFileTable(cut, i, offset)
    BY <1>8 DEF Open, entry, i
  <2>2. i \in s.inodes /\ i \in Inums /\ i # Root /\ ino \in Inodes
    BY <1>2, <1>8 DEF Tables
  <2>3. i \in Live(s)
    BY <1>8, <2>2 DEF Plain, Live, Inodes
  <2>4. /\ cut \in Tables /\ cut.data = s.data /\ cut.inodes = s.inodes
        /\ cut.opened = s.opened /\ cut.file = s.file
        /\ \A j \in Inums \ {i} : cut.inode[j] = s.inode[j]
        /\ cut.inode[i].type = s.inode[i].type
        /\ cut.inode[i] = s.inode[i] \/ ("trunc" \in mode /\ cut.inode[i].size = 0)
        /\ "trunc" \in mode => cut.inode[i].size = 0
    <3>1. CASE "trunc" \in mode /\ ino.size > 0
      <4> DEFINE t == [s EXCEPT !.blocks = @ \ {ino.block}, !.inode[i].size = 0]
      <4>1. [ino EXCEPT !.size = 0] \in Inodes
        BY <2>2, Sizes DEF Inodes
      <4>2. /\ t.inodes = s.inodes /\ t.data = s.data /\ t.opened = s.opened
            /\ t.file = s.file /\ t.inode = [s.inode EXCEPT ![i] = [ino EXCEPT !.size = 0]]
        BY <2>2 DEF Tables
      <4>3. t \in Tables
        BY <2>2, <4>1 DEF Tables
      <4>4. t.inode[i].size = 0 /\ t.inode[i].type = s.inode[i].type
            /\ \A j \in Inums \ {i} : t.inode[j] = s.inode[j]
        BY <2>2, <4>2 DEF Tables, Inodes
      <4> HIDE DEF t
      <4> QED
        BY <3>1, <4>2, <4>3, <4>4 DEF t
    <3>2. CASE ~("trunc" \in mode /\ ino.size > 0)
      <4>1. ino.size \in 0 .. BlockSize
        BY <2>2 DEF Inodes
      <4> QED
        BY <3>2, <4>1, Sizes
    <3> QED
      BY <3>1, <3>2
  <2> HIDE DEF cut, r, ino
  <2>5. /\ r.fs.data = s.data /\ r.fs.inode = cut.inode /\ r.fs.inodes = s.inodes
        /\ \/ r.ret = None /\ r.fs.opened = s.opened /\ r.fs.file = s.file
           \/ /\ r.ret \in Handles \ s.opened /\ r.fs.opened = s.opened \cup {r.ret}
              /\ r.fs.file = [s.file EXCEPT ![r.ret] = [inum |-> i, offset |-> offset]]
    BY <2>1, <2>4, AddToOpenFileTableDoes
  <2>6. offset \in {0, r.fs.inode[i].size}
    BY <2>5
  <2>7. s.inodes \subseteq Inums
    BY DEF Tables
  <2>8. \A j \in Inums : r.fs.inode[j].type = s.inode[j].type
    BY <2>4, <2>5
  <2>9. /\ Live(r.fs) = Live(s) \cup {i} /\ \A j \in Live(s) \ {i} : r.fs.inode[j] = s.inode[j]
        /\ \A j \in Inums : r.fs.inode[j].type = "dir" <=> j = Root
    BY <2>3, <2>4, <2>5, <2>7, <2>8 DEF Live, Plain
  <2> HIDE DEF offset
  <2>10. Opened(s, r, i, mode)
    <3>1. \/ i \in Live(s) /\ r.fs.inode[i] = s.inode[i]
          \/ r.fs.inode[i].size = 0 /\ ~Used(s, i)
      BY <1>4, <2>3, <2>4, <2>5
    <3>2. "trunc" \in mode => r.fs.inode[i].size = 0
      BY <2>4, <2>5
    <3> QED
      BY <2>5, <2>6, <2>9, <3>1, <3>2 DEF Opened
  <2> QED
    BY <2>2, <2>10 DEF Result, r
<1>9. \/ entry = None /\ "creat" \in mode /\ f # None
      \/ entry # None /\ i # None /\ ino.type # "link"
      \/ r.fs = s /\ r.ret < 0
  BY Sizes DEF Open, Return, Never, entry, i, new
<1> QED
  BY <1>6, <1>7, <1>8, <1>9

(* The contents of a file are no longer than a block. *)
LEMMA FileText ==
  ASSUME NEW s \in Tables, FilesOK(s), NEW i \in s.inodes
  PROVE  /\ i \in Inums /\ s.inode[i].size \in 0 .. BlockSize /\ s.inode[i].size \in Nat
         /\ s.inode[i].size > 0 => s.inode[i].block \in Blocks /\ s.inode[i].block \in s.blocks
         /\ Text(s, i) \in Seq(Bytes) /\ Len(Text(s, i)) = s.inode[i].size
         /\ Text(s, i) \in Promise!Contents
<1>1. i \in Inums /\ s.blocks \subseteq Blocks
  BY DEF Tables
<1>2. s.inode[i].size > 0 => s.inode[i].block \in Blocks /\ s.inode[i].block \in s.blocks
  BY <1>1 DEF FilesOK, HasBlock
<1>3. /\ s.inode[i].size \in 0 .. BlockSize /\ s.inode[i].size \in Nat
      /\ Text(s, i) \in [1 .. s.inode[i].size -> Bytes]
      /\ Text(s, i) \in Seq(Bytes) /\ Len(Text(s, i)) = s.inode[i].size
  BY <1>1, <1>2, TextType
<1> QED
  BY <1>1, <1>2, <1>3 DEF Promise!Contents

(* The file that was opened is the only one that may have changed, and the *)
(* handle is at one of its ends.                                           *)
LEMMA OpenedContents ==
  ASSUME NEW s \in Tables, Plain(s), NEW r, r.fs \in Tables, FilesOK(r.fs), NEW f \in Inums,
         NEW mode, Opened(s, r, f, mode)
  PROVE  /\ Plain(r.fs) /\ f \in Live(r.fs)
         /\ Filed(r.fs) = Promise!With(Filed(s), f, Text(r.fs, f))
         /\ Filed(r.fs)[f] = Text(r.fs, f)
         /\ \/ r.ret = None /\ Pointed(r.fs) = Pointed(s)
            \/ /\ r.ret \in Handles \ s.opened /\ r.ret \in r.fs.opened
               /\ r.fs.file[r.ret].inum = f
               /\ \E o \in {0, Len(Text(r.fs, f))} :
                    /\ Pointed(r.fs) = Promise!With(Pointed(s), r.ret, [file |-> f, offset |-> o])
                    /\ r.fs.file[r.ret].offset = o
<1> DEFINE t == r.fs
           h == r.ret
<1>1. Live(t) = Live(s) \cup {f} /\ f \in Live(t) /\ f \in t.inodes
  BY DEF Opened, Live
<1>2. /\ t.inode[f].size \in Nat /\ Len(Text(t, f)) = t.inode[f].size
      /\ Text(t, f) \in Seq(Bytes)
  BY <1>1, FileText
<1>3. \A i \in Live(s) \ {f} : Text(t, i) = Text(s, i) /\ t.inode[i].size = s.inode[i].size
  BY TextSame DEF Opened
<1>4. /\ Filed(t) = Promise!With(Filed(s), f, Text(t, f))
      /\ Filed(t)[f] = Text(t, f)
  BY <1>1, <1>3, OneFile
<1>5. \/ f \in Live(s) /\ t.inode[f].size = s.inode[f].size /\ Text(t, f) = Text(s, f)
      \/ t.inode[f].size = 0 /\ ~Used(s, f)
  BY TextSame DEF Opened
<1>6. \A i \in Live(t) : \A k \in 1 .. t.inode[i].size : Text(t, i)[k] # Nul
  BY <1>1, <1>3, <1>5 DEF Plain
<1>7. ASSUME NEW g \in s.opened
      PROVE  s.file[g].inum \in Live(t) /\ s.file[g].offset <= t.inode[s.file[g].inum].size
  BY <1>1, <1>3, <1>5 DEF Plain, Used
<1>8. CASE h = None /\ t.opened = s.opened /\ t.file = s.file
  <2>1. Pointed(t) = Pointed(s)
    BY <1>8 DEF Pointed
  <2>2. Plain(t)
    BY <1>6, <1>7, <1>8 DEF Plain, Opened
  <2> QED
    BY <1>1, <1>4, <1>8, <2>1, <2>2
<1>9. ASSUME h \in Handles \ s.opened, t.opened = s.opened \cup {h}, NEW o \in {0, t.inode[f].size},
             t.file = [s.file EXCEPT ![h] = [inum |-> f, offset |-> o]]
      PROVE  /\ Plain(t) /\ h \in t.opened /\ t.file[h].inum = f /\ t.file[h].offset = o
             /\ Pointed(t) = Promise!With(Pointed(s), h, [file |-> f, offset |-> o])
  <2>1. /\ t.file[h] = [inum |-> f, offset |-> o]
        /\ \A g \in s.opened : t.file[g] = s.file[g]
    BY <1>9 DEF Tables
  <2>2. o <= t.inode[f].size
    BY <1>2
  <2>3. Plain(t)
    <3>1. \A i \in Inums : t.inode[i].type = "dir" <=> i = Root
      BY DEF Opened
    <3>2. ASSUME NEW g \in t.opened
          PROVE  t.file[g].inum \in Live(t) /\ t.file[g].offset <= t.inode[t.file[g].inum].size
      <4>1. CASE g = h
        BY <1>1, <2>1, <2>2, <4>1
      <4>2. CASE g # h
        BY <1>7, <1>9, <2>1, <4>2
      <4> QED
        BY <4>1, <4>2
    <3> QED
      BY <1>6, <3>1, <3>2 DEF Plain
  <2>4. Pointed(t) = Promise!With(Pointed(s), h, [file |-> f, offset |-> o])
    BY <1>9, <2>1 DEF Pointed, Promise!With
  <2> QED
    BY <1>9, <2>1, <2>3, <2>4
<1>10. \/ h = None /\ t.opened = s.opened /\ t.file = s.file
       \/ /\ h \in Handles \ s.opened /\ t.opened = s.opened \cup {h}
          /\ \E o \in {0, t.inode[f].size} :
               t.file = [s.file EXCEPT ![h] = [inum |-> f, offset |-> o]]
  BY DEF Opened
<1> QED
  <2>1. CASE h = None /\ t.opened = s.opened /\ t.file = s.file
    BY <1>8, <2>1
  <2>2. CASE /\ h \in Handles \ s.opened /\ t.opened = s.opened \cup {h}
             /\ \E o \in {0, t.inode[f].size} :
                  t.file = [s.file EXCEPT ![h] = [inum |-> f, offset |-> o]]
    BY <1>1, <1>2, <1>4, <1>9, <2>2
  <2> QED
    BY <1>10, <2>1, <2>2

(* A file that is written to has a block of its own, or gets a free one. *)
LEMMA ReserveDoes ==
  ASSUME NEW s \in Tables, FilesOK(s), NEW h \in s.opened, Reserve(s, h).ret # None
  PROVE  LET i == s.file[h].inum
             t == Reserve(s, h).fs
             b == Reserve(s, h).ret
         IN /\ t \in Tables /\ t.inodes = s.inodes /\ t.opened = s.opened /\ t.file = s.file
            /\ t.data = s.data /\ b \in Blocks /\ t.inode[i].block = b
            /\ \A j \in Inums : /\ j # i => t.inode[j] = s.inode[j]
                                /\ t.inode[j].size = s.inode[j].size
                                /\ t.inode[j].type = s.inode[j].type
            /\ s.inode[i].size > 0 => b = s.inode[i].block
            /\ \A j \in s.inodes \ {i} : s.inode[j].size > 0 => s.inode[j].block \in Blocks \ {b}
<1> DEFINE i == s.file[h].inum
           t == Reserve(s, h).fs
           b == FirstFree(Blocks, s.blocks)
<1>0. h \in Handles /\ i \in Inums /\ i \in s.inodes
  BY DEF Tables, FilesOK
<1>1. t \in Tables
  BY <1>0, ReserveType
<1>2. \A j \in s.inodes : j \in Inums /\ (s.inode[j].size > 0 => s.inode[j].block \in Blocks)
  BY FileText
<1>3. CASE s.inode[i].size > 0
  <2>1. t = s /\ Reserve(s, h).ret = s.inode[i].block
    BY <1>3 DEF Reserve, Return
  <2>2. \A j \in s.inodes \ {i} : s.inode[j].size > 0 => s.inode[j].block # s.inode[i].block
    BY <1>0, <1>3 DEF FilesOK, HasBlock
  <2> QED
    BY <1>0, <1>2, <1>3, <2>1, <2>2
<1>4. CASE ~(s.inode[i].size > 0)
  <2>1. /\ t = [s EXCEPT !.blocks = @ \cup {b}, !.inode[i].block = b]
        /\ Reserve(s, h).ret = b /\ b # None
    BY <1>4 DEF Reserve, Return
  <2>2. b \in Blocks /\ b \notin s.blocks
    BY <2>1, FirstFreeType, Sizes
  <2> HIDE DEF b, t
  <2>3. /\ t.inodes = s.inodes /\ t.opened = s.opened /\ t.file = s.file /\ t.data = s.data
        /\ t.inode = [s.inode EXCEPT ![i].block = b]
    BY <2>1 DEF Tables
  <2>4. \A j \in Inums : s.inode[j] \in Inodes
    BY DEF Tables
  <2>5. /\ t.inode[i].block = b
        /\ \A j \in Inums : /\ j # i => t.inode[j] = s.inode[j]
                            /\ t.inode[j].size = s.inode[j].size
                            /\ t.inode[j].type = s.inode[j].type
    BY <1>0, <2>3, <2>4 DEF Tables, Inodes
  <2>6. \A j \in s.inodes : s.inode[j].size > 0 => s.inode[j].block # b
    BY <2>2, FileText
  <2> QED
    BY <1>1, <1>2, <1>4, <2>1, <2>2, <2>3, <2>5, <2>6 DEF t
<1> QED
  BY <1>3, <1>4

(* n bytes of a text written at the offset of a handle. *)
Written(s, t, h, text, n) ==
  LET f == s.file[h].inum
      o == s.file[h].offset
      T == Text(s, f)
      part == SubSeq(text, 1, n)
  IN /\ n \in 1 .. Len(text) /\ o + n <= BlockSize
     /\ Live(t) = Live(s) /\ t.opened = s.opened
     /\ \A i \in Inums : t.inode[i].type = s.inode[i].type
     /\ \A i \in Live(s) \ {f} : Text(t, i) = Text(s, i) /\ t.inode[i].size = s.inode[i].size
     /\ Text(t, f) = SubSeq(T, 1, o) \o part \o SubSeq(T, o + n + 1, Len(T))
     /\ t.inode[f].size = IF Len(T) >= o + n THEN Len(T) ELSE o + n
     /\ \A k \in 1 .. t.inode[f].size :
          Text(t, f)[k] = IF k \in o + 1 .. o + n THEN part[k - o] ELSE T[k]
     /\ \A g \in s.opened : /\ g # h => t.file[g] = s.file[g]
                            /\ t.file[g].inum = s.file[g].inum
     /\ t.file[h].offset = o + n

(* tfs_write writes to the handle's file and to no other, or fails. *)
LEMMA WriteDoes ==
  ASSUME NEW s \in Tables, FilesOK(s), Plain(s), NEW h \in s.opened, NEW text \in Seq(Bytes)
  PROVE  LET r == Write(s, h, text)
         IN \/ r.fs = s /\ r.ret \in {None, 0}
            \/ Written(s, r.fs, h, text, r.ret)
<1> DEFINE f == s.file[h].inum
           o == s.file[h].offset
           n == ToWrite(s, h, text)
           u == Reserve(s, h).fs
           b == Reserve(s, h).ret
           part == SubSeq(text, 1, n)
           t == Put(u, h, text).fs
           T == Text(s, f)
<1>1. /\ h \in Handles /\ f \in Inums /\ f \in Live(s) /\ f \in s.inodes
      /\ o \in Nat /\ o <= s.inode[f].size
  BY DEF Tables, Plain, Live
<1>2. s.inode[f].size \in 0 .. BlockSize /\ s.inode[f].size \in Nat /\ Len(T) = s.inode[f].size
  BY <1>1, FileText
<1>3. n \in Int /\ n <= Len(text) /\ n <= BlockSize - o /\ (n = Len(text) \/ n = BlockSize - o)
  BY <1>1, ToWriteType
<1>4. n >= 0 /\ o + n <= BlockSize
  <2>1. Len(text) \in Nat /\ BlockSize \in Nat /\ o <= BlockSize
    BY <1>1, <1>2, Sizes
  <2> HIDE DEF n, o
  <2> QED
    BY <1>1, <1>3, <2>1
<1>5. CASE n = 0
  BY <1>5 DEF Write, Return
<1>6. CASE n # 0 /\ b = None
  BY <1>6 DEF Write, Return
<1>7. CASE n # 0 /\ b # None
  <2>1. Write(s, h, text) = Put(u, h, text)
    BY <1>7 DEF Write
  <2>2. /\ u \in Tables /\ u.inodes = s.inodes /\ u.opened = s.opened /\ u.file = s.file
        /\ u.data = s.data /\ b \in Blocks /\ u.inode[f].block = b
        /\ \A j \in Inums : /\ j # f => u.inode[j] = s.inode[j]
                            /\ u.inode[j].size = s.inode[j].size
                            /\ u.inode[j].type = s.inode[j].type
        /\ s.inode[f].size > 0 => b = s.inode[f].block
        /\ \A j \in s.inodes \ {f} : s.inode[j].size > 0 => s.inode[j].block \in Blocks \ {b}
    BY <1>7, ReserveDoes
  <2> HIDE DEF u, b
  <2>3. n > 0 /\ n \in 1 .. Len(text) /\ ToWrite(u, h, text) = n /\ u.file[h].inum = f
        /\ u.file[h].offset = o
    BY <1>3, <1>4, <1>7, <2>2 DEF ToWrite
  <2>4. part \in Seq(Bytes) /\ Len(part) = n /\ Len(part) \in Nat /\ o + Len(part) <= BlockSize
    BY <1>1, <1>4, <2>3
  <2> HIDE DEF n, f, o, part
  <2>5. /\ t.inodes = u.inodes /\ t.opened = u.opened
        /\ t.data = Store(u, b, o, part).data
        /\ \A j \in Inums : /\ j # f => t.inode[j] = u.inode[j]
                            /\ t.inode[j].type = u.inode[j].type
                            /\ t.inode[j].block = u.inode[j].block
        /\ t.inode[f].size = IF u.inode[f].size >= o + n THEN u.inode[f].size ELSE o + n
        /\ \A g \in Handles : g # h => t.file[g] = u.file[g]
        /\ \A g \in Handles : t.file[g].inum = u.file[g].inum
        /\ t.file[h].offset = o + n /\ Put(u, h, text).ret = n
    BY <1>1, <2>2, <2>3, PutMoves, SMTT(30) DEF part
  <2>6. t \in Tables
    BY <1>1, <2>2, PutType
  <2> HIDE DEF t
  <2>7. Store(u, b, o, part).data = Store(s, b, o, part).data
    BY <2>2 DEF Store, Tables
  <2>8. Live(t) = Live(s) /\ s.inodes \subseteq Inums
    <3>1. s.inodes \subseteq Inums
      BY DEF Tables
    <3> QED
      BY <2>2, <2>5, <3>1 DEF Live
  <2>9. ASSUME NEW i \in Live(s) \ {f}
        PROVE  Text(t, i) = Text(s, i) /\ t.inode[i].size = s.inode[i].size
    <3>1. i \in Inums /\ i \in s.inodes /\ t.inode[i] = s.inode[i]
      BY <2>2, <2>5, <2>8 DEF Live
    <3>2. s.inode[i].size > 0 => s.inode[i].block \in Blocks \ {b}
      BY <2>2, <3>1
    <3>3. t.data = Store(s, b, o, part).data
      BY <2>5, <2>7
    <3>4. b \in Blocks /\ o \in Nat /\ Len(part) \in Nat /\ o + Len(part) <= BlockSize
      BY <1>1, <2>2, <2>4
    <3>5. i \in Inums /\ t.inode[i].size = s.inode[i].size /\ t.inode[i].block = s.inode[i].block
      BY <3>1
    <3>6. Text(t, i) = Text(s, i)
      BY <3>2, <3>3, <3>4, <3>5, StoreElsewhere
    <3> QED
      BY <3>5, <3>6
  <2>10. /\ Text(t, f) = SubSeq(T, 1, o) \o part \o SubSeq(T, o + n + 1, Len(T))
         /\ \A k \in 1 .. t.inode[f].size :
              Text(t, f)[k] = IF k \in o + 1 .. o + n THEN part[k - o] ELSE T[k]
    <3>1. o \in 0 .. s.inode[f].size
      BY <1>1, <1>2
    <3>2. /\ t.data = Store(s, b, o, part).data /\ t.inode[f].block = b
          /\ t.inode[f].size = IF s.inode[f].size >= o + Len(part) THEN s.inode[f].size
                                                                   ELSE o + Len(part)
      BY <1>1, <2>2, <2>4, <2>5, <2>7
    <3> HIDE DEF T
    <3>3. SplicedText(s, t, f, o, part)
      <4>1. /\ f \in Inums /\ b \in Blocks /\ part \in Seq(Bytes) /\ o + Len(part) <= BlockSize
            /\ s.inode[f].size > 0 => s.inode[f].block = b
        BY <1>1, <2>2, <2>4
      <4> HIDE DEF t
      <4>2. t.data = Store(s, b, o, part).data /\ t \in Tables
        BY <2>6, <3>2
      <4>3. t.inode[f].block = b
        BY <3>2
      <4>4. t.inode[f].size = IF s.inode[f].size >= o + Len(part) THEN s.inode[f].size
                                                                   ELSE o + Len(part)
        BY <3>2
      <4> QED
        BY <3>1, <4>1, <4>2, <4>3, <4>4, StoreHere
    <3> QED
      BY <2>4, <3>3 DEF SplicedText, T
  <2>11. /\ t.inode[f].size = IF Len(T) >= o + n THEN Len(T) ELSE o + n
         /\ t.opened = s.opened /\ \A i \in Inums : t.inode[i].type = s.inode[i].type
         /\ \A g \in s.opened : /\ g # h => t.file[g] = s.file[g]
                                /\ t.file[g].inum = s.file[g].inum
    <3>1. s.opened \subseteq Handles
      BY DEF Tables
    <3> QED
      BY <1>1, <1>2, <2>2, <2>5, <3>1
  <2>12. Written(s, t, h, text, n)
    <3>1. /\ n \in 1 .. Len(text) /\ o + n <= BlockSize /\ Live(t) = Live(s)
          /\ t.file[h].offset = o + n
      BY <1>4, <2>3, <2>5, <2>8
    <3> QED
      BY <2>9, <2>10, <2>11, <3>1 DEF Written, f, o, part
  <2> QED
    BY <2>1, <2>5, <2>12 DEF t
<1> QED
  BY <1>5, <1>6, <1>7

(* t is s with part put into the file of h at its offset, and h moved. *)
PutThrough(s, t, h, part) ==
  LET f == s.file[h].inum
      o == s.file[h].offset
      n == Len(part)
  IN /\ f \in Live(s) /\ o <= Len(Filed(s)[f])
     /\ Filed(t) = [Filed(s) EXCEPT ![f] =
                      SubSeq(@, 1, o) \o part \o SubSeq(@, o + n + 1, Len(@))]
     /\ Filed(t) = Promise!With(Filed(s), f, Text(t, f))
     /\ Pointed(t) = [Pointed(s) EXCEPT ![h].offset = o + n]
     /\ t.inode[f].size = IF Len(Text(s, f)) >= o + n THEN Len(Text(s, f)) ELSE o + n

(* A written text without a Nul leaves no Nul in the file, and the handle  *)
(* no further than the file's end.                                         *)
LEMMA WrittenContents ==
  ASSUME NEW s \in Tables, FilesOK(s), Plain(s), NEW h \in s.opened, NEW text \in Seq(Bytes),
         \A k \in DOMAIN text : text[k] # Nul, NEW t, NEW n, Written(s, t, h, text, n)
  PROVE  LET part == SubSeq(text, 1, n)
         IN /\ Plain(t) /\ PutThrough(s, t, h, part)
            /\ part \in Promise!Contents /\ Len(part) = n
<1> DEFINE f == s.file[h].inum
           o == s.file[h].offset
           part == SubSeq(text, 1, n)
           T == Text(s, f)
<1>1. /\ h \in Handles /\ f \in Inums /\ f \in Live(s) /\ f \in s.inodes
      /\ o \in Nat /\ o <= s.inode[f].size
  BY DEF Tables, Plain, Live
<1>2. s.inode[f].size \in Nat /\ Len(T) = s.inode[f].size /\ T = Filed(s)[f]
  BY <1>1, FileText DEF Filed
<1>3. /\ n \in 1 .. Len(text) /\ o + n <= BlockSize
      /\ Live(t) = Live(s) /\ t.opened = s.opened
      /\ \A i \in Inums : t.inode[i].type = s.inode[i].type
      /\ \A i \in Live(s) \ {f} : Text(t, i) = Text(s, i) /\ t.inode[i].size = s.inode[i].size
      /\ Text(t, f) = SubSeq(T, 1, o) \o part \o SubSeq(T, o + n + 1, Len(T))
      /\ t.inode[f].size = IF Len(T) >= o + n THEN Len(T) ELSE o + n
      /\ \A g \in s.opened : /\ g # h => t.file[g] = s.file[g]
                             /\ t.file[g].inum = s.file[g].inum
      /\ t.file[h].offset = o + n
  BY DEF Written
<1>4. \A k \in 1 .. t.inode[f].size :
        Text(t, f)[k] = IF k \in o + 1 .. o + n THEN part[k - o] ELSE T[k]
  BY DEF Written
<1>5. /\ part \in [1 .. n -> Bytes] /\ Len(part) = n /\ n \in 0 .. BlockSize
      /\ \A k \in 1 .. n : part[k] = text[k] /\ k \in DOMAIN text
  <2>0. n \in 1 .. Len(text) /\ o + n <= BlockSize /\ Len(text) \in Nat
    <3>1. n \in 1 .. Len(text) /\ o + n <= BlockSize
      BY DEF Written
    <3>2. Len(text) \in Nat
      BY LenProperties
    <3> QED
      BY <3>1, <3>2
  <2>1. n \in Nat /\ n <= Len(text) /\ Len(text) \in Nat
    BY <2>0
  <2>2. n \in 0 .. BlockSize
    BY <1>1, <2>0, Sizes
  <2>3. part = [k \in 1 .. n |-> text[k]]
    BY <2>1 DEF part
  <2>4. \A k \in 1 .. n : k \in DOMAIN text /\ text[k] \in Bytes
    BY <2>1
  <2>5. Len(part) = n
    BY <2>0
  <2> HIDE DEF part
  <2>6. part \in [1 .. n -> Bytes]
    BY <2>3, <2>4
  <2> QED
    BY <2>2, <2>3, <2>4, <2>5, <2>6
<1>6. part \in Promise!Contents
  BY <1>5 DEF Promise!Contents
<1> HIDE DEF part, T, f, o
<1>7. ASSUME NEW k \in 1 .. t.inode[f].size PROVE Text(t, f)[k] # Nul
  <2>1. CASE k \in o + 1 .. o + n
    <3>1. k - o \in 1 .. n
      BY <1>1, <1>5, <2>1
    <3>2. Text(t, f)[k] = part[k - o]
      BY <1>4, <2>1
    <3> QED
      BY <1>5, <3>1, <3>2
  <2>2. CASE k \notin o + 1 .. o + n
    <3>1. k \in 1 .. s.inode[f].size
      <4>1. t.inode[f].size = IF Len(T) >= o + n THEN Len(T) ELSE o + n
        BY <1>3
      <4> QED
        BY <1>1, <1>2, <1>5, <2>2, <4>1
    <3>2. Text(t, f)[k] = T[k]
      BY <1>4, <2>2
    <3> QED
      BY <1>1, <3>1, <3>2 DEF Plain, T
  <2> QED
    BY <2>1, <2>2
<1>8. ASSUME NEW g \in s.opened
      PROVE  t.file[g].inum \in Live(s) /\ t.file[g].offset <= t.inode[t.file[g].inum].size
  <2>0. /\ s.file[g].inum \in Live(s) /\ s.file[g].inum \in s.inodes /\ g \in Handles
        /\ s.file[g].offset \in Nat /\ s.file[g].offset <= s.inode[s.file[g].inum].size
    BY DEF Plain, Live, Tables
  <2>1. s.inode[s.file[g].inum].size \in Nat
    BY <2>0, FileText
  <2>2. t.inode[f].size >= s.inode[f].size /\ t.inode[f].size >= o + n
        /\ t.inode[f].size \in Nat
    BY <1>1, <1>2, <1>3, <1>5
  <2>3. CASE g = h
    BY <1>3, <2>0, <2>2, <2>3 DEF f
  <2>4. CASE g # h
    <3>1. t.file[g] = s.file[g]
      BY <1>3, <2>4
    <3>2. t.inode[s.file[g].inum].size >= s.inode[s.file[g].inum].size
          /\ t.inode[s.file[g].inum].size \in Nat
      <4>1. CASE s.file[g].inum = f
        BY <2>2, <4>1
      <4>2. CASE s.file[g].inum # f
        <5>1. t.inode[s.file[g].inum].size = s.inode[s.file[g].inum].size
          BY <1>3, <2>0, <4>2
        <5> QED
          BY <2>1, <5>1
      <4> QED
        BY <4>1, <4>2
    <3> QED
      BY <2>0, <2>1, <3>1, <3>2
  <2> QED
    BY <2>3, <2>4
<1>9. Plain(t)
  <2>1. \A i \in Live(t) : \A k \in 1 .. t.inode[i].size : Text(t, i)[k] # Nul
    <3> SUFFICES ASSUME NEW i \in Live(s) \ {f}, NEW k \in 1 .. t.inode[i].size
                 PROVE  Text(t, i)[k] # Nul
      BY <1>3, <1>7
    <3>1. Text(t, i) = Text(s, i) /\ t.inode[i].size = s.inode[i].size
      BY <1>3
    <3> QED
      BY <3>1 DEF Plain
  <2> QED
    BY <1>3, <1>8, <2>1 DEF Plain
<1>10. /\ Filed(t) = Promise!With(Filed(s), f, Text(t, f))
       /\ Filed(t) = [Filed(s) EXCEPT ![f] = Text(t, f)]
  <2>1. Live(t) = Live(s) \cup {f}
    BY <1>1, <1>3
  <2>2. \A i \in Live(s) \ {f} : Text(t, i) = Text(s, i)
    BY <1>3
  <2>3. f \in Live(s)
    BY <1>1
  <2>4. Filed(t) = Promise!With(Filed(s), f, Text(t, f))
    BY <2>1, <2>2, OneFile
  <2>5. Filed(t) = [Filed(s) EXCEPT ![f] = Text(t, f)]
    BY <2>1, <2>2, <2>3 DEF Filed
  <2> QED
    BY <2>4, <2>5
<1>11. Filed(t) = [Filed(s) EXCEPT ![f] = SubSeq(@, 1, o) \o part \o SubSeq(@, o + n + 1, Len(@))]
  BY <1>2, <1>3, <1>10
<1>12. Pointed(t) = [Pointed(s) EXCEPT ![h].offset = o + n]
  <2>1. ASSUME NEW g \in s.opened
        PROVE  [file |-> t.file[g].inum, offset |-> t.file[g].offset] =
                 [Pointed(s) EXCEPT ![h].offset = o + n][g]
    BY <1>3, <2>1 DEF Pointed
  <2> QED
    BY <1>3, <2>1 DEF Pointed
<1> QED
  <2>1. PutThrough(s, t, h, part)
    <3>1. /\ f \in Live(s) /\ o <= Len(Filed(s)[f])
          /\ Filed(t) = [Filed(s) EXCEPT ![f] =
               SubSeq(@, 1, o) \o part \o SubSeq(@, o + Len(part) + 1, Len(@))]
      BY <1>1, <1>2, <1>5, <1>11
    <3>2. /\ Filed(t) = Promise!With(Filed(s), f, Text(t, f))
          /\ Pointed(t) = [Pointed(s) EXCEPT ![h].offset = o + Len(part)]
      BY <1>5, <1>10, <1>12
    <3>3. t.inode[f].size = IF Len(Text(s, f)) >= o + Len(part) THEN Len(Text(s, f))
                                                               ELSE o + Len(part)
      BY <1>3, <1>5 DEF T
    <3> QED
      BY <3>1, <3>2, <3>3 DEF PutThrough, f, o
  <2> QED
    BY <1>5, <1>6, <1>9, <2>1 DEF part

(* What a read through h leaves: nothing, or the bytes from its offset on, *)
(* and the handle past them.                                               *)
Taken(s, r, h) ==
  LET o == s.file[h].offset
      T == Text(s, s.file[h].inum)
  IN \/ r.fs = s /\ r.out = <<>>
     \/ \E n \in 1 .. BlockSize :
          /\ o + n <= Len(T) /\ r.out = SubSeq(T, o + 1, o + n)
          /\ r.fs = [s EXCEPT !.file[h].offset = o + n]

(* tfs_read copies what the file holds from the handle's offset on, and    *)
(* moves the handle past it, or moves nothing.                             *)
LEMMA ReadDoes ==
  ASSUME NEW s \in Tables, FilesOK(s), Plain(s), NEW h \in s.opened, NEW len \in Nat
  PROVE  Taken(s, Read(s, h, len), h)
<1> DEFINE f == s.file[h].inum
           o == s.file[h].offset
           T == Text(s, f)
           size == s.inode[f].size
           b == s.inode[f].block
           n == ToRead(s, h, len)
           base == b * BlockSize
           start == base + o
           Nulls(from) == {k \in 0 .. n - 1 : from + k \in DOMAIN s.data /\ s.data[from + k] = Nul}
           r == Read(s, h, len)
<1>1. /\ h \in Handles /\ f \in Inums /\ f \in Live(s) /\ f \in s.inodes
      /\ o \in Nat /\ o <= size
  BY DEF Tables, Plain, Live
<1>2. /\ size \in 0 .. BlockSize /\ size \in Nat /\ Len(T) = size /\ T \in Seq(Bytes)
      /\ size > 0 => b \in Blocks
  BY <1>1, FileText
<1>3. n \in Nat /\ o + n <= size
  <2>1. size - o \in Nat /\ ~(size - o < 0)
    BY <1>1, <1>2
  <2>2. n = Min({size - o, len})
    BY <2>1 DEF ToRead
  <2> HIDE DEF size, o, n
  <2>3. size - o \in Int /\ len \in Int
    BY <2>1
  <2>4. n = IF size - o <= len THEN size - o ELSE len
    BY <2>2, <2>3, MinOfTwo
  <2> QED
    BY <1>1, <1>2, <2>1, <2>4
<1>4. r = Copy(s, h, n)
  BY DEF Read
<1>5. CASE n = 0
  BY <1>4, <1>5 DEF Copy, Return, Taken
<1>6. CASE n # 0
  <2>1. /\ n \in 1 .. BlockSize /\ size > 0 /\ b \in Blocks /\ b # None /\ base \in Nat
        /\ start \in Nat
    <3>1. n \in 1 .. BlockSize /\ size > 0 /\ b \in Blocks
      BY <1>1, <1>2, <1>3, <1>6, Sizes
    <3>2. b \in Nat /\ BlockSize \in Nat /\ b # None
      BY <3>1, Sizes
    <3> HIDE DEF b
    <3>3. base \in Nat
      BY <3>2
    <3> QED
      BY <1>1, <3>1, <3>2, <3>3
  <2>2. ASSUME NEW k \in 0 .. n - 1
        PROVE  /\ start + k \in DOMAIN s.data /\ s.data[start + k] # Nul
               /\ s.data[start + k] = T[o + k + 1] /\ start + k \in Nat
    <3>1. o + k \in 0 .. BlockSize - 1 /\ o + k + 1 \in 1 .. size
      <4> HIDE DEF o, size, n
      <4> QED
        BY <1>1, <1>2, <1>3, Sizes
    <3>2. base + (o + k) \in 0 .. MaxBlocks * BlockSize - 1
      BY <2>1, <3>1, BlockInside
    <3>3. start + k = base + (o + k) /\ start + k = base + (o + k + 1) - 1 /\ start + k \in Nat
      BY <1>1, <2>1
    <3>4. T[o + k + 1] = s.data[base + (o + k + 1) - 1]
      BY <3>1 DEF Text
    <3>5. T[o + k + 1] # Nul
      BY <1>1, <3>1 DEF Plain
    <3>6. DOMAIN s.data = 0 .. MaxBlocks * BlockSize - 1
      BY DEF Tables
    <3> HIDE DEF T, start, base
    <3> QED
      BY <3>2, <3>3, <3>4, <3>5, <3>6
  <2>3. ~(start \in DOMAIN s.data /\ s.data[start] = Nul)
    <3>1. 0 \in 0 .. n - 1 /\ start + 0 = start
      BY <2>1
    <3> HIDE DEF start
    <3> QED
      BY <2>2, <3>1
  <2>4. Nulls(start) = {}
    BY <2>2
  <2>5. start + n - 1 \in DOMAIN s.data
    <3>1. n - 1 \in 0 .. n - 1 /\ start + (n - 1) = start + n - 1
      BY <1>3, <2>1
    <3> HIDE DEF start
    <3> QED
      BY <2>2, <3>1
  <2>6. start + 0 = start /\ start - base = o
    BY <1>1, <2>1
  <2>7. Copy(s, h, n) = [fs  |-> [s EXCEPT !.file[h].offset = start - base + n], ret |-> n,
                         out |-> [k \in 1 .. n |-> s.data[start + k - 1]]]
    <3> DEFINE from == base + o + IF start \in DOMAIN s.data /\ s.data[start] = Nul THEN 1 ELSE 0
               m == IF Nulls(from) = {} THEN n ELSE Min(Nulls(from))
    <3>1. from = start
      BY <2>3, <2>6
    <3>2. m = n /\ Nulls(from) = {}
      BY <2>4, <3>1
    <3>3. Copy(s, h, n) = IF n = 0 THEN Return(s, 0)
                          ELSE IF b = None THEN Return(s, Abort)
                          ELSE IF Nulls(from) = {} /\ from + n - 1 \notin DOMAIN s.data
                            THEN Return(s, Undefined)
                          ELSE [fs  |-> [s EXCEPT !.file[h].offset = from - base + m], ret |-> m,
                                out |-> [k \in 1 .. m |-> s.data[from + k - 1]]]
      BY DEF Copy
    <3> HIDE DEF from, m, n, b, start, base
    <3> QED
      BY <1>6, <2>1, <2>5, <3>1, <3>2, <3>3
  <2>8. [k \in 1 .. n |-> s.data[start + k - 1]] = SubSeq(T, o + 1, o + n)
    <3> DEFINE copied == [k \in 1 .. n |-> s.data[start + k - 1]]
               part == SubSeq(T, o + 1, o + n)
    <3>1. ASSUME NEW k \in 1 .. n
          PROVE  s.data[start + k - 1] = T[o + k] /\ o + k \in 1 .. Len(T)
      <4> HIDE DEF start, T, o, size, n
      <4>1. k - 1 \in 0 .. n - 1 /\ start + (k - 1) = start + k - 1 /\ o + (k - 1) + 1 = o + k
        BY <1>1, <1>3, <2>1
      <4> QED
        BY <1>1, <1>2, <1>3, <2>2, <4>1
    <3> HIDE DEF start, T, o, size, n
    <3>2. copied = [k \in 1 .. n |-> T[o + k]]
      BY <3>1
    <3>3. copied \in Seq(Bytes) /\ Len(copied) = n
      <4>1. \A k \in 1 .. n : T[o + k] \in Bytes
        BY <1>2, <3>1
      <4>2. n \in Nat
        BY <1>3
      <4> HIDE DEF copied
      <4> QED
        BY <3>2, <4>1, <4>2
    <3>4. /\ part \in Seq(Bytes) /\ Len(part) = n
          /\ \A k \in 1 .. n : part[k] = T[o + k]
      <4>1. o + 1 \in Int /\ o + n \in Int /\ (o + n) - (o + 1) + 1 = n /\ o + 1 <= o + n
        BY <1>1, <1>3, <2>1
      <4>2. \A k \in o + 1 .. o + n : T[k] \in Bytes
        BY <1>1, <1>2, <1>3
      <4>3. /\ part \in Seq(Bytes) /\ Len(part) = n
            /\ \A k \in 1 .. n : part[k] = T[(o + 1) + k - 1]
        BY <4>1, <4>2, SubSeqProperties
      <4>4. \A k \in 1 .. n : (o + 1) + k - 1 = o + k
        BY <1>1, <1>3
      <4> QED
        BY <4>3, <4>4
    <3> HIDE DEF part
    <3>5. \A k \in 1 .. Len(copied) : copied[k] = part[k]
      BY <3>2, <3>3, <3>4
    <3> HIDE DEF copied
    <3> QED
      BY <3>3, <3>4, <3>5, SeqEqual DEF copied, part
  <2> HIDE DEF start, base, T, n, o, r
  <2>9. r.fs = [s EXCEPT !.file[h].offset = o + n] /\ r.out = SubSeq(T, o + 1, o + n)
    BY <1>4, <2>6, <2>7, <2>8
  <2> QED
    BY <1>2, <1>3, <2>1, <2>9 DEF r, o, T, Taken
<1> QED
  BY <1>5, <1>6

(* Moving a handle within its file, and giving it back. *)
LEMMA HandleContents ==
  ASSUME NEW s \in Tables, FilesOK(s), Plain(s), NEW h \in s.opened
  PROVE  /\ \A e \in Nat : e <= Len(Text(s, s.file[h].inum)) =>
              LET t == [s EXCEPT !.file[h].offset = e]
              IN /\ Plain(t) /\ Filed(t) = Filed(s)
                 /\ Pointed(t) = [Pointed(s) EXCEPT ![h].offset = e]
         /\ LET t == [s EXCEPT !.opened = @ \ {h}]
            IN /\ Plain(t) /\ Filed(t) = Filed(s)
               /\ Pointed(t) = Promise!Without(Pointed(s), h)
<1>1. /\ h \in Handles /\ s.file[h].inum \in Live(s) /\ s.file[h].inum \in s.inodes
      /\ s.opened \subseteq Handles
  BY DEF Tables, Plain, Live
<1>2. ASSUME NEW e \in Nat, e <= Len(Text(s, s.file[h].inum))
      PROVE  LET t == [s EXCEPT !.file[h].offset = e]
             IN /\ Plain(t) /\ Filed(t) = Filed(s)
                /\ Pointed(t) = [Pointed(s) EXCEPT ![h].offset = e]
  <2> DEFINE t == [s EXCEPT !.file[h].offset = e]
  <2>1. /\ t.inodes = s.inodes /\ t.inode = s.inode /\ t.data = s.data /\ t.opened = s.opened
        /\ t.file = [s.file EXCEPT ![h].offset = e]
    BY DEF Tables
  <2>2. Len(Text(s, s.file[h].inum)) = s.inode[s.file[h].inum].size
    BY <1>1, FileText
  <2>3. \A g \in s.opened : /\ t.file[g].inum = s.file[g].inum
                            /\ t.file[g].offset = IF g = h THEN e ELSE s.file[g].offset
    BY <1>1, <2>1 DEF Tables
  <2> HIDE DEF t
  <2>4. Live(t) = Live(s) /\ \A i : Text(t, i) = Text(s, i)
    BY <2>1 DEF Live, Text
  <2>5. Filed(t) = Filed(s)
    BY <2>4 DEF Filed
  <2>6. Plain(t)
    BY <1>1, <1>2, <2>1, <2>2, <2>3, <2>4 DEF Plain
  <2>7. Pointed(t) = [Pointed(s) EXCEPT ![h].offset = e]
    BY <2>1, <2>3 DEF Pointed
  <2> QED
    BY <2>5, <2>6, <2>7 DEF t
<1>3. LET t == [s EXCEPT !.opened = @ \ {h}]
      IN /\ Plain(t) /\ Filed(t) = Filed(s)
         /\ Pointed(t) = Promise!Without(Pointed(s), h)
  <2> DEFINE t == [s EXCEPT !.opened = @ \ {h}]
  <2>1. /\ t.inodes = s.inodes /\ t.inode = s.inode /\ t.data = s.data /\ t.file = s.file
        /\ t.opened = s.opened \ {h}
    BY DEF Tables
  <2> HIDE DEF t
  <2>2. Live(t) = Live(s) /\ \A i : Text(t, i) = Text(s, i)
    BY <2>1 DEF Live, Text
  <2>3. Filed(t) = Filed(s)
    BY <2>2 DEF Filed
  <2>4. Plain(t)
    BY <2>1, <2>2 DEF Plain
  <2>5. Pointed(t) = Promise!Without(Pointed(s), h)
    BY <2>1 DEF Pointed, Promise!Without
  <2> QED
    BY <2>3, <2>4, <2>5 DEF t
<1> QED
  BY <1>2, <1>3

(* A symbolic link takes an inode and a block that no file has. *)
LEMMA SymLinkContents ==
  ASSUME BlockSize > 1, NEW s \in Tables, NamesOK(s), FilesOK(s), Plain(s),
         NEW target \in Names, NEW name \in Names
  PROVE  LET t == SymLink(s, target, name).fs
         IN Plain(t) /\ Filed(t) = Filed(s) /\ Pointed(t) = Pointed(s)
<1> DEFINE new == CreateLink(s)
           i == FirstFree(Inums, s.inodes)
           b == FirstFree(Blocks, s.blocks)
           s1 == [s EXCEPT !.inodes = @ \cup {i}]
           u == [s1 EXCEPT !.blocks = @ \cup {b},
                           !.inode[i] = [type |-> "link", size |-> MaxFileName, block |-> b,
                                         count |-> 1]]
           none == [s1 EXCEPT !.inodes = @ \ {i}, !.inode[i].type = "link",
                              !.inode[i].size = 0, !.inode[i].block = None]
           text == <<CHOOSE c \in Bytes : c # Nul, Nul>>
           v == StoreTarget(u, i, target)
           t == SymLink(s, target, name).fs
           Same(w) == Plain(w) /\ Filed(w) = Filed(s) /\ Pointed(w) = Pointed(s)
<1>1. i \in (Inums \ s.inodes) \cup {None} /\ b \in (Blocks \ s.blocks) \cup {None}
  BY FirstFreeType, Sizes
<1>2. Root \in s.inodes /\ s.inodes \subseteq Inums
  BY DEF NamesOK, Tables
<1> SUFFICES Same(t)
  OBVIOUS
<1>3. CASE t = s
  BY <1>3
<1>4. CASE i # None /\ b = None /\ t = none
  <2>1. i \in Inums /\ i \notin s.inodes /\ i # Root
    BY <1>1, <1>2, <1>4
  <2> HIDE DEF i, b, t
  <2>2. /\ none.opened = s.opened /\ none.file = s.file /\ none.data = s.data
        /\ none.inodes = (s.inodes \cup {i}) \ {i}
        /\ \A j \in Inums \ {i} : none.inode[j] = s.inode[j]
        /\ none.inode[i].type = "link"
    BY <2>1 DEF Tables, Inodes
  <2> HIDE DEF none
  <2>3. Live(none) = Live(s) /\ \A j \in Live(s) : none.inode[j] = s.inode[j]
    BY <1>2, <2>1, <2>2 DEF Live
  <2>4. Unmoved(s, none)
    BY <2>1, <2>2, <2>3 DEF Unmoved, Plain
  <2> QED
    BY <1>4, <2>4, UnmovedContents
<1>5. CASE i # None /\ b # None /\ t = AddDirEntry(v, name, i)
  <2>1. i \in Inums /\ i \notin s.inodes /\ i # Root /\ b \in Blocks /\ b \notin s.blocks
    BY <1>1, <1>2, <1>5
  <2> HIDE DEF i, b, t
  <2>2. /\ u.opened = s.opened /\ u.file = s.file /\ u.data = s.data
        /\ u.inodes = s.inodes \cup {i}
        /\ \A j \in Inums \ {i} : u.inode[j] = s.inode[j]
        /\ u.inode[i] = [type |-> "link", size |-> MaxFileName, block |-> b, count |-> 1]
    BY <2>1 DEF Tables
  <2>3. DOMAIN u = DOMAIN s
    OBVIOUS
  <2> HIDE DEF u
  <2>4. /\ v.opened = s.opened /\ v.file = s.file /\ v.inode = u.inode /\ v.inodes = u.inodes
        /\ v.data = Store(u, b, 0, text).data
    <3>1. v = [Store(u, b, 0, text) EXCEPT !.target[b] = target]
      BY <2>2 DEF StoreTarget
    <3> QED
      BY <2>2, <2>3, <3>1 DEF Store, Tables
  <2> HIDE DEF v, text
  <2>5. /\ t.opened = s.opened /\ t.file = s.file /\ t.inode = u.inode /\ t.inodes = u.inodes
        /\ t.data = v.data
    BY <1>5, <2>4 DEF AddDirEntry
  <2>6. t.data = Store(s, b, 0, text).data
    BY <2>2, <2>3, <2>4, <2>5 DEF Store, Tables
  <2>7. Live(t) = Live(s) /\ \A j \in Live(s) : t.inode[j] = s.inode[j]
    BY <1>2, <2>1, <2>2, <2>5 DEF Live
  <2>8. ASSUME NEW j \in Live(s) PROVE Text(t, j) = Text(s, j)
    <3>1. j \in s.inodes /\ j \in Inums
      BY <1>2 DEF Live
    <3>2. s.inode[j].size > 0 => s.inode[j].block \in Blocks \ {b}
      BY <2>1, <3>1, FileText
    <3>3. Len(text) \in Nat /\ 0 \in Nat /\ 0 + Len(text) <= BlockSize
      BY Sizes DEF text
    <3>4. t.inode[j].size = s.inode[j].size /\ t.inode[j].block = s.inode[j].block
      BY <2>7
    <3> QED
      BY <2>1, <2>6, <3>1, <3>2, <3>3, <3>4, StoreElsewhere
  <2>9. \A j \in Inums : t.inode[j].type = "dir" <=> j = Root
    BY <2>1, <2>2, <2>5 DEF Plain
  <2> QED
    BY <2>5, <2>7, <2>8, <2>9, ContentsFrame
<1>6. \/ t = s
      \/ i # None /\ b = None /\ t = none
      \/ i # None /\ b # None /\ t = AddDirEntry(v, name, i)
  <2>1. CASE i = None
    BY <2>1 DEF SymLink, CreateLink, Return
  <2>2. CASE i # None /\ b = None
    <3>1. new = Return(none, None)
      BY <2>2 DEF CreateLink, FillLink
    <3> HIDE DEF new, none
    <3>2. new.ret = None /\ new.fs = none
      BY <3>1 DEF Return
    <3>3. SymLink(s, target, name).fs \in {s, none}
      BY <3>2 DEF SymLink, Return, new
    <3> QED
      BY <2>2, <3>3
  <2>3. CASE i # None /\ b # None
    <3>1. new = Return(u, i)
      BY <2>3 DEF CreateLink, FillLink
    <3> HIDE DEF new, u
    <3>2. new.ret # None /\ new.fs = u /\ new.ret = i
      BY <2>3, <3>1 DEF Return
    <3> QED
      BY <2>3, <3>2 DEF SymLink, Return, new
  <2> QED
    BY <2>1, <2>2, <2>3
<1> QED
  BY <1>3, <1>4, <1>5, <1>6

(* Another name for a file is nothing to its contents. *)
LEMMA LinkContents ==
  ASSUME NEW s \in Tables, NamesOK(s), Plain(s), NEW target \in Names, NEW name \in Names
  PROVE  LET t == Link(s, target, name).fs
         IN Plain(t) /\ Filed(t) = Filed(s) /\ Pointed(t) = Pointed(s)
<1> DEFINE i == Lookup(s, target)
           u == [s EXCEPT !.inode[i].count = @ + 1]
           t == Link(s, target, name).fs
<1>1. t = s \/ (i # None /\ t = AddDirEntry(u, name, i))
  BY DEF Link, Return
<1>2. ASSUME i # None, t = AddDirEntry(u, name, i) PROVE Unmoved(s, t)
  <2>1. i \in s.inodes /\ i \in Inums /\ s.inodes \subseteq Inums
    BY <1>2, LookupNames DEF Tables
  <2> HIDE DEF i, t
  <2>2. /\ u.opened = s.opened /\ u.file = s.file /\ u.data = s.data /\ u.inodes = s.inodes
        /\ u.inode = [s.inode EXCEPT ![i].count = @ + 1]
    BY DEF Tables
  <2> HIDE DEF u
  <2>3. /\ t.opened = s.opened /\ t.file = s.file /\ t.data = s.data /\ t.inodes = s.inodes
        /\ t.inode = u.inode
    BY <1>2, <2>2 DEF AddDirEntry
  <2>4. \A j \in Inums : /\ t.inode[j].type = s.inode[j].type
                         /\ t.inode[j].size = s.inode[j].size
                         /\ t.inode[j].block = s.inode[j].block
    BY <2>1, <2>2, <2>3 DEF Tables, Inodes
  <2> QED
    BY <2>1, <2>3, <2>4 DEF Unmoved, Live, Plain
<1> HIDE DEF t
<1>3. CASE t = s
  BY <1>3 DEF t
<1>4. CASE Unmoved(s, t)
  BY <1>4, UnmovedContents DEF t
<1> QED
  BY <1>1, <1>2, <1>3, <1>4

(* A file goes away with its last name. *)
LEMMA UnlinkContents ==
  ASSUME NEW s \in Tables, NamesOK(s), Plain(s), NEW name \in Names,
         LET i == Lookup(s, name) IN i # None => s.inode[i].count > 1 \/ ~Used(s, i)
  PROVE  LET t == Unlink(s, name).fs
         IN /\ Plain(t) /\ Pointed(t) = Pointed(s)
            /\ \/ Filed(t) = Filed(s)
               \/ \E f \in Live(s) : ~Used(s, f) /\ Filed(t) = Promise!Without(Filed(s), f)
<1> DEFINE i == Lookup(s, name)
           u == ClearDirEntry(s, name)
           t == Unlink(s, name).fs
<1>1. CASE i = None
  BY <1>1 DEF Unlink, Return
<1>2. CASE i # None
  <2>1. i \in s.inodes /\ i \in Inums /\ i # Root /\ s.inodes \subseteq Inums
    BY <1>2, LookupNames DEF Tables
  <2>2. /\ u.opened = s.opened /\ u.file = s.file /\ u.data = s.data /\ u.inodes = s.inodes
        /\ u.inode = s.inode /\ DOMAIN u = DOMAIN s
    BY DEF ClearDirEntry, Tables
  <2>3. t = DropLink(u, i).fs
    BY <1>2 DEF Unlink
  <2>4. s.inode[i].count > 1 \/ ~Used(s, i)
    BY <1>2
  <2> HIDE DEF i, t
  <2>5. CASE s.inode[i].count > 1
    <3> DEFINE v == [u EXCEPT !.inode[i].count = @ - 1]
    <3>1. t = v
      BY <2>2, <2>3, <2>5 DEF DropLink, Return
    <3> HIDE DEF u
    <3>2. /\ v.opened = s.opened /\ v.file = s.file /\ v.data = s.data /\ v.inodes = s.inodes
          /\ v.inode = [s.inode EXCEPT ![i].count = @ - 1]
      BY <2>2 DEF Tables
    <3> HIDE DEF v
    <3>3. \A j \in Inums : /\ t.inode[j].type = s.inode[j].type
                           /\ t.inode[j].size = s.inode[j].size
                           /\ t.inode[j].block = s.inode[j].block
      BY <2>1, <3>1, <3>2 DEF Tables, Inodes
    <3>4. Unmoved(s, t)
      BY <2>1, <3>1, <3>2, <3>3 DEF Unmoved, Live, Plain
    <3> QED
      BY <3>4, UnmovedContents DEF t
  <2>6. CASE ~(s.inode[i].count > 1)
    <3> DEFINE v == InodeDelete(u, i)
    <3>1. t = v
      BY <2>1, <2>2, <2>3, <2>6 DEF DropLink, Return
    <3> HIDE DEF u
    <3>2. /\ v.opened = s.opened /\ v.file = s.file /\ v.data = s.data /\ v.inode = s.inode
          /\ v.inodes = s.inodes \ {i}
      BY <2>2 DEF InodeDelete, Tables
    <3> HIDE DEF v
    <3>3. Live(t) = Live(s) \ {i} /\ \A j : Text(t, j) = Text(s, j)
      BY <3>1, <3>2 DEF Live, Text
    <3>4. ~Used(s, i)
      BY <2>4, <2>6
    <3>5. Pointed(t) = Pointed(s)
      BY <3>1, <3>2 DEF Pointed
    <3>6. Plain(t)
      BY <3>1, <3>2, <3>3, <3>4 DEF Plain, Used
    <3>7. CASE i \in Live(s)
      <4>1. Filed(t) = Promise!Without(Filed(s), i)
        BY <3>3 DEF Filed, Promise!Without
      <4> QED
        BY <3>4, <3>5, <3>6, <3>7, <4>1 DEF t
    <3>8. CASE i \notin Live(s)
      <4>1. Filed(t) = Filed(s)
        BY <3>3, <3>8 DEF Filed
      <4> QED
        BY <3>5, <3>6, <4>1 DEF t
    <3> QED
      BY <3>7, <3>8
  <2> QED
    BY <2>4, <2>5, <2>6
<1> QED
  BY <1>1, <1>2

(* What tfs_copy_from_external_fs leaves: the file has new contents, and   *)
(* a handle is left at their end when a write was short.                   *)
LEMMA CopyContents ==
  ASSUME NEW s \in Tables, NamesOK(s), FilesOK(s), Plain(s), NEW text \in Seq(Bytes),
         \A k \in DOMAIN text : text[k] # Nul, NEW name \in Names,
         ~Used(s, GetPath(s, Lookup(s, name)))
  PROVE  LET t == CopyFromExternal(s, text, name).fs
         IN /\ Plain(t)
            /\ \/ Filed(t) = Filed(s) /\ Pointed(t) = Pointed(s)
               \/ \E f \in Inums :
                    /\ f \in Live(t) /\ Filed(t) = Promise!With(Filed(s), f, Text(t, f))
                    /\ \/ Pointed(t) = Pointed(s)
                       \/ \E h \in Handles \ s.opened, o \in {0, Len(Text(t, f))} :
                            Pointed(t) = Promise!With(Pointed(s), h, [file |-> f, offset |-> o])
<1> DEFINE mode == {"creat", "trunc"}
           r == Open(s, name, mode)
           h == r.ret
           u == r.fs
           w == Write(u, h, text)
           v == w.fs
           t == CopyFromExternal(s, text, name).fs
           Same == Filed(t) = Filed(s) /\ Pointed(t) = Pointed(s)
           New(f) == /\ f \in Live(t) /\ Filed(t) = Promise!With(Filed(s), f, Text(t, f))
                     /\ \/ Pointed(t) = Pointed(s)
                        \/ \E g \in Handles \ s.opened, o \in {0, Len(Text(t, f))} :
                             Pointed(t) = Promise!With(Pointed(s), g, [file |-> f, offset |-> o])
<1> SUFFICES Plain(t) /\ (Same \/ \E f \in Inums : New(f))
  OBVIOUS
<1>1. u \in Tables /\ h \in Int
  BY OpenType
<1>2. FilesOK(u)
  BY OpenFiles
<1>3. \/ h < 0 /\ Unmoved(s, u)
      \/ \E f \in Inums : Opened(s, r, f, mode)
  BY OpenOpens
<1>4. h < 0 => t = u
  BY DEF CopyFromExternal
<1>5. h >= 0 => t = v \/ t = Close(v, h).fs
  BY <1>1 DEF CopyFromExternal, Return
<1> HIDE DEF t, v, w, r
<1>6. CASE h < 0 /\ Unmoved(s, u)
  BY <1>4, <1>6, UnmovedContents
<1>7. ASSUME NEW f \in Inums, Opened(s, r, f, mode) PROVE Plain(t) /\ New(f)
  <2>1. /\ Plain(u) /\ f \in Live(u)
        /\ Filed(u) = Promise!With(Filed(s), f, Text(u, f))
        /\ Filed(u)[f] = Text(u, f)
        /\ \/ h = None /\ Pointed(u) = Pointed(s)
           \/ /\ h \in Handles \ s.opened /\ h \in u.opened /\ u.file[h].inum = f
              /\ \E o \in {0, Len(Text(u, f))} :
                   /\ Pointed(u) = Promise!With(Pointed(s), h, [file |-> f, offset |-> o])
                   /\ u.file[h].offset = o
    BY <1>1, <1>2, <1>7, OpenedContents
  <2>2. CASE h = None
    BY <1>4, <2>1, <2>2, Sizes
  <2>3. CASE /\ h \in Handles \ s.opened /\ h \in u.opened /\ u.file[h].inum = f
             /\ \E o \in {0, Len(Text(u, f))} :
                  /\ Pointed(u) = Promise!With(Pointed(s), h, [file |-> f, offset |-> o])
                  /\ u.file[h].offset = o
    <3>1. u.inode[f].size = 0 /\ Len(Text(u, f)) = 0
      <4>1. u.inode[f].size = 0
        BY <1>7 DEF Opened
      <4>2. f \in u.inodes
        BY <2>1 DEF Live
      <4> QED
        BY <1>1, <1>2, <4>1, <4>2, FileText
    <3>2. /\ Pointed(u) = Promise!With(Pointed(s), h, [file |-> f, offset |-> 0])
          /\ u.file[h].offset = 0
      BY <2>3, <3>1
    <3>3. /\ v \in Tables /\ Plain(v) /\ FilesOK(v) /\ v.opened = u.opened /\ f \in Live(v)
          /\ v.file[h].inum = f
          /\ Filed(v) = Promise!With(Filed(s), f, Text(v, f))
          /\ Pointed(v) = Promise!With(Pointed(s), h, [file |-> f, offset |-> Len(Text(v, f))])
      <4>1. v \in Tables /\ FilesOK(v)
        BY <1>1, <1>2, WriteType, WriteFiles DEF v, w
      <4>2. CASE v = u
        BY <1>1, <1>2, <2>1, <2>3, <3>1, <3>2, <4>2
      <4>3. CASE Written(u, v, h, text, w.ret)
        <5> DEFINE n == w.ret
        <5>1. /\ Plain(v) /\ Filed(v) = Promise!With(Filed(u), f, Text(v, f))
              /\ Pointed(v) = [Pointed(u) EXCEPT ![h].offset = 0 + n]
              /\ v.inode[f].size = IF Len(Text(u, f)) >= 0 + n THEN Len(Text(u, f)) ELSE 0 + n
          <6>1. n \in 1 .. Len(text) /\ Written(u, v, h, text, n)
            BY <4>3 DEF Written
          <6>2. Len(SubSeq(text, 1, n)) = n
            BY <6>1
          <6>3. h \in u.opened /\ Plain(u) /\ u \in Tables /\ FilesOK(u)
            BY <1>1, <1>2, <2>1, <2>3
          <6> HIDE DEF n, u, h
          <6>4. Plain(v) /\ PutThrough(u, v, h, SubSeq(text, 1, n))
            BY <6>1, <6>3, WrittenContents
          <6> QED
            BY <2>3, <3>2, <6>2, <6>4 DEF PutThrough
        <5>2. /\ n \in Nat /\ n > 0 /\ v.opened = u.opened /\ Live(v) = Live(u)
              /\ v.file[h].inum = f
          BY <2>3, <4>3 DEF Written
        <5> HIDE DEF n
        <5>3. f \in Live(v) /\ f \in v.inodes
          BY <2>1, <5>2 DEF Live
        <5>4. Len(Text(v, f)) = n
          <6>1. Len(Text(v, f)) = v.inode[f].size
            BY <4>1, <5>3, FileText
          <6> QED
            BY <3>1, <5>1, <5>2, <6>1
        <5>5. Filed(v) = Promise!With(Filed(s), f, Text(v, f))
          BY <2>1, <5>1 DEF Promise!With
        <5>6. Pointed(v) = Promise!With(Pointed(s), h, [file |-> f, offset |-> n])
          <6>1. h \in DOMAIN Pointed(u) /\ Pointed(u)[h] = [file |-> f, offset |-> 0]
            BY <3>2 DEF Promise!With
          <6>2. Pointed(v) = [Pointed(u) EXCEPT ![h] = [file |-> f, offset |-> n]]
            BY <5>1, <5>2, <6>1
          <6> QED
            BY <3>2, <6>2 DEF Promise!With
        <5> QED
          BY <4>1, <5>1, <5>2, <5>3, <5>4, <5>5, <5>6
      <4>4. v = u \/ Written(u, v, h, text, w.ret)
        BY <1>1, <1>2, <2>1, <2>3, WriteDoes DEF v, w
      <4> QED
        BY <4>2, <4>3, <4>4
    <3>4. h >= 0
      BY <2>3 DEF Handles
    <3>5. CASE t = v
      BY <2>3, <3>3, <3>5
    <3>6. CASE t = Close(v, h).fs
      <4>1. h \in v.opened /\ t = [v EXCEPT !.opened = @ \ {h}]
        BY <2>3, <3>3, <3>6 DEF Close, Return
      <4>2. Plain(t) /\ Filed(t) = Filed(v) /\ Pointed(t) = Promise!Without(Pointed(v), h)
        BY <3>3, <4>1, HandleContents
      <4>3. Pointed(t) = Pointed(s)
        <5>1. DOMAIN Pointed(s) = s.opened
          BY DEF Pointed
        <5>2. Pointed(s) = [g \in s.opened |-> Pointed(s)[g]]
          BY DEF Pointed
        <5> QED
          BY <2>3, <3>3, <4>2, <5>1, <5>2 DEF Promise!With, Promise!Without
      <4>4. DOMAIN Filed(t) = Live(t) /\ f \in Live(t) /\ Text(t, f) = Text(v, f)
        <5>1. DOMAIN Filed(t) = Live(t) /\ DOMAIN Filed(v) = Live(v)
          BY DEF Filed
        <5>2. f \in Live(t)
          BY <3>3, <4>2, <5>1
        <5>3. Filed(t)[f] = Text(t, f) /\ Filed(v)[f] = Text(v, f)
          BY <3>3, <5>2 DEF Filed
        <5> QED
          BY <4>2, <5>1, <5>2, <5>3
      <4> QED
        BY <3>3, <4>2, <4>3, <4>4
    <3> QED
      BY <1>5, <3>4, <3>5, <3>6
  <2> QED
    BY <2>1, <2>2, <2>3
<1> QED
  BY <1>3, <1>6, <1>7

(* Callers that keep the promise: they never truncate or delete a file     *)
(* that is open, and write no Nul; and a link's text fits a block.         *)
KeepPromise == /\ Careful /\ BlockSize > 1
               /\ \A s \in Texts : \A k \in DOMAIN s : s[k] # Nul

(* What the promise's variables stand for, before and after a step. *)
LEMMA PromisedState ==
  /\ FileContents = Filed(fs) /\ Cursors = Pointed(fs)
  /\ FileContents' = Filed(fs') /\ Cursors' = Pointed(fs')
  /\ Filed(fs)' = Filed(fs') /\ Pointed(fs)' = Pointed(fs')
<1>1. FileContents = Filed(fs) /\ FileContents' = Filed(fs')
  BY DEF FileContents, LiveFiles, Filed, Live, Text
<1>2. Cursors = Pointed(fs) /\ Cursors' = Pointed(fs')
  BY DEF Cursors, Pointed
<1>3. Filed(fs)' = Filed(fs') /\ Pointed(fs)' = Pointed(fs')
  BY DEF Filed, Live, Text, Pointed
<1> QED
  BY <1>1, <1>2, <1>3

(* A call that callers cannot tell from none. *)
LEMMA NothingPromised ==
  ASSUME Filed(fs') = Filed(fs), Pointed(fs') = Pointed(fs), last'.out = <<>>
  PROVE  Promise!Next
<1>1. Promise!Nothing
  BY PromisedState DEF Promise!Nothing
<1> QED
  BY <1>1 DEF Promise!Next

(* A file is new, or has new contents, and there may be a new handle on it. *)
LEMMA ResetPromised ==
  ASSUME NEW f \in Inums, Text(fs', f) \in Promise!Contents, f \in Live(fs'),
         Filed(fs') = Promise!With(Filed(fs), f, Text(fs', f)), last'.out = <<>>,
         \/ Pointed(fs') = Pointed(fs)
         \/ \E h \in Handles \ fs.opened, o \in {0, Len(Text(fs', f))} :
              Pointed(fs') = Promise!With(Pointed(fs), h, [file |-> f, offset |-> o])
  PROVE  Promise!Next
<1> DEFINE text == Text(fs', f)
<1>1. Filed(fs')[f] = text /\ DOMAIN Pointed(fs) = fs.opened
  BY DEF Filed, Pointed
<1>2. Promise!Grab(f) \/ Cursors' = Cursors
  BY <1>1, PromisedState DEF Promise!Grab
<1>3. Promise!Reset(f, text)
  BY <1>2, PromisedState DEF Promise!Reset
<1> QED
  BY <1>3 DEF Promise!Next

(* Each call is a step of the promise. *)
LEMMA CallsPromised ==
  ASSUME KeepPromise, TypeOK, NamesOK(fs), FilesOK(fs), Plain(fs), TypeOK', FilesOK(fs'), Next
  PROVE  Plain(fs') /\ Promise!Next
<1>0. /\ fs \in Tables /\ fs' \in Tables
      /\ \A s \in Texts : s \in Seq(Bytes) /\ \A k \in DOMAIN s : s[k] # Nul
      /\ \A i : Busy(i) <=> Used(fs, i)
  BY CallersAssumption DEF TypeOK, KeepPromise, Busy, Used
<1>1. ASSUME NEW name \in Names, NEW mode \in Modes, tfs_open(name, mode)
      PROVE  Plain(fs') /\ Promise!Next
  <2> DEFINE r == Open(fs, name, mode)
  <2>1. fs' = r.fs /\ last'.out = <<>>
    BY <1>1, NothingOut DEF tfs_open, Step
  <2>2. \/ r.ret < 0 /\ Unmoved(fs, r.fs)
        \/ \E f \in Inums : Opened(fs, r, f, mode)
    BY <1>0, <1>1, OpenOpens DEF tfs_open, KeepPromise
  <2> HIDE DEF r
  <2>3. CASE Unmoved(fs, r.fs)
    BY <2>1, <2>3, UnmovedContents, NothingPromised
  <2>4. ASSUME NEW f \in Inums, Opened(fs, r, f, mode) PROVE Plain(fs') /\ Promise!Next
    <3>1. /\ Plain(fs') /\ f \in Live(fs')
          /\ Filed(fs') = Promise!With(Filed(fs), f, Text(fs', f))
          /\ \/ Pointed(fs') = Pointed(fs)
             \/ /\ r.ret \in Handles \ fs.opened
                /\ \E o \in {0, Len(Text(fs', f))} :
                     Pointed(fs') = Promise!With(Pointed(fs), r.ret, [file |-> f, offset |-> o])
      BY <1>0, <2>1, <2>4, OpenedContents
    <3>2. Text(fs', f) \in Promise!Contents
      BY <1>0, <3>1, FileText DEF Live
    <3> QED
      BY <2>1, <3>1, <3>2, ResetPromised
  <2> QED
    BY <2>2, <2>3, <2>4
<1>2. ASSUME NEW name \in Names, tfs_unlink(name) PROVE Plain(fs') /\ Promise!Next
  <2>1. fs' = Unlink(fs, name).fs /\ last'.out = <<>>
    BY <1>2, NothingOut DEF tfs_unlink, Step
  <2>2. /\ Plain(fs') /\ Pointed(fs') = Pointed(fs)
        /\ \/ Filed(fs') = Filed(fs)
           \/ \E f \in Live(fs) : ~Used(fs, f) /\ Filed(fs') = Promise!Without(Filed(fs), f)
    BY <1>0, <1>2, <2>1, UnlinkContents DEF tfs_unlink, KeepPromise
  <2>3. ASSUME NEW f \in Live(fs), ~Used(fs, f), Filed(fs') = Promise!Without(Filed(fs), f)
        PROVE  Promise!Next
    <3>1. f \in Inums /\ f \in DOMAIN Filed(fs)
      BY <1>0 DEF Live, Filed, Tables
    <3>2. \A h \in DOMAIN Pointed(fs) : Pointed(fs)[h].file # f
      BY <2>3 DEF Pointed, Used
    <3>3. Promise!Delete(f)
      BY <2>1, <2>2, <2>3, <3>1, <3>2, PromisedState DEF Promise!Delete
    <3> QED
      BY <3>1, <3>3 DEF Promise!Next
  <2> QED
    BY <2>1, <2>2, <2>3, NothingPromised
<1>3. ASSUME NEW target \in Names, NEW name \in Names, tfs_sym_link(target, name)
      PROVE  Plain(fs') /\ Promise!Next
  <2>1. fs' = SymLink(fs, target, name).fs /\ last'.out = <<>>
    BY <1>3, NothingOut DEF tfs_sym_link, Step
  <2>2. Plain(fs') /\ Filed(fs') = Filed(fs) /\ Pointed(fs') = Pointed(fs)
    BY <1>0, <2>1, SymLinkContents DEF KeepPromise
  <2> QED
    BY <2>1, <2>2, NothingPromised
<1>4. ASSUME NEW target \in Names, NEW name \in Names, tfs_link(target, name)
      PROVE  Plain(fs') /\ Promise!Next
  <2>1. fs' = Link(fs, target, name).fs /\ last'.out = <<>>
    BY <1>4, NothingOut DEF tfs_link, Step
  <2>2. Plain(fs') /\ Filed(fs') = Filed(fs) /\ Pointed(fs') = Pointed(fs)
    BY <1>0, <2>1, LinkContents
  <2> QED
    BY <2>1, <2>2, NothingPromised
<1>5. ASSUME NEW s \in Texts, NEW name \in Names, tfs_copy_from_external_fs(s, name)
      PROVE  Plain(fs') /\ Promise!Next
  <2>1. fs' = CopyFromExternal(fs, s, name).fs /\ last'.out = <<>>
    BY <1>5, NothingOut DEF tfs_copy_from_external_fs, Step
  <2>2. ~Used(fs, GetPath(fs, Lookup(fs, name)))
    BY <1>0, <1>5 DEF tfs_copy_from_external_fs, KeepPromise
  <2>3. /\ Plain(fs')
        /\ \/ Filed(fs') = Filed(fs) /\ Pointed(fs') = Pointed(fs)
           \/ \E f \in Inums :
                /\ f \in Live(fs') /\ Filed(fs') = Promise!With(Filed(fs), f, Text(fs', f))
                /\ \/ Pointed(fs') = Pointed(fs)
                   \/ \E h \in Handles \ fs.opened, o \in {0, Len(Text(fs', f))} :
                        Pointed(fs') = Promise!With(Pointed(fs), h, [file |-> f, offset |-> o])
    BY <1>0, <2>1, <2>2, CopyContents
  <2>4. ASSUME NEW f \in Inums, f \in Live(fs'),
               Filed(fs') = Promise!With(Filed(fs), f, Text(fs', f)),
               \/ Pointed(fs') = Pointed(fs)
               \/ \E h \in Handles \ fs.opened, o \in {0, Len(Text(fs', f))} :
                    Pointed(fs') = Promise!With(Pointed(fs), h, [file |-> f, offset |-> o])
        PROVE  Promise!Next
    <3>1. Text(fs', f) \in Promise!Contents
      BY <1>0, <2>4, FileText DEF Live
    <3> QED
      BY <2>1, <2>4, <3>1, ResetPromised
  <2> QED
    BY <2>1, <2>3, <2>4, NothingPromised
<1>6. ASSUME NEW h \in Handles, tfs_close(h) PROVE Plain(fs') /\ Promise!Next
  <2>1. fs' = Close(fs, h).fs /\ last'.out = <<>>
    BY <1>6, NothingOut DEF tfs_close, Step
  <2>2. CASE h \notin fs.opened
    <3>1. fs' = fs
      BY <2>1, <2>2 DEF Close, Return
    <3> QED
      BY <2>1, <3>1, NothingPromised
  <2>3. CASE h \in fs.opened
    <3>1. fs' = [fs EXCEPT !.opened = @ \ {h}]
      BY <2>1, <2>3 DEF Close, Return
    <3>2. /\ Plain(fs') /\ Filed(fs') = Filed(fs)
          /\ Pointed(fs') = Promise!Without(Pointed(fs), h)
      BY <1>0, <2>3, <3>1, HandleContents
    <3>3. h \in DOMAIN Cursors
      BY <2>3 DEF Cursors
    <3>4. Promise!Close(h)
      BY <2>1, <3>2, <3>3, PromisedState DEF Promise!Close
    <3> QED
      BY <3>2, <3>3, <3>4 DEF Promise!Next
  <2> QED
    BY <2>2, <2>3
<1>7. ASSUME NEW h \in Handles, NEW s \in Texts, tfs_write(h, s) PROVE Plain(fs') /\ Promise!Next
  <2> DEFINE r == Write(fs, h, s)
             n == r.ret
             f == fs.file[h].inum
             o == fs.file[h].offset
             part == SubSeq(s, 1, n)
  <2>1. fs' = r.fs /\ last'.out = <<>>
    BY <1>7, NothingOut DEF tfs_write, Step
  <2>2. CASE h \notin fs.opened
    <3>1. fs' = fs
      BY <2>1, <2>2 DEF Write, Return
    <3> QED
      BY <2>1, <3>1, NothingPromised
  <2>3. CASE h \in fs.opened
    <3>1. r.fs = fs \/ Written(fs, r.fs, h, s, n)
      BY <1>0, <2>3, WriteDoes
    <3> HIDE DEF r
    <3>2. CASE r.fs = fs
      BY <2>1, <3>2, NothingPromised
    <3>3. CASE Written(fs, r.fs, h, s, n)
      <4>1. Plain(fs') /\ PutThrough(fs, fs', h, part) /\ part \in Promise!Contents
        <5>1. s \in Seq(Bytes) /\ \A k \in DOMAIN s : s[k] # Nul
          BY <1>0
        <5>2. fs \in Tables
          BY <1>0
        <5> HIDE DEF n
        <5> QED
          BY <2>1, <2>3, <3>3, <5>1, <5>2, WrittenContents
      <4> HIDE DEF part
      <4>2. h \in DOMAIN Cursors /\ Cursors[h].file = f /\ Cursors[h].offset = o
        BY <2>3 DEF Cursors
      <4>3. /\ o <= Len(FileContents[f])
            /\ FileContents' = [FileContents EXCEPT ![f] =
                  SubSeq(@, 1, o) \o part \o SubSeq(@, o + Len(part) + 1, Len(@))]
            /\ Cursors' = [Cursors EXCEPT ![h].offset = o + Len(part)]
        BY <4>1, PromisedState DEF PutThrough
      <4> HIDE DEF f, o
      <4>4. Promise!Write(h, part)
        BY <2>1, <4>2, <4>3 DEF Promise!Write
      <4> QED
        BY <4>1, <4>2, <4>4 DEF Promise!Next
    <3> QED
      BY <3>1, <3>2, <3>3
  <2> QED
    BY <2>2, <2>3
<1>8. ASSUME NEW h \in Handles, NEW len \in Lengths, tfs_read(h, len)
      PROVE  Plain(fs') /\ Promise!Next
  <2> DEFINE r == Read(fs, h, len)
             f == fs.file[h].inum
             o == fs.file[h].offset
  <2>0. len \in Nat
    BY CallersAssumption
  <2>1. fs' = r.fs /\ last'.out = r.out
    BY <1>8 DEF tfs_read, Step
  <2>2. CASE h \notin fs.opened
    <3>1. fs' = fs /\ last'.out = <<>>
      BY <2>1, <2>2 DEF Read, Return
    <3> QED
      BY <3>1, NothingPromised
  <2>3. CASE h \in fs.opened
    <3>1. Taken(fs, r, h)
      <4>1. fs \in Tables
        BY <1>0
      <4> QED
        BY <2>0, <2>3, <4>1, ReadDoes
    <3> HIDE DEF r
    <3>2. CASE r.fs = fs /\ r.out = <<>>
      BY <2>1, <3>2, NothingPromised
    <3>3. ASSUME NEW n \in 1 .. BlockSize, o + n <= Len(Text(fs, f)),
                 r.out = SubSeq(Text(fs, f), o + 1, o + n),
                 r.fs = [fs EXCEPT !.file[h].offset = o + n]
          PROVE  Plain(fs') /\ Promise!Next
      <4>1. o + n \in Nat
        BY <1>0 DEF Tables
      <4>2. /\ Plain(fs') /\ Filed(fs') = Filed(fs)
            /\ Pointed(fs') = [Pointed(fs) EXCEPT ![h].offset = o + n]
        <5>1. fs \in Tables
          BY <1>0
        <5>2. \A e \in Nat : e <= Len(Text(fs, fs.file[h].inum)) =>
                LET t == [fs EXCEPT !.file[h].offset = e]
                IN /\ Plain(t) /\ Filed(t) = Filed(fs)
                   /\ Pointed(t) = [Pointed(fs) EXCEPT ![h].offset = e]
          BY <2>3, <5>1, HandleContents
        <5> QED
          BY <2>1, <3>3, <4>1, <5>2
      <4>3. h \in DOMAIN Cursors /\ Cursors[h].file = f /\ Cursors[h].offset = o
        BY <2>3 DEF Cursors
      <4>4. /\ FileContents[f] = Text(fs, f) /\ FileContents' = FileContents
            /\ Cursors' = [Cursors EXCEPT ![h].offset = o + n]
        <5>1. Filed(fs)[f] = Text(fs, f)
          BY <2>3 DEF Filed, Plain
        <5> QED
          BY <4>2, <5>1, PromisedState
      <4> HIDE DEF f, o
      <4>5. Promise!Read(h, n)
        BY <2>1, <3>3, <4>3, <4>4 DEF Promise!Read
      <4> QED
        BY <4>2, <4>3, <4>5 DEF Promise!Next
    <3> QED
      BY <3>1, <3>2, <3>3 DEF Taken
  <2> QED
    BY <2>2, <2>3
<1> QED
  BY <1>1, <1>2, <1>3, <1>4, <1>5, <1>6, <1>7, <1>8 DEF Next

(* To callers that are careful and write no Nul, the tables keep what      *)
(* operations.h promises of contents: what a handle reads is what was      *)
(* written there, whatever happened to other files, links and blocks.      *)
THEOREM FilesAsPromised == KeepPromise => (Spec => ImplementsFileStore)
<1> SUFFICES ASSUME KeepPromise PROVE Spec => ImplementsFileStore
  OBVIOUS
<1> DEFINE Inv == Plain(fs)
           Before == TypeOK /\ NamesOK(fs) /\ FilesOK(fs)
<1>1. Init => Inv /\ Promise!Init
  <2> SUFFICES ASSUME Init PROVE Inv /\ Promise!Init
    OBVIOUS
  <2>1. /\ fs.opened = {} /\ fs.inodes = {Root} /\ last.out = <<>>
        /\ \A i \in Inums : fs.inode[i].type = IF i = Root THEN "dir" ELSE "file"
    BY DEF Init, InitialState
  <2>2. Live(fs) = {}
    BY <2>1, Sizes DEF Live
  <2>3. Plain(fs)
    BY <2>1, <2>2 DEF Plain
  <2>4. Filed(fs) = [f \in {} |-> <<>>] /\ Pointed(fs) = [h \in {} |-> <<>>]
    BY <2>1, <2>2 DEF Filed, Pointed
  <2> QED
    BY <2>1, <2>3, <2>4, PromisedState DEF Promise!Init
<1>2. Before /\ Before' /\ Inv /\ [Next]_vars => Inv' /\ [Promise!Next]_(Promise!vars)
  <2> SUFFICES ASSUME Before, Before', Inv, [Next]_vars
               PROVE  Inv' /\ [Promise!Next]_(Promise!vars)
    OBVIOUS
  <2>1. CASE Next
    <3>1. FilesOK(fs') /\ (Plain(fs') => Inv')
      BY DEF FilesOK, HasBlock, Plain, Live, Text
    <3> QED
      BY <2>1, <3>1, CallsPromised
  <2>2. CASE UNCHANGED vars
    <3>1. fs' = fs /\ last' = last
      BY <2>2 DEF vars
    <3>2. UNCHANGED Promise!vars
      BY <3>1, PromisedState DEF Promise!vars
    <3>3. Inv'
      BY <3>1 DEF Plain, Live, Text
    <3> QED
      BY <3>2, <3>3
  <2> QED
    BY <2>1, <2>2
<1>3. Spec => []Before
  BY NamesInvariant, FilesInvariant, PTL DEF KeepPromise
<1> HIDE DEF Inv, Before
<1> QED
  BY <1>1, <1>2, <1>3, PTL DEF Spec, ImplementsFileStore, Promise!Spec
=============================================================================
