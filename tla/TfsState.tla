------------------------------ MODULE TfsState ------------------------------
(***************************************************************************)
(* The state of TecnicoFS (fs/state.c) and its API calls (fs/operations.c) *)
(* as functions of that state: a call takes the state fs and returns       *)
(* [fs, ret, out], the state it leaves, its result and the bytes it copied *)
(* out.  The file system has one directory; a file is one data block.      *)
(***************************************************************************)
EXTENDS Integers, Sequences, FiniteSetsExt

CONSTANTS Names,        \* path names the callers use, each a valid path
          LongNames,    \* those longer than a directory entry holds
          Bytes,        \* the byte values files hold, Nul among them
          Nul,
          MaxInodes,    \* max_inode_count
          MaxBlocks,    \* max_block_count
          MaxOpen,      \* max_open_files_count
          DirEntries,   \* BLOCK_SIZE / sizeof(dir_entry_t)
          BlockSize     \* block_size, in bytes

Inums == 0 .. MaxInodes - 1
Blocks == 0 .. MaxBlocks - 1
Handles == 0 .. MaxOpen - 1
Entries == 0 .. DirEntries - 1
Root == 0               \* ROOT_DIR_INUM; its block is block 0
MaxFileName == 1        \* MAX_FILE_NAME, the size of a link: more than nothing
None == -1
NoName == "none"        \* a d_name that is all zeros

(* What a call can do other than return a number. *)
Abort == -2             \* an ALWAYS_ASSERT fails
Never == -3             \* the call does not return
Undefined == -4         \* it touches memory past fs_data
Dead == {Abort, Never, Undefined}

ASSUME TfsAssumption ==
  /\ {MaxInodes, MaxBlocks, MaxOpen, DirEntries, BlockSize} \subseteq Nat \ {0}
  /\ LongNames \subseteq Names /\ NoName \notin Names
  /\ Nul \in Bytes /\ Bytes # {Nul}

Inodes == [type : {"dir", "file", "link"}, size : 0 .. BlockSize,
           block : Blocks \cup {None}, count : Nat]

Tables == [inodes : SUBSET Inums, blocks : SUBSET Blocks, opened : SUBSET Handles,
           inode  : [Inums -> Inodes],
           dir    : [Entries -> [name : Names \cup {NoName}, inum : Inums \cup {None}]],
           data   : [0 .. MaxBlocks * BlockSize - 1 -> Bytes],
           target : [Blocks -> Names \cup {NoName}],
           file   : [Handles -> [inum : Inums, offset : Nat]]]

(* The tables after tfs_init: inode 0 and block 0 are the root directory. *)
InitialState ==
  [inodes |-> {Root}, blocks |-> {0}, opened |-> {},
   inode  |-> [i \in Inums |-> [type |-> IF i = Root THEN "dir" ELSE "file",
                                size |-> IF i = Root THEN BlockSize ELSE 0,
                                block |-> IF i = Root THEN 0 ELSE None,
                                count |-> 0]],
   dir    |-> [e \in Entries |-> [name |-> NoName, inum |-> None]],
   data   |-> [k \in 0 .. MaxBlocks * BlockSize - 1 |-> Nul],
   target |-> [b \in Blocks |-> NoName],
   file   |-> [h \in Handles |-> [inum |-> Root, offset |-> 0]]]

Return(fs, ret) == [fs |-> fs, ret |-> ret, out |-> <<>>]

(* inode_alloc, data_block_alloc and add_to_open_file_table all take the first free one. *)
FirstFree(all, taken) == IF all \subseteq taken THEN None ELSE Min(all \ taken)

-----------------------------------------------------------------------------
(* find_in_dir: the first used entry with that name. *)
Lookup(fs, name) ==
  LET found == {e \in Entries : fs.dir[e].inum # None /\ fs.dir[e].name = name}
  IN IF found = {} THEN None ELSE fs.dir[Min(found)].inum

(* add_dir_entry returns -1 for a name that is too long or a full directory. *)
Addable(fs, name) == name \notin LongNames /\ \E e \in Entries : fs.dir[e].inum = None
AddDirEntry(fs, name, i) ==
  IF Addable(fs, name)
    THEN LET e == Min({x \in Entries : fs.dir[x].inum = None})
         IN [fs EXCEPT !.dir[e] = [name |-> name, inum |-> i]]
    ELSE fs

(* clear_dir_entry: the first entry with that name; its result is ignored. *)
ClearDirEntry(fs, name) ==
  LET found == {e \in Entries : fs.dir[e].name = name}
  IN IF found = {} THEN fs
     ELSE [fs EXCEPT !.dir[Min(found)] = [name |-> NoName, inum |-> None]]

(* Mutant of InodeDelete: the block is not freed with its inode. *)
InodeDeleteOnly(fs, i) == [fs EXCEPT !.inodes = @ \ {i}]

(* inode_delete keeps the fields of the inode it frees. *)
InodeDelete(fs, i) ==
  [fs EXCEPT !.inodes = @ \ {i},
             !.blocks = IF fs.inode[i].size > 0 THEN @ \ {fs.inode[i].block} ELSE @]

(* inode_create(T_FILE) and inode_create(T_SOFT_LINK): ret is the inumber. *)
NewFile == [type |-> "file", size |-> 0, block |-> None, count |-> 1]

CreateFile(fs) ==
  LET i == FirstFree(Inums, fs.inodes)
  IN IF i = None THEN Return(fs, None)
     ELSE Return([fs EXCEPT !.inodes = @ \cup {i}, !.inode[i] = NewFile], i)

(* inode_create(T_SOFT_LINK) from inode_alloc on, which has given it i. *)
FillLink(fs, i) ==
  LET b == FirstFree(Blocks, fs.blocks)
  IN IF b = None
       THEN Return([fs EXCEPT !.inodes = @ \ {i}, !.inode[i].type = "link",
                              !.inode[i].size = 0, !.inode[i].block = None], None)
       ELSE Return([fs EXCEPT !.blocks = @ \cup {b},
                              !.inode[i] = [type |-> "link", size |-> MaxFileName, block |-> b,
                                            count |-> 1]], i)

CreateLink(fs) ==
  LET i == FirstFree(Inums, fs.inodes)
  IN IF i = None THEN Return(fs, None) ELSE FillLink([fs EXCEPT !.inodes = @ \cup {i}], i)

AddToOpenFileTable(fs, i, offset) ==
  LET h == FirstFree(Handles, fs.opened)
  IN IF h = None THEN Return(fs, None)
     ELSE Return([fs EXCEPT !.opened = @ \cup {h},
                            !.file[h] = [inum |-> i, offset |-> offset]], h)

(* get_path_recursive: follow the links; still on a link after MaxInodes   *)
(* hops, the chain is a cycle.                                             *)
GetPath(fs, i) ==
  LET hop(j) == IF j = None \/ fs.inode[j].type # "link" THEN j
                ELSE Lookup(fs, fs.target[fs.inode[j].block])
      after[n \in Nat] == IF n = 0 THEN i ELSE hop(after[n - 1])
  IN after[MaxInodes]

(* Bytes n of fs_data from byte k of block b on, replaced by s. *)
Store(fs, b, k, s) ==
  [fs EXCEPT !.data = [p \in DOMAIN @ |->
     IF p \in b * BlockSize + k .. b * BlockSize + k + Len(s) - 1
       THEN s[p - b * BlockSize - k + 1] ELSE @[p]]]

-----------------------------------------------------------------------------
(* tfs_open.  A handle that cannot be had leaves the file created. *)
Open(fs, name, mode) ==
  LET entry == Lookup(fs, name)
      i == GetPath(fs, entry)
      new == CreateFile(fs)
      ino == fs.inode[i]
      cut == IF "trunc" \in mode /\ ino.size > 0
               THEN [fs EXCEPT !.blocks = @ \ {ino.block}, !.inode[i].size = 0]
               ELSE fs
  IN IF entry = None
       THEN IF "creat" \notin mode \/ new.ret = None THEN Return(fs, None)
            ELSE IF Addable(fs, name)
              THEN AddToOpenFileTable(AddDirEntry(new.fs, name, new.ret), new.ret, 0)
              ELSE Return(InodeDelete(new.fs, new.ret), None)
       ELSE IF i = None THEN Return(fs, None)
       ELSE IF ino.type = "link" THEN Return(fs, Never)
       ELSE AddToOpenFileTable(cut, i, IF "append" \in mode THEN cut.inode[i].size ELSE 0)

Close(fs, h) == IF h \in fs.opened THEN Return([fs EXCEPT !.opened = @ \ {h}], 0)
                ELSE Return(fs, None)

(* Mutants of Write: the size is what was written, whatever the offset; *)
(* the block's end is not observed.                                     *)
WriteSetsSize(fs, h, s) ==
  LET i == fs.file[h].inum
      off == fs.file[h].offset
      n == Min({Len(s), BlockSize - off})
      b == IF fs.inode[i].size = 0 THEN FirstFree(Blocks, fs.blocks) ELSE fs.inode[i].block
  IN IF h \notin fs.opened \/ b = None THEN Return(fs, None)
     ELSE IF n <= 0 THEN Return(fs, 0)
     ELSE Return([Store(fs, b, off, SubSeq(s, 1, n)) EXCEPT
                    !.blocks = @ \cup {b}, !.inode[i].block = b, !.inode[i].size = n,
                    !.file[h].offset = off + n], n)

WriteUnclamped(fs, h, s) ==
  LET i == fs.file[h].inum
      off == fs.file[h].offset
      b == IF fs.inode[i].size = 0 THEN FirstFree(Blocks, fs.blocks) ELSE fs.inode[i].block
      end == off + Len(s)
  IN IF h \notin fs.opened \/ b = None THEN Return(fs, None)
     ELSE Return([Store(fs, b, off, s) EXCEPT
                    !.blocks = @ \cup {b}, !.inode[i].block = b,
                    !.inode[i].size = Max({@, end}), !.file[h].offset = end], Len(s))

(* tfs_write: at the offset, as much as the block holds.  The offset can   *)
(* pass the block's end (see Read); the length then wraps around.          *)
ToWrite(fs, h, s) == Min({Len(s), BlockSize - fs.file[h].offset})

(* An empty file has no block; the one it gets is its ret. *)
Reserve(fs, h) ==
  LET i == fs.file[h].inum
      b == FirstFree(Blocks, fs.blocks)
  IN IF fs.inode[i].size > 0 THEN Return(fs, fs.inode[i].block)
     ELSE IF b = None THEN Return(fs, None)
     ELSE Return([fs EXCEPT !.blocks = @ \cup {b}, !.inode[i].block = b], b)

Put(fs, h, s) ==
  LET i == fs.file[h].inum
      n == ToWrite(fs, h, s)
      end == fs.file[h].offset + n
  IN IF n = 0 THEN Return(fs, 0)
     ELSE IF n < 0 THEN Return(fs, Undefined)
     ELSE Return([Store(fs, fs.inode[i].block, end - n, SubSeq(s, 1, n)) EXCEPT
                    !.inode[i].size = Max({@, end}), !.file[h].offset = end], n)

Write(fs, h, s) ==
  LET reserved == Reserve(fs, h)
  IN IF h \notin fs.opened THEN Return(fs, None)
     ELSE IF ToWrite(fs, h, s) = 0 THEN Return(fs, 0)
     ELSE IF reserved.ret = None THEN Return(fs, None)
     ELSE Put(reserved.fs, h, s)

(* tfs_read: i_size - of_offset is unsigned, so an offset past the size    *)
(* reads len bytes.  A Nul at the offset is skipped, and the copy stops    *)
(* before the next Nul of the to_read bytes that follow it.                *)
ToRead(fs, h, len) ==
  LET left == fs.inode[fs.file[h].inum].size - fs.file[h].offset
  IN IF left < 0 THEN len ELSE Min({left, len})

Copy(fs, h, toRead) ==
  LET off == fs.file[h].offset
      ino == fs.inode[fs.file[h].inum]
      base == ino.block * BlockSize
      nulAt(k) == k \in DOMAIN fs.data /\ fs.data[k] = Nul
      start == base + off + IF nulAt(base + off) THEN 1 ELSE 0
      nuls == {k \in 0 .. toRead - 1 : nulAt(start + k)}
      n == IF nuls = {} THEN toRead ELSE Min(nuls)
  IN IF toRead = 0 THEN Return(fs, 0)
     ELSE IF ino.block = None THEN Return(fs, Abort)
     ELSE IF nuls = {} /\ start + toRead - 1 \notin DOMAIN fs.data THEN Return(fs, Undefined)
     ELSE [fs  |-> [fs EXCEPT !.file[h].offset = start - base + n],
           ret |-> n,
           out |-> [k \in 1 .. n |-> fs.data[start + k - 1]]]

Read(fs, h, len) == IF h \in fs.opened THEN Copy(fs, h, ToRead(fs, h, len))
                    ELSE Return(fs, None)

(* The text of a link: its target, and bytes that a file could come to share. *)
StoreTarget(fs, i, target) ==
  LET b == fs.inode[i].block
  IN [Store(fs, b, 0, <<CHOOSE c \in Bytes : c # Nul, Nul>>) EXCEPT !.target[b] = target]

(* tfs_sym_link and tfs_link ignore the result of add_dir_entry. *)
SymLink(fs, target, name) ==
  LET new == CreateLink(fs)
  IN IF Lookup(fs, target) = None THEN Return(fs, None)
     ELSE IF new.ret = None THEN new
     ELSE Return(AddDirEntry(StoreTarget(new.fs, new.ret, target), name, new.ret), 0)

(* Mutant of Link: the new entry is not counted. *)
LinkUncounted(fs, target, name) ==
  LET i == Lookup(fs, target)
  IN IF i = None \/ fs.inode[i].type = "link" THEN Return(fs, None)
     ELSE Return(AddDirEntry(fs, name, i), 0)

Link(fs, target, name) ==
  LET i == Lookup(fs, target)
  IN IF i = None \/ fs.inode[i].type = "link" THEN Return(fs, None)
     ELSE Return(AddDirEntry([fs EXCEPT !.inode[i].count = @ + 1], name, i), 0)

(* The end of tfs_unlink, after clear_dir_entry. *)
DropLink(fs, i) ==
  IF fs.inode[i].count > 1 THEN Return([fs EXCEPT !.inode[i].count = @ - 1], 0)
  ELSE IF i \notin fs.inodes THEN Return(fs, Abort)
  ELSE Return(InodeDelete(fs, i), 0)

Unlink(fs, target) ==
  LET i == Lookup(fs, target)
  IN IF i = None THEN Return(fs, None) ELSE DropLink(ClearDirEntry(fs, target), i)

(* tfs_copy_from_external_fs: fread's pieces are as long as a block, so of *)
(* a longer source the second is cut to nothing.  A short write leaves the *)
(* handle open.                                                            *)
CopyFromExternal(fs, s, name) ==
  LET opened == Open(fs, name, {"creat", "trunc"})
      written == Write(opened.fs, opened.ret, s)
  IN IF opened.ret < 0 THEN opened
     ELSE IF written.ret # Len(s) THEN Return(written.fs, None)
     ELSE Return(Close(written.fs, opened.ret).fs, 0)
=============================================================================
