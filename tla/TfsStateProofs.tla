--------------------------- MODULE TfsStateProofs ---------------------------
(***************************************************************************)
(* Facts about the operators of TfsState, for tables of every size.        *)
(***************************************************************************)
EXTENDS TfsState, FiniteSetTheorems, TLAPS

(* A set of natural numbers that is not empty has a least element, which   *)
(* is what the code's loops from 0 upwards find.                           *)
LEMMA MinIsLeast ==
  ASSUME NEW S \in SUBSET Nat, S # {}
  PROVE  Min(S) \in S /\ \A x \in S : Min(S) <= x
<1> DEFINE T == {0 .. x : x \in S}
<1>1. T \subseteq FiniteSubsetsOf(Nat) /\ T # {}
  <2>1. ASSUME NEW x \in S PROVE 0 .. x \in FiniteSubsetsOf(Nat)
    <3>1. x \in Int /\ 0 \in Int
      OBVIOUS
    <3>2. IsFiniteSet(0 .. x)
      BY <3>1, FS_Interval
    <3> QED
      BY <3>2 DEF FiniteSubsetsOf
  <2> QED
    BY <2>1
<1>2. PICK I \in T : \A J \in T : ~ (<<J, I>> \in StrictSubsetOrdering(Nat))
  BY <1>1, FS_StrictSubsetOrderingWellFounded, WFMin
<1>3. PICK x \in S : I = 0 .. x
  OBVIOUS
<1>4. ASSUME NEW y \in S PROVE x <= y
  <2> SUFFICES ASSUME y < x PROVE FALSE
    OBVIOUS
  <2>1. 0 .. y \subseteq 0 .. x /\ x \in 0 .. x /\ x \notin 0 .. y
    OBVIOUS
  <2>2. <<0 .. y, 0 .. x>> \in StrictSubsetOrdering(Nat)
    BY <2>1 DEF StrictSubsetOrdering
  <2> QED
    BY <1>2, <1>3, <2>2
<1> QED
  BY <1>4 DEF Min

(* A set of natural numbers that has 0 and, with each number, the next.    *)
LEMMA AllNumbers ==
  ASSUME NEW S, 0 \in S, \A n \in Nat : n \in S => n + 1 \in S
  PROVE  Nat \subseteq S
<1> SUFFICES ASSUME Nat \ S # {} PROVE FALSE
  OBVIOUS
<1> DEFINE T == Nat \ S
<1>1. Min(T) \in T /\ \A x \in T : Min(T) <= x
  BY MinIsLeast
<1>2. Min(T) # 0 /\ Min(T) - 1 \in Nat
  BY <1>1
<1>3. Min(T) - 1 \in S
  BY <1>1, <1>2
<1> QED
  BY <1>1, <1>2, <1>3
-----------------------------------------------------------------------------
(* A step applied to a value n times. *)
LEMMA IteratesExist ==
  ASSUME NEW h, NEW S, h \in [S -> S], NEW x \in S
  PROVE  \E f : /\ f = [n \in Nat |-> IF n = 0 THEN x ELSE h[f[n - 1]]]
               /\ f \in [Nat -> S]
<1> DEFINE Upto(n) == {g \in [0 .. n -> S] : g[0] = x /\ \A m \in 1 .. n : g[m] = h[g[m - 1]]}
           Done == {n \in Nat : Upto(n) # {}}
<1>1. 0 \in Done
  <2>1. [m \in 0 .. 0 |-> x] \in Upto(0)
    OBVIOUS
  <2> QED
    BY <2>1
<1>2. ASSUME NEW n \in Nat, n \in Done PROVE n + 1 \in Done
  <2>1. PICK g : g \in Upto(n)
    BY <1>2
  <2> DEFINE k == [m \in 0 .. n + 1 |-> IF m = n + 1 THEN h[g[n]] ELSE g[m]]
  <2>2. k \in Upto(n + 1)
    BY <2>1
  <2> QED
    BY <2>2
<1>3. \A n \in Nat : Upto(n) # {}
  <2> HIDE DEF Upto
  <2>1. Nat \subseteq Done
    BY <1>1, <1>2, AllNumbers
  <2> QED
    BY <2>1
(* They agree where both are defined. *)
<1>4. ASSUME NEW n \in Nat, NEW g \in Upto(n), NEW k \in Upto(n + 1), NEW m \in 0 .. n
      PROVE  g[m] = k[m]
  <2> DEFINE Same == {i \in Nat : i <= n => g[i] = k[i]}
  <2>1. 0 \in Same
    OBVIOUS
  <2>2. ASSUME NEW i \in Nat, i \in Same PROVE i + 1 \in Same
    <3> SUFFICES ASSUME i + 1 <= n PROVE g[i + 1] = k[i + 1]
      OBVIOUS
    <3>1. i + 1 \in 1 .. n /\ i + 1 \in 1 .. n + 1 /\ (i + 1) - 1 = i /\ g[i] = k[i]
      BY <2>2
    <3> QED
      BY <3>1
  <2>3. Nat \subseteq Same
    <3> HIDE DEF Same
    <3> QED
      BY <2>1, <2>2, AllNumbers
  <2> QED
    BY <2>3
<1> DEFINE pick == [n \in Nat |-> CHOOSE g : g \in Upto(n)]
           f == [n \in Nat |-> pick[n][n]]
<1>5. \A n \in Nat : pick[n] \in Upto(n)
  BY <1>3
<1> HIDE DEF pick
<1>6. f \in [Nat -> S]
  <2>1. ASSUME NEW n \in Nat PROVE pick[n][n] \in S
    <3>1. pick[n] \in [0 .. n -> S] /\ n \in 0 .. n
      BY <1>5
    <3> QED
      BY <3>1
  <2> QED
    BY <2>1
<1>7. f[0] = x
  <2>1. 0 \in Nat /\ pick[0] \in Upto(0)
    BY <1>5
  <2> QED
    BY <2>1
<1>8. ASSUME NEW n \in Nat, n # 0 PROVE f[n] = h[f[n - 1]]
  <2>1. n - 1 \in Nat /\ (n - 1) + 1 = n /\ n \in 1 .. n /\ n - 1 \in 0 .. n - 1
    BY <1>8
  <2>2. pick[n - 1] \in Upto(n - 1) /\ pick[n] \in Upto(n)
    BY <1>5, <2>1
  <2>3. pick[n - 1][n - 1] = pick[n][n - 1]
    <3> HIDE DEF Upto
    <3> QED
      BY <1>4, <2>1, <2>2
  <2>4. pick[n][n] = h[pick[n][n - 1]]
    BY <2>1, <2>2
  <2> QED
    BY <2>1, <2>3, <2>4
<1>9. f = [n \in Nat |-> IF n = 0 THEN x ELSE h[f[n - 1]]]
  <2> HIDE DEF f
  <2> QED
    BY <1>6, <1>7, <1>8
<1> QED
  BY <1>6, <1>9

(* A chain of links that starts in a set which every name leads into, or   *)
(* nowhere, ends there.                                                    *)
LEMMA GetPathType ==
  ASSUME NEW fs, NEW S, NEW i \in S \cup {None}, \A name : Lookup(fs, name) \in S \cup {None}
  PROVE  GetPath(fs, i) \in S \cup {None}
<1> DEFINE hop(j) == IF j = None \/ fs.inode[j].type # "link" THEN j
                     ELSE Lookup(fs, fs.target[fs.inode[j].block])
           T == S \cup {None}
           h == [j \in T |-> hop(j)]
           P(f) == f = [n \in Nat |-> IF n = 0 THEN i ELSE hop(f[n - 1])]
           after == CHOOSE f : P(f)
<1>1. h \in [T -> T] /\ i \in T /\ \A j \in T : h[j] = hop(j)
  OBVIOUS
<1>2. PICK f : /\ f = [n \in Nat |-> IF n = 0 THEN i ELSE h[f[n - 1]]]
               /\ f \in [Nat -> T]
  <2> HIDE DEF h, T
  <2> QED
    BY <1>1, IteratesExist
<1>3. P(f)
  <2> HIDE DEF h, hop, T
  <2>1. \A n \in Nat : n # 0 => f[n - 1] \in T
    BY <1>2
  <2> QED
    BY <1>1, <1>2, <2>1
<1>4. P(after)
  <2> HIDE DEF P
  <2> QED
    BY <1>3
<1>5. \A n \in Nat : after[n] \in T
  <2> DEFINE Good == {n \in Nat : after[n] \in T}
  <2> HIDE DEF after, hop, h, T
  <2>1. 0 \in Good
    BY <1>1, <1>4
  <2>2. ASSUME NEW n \in Nat, n \in Good PROVE n + 1 \in Good
    <3>1. after[n + 1] = hop(after[n])
      BY <1>4
    <3> QED
      BY <1>1, <2>2, <3>1
  <2>3. Nat \subseteq Good
    <3> HIDE DEF Good
    <3> QED
      BY <2>1, <2>2, AllNumbers
  <2> QED
    BY <2>3
<1>6. GetPath(fs, i) = after[MaxInodes]
  BY DEF GetPath
<1>7. MaxInodes \in Nat
  BY TfsAssumption
<1> QED
  BY <1>5, <1>6, <1>7
-----------------------------------------------------------------------------
(* The sizes and sentinels, as the provers need them. *)
LEMMA Sizes ==
  /\ MaxInodes \in Nat \ {0} /\ MaxBlocks \in Nat \ {0} /\ MaxOpen \in Nat \ {0}
  /\ DirEntries \in Nat \ {0} /\ BlockSize \in Nat \ {0}
  /\ Inums \subseteq Nat /\ Blocks \subseteq Nat /\ Handles \subseteq Nat /\ Entries \subseteq Nat
  /\ Root \in Inums /\ 0 \in Blocks
  /\ None = -1 /\ None \notin Nat /\ None \in Int
  /\ BlockSize \in 0 .. BlockSize /\ 0 \in 0 .. BlockSize /\ MaxFileName \in 0 .. BlockSize
BY TfsAssumption DEF Inums, Blocks, Handles, Entries, Root, None, MaxFileName

(* The first free one is free. *)
LEMMA FirstFreeType ==
  ASSUME NEW all \in SUBSET Nat, NEW taken
  PROVE  /\ FirstFree(all, taken) \in (all \ taken) \cup {None}
         /\ FirstFree(all, taken) = None <=> all \subseteq taken
<1>1. CASE all \subseteq taken
  BY <1>1 DEF FirstFree
<1>2. CASE ~(all \subseteq taken)
  <2>1. all \ taken # {} /\ all \ taken \in SUBSET Nat
    BY <1>2
  <2>2. Min(all \ taken) \in all \ taken
    BY <2>1, MinIsLeast
  <2> QED
    BY <1>2, <2>2, Sizes DEF FirstFree
<1> QED
  BY <1>1, <1>2

(* What find_in_dir finds is in an entry, the first with that name. *)
LEMMA LookupFound ==
  ASSUME NEW fs, NEW name
  PROVE  LET found == {e \in Entries : fs.dir[e].inum # None /\ fs.dir[e].name = name}
         IN /\ found = {} => Lookup(fs, name) = None
            /\ found # {} => /\ Min(found) \in found
                             /\ \A e \in found : Min(found) <= e
                             /\ Lookup(fs, name) = fs.dir[Min(found)].inum
                             /\ Lookup(fs, name) # None
<1> DEFINE found == {e \in Entries : fs.dir[e].inum # None /\ fs.dir[e].name = name}
<1>1. CASE found = {}
  BY <1>1 DEF Lookup
<1>2. CASE found # {}
  <2>1. found \in SUBSET Nat
    BY Sizes
  <2>2. Min(found) \in found /\ \A e \in found : Min(found) <= e
    BY <1>2, <2>1, MinIsLeast
  <2> QED
    BY <1>2, <2>2 DEF Lookup
<1> QED
  BY <1>1, <1>2

(* The first unused entry, if there is one. *)
LEMMA FreeEntry ==
  ASSUME NEW fs, \E e \in Entries : fs.dir[e].inum = None
  PROVE  LET free == {e \in Entries : fs.dir[e].inum = None} IN Min(free) \in free
<1> DEFINE free == {e \in Entries : fs.dir[e].inum = None}
<1>1. free \in SUBSET Nat /\ free # {}
  BY Sizes
<1> QED
  BY <1>1, MinIsLeast

-----------------------------------------------------------------------------
(* Types. *)
LEMMA LookupType ==
  ASSUME NEW fs \in Tables, NEW name
  PROVE  Lookup(fs, name) \in Inums \cup {None}
BY LookupFound DEF Tables

(* What tfs_init and the creation of the root directory make is a file     *)
(* system.                                                                 *)
LEMMA InitialStateType == InitialState \in Tables
<1> USE Sizes
<1>1. [i \in Inums |-> [type |-> IF i = Root THEN "dir" ELSE "file",
                        size |-> IF i = Root THEN BlockSize ELSE 0,
                        block |-> IF i = Root THEN 0 ELSE None, count |-> 0]] \in [Inums -> Inodes]
  BY DEF Inodes
<1>2. [k \in 0 .. MaxBlocks * BlockSize - 1 |-> Nul] \in [0 .. MaxBlocks * BlockSize - 1 -> Bytes]
  BY TfsAssumption
<1> QED
  BY <1>1, <1>2 DEF InitialState, Tables

(* inode_create for a file finds an inode or none, and keeps the tables    *)
(* what they are.                                                          *)
LEMMA CreateFileType ==
  ASSUME NEW fs \in Tables
  PROVE  CreateFile(fs).fs \in Tables /\ CreateFile(fs).ret \in Inums \cup {None}
<1> DEFINE i == FirstFree(Inums, fs.inodes)
<1>1. i \in Inums \cup {None}
  BY FirstFreeType, Sizes
<1>2. NewFile \in Inodes
  BY Sizes DEF NewFile, Inodes
<1> HIDE DEF i
<1> QED
  BY <1>1, <1>2 DEF CreateFile, Return, Tables, i

(* A new directory entry has a name and the number of an inode.            *)
LEMMA AddDirEntryType ==
  ASSUME NEW fs \in Tables, NEW name \in Names, NEW i \in Inums
  PROVE  AddDirEntry(fs, name, i) \in Tables
BY DEF AddDirEntry, Tables

(* A new handle is one of the table's, or none.                            *)
LEMMA AddToOpenFileTableType ==
  ASSUME NEW fs \in Tables, NEW i \in Inums, NEW offset \in Nat
  PROVE  /\ AddToOpenFileTable(fs, i, offset).fs \in Tables
         /\ AddToOpenFileTable(fs, i, offset).ret \in Handles \cup {None}
<1> DEFINE h == FirstFree(Handles, fs.opened)
<1>1. h \in Handles \cup {None}
  BY FirstFreeType, Sizes
<1> HIDE DEF h
<1> QED
  BY <1>1 DEF AddToOpenFileTable, Return, Tables, h

(* Freeing an inode and its block keeps the tables what they are.          *)
LEMMA InodeDeleteType ==
  ASSUME NEW fs \in Tables, NEW i \in Inums
  PROVE  InodeDelete(fs, i) \in Tables
BY DEF InodeDelete, Tables

(* Clearing an entry keeps the tables what they are.                       *)
LEMMA ClearDirEntryType ==
  ASSUME NEW fs \in Tables, NEW name
  PROVE  ClearDirEntry(fs, name) \in Tables
BY DEF ClearDirEntry, Tables

(* Turning a fresh inode into a symbolic link keeps the tables what they   *)
(* are.                                                                    *)
LEMMA FillLinkType ==
  ASSUME NEW fs \in Tables, NEW i \in Inums
  PROVE  FillLink(fs, i).fs \in Tables /\ FillLink(fs, i).ret \in Inums \cup {None}
<1> DEFINE b == FirstFree(Blocks, fs.blocks)
<1>1. b \in Blocks \cup {None}
  BY FirstFreeType, Sizes
<1> HIDE DEF b
<1>2. CASE b = None
  <2> DEFINE s == [fs EXCEPT !.inodes = @ \ {i}, !.inode[i].type = "link",
                             !.inode[i].size = 0, !.inode[i].block = None]
  <2>1. FillLink(fs, i) = Return(s, None)
    BY <1>2 DEF FillLink, b
  <2>2. s.inode \in [Inums -> Inodes]
    <3>1. ASSUME NEW ino \in Inodes
          PROVE  [ino EXCEPT !.type = "link", !.size = 0, !.block = None] \in Inodes
      BY Sizes DEF Inodes
    <3> fs.inode[i] \in Inodes
      BY DEF Tables
    <3>2. s.inode = [fs.inode EXCEPT ![i] = [fs.inode[i] EXCEPT !.type = "link", !.size = 0,
                                                              !.block = None]]
      BY DEF Tables, Inodes
    <3>3. [fs.inode[i] EXCEPT !.type = "link", !.size = 0, !.block = None] \in Inodes
      BY <3>1
    <3> QED
      BY <3>2, <3>3 DEF Tables
  <2>3. s \in Tables
    BY <2>2 DEF Tables
  <2> QED
    BY <2>1, <2>3 DEF Return
<1>3. CASE b \in Blocks
  <2> DEFINE s == [fs EXCEPT !.blocks = @ \cup {b},
                             !.inode[i] = [type |-> "link", size |-> MaxFileName, block |-> b,
                                           count |-> 1]]
  <2>1. FillLink(fs, i) = Return(s, i)
    BY <1>3, Sizes DEF FillLink, b
  <2>2. s \in Tables
    BY <1>3, Sizes DEF Tables, Inodes
  <2> QED
    BY <2>1, <2>2 DEF Return
<1> QED
  BY <1>1, <1>2, <1>3

(* inode_create for a symbolic link, with or without a block to be had.    *)
LEMMA CreateLinkType ==
  ASSUME NEW fs \in Tables
  PROVE  CreateLink(fs).fs \in Tables /\ CreateLink(fs).ret \in Inums \cup {None}
<1> DEFINE i == FirstFree(Inums, fs.inodes)
           s == [fs EXCEPT !.inodes = @ \cup {i}]
<1>1. i \in Inums \cup {None}
  BY FirstFreeType, Sizes
<1>2. CASE i = None
  BY <1>2 DEF CreateLink, Return
<1>3. CASE i \in Inums
  <2>1. s \in Tables
    BY <1>3 DEF Tables
  <2>2. CreateLink(fs) = FillLink(s, i)
    BY <1>3, Sizes DEF CreateLink
  <2> QED
    BY <1>3, <2>1, <2>2, FillLinkType
<1> QED
  BY <1>1, <1>2, <1>3

(* Bytes stored in a block leave an array of bytes.                        *)
LEMMA StoreType ==
  ASSUME NEW fs \in Tables, NEW b \in Int, NEW k \in Int, NEW s \in Seq(Bytes)
  PROVE  Store(fs, b, k, s) \in Tables
<1> DEFINE at == b * BlockSize + k
           d == [p \in DOMAIN fs.data |-> IF p \in at .. at + Len(s) - 1
                                            THEN s[p - b * BlockSize - k + 1] ELSE fs.data[p]]
<1>1. at \in Int /\ b * BlockSize \in Int
  BY Sizes
<1>2. ASSUME NEW p \in DOMAIN fs.data, p \in at .. at + Len(s) - 1
      PROVE  s[p - b * BlockSize - k + 1] \in Bytes
  <2>1. p \in Int /\ p - b * BlockSize - k + 1 \in 1 .. Len(s)
    BY <1>1, <1>2
  <2> QED
    BY <2>1
<1>3. d \in [0 .. MaxBlocks * BlockSize - 1 -> Bytes]
  BY <1>2 DEF Tables
<1>4. Store(fs, b, k, s) = [fs EXCEPT !.data = d]
  BY DEF Store
<1> HIDE DEF d
<1> QED
  BY <1>3, <1>4 DEF Tables

(* The name of a link's target, stored in its block, leaves an array of    *)
(* bytes too.                                                              *)
LEMMA StoreTargetType ==
  ASSUME NEW fs \in Tables, NEW i \in Inums, NEW target \in Names
  PROVE  StoreTarget(fs, i, target) \in Tables
<1> DEFINE b == fs.inode[i].block
           c == CHOOSE c \in Bytes : c # Nul
           text == <<c, Nul>>
           s == Store(fs, b, 0, text)
<1>1. b \in Int
  <2>1. fs.inode[i] \in Inodes
    BY DEF Tables
  <2>2. fs.inode[i].block \in Blocks \cup {None}
    BY <2>1 DEF Inodes
  <2>3. \A k \in Blocks \cup {None} : k \in Int
    BY Sizes
  <2> QED
    BY <2>2, <2>3
<1>2. text \in Seq(Bytes)
  <2>1. \E x \in Bytes : x # Nul
    BY TfsAssumption
  <2>2. c \in Bytes /\ Nul \in Bytes
    BY <2>1, TfsAssumption
  <2> HIDE DEF c
  <2> QED
    BY <2>2
<1>3. s \in Tables
  <2> HIDE DEF b, text
  <2> QED
    BY <1>1, <1>2, StoreType
<1>4. StoreTarget(fs, i, target) = [s EXCEPT !.target[b] = target]
  BY DEF StoreTarget
<1> HIDE DEF s, b
<1>5. [s.target EXCEPT ![b] = target] \in [Blocks -> Names \cup {NoName}]
  BY <1>3 DEF Tables
<1> QED
  BY <1>3, <1>4, <1>5 DEF Tables

(* tfs_close keeps the tables and answers with 0, -1 or an abort.          *)
LEMMA CloseType ==
  ASSUME NEW fs \in Tables, NEW h
  PROVE  Close(fs, h).fs \in Tables /\ Close(fs, h).ret \in Int
<1>1. CASE h \in fs.opened
  <2>1. [fs EXCEPT !.opened = @ \ {h}] \in Tables
    BY DEF Tables
  <2> QED
    BY <1>1, <2>1 DEF Close, Return
<1>2. CASE h \notin fs.opened
  BY <1>2, Sizes DEF Close, Return
<1> QED
  BY <1>1, <1>2

(* The lesser and the greater of two. *)
LEMMA MinOfTwo ==
  ASSUME NEW m \in Int, NEW n \in Int
  PROVE  /\ Min({m, n}) = IF m <= n THEN m ELSE n
         /\ Max({m, n}) = IF m >= n THEN m ELSE n
<1>1. Min({m, n}) \in {m, n} /\ \A y \in {m, n} : Min({m, n}) <= y
  <2>1. \E x \in {m, n} : \A y \in {m, n} : x <= y
    OBVIOUS
  <2> QED
    BY <2>1 DEF Min
<1>2. Max({m, n}) \in {m, n} /\ \A y \in {m, n} : Max({m, n}) >= y
  <2>1. \E x \in {m, n} : \A y \in {m, n} : x >= y
    OBVIOUS
  <2> QED
    BY <2>1 DEF Max
<1> QED
  BY <1>1, <1>2

(* The block a first write reserves is one of the blocks.                  *)
LEMMA ReserveType ==
  ASSUME NEW fs \in Tables, NEW h \in Handles
  PROVE  Reserve(fs, h).fs \in Tables /\ Reserve(fs, h).ret \in Int
<1> DEFINE i == fs.file[h].inum
           b == FirstFree(Blocks, fs.blocks)
           s == [fs EXCEPT !.blocks = @ \cup {b}, !.inode[i].block = b]
<1>1. i \in Inums /\ fs.inode[i] \in Inodes
  BY DEF Tables
<1>2. b \in Blocks \cup {None}
  BY FirstFreeType, Sizes
<1>3. \A k \in Blocks \cup {None} : k \in Int
  BY Sizes
<1>4. fs.inode[i].block \in Int
  BY <1>1, <1>3 DEF Inodes
<1> HIDE DEF i, b
<1>5. CASE fs.inode[i].size > 0
  BY <1>4, <1>5 DEF Reserve, Return, i
<1>6. CASE ~(fs.inode[i].size > 0) /\ b = None
  BY <1>6, Sizes DEF Reserve, Return, i, b
<1>7. CASE ~(fs.inode[i].size > 0) /\ b \in Blocks
  <2>1. Reserve(fs, h) = Return(s, b)
    BY <1>7, Sizes DEF Reserve, i, b
  <2>2. s \in Tables
    BY <1>1, <1>7 DEF Tables, Inodes
  <2> QED
    BY <1>3, <1>7, <2>1, <2>2 DEF Return
<1> QED
  BY <1>2, <1>5, <1>6, <1>7

(* What tfs_write takes is at most what the block holds from the offset.   *)
LEMMA ToWriteType ==
  ASSUME NEW fs \in Tables, NEW h \in Handles, NEW s \in Seq(Bytes)
  PROVE  LET off == fs.file[h].offset
             n == ToWrite(fs, h, s)
         IN /\ off \in Nat /\ n \in Int
            /\ n <= Len(s) /\ n <= BlockSize - off
            /\ n = Len(s) \/ n = BlockSize - off
<1>1. fs.file[h].offset \in Nat
  BY DEF Tables
<1>2. Len(s) \in Nat /\ BlockSize - fs.file[h].offset \in Int
  BY <1>1, Sizes
<1> QED
  BY <1>1, <1>2, MinOfTwo DEF ToWrite

(* A tfs_write that moves bytes. *)
LEMMA PutType ==
  ASSUME NEW fs \in Tables, NEW h \in Handles, NEW s \in Seq(Bytes)
  PROVE  Put(fs, h, s).fs \in Tables /\ Put(fs, h, s).ret \in Int
<1> DEFINE i == fs.file[h].inum
           off == fs.file[h].offset
           n == ToWrite(fs, h, s)
           end == off + n
           ino == fs.inode[i]
           part == SubSeq(s, 1, n)
           size == Max({ino.size, end})
           stored == Store(fs, ino.block, end - n, part)
           r == [stored EXCEPT !.inode[i].size = Max({@, end}), !.file[h].offset = end]
<1>1. i \in Inums /\ off \in Nat /\ ino \in Inodes
  BY DEF Tables
<1>2. n \in Int /\ n <= Len(s) /\ n <= BlockSize - off
  BY ToWriteType
<1> HIDE DEF n
<1>0. Put(fs, h, s) = IF n = 0 THEN Return(fs, 0)
                      ELSE IF n < 0 THEN Return(fs, Undefined) ELSE Return(r, n)
  BY DEF Put, n
<1>3. CASE n <= 0
  <2> HIDE DEF r
  <2>1. Put(fs, h, s) \in {Return(fs, 0), Return(fs, Undefined)}
    BY <1>0, <1>2, <1>3
  <2> QED
    BY <2>1 DEF Return, Undefined
<1>4. CASE n > 0
  <2>1. stored.inode = fs.inode
    BY DEF Store, Tables
  <2>2. Put(fs, h, s) = Return(r, n)
    <3> HIDE DEF r
    <3> QED
      BY <1>0, <1>2, <1>4
  <2>3. r = [stored EXCEPT !.inode[i].size = size, !.file[h].offset = end]
    <3> HIDE DEF stored, end, i
    <3> QED
      BY <2>1
  <2> HIDE DEF n, off, ino, r, i
  <2>4. part \in Seq(Bytes)
    BY <1>2, <1>4
  <2>5. \A k \in Blocks \cup {None} : k \in Int
    BY Sizes
  <2>6. ino.block \in Int /\ ino.size \in 0 .. BlockSize
    BY <1>1, <2>5 DEF Inodes
  <2>7. end \in 0 .. BlockSize /\ end - n = off
    BY <1>1, <1>2, <1>4, Sizes
  <2> HIDE DEF end
  <2>8. size \in 0 .. BlockSize
    <3>1. ino.size \in Int /\ end \in Int
      BY <2>6, <2>7, Sizes
    <3> QED
      BY <2>6, <2>7, <3>1, MinOfTwo
  <2> HIDE DEF part
  <2>9. stored \in Tables
    BY <1>1, <1>2, <2>4, <2>6, <2>7, StoreType
  <2> HIDE DEF stored, size
  <2>10. [stored EXCEPT !.inode[i].size = size, !.file[h].offset = end] \in Tables
    <3>1. [stored.inode EXCEPT ![i].size = size] \in [Inums -> Inodes]
      <4>1. stored.inode \in [Inums -> Inodes]
        BY <2>9 DEF Tables
      <4>2. [stored.inode[i] EXCEPT !.size = size] \in Inodes
        BY <1>1, <2>8, <4>1 DEF Inodes
      <4> QED
        BY <4>1, <4>2
    <3>2. [stored.file EXCEPT ![h].offset = end] \in [Handles -> [inum : Inums, offset : Nat]]
      <4>1. end \in Nat
        BY <2>7, Sizes
      <4>2. stored.file \in [Handles -> [inum : Inums, offset : Nat]]
        BY <2>9 DEF Tables
      <4> QED
        BY <4>1, <4>2
    <3> QED
      BY <2>9, <3>1, <3>2 DEF Tables
  <2> QED
    BY <1>2, <2>2, <2>3, <2>10 DEF Return
<1> QED
  BY <1>2, <1>3, <1>4

(* tfs_write keeps sizes within a block and offsets natural numbers,       *)
(* whatever it is given.                                                   *)
LEMMA WriteType ==
  ASSUME NEW fs \in Tables, NEW h, NEW s \in Seq(Bytes)
  PROVE  Write(fs, h, s).fs \in Tables /\ Write(fs, h, s).ret \in Int
<1>1. CASE h \notin fs.opened
  BY <1>1, Sizes DEF Write, Return
<1>2. CASE h \in fs.opened
  <2>1. h \in Handles
    BY <1>2 DEF Tables
  <2>2. Reserve(fs, h).fs \in Tables
    BY <2>1, ReserveType
  <2>3. Put(Reserve(fs, h).fs, h, s).fs \in Tables /\ Put(Reserve(fs, h).fs, h, s).ret \in Int
    BY <2>1, <2>2, PutType
  <2> QED
    BY <1>2, <2>3, Sizes DEF Write, Return
<1> QED
  BY <1>1, <1>2

(* What a write of n bytes at the offset changes. *)
LEMMA PutMoves ==
  ASSUME NEW s \in Tables, NEW h \in Handles, NEW text \in Seq(Bytes)
  PROVE  LET i == s.file[h].inum
             n == ToWrite(s, h, text)
             end == s.file[h].offset + n
             t == Put(s, h, text).fs
         IN /\ n <= 0 => t = s
            /\ n > 0 => /\ t.dir = s.dir /\ t.inodes = s.inodes /\ t.blocks = s.blocks
                        /\ t.opened = s.opened /\ t.target = s.target
                        /\ t.data = Store(s, s.inode[i].block, s.file[h].offset,
                                          SubSeq(text, 1, n)).data
                        /\ \A j \in Inums :
                             /\ j # i => t.inode[j] = s.inode[j]
                             /\ t.inode[j].type = s.inode[j].type
                             /\ t.inode[j].block = s.inode[j].block
                             /\ t.inode[j].count = s.inode[j].count
                        /\ t.inode[i].size = IF s.inode[i].size >= end THEN s.inode[i].size
                                                                       ELSE end
                        /\ \A g \in Handles : /\ g # h => t.file[g] = s.file[g]
                                              /\ t.file[g].inum = s.file[g].inum
                        /\ t.file[h].offset = end
                        /\ Put(s, h, text).ret = n
<1> DEFINE i == s.file[h].inum
           n == ToWrite(s, h, text)
           end == s.file[h].offset + n
           t == Put(s, h, text).fs
           st == Store(s, s.inode[i].block, end - n, SubSeq(text, 1, n))
<1>1. n \in Int /\ s.file[h].offset \in Nat
  BY ToWriteType DEF Tables
<1> DEFINE moved == [st EXCEPT !.inode[i].size = Max({@, end}), !.file[h].offset = end]
<1>0. Put(s, h, text) = IF n = 0 THEN Return(s, 0)
                        ELSE IF n < 0 THEN Return(s, Undefined) ELSE Return(moved, n)
  BY DEF Put
<1>2. CASE n <= 0
  <2>1. Put(s, h, text) \in {Return(s, 0), Return(s, Undefined)}
    <3> HIDE DEF n, moved
    <3> QED
      BY <1>0, <1>1, <1>2
  <2>2. t = s
    BY <2>1 DEF Return
  <2> HIDE DEF t, n
  <2>3. ~(n > 0)
    BY <1>1, <1>2
  <2> QED
    BY <2>2, <2>3 DEF t, n
<1>3. CASE n > 0
  <2>1. end - n = s.file[h].offset
    BY <1>1
  <2>2. Put(s, h, text) = Return([st EXCEPT !.inode[i].size = Max({@, end}),
                                          !.file[h].offset = end], n)
    <3> HIDE DEF n, moved
    <3>1. ~(n = 0) /\ ~(n < 0)
      BY <1>1, <1>3
    <3>2. Put(s, h, text) = Return(moved, n)
      BY <1>0, <3>1
    <3> QED
      BY <3>2 DEF moved
  <2>3. /\ st.dir = s.dir /\ st.inodes = s.inodes /\ st.blocks = s.blocks
        /\ st.opened = s.opened /\ st.target = s.target /\ st.inode = s.inode
        /\ st.file = s.file
        /\ DOMAIN st = DOMAIN s
    BY DEF Store, Tables
  <2>4. DOMAIN s = {"inodes", "blocks", "opened", "inode", "dir", "data", "target", "file"}
    BY DEF Tables
  <2>5. st.data = Store(s, s.inode[i].block, s.file[h].offset, SubSeq(text, 1, n)).data
    BY <2>1
  <2> HIDE DEF n, end, st, i
  <2>6. t = [st EXCEPT !.inode[i].size = Max({@, end}), !.file[h].offset = end]
        /\ Put(s, h, text).ret = n
    BY <2>2 DEF Return
  <2> HIDE DEF t
  <2>7. /\ t.dir = s.dir /\ t.inodes = s.inodes /\ t.blocks = s.blocks
        /\ t.opened = s.opened /\ t.target = s.target /\ t.data = st.data
        /\ t.inode = [s.inode EXCEPT ![i].size = Max({@, end})]
        /\ t.file = [s.file EXCEPT ![h].offset = end]
    BY <2>3, <2>4, <2>6
  <2>8. ~(n <= 0)
    BY <1>1, <1>3
  <2>9. i \in Inums /\ s.inode[i].size \in Int /\ end \in Int
    <3>1. i \in Inums
      BY DEF Tables, i
    <3>2. s.inode[i].size \in Int
      BY <3>1, Sizes DEF Tables, Inodes
    <3> QED
      BY <1>1, <3>1, <3>2 DEF end
  <2>10. /\ \A j \in Inums : /\ j # i => t.inode[j] = s.inode[j]
                             /\ t.inode[j].type = s.inode[j].type
                             /\ t.inode[j].block = s.inode[j].block
                             /\ t.inode[j].count = s.inode[j].count
         /\ t.inode[i].size = Max({s.inode[i].size, end})
    <3> DEFINE m == Max({s.inode[i].size, end})
    <3>1. t.inode = [s.inode EXCEPT ![i] = [s.inode[i] EXCEPT !.size = m]]
      BY <2>7
    <3>2. s.inode \in [Inums -> Inodes]
      BY DEF Tables
    <3> HIDE DEF m
    <3>3. /\ t.inode[i] = [s.inode[i] EXCEPT !.size = m]
          /\ \A j \in Inums \ {i} : t.inode[j] = s.inode[j]
      BY <2>9, <3>1, <3>2
    <3>4. s.inode[i] \in Inodes
      BY <2>9, <3>2
    <3>5. /\ t.inode[i].type = s.inode[i].type /\ t.inode[i].block = s.inode[i].block
          /\ t.inode[i].count = s.inode[i].count /\ t.inode[i].size = m
      BY <3>3, <3>4 DEF Inodes
    <3> QED
      BY <3>3, <3>5 DEF m
  <2>11. Max({s.inode[i].size, end}) = IF s.inode[i].size >= end THEN s.inode[i].size ELSE end
    BY <2>9, MinOfTwo
  <2>12. /\ \A g \in Handles : /\ g # h => t.file[g] = s.file[g]
                               /\ t.file[g].inum = s.file[g].inum
         /\ t.file[h].offset = end
    BY <2>7 DEF Tables
  <2> QED
    BY <2>5, <2>6, <2>7, <2>8, <2>10, <2>11, <2>12 DEF t, n, i, end, st
<1> QED
  BY <1>1, <1>2, <1>3

(* A tfs_write leaves the directory, the open handles and the inodes but   *)
(* for sizes and blocks as they are.                                       *)
LEMMA WriteMoves ==
  ASSUME NEW s \in Tables, NEW h, NEW text \in Seq(Bytes)
  PROVE  LET t == Write(s, h, text).fs
         IN /\ t.dir = s.dir /\ t.inodes = s.inodes /\ t.opened = s.opened
            /\ \A j \in Inums : /\ t.inode[j].type = s.inode[j].type
                                /\ t.inode[j].count = s.inode[j].count
            /\ \A g \in Handles : /\ g # h => t.file[g] = s.file[g]
                                  /\ t.file[g].inum = s.file[g].inum
<1> DEFINE r == Reserve(s, h).fs
           u == Put(r, h, text).fs
           t == Write(s, h, text).fs
<1>1. CASE h \notin s.opened
  BY <1>1 DEF Write, Return
<1>2. CASE h \in s.opened
  <2>1. h \in Handles
    BY <1>2 DEF Tables
  <2>2. /\ r.dir = s.dir /\ r.inodes = s.inodes /\ r.opened = s.opened
        /\ \A j \in Inums : r.inode[j].type = s.inode[j].type /\ r.inode[j].count = s.inode[j].count
        /\ r.file = s.file
    BY DEF Reserve, Return, Tables, Inodes
  <2>3. r \in Tables
    BY <2>1, ReserveType
  <2>4. t \in {s, u}
    BY DEF Write, Return
  <2> HIDE DEF r, t
  <2>5. /\ u.dir = r.dir /\ u.inodes = r.inodes /\ u.opened = r.opened
        /\ \A j \in Inums : u.inode[j].type = r.inode[j].type /\ u.inode[j].count = r.inode[j].count
        /\ \A g \in Handles : /\ g # h => u.file[g] = r.file[g]
                              /\ u.file[g].inum = r.file[g].inum
    <3>1. CASE ToWrite(r, h, text) <= 0
      <4>1. u = r
        BY <2>1, <2>3, <3>1, PutMoves
      <4> QED
        BY <4>1
    <3>2. CASE ToWrite(r, h, text) > 0
      BY <2>1, <2>3, <3>2, PutMoves
    <3>3. ToWrite(r, h, text) \in Int
      BY <2>1, <2>3, ToWriteType
    <3> QED
      BY <3>1, <3>2, <3>3
  <2> HIDE DEF u
  <2> QED
    BY <2>2, <2>4, <2>5 DEF t
<1> QED
  BY <1>1, <1>2

(* What is left to read is not negative, nor more than the caller asked.   *)
LEMMA ToReadType ==
  ASSUME NEW fs \in Tables, NEW h \in Handles, NEW len \in Nat
  PROVE  ToRead(fs, h, len) \in 0 .. len
<1> DEFINE left == fs.inode[fs.file[h].inum].size - fs.file[h].offset
<1>1. fs.inode[fs.file[h].inum] \in Inodes /\ fs.file[h].offset \in Nat
  BY DEF Tables
<1>2. left \in Int
  BY <1>1, Sizes DEF Inodes
<1> QED
  BY <1>2, MinOfTwo DEF ToRead

(* A copy stops before the first Nul or takes everything. *)
LEMMA CopyType ==
  ASSUME NEW fs \in Tables, NEW h \in Handles, NEW toRead \in Nat
  PROVE  /\ Copy(fs, h, toRead).fs \in Tables /\ Copy(fs, h, toRead).ret \in Int
         /\ Copy(fs, h, toRead).out \in Seq(Bytes)
<1> DEFINE off == fs.file[h].offset
           ino == fs.inode[fs.file[h].inum]
           base == ino.block * BlockSize
           nulAt(k) == k \in DOMAIN fs.data /\ fs.data[k] = Nul
           start == base + off + IF nulAt(base + off) THEN 1 ELSE 0
           nuls == {k \in 0 .. toRead - 1 : nulAt(start + k)}
           n == IF nuls = {} THEN toRead ELSE Min(nuls)
           end == start - base + n
           moved == [fs EXCEPT !.file[h].offset = end]
<1>1. ino \in Inodes /\ off \in Nat
  BY DEF Tables
<1>2. \A k \in Blocks \cup {None} : k \in Int
  BY Sizes
<1>3. base \in Int /\ start - base \in Nat
  <2>1. ino.block \in Int
    BY <1>1, <1>2 DEF Inodes
  <2>2. base \in Int
    BY <2>1, Sizes
  <2> HIDE DEF base
  <2> QED
    BY <1>1, <2>2
<1>0. nuls \in SUBSET Nat
  <2>1. 0 .. toRead - 1 \subseteq Nat
    OBVIOUS
  <2> HIDE DEF start
  <2> QED
    BY <2>1
<1>4. n \in Nat
  <2> HIDE DEF nuls
  <2> QED
    BY <1>0, MinIsLeast
<1>5. \/ Copy(fs, h, toRead) \in {Return(fs, 0), Return(fs, Abort), Return(fs, Undefined)}
      \/ /\ ino.block # None
         /\ nuls # {} \/ start + toRead - 1 \in DOMAIN fs.data
         /\ Copy(fs, h, toRead) = [fs |-> moved, ret |-> n,
                                   out |-> [k \in 1 .. n |-> fs.data[start + k - 1]]]
  BY DEF Copy
<1>6. CASE Copy(fs, h, toRead) \in {Return(fs, 0), Return(fs, Abort), Return(fs, Undefined)}
  <2> DEFINE r == Copy(fs, h, toRead)
  <2> HIDE DEF r
  <2>1. r.fs = fs /\ r.ret \in {0, Abort, Undefined} /\ r.out = <<>>
    BY <1>6 DEF Return, r
  <2> QED
    BY <2>1 DEF Abort, Undefined, r
<1>7. CASE /\ ino.block # None
           /\ nuls # {} \/ start + toRead - 1 \in DOMAIN fs.data
           /\ Copy(fs, h, toRead) = [fs |-> moved, ret |-> n,
                                     out |-> [k \in 1 .. n |-> fs.data[start + k - 1]]]
  <2>1. DOMAIN fs.data = 0 .. MaxBlocks * BlockSize - 1
    BY DEF Tables
  <2>2. base \in Nat
    <3>1. ino.block \in Nat
      BY <1>1, <1>7, Sizes DEF Inodes
    <3> HIDE DEF ino
    <3> QED
      BY <3>1, Sizes
  <2>3. start \in Nat /\ start - base \in Nat
    <3> HIDE DEF base
    <3> QED
      BY <1>1, <2>2
  <2>4. /\ n > 0 => start + n - 1 \in DOMAIN fs.data
        /\ n <= toRead
    <3>1. CASE nuls = {}
      <4>1. n = toRead /\ start + toRead - 1 \in DOMAIN fs.data
        BY <1>7, <3>1
      <4> HIDE DEF start, n
      <4> QED
        BY <4>1
    <3>2. CASE nuls # {}
      <4>2. n \in nuls
        <5>1. n = Min(nuls)
          BY <3>2
        <5> HIDE DEF nuls, n
        <5> QED
          BY <1>0, <3>2, <5>1, MinIsLeast
      <4>3. start + n \in DOMAIN fs.data /\ n \in 0 .. toRead - 1
        BY <4>2
      <4> DEFINE top == MaxBlocks * BlockSize - 1
      <4>4. top \in Int
        BY Sizes
      <4> HIDE DEF start, n, top
      <4>5. start + n \in 0 .. top
        BY <2>1, <4>3 DEF top
      <4>6. n > 0 => start + n - 1 \in 0 .. top
        BY <1>4, <2>3, <4>4, <4>5
      <4>7. n <= toRead
        BY <4>3
      <4> QED
        BY <2>1, <4>6, <4>7 DEF top
    <3> QED
      BY <3>1, <3>2
  <2> HIDE DEF n, start, base
  <2>5. \A k \in 1 .. n : fs.data[start + k - 1] \in Bytes
    <3> SUFFICES ASSUME NEW k \in 1 .. n PROVE fs.data[start + k - 1] \in Bytes
      OBVIOUS
    <3>1. start + k - 1 \in DOMAIN fs.data
      <4> DEFINE top == MaxBlocks * BlockSize - 1
      <4>1. top \in Int
        BY Sizes
      <4>2. start + n - 1 \in 0 .. top
        BY <1>4, <2>1, <2>4
      <4> HIDE DEF top
      <4>3. start + k - 1 \in 0 .. top
        BY <1>4, <2>3, <4>1, <4>2
      <4> QED
        BY <2>1, <4>3 DEF top
    <3> QED
      BY <2>1, <3>1 DEF Tables
  <2>6. [k \in 1 .. n |-> fs.data[start + k - 1]] \in Seq(Bytes)
    BY <1>4, <2>5
  <2>7. end \in Nat
    BY <1>4, <2>3
  <2> HIDE DEF end
  <2>8. moved \in Tables
    <3>1. [fs.file EXCEPT ![h].offset = end] \in [Handles -> [inum : Inums, offset : Nat]]
      <4>1. fs.file \in [Handles -> [inum : Inums, offset : Nat]]
        BY DEF Tables
      <4> QED
        BY <2>7, <4>1
    <3> QED
      BY <3>1 DEF Tables
  <2> QED
    BY <1>4, <1>7, <2>6, <2>8
<1> QED
  BY <1>5, <1>6, <1>7

(* A read moves an offset, and nothing else. *)
LEMMA CopyMoves ==
  ASSUME NEW fs \in Tables, NEW h \in Handles, NEW toRead
  PROVE  LET t == Copy(fs, h, toRead).fs
         IN /\ t.dir = fs.dir /\ t.inodes = fs.inodes /\ t.inode = fs.inode
            /\ t.blocks = fs.blocks /\ t.opened = fs.opened /\ t.data = fs.data
            /\ \A g \in Handles : /\ t.file[g].inum = fs.file[g].inum
                                  /\ g # h => t.file[g] = fs.file[g]
<1>1. \/ Copy(fs, h, toRead).fs = fs
      \/ \E end : Copy(fs, h, toRead).fs = [fs EXCEPT !.file[h].offset = end]
  BY DEF Copy, Return
<1> DEFINE t == Copy(fs, h, toRead).fs
<1>2. t = fs \/ \E end : t = [fs EXCEPT !.file[h].offset = end]
  BY <1>1
<1> HIDE DEF t
<1>3. CASE t = fs
  BY <1>3 DEF t
<1>4. CASE \E end : t = [fs EXCEPT !.file[h].offset = end]
  <2>1. PICK end : t = [fs EXCEPT !.file[h].offset = end]
    BY <1>4
  <2>2. /\ t.dir = fs.dir /\ t.inodes = fs.inodes /\ t.inode = fs.inode
        /\ t.blocks = fs.blocks /\ t.opened = fs.opened /\ t.data = fs.data
        /\ t.file = [fs.file EXCEPT ![h].offset = end]
    BY <2>1 DEF Tables
  <2>3. \A g \in Handles : /\ t.file[g].inum = fs.file[g].inum
                           /\ g # h => t.file[g] = fs.file[g]
    BY <2>2 DEF Tables
  <2> QED
    BY <2>2, <2>3 DEF t
<1> QED
  BY <1>2, <1>3, <1>4

(* tfs_read keeps the tables, although it does not stop at the end of the  *)
(* file, and hands out bytes.                                              *)
LEMMA ReadType ==
  ASSUME NEW fs \in Tables, NEW h, NEW len \in Nat
  PROVE  /\ Read(fs, h, len).fs \in Tables /\ Read(fs, h, len).ret \in Int
         /\ Read(fs, h, len).out \in Seq(Bytes)
<1>1. CASE h \notin fs.opened
  BY <1>1, Sizes DEF Read, Return
<1>2. CASE h \in fs.opened
  <2>1. h \in Handles
    BY <1>2 DEF Tables
  <2>2. ToRead(fs, h, len) \in Nat
    BY <2>1, ToReadType
  <2>3. Read(fs, h, len) = Copy(fs, h, ToRead(fs, h, len))
    BY <1>2 DEF Read
  <2> QED
    BY <2>1, <2>2, <2>3, CopyType
<1> QED
  BY <1>1, <1>2

(* tfs_open, with any flags, keeps the tables and answers with a handle or *)
(* one of the results that are none.                                       *)
LEMMA OpenType ==
  ASSUME NEW fs \in Tables, NEW name \in Names, NEW mode
  PROVE  Open(fs, name, mode).fs \in Tables /\ Open(fs, name, mode).ret \in Int
<1> DEFINE entry == Lookup(fs, name)
           i == GetPath(fs, entry)
           new == CreateFile(fs)
           ino == fs.inode[i]
           cut == IF "trunc" \in mode /\ ino.size > 0
                    THEN [fs EXCEPT !.blocks = @ \ {ino.block}, !.inode[i].size = 0]
                    ELSE fs
           added == AddDirEntry(new.fs, name, new.ret)
           offset == IF "append" \in mode THEN cut.inode[i].size ELSE 0
<1>1. entry \in Inums \cup {None} /\ \A other : Lookup(fs, other) \in Inums \cup {None}
  BY LookupType
<1>2. i \in Inums \cup {None}
  <2> HIDE DEF entry
  <2> QED
    BY <1>1, GetPathType
<1>3. new.fs \in Tables /\ new.ret \in Inums \cup {None}
  BY CreateFileType
<1>4. \A k \in Handles \cup {None} : k \in Int
  BY Sizes
<1> HIDE DEF entry, i, new
<1>5. CASE entry = None
  <2>1. CASE "creat" \notin mode \/ new.ret = None
    BY <1>5, <2>1, Sizes DEF Open, Return, entry, new
  <2>2. CASE ~("creat" \notin mode \/ new.ret = None) /\ Addable(fs, name)
    <3>1. Open(fs, name, mode) = AddToOpenFileTable(added, new.ret, 0)
      BY <1>5, <2>2 DEF Open, entry, new
    <3>2. added \in Tables
      BY <1>3, <2>2, AddDirEntryType
    <3>3. new.ret \in Inums /\ 0 \in Nat
      BY <1>3, <2>2
    <3> HIDE DEF added
    <3> QED
      BY <1>4, <3>1, <3>2, <3>3, AddToOpenFileTableType
  <2>3. CASE ~("creat" \notin mode \/ new.ret = None) /\ ~Addable(fs, name)
    <3>1. Open(fs, name, mode) = Return(InodeDelete(new.fs, new.ret), None)
      BY <1>5, <2>3 DEF Open, entry, new
    <3>2. InodeDelete(new.fs, new.ret) \in Tables
      BY <1>3, <2>3, InodeDeleteType
    <3> QED
      BY <3>1, <3>2, Sizes DEF Return
  <2> QED
    BY <2>1, <2>2, <2>3
<1>6. CASE entry # None /\ (i = None \/ ino.type = "link")
  BY <1>6, Sizes DEF Open, Return, Never, entry, i
<1>7. CASE entry # None /\ i # None /\ ino.type # "link"
  <2>1. Open(fs, name, mode) = AddToOpenFileTable(cut, i, offset)
    BY <1>7 DEF Open, entry, i
  <2>2. i \in Inums
    BY <1>2, <1>7
  <2>3. cut \in Tables
    <3>1. CASE "trunc" \in mode /\ ino.size > 0
      <4>1. [fs.inode EXCEPT ![i].size = 0] \in [Inums -> Inodes]
        <5>1. ino \in Inodes
          BY <2>2 DEF Tables
        <5>2. [ino EXCEPT !.size = 0] \in Inodes
          BY <5>1, Sizes DEF Inodes
        <5> QED
          BY <2>2, <5>2 DEF Tables
      <4>2. [fs EXCEPT !.blocks = @ \ {ino.block}, !.inode[i].size = 0] \in Tables
        BY <4>1 DEF Tables
      <4> QED
        BY <3>1, <4>2
    <3> QED
      BY <3>1
  <2> HIDE DEF cut
  <2>4. offset \in Nat
    <3>1. cut.inode[i].size \in 0 .. BlockSize
      BY <2>2, <2>3 DEF Tables, Inodes
    <3> QED
      BY <3>1, Sizes
  <2> HIDE DEF offset
  <2> QED
    BY <1>4, <2>1, <2>2, <2>3, <2>4, AddToOpenFileTableType
<1> QED
  BY <1>5, <1>6, <1>7

(* tfs_sym_link keeps the tables.                                          *)
LEMMA SymLinkType ==
  ASSUME NEW fs \in Tables, NEW target \in Names, NEW name \in Names
  PROVE  SymLink(fs, target, name).fs \in Tables /\ SymLink(fs, target, name).ret \in Int
<1> DEFINE new == CreateLink(fs)
           stored == StoreTarget(new.fs, new.ret, target)
<1>1. new.fs \in Tables /\ new.ret \in Inums \cup {None}
  BY CreateLinkType
<1> HIDE DEF new
<1>2. CASE Lookup(fs, target) = None
  BY <1>2, Sizes DEF SymLink, Return
<1>3. CASE Lookup(fs, target) # None /\ new.ret = None
  BY <1>1, <1>3, Sizes DEF SymLink, new
<1>4. CASE Lookup(fs, target) # None /\ new.ret \in Inums
  <2>1. stored \in Tables
    BY <1>1, <1>4, StoreTargetType
  <2>2. SymLink(fs, target, name) = Return(AddDirEntry(stored, name, new.ret), 0)
    BY <1>4, Sizes DEF SymLink, new
  <2> HIDE DEF stored
  <2>3. AddDirEntry(stored, name, new.ret) \in Tables
    BY <1>4, <2>1, AddDirEntryType
  <2> QED
    BY <2>2, <2>3 DEF Return
<1> QED
  BY <1>1, <1>2, <1>3, <1>4

(* tfs_link keeps the tables: the counter of links grows by one.           *)
LEMMA LinkType ==
  ASSUME NEW fs \in Tables, NEW target \in Names, NEW name \in Names
  PROVE  Link(fs, target, name).fs \in Tables /\ Link(fs, target, name).ret \in Int
<1> DEFINE i == Lookup(fs, target)
           s == [fs EXCEPT !.inode[i].count = @ + 1]
<1>1. i \in Inums \cup {None}
  BY LookupType
<1> HIDE DEF i
<1>2. CASE i = None \/ fs.inode[i].type = "link"
  BY <1>2, Sizes DEF Link, Return, i
<1>3. CASE i \in Inums /\ fs.inode[i].type # "link"
  <2>1. s \in Tables
    <3>1. fs.inode[i] \in Inodes
      BY <1>3 DEF Tables
    <3>2. [fs.inode[i] EXCEPT !.count = @ + 1] \in Inodes
      BY <3>1 DEF Inodes
    <3> QED
      BY <1>3, <3>2 DEF Tables
  <2>2. Link(fs, target, name) = Return(AddDirEntry(s, name, i), 0)
    BY <1>3, Sizes DEF Link, i
  <2> HIDE DEF s
  <2>3. AddDirEntry(s, name, i) \in Tables
    BY <1>3, <2>1, AddDirEntryType
  <2> QED
    BY <2>2, <2>3 DEF Return
<1> QED
  BY <1>1, <1>2, <1>3

(* Taking one of an inode's links away keeps the tables: the counter does  *)
(* not go below zero, because it is positive when it is decremented.       *)
LEMMA DropLinkType ==
  ASSUME NEW fs \in Tables, NEW i \in Inums
  PROVE  DropLink(fs, i).fs \in Tables /\ DropLink(fs, i).ret \in Int
<1> DEFINE s == [fs EXCEPT !.inode[i].count = @ - 1]
<1>1. CASE fs.inode[i].count > 1
  <2>1. s \in Tables
    <3>1. fs.inode[i] \in Inodes
      BY DEF Tables
    <3>2. [fs.inode[i] EXCEPT !.count = @ - 1] \in Inodes
      BY <1>1, <3>1 DEF Inodes
    <3> QED
      BY <3>2 DEF Tables
  <2> QED
    BY <1>1, <2>1 DEF DropLink, Return
<1>2. CASE ~(fs.inode[i].count > 1)
  BY <1>2, InodeDeleteType DEF DropLink, Return, Abort
<1> QED
  BY <1>1, <1>2

(* tfs_unlink keeps the tables.                                            *)
LEMMA UnlinkType ==
  ASSUME NEW fs \in Tables, NEW name
  PROVE  Unlink(fs, name).fs \in Tables /\ Unlink(fs, name).ret \in Int
<1> DEFINE i == Lookup(fs, name)
<1>1. i \in Inums \cup {None} /\ ClearDirEntry(fs, name) \in Tables
  BY LookupType, ClearDirEntryType
<1> HIDE DEF i
<1> QED
  BY <1>1, DropLinkType, Sizes DEF Unlink, Return, i

(* tfs_copy_from_external_fs keeps the tables, for a source of any length. *)
LEMMA CopyFromExternalType ==
  ASSUME NEW fs \in Tables, NEW s \in Seq(Bytes), NEW name \in Names
  PROVE  CopyFromExternal(fs, s, name).fs \in Tables /\ CopyFromExternal(fs, s, name).ret \in Int
<1> DEFINE opened == Open(fs, name, {"creat", "trunc"})
           written == Write(opened.fs, opened.ret, s)
<1>1. opened.fs \in Tables /\ opened.ret \in Int
  BY OpenType
<1> HIDE DEF opened
<1>2. written.fs \in Tables
  BY <1>1, WriteType
<1> HIDE DEF written
<1>3. Close(written.fs, opened.ret).fs \in Tables
  BY <1>2, CloseType
<1> QED
  BY <1>1, <1>2, <1>3, Sizes DEF CopyFromExternal, Return, opened, written

(* Only a read copies bytes out. *)
LEMMA NothingOut ==
  ASSUME NEW fs, NEW h, NEW s, NEW name, NEW target, NEW mode
  PROVE  /\ Open(fs, name, mode).out = <<>> /\ Close(fs, h).out = <<>>
         /\ Write(fs, h, s).out = <<>> /\ Unlink(fs, name).out = <<>>
         /\ SymLink(fs, target, name).out = <<>> /\ Link(fs, target, name).out = <<>>
         /\ CopyFromExternal(fs, s, name).out = <<>>
<1>1. \A n, m : Open(fs, n, m).out = <<>>
  BY DEF Open, AddToOpenFileTable, Return
<1>2. Close(fs, h).out = <<>>
  BY DEF Close, Return
<1>3. Write(fs, h, s).out = <<>>
  <2>1. \A t : Put(t, h, s).out = <<>>
    BY DEF Put, Return
  <2> QED
    BY <2>1 DEF Write, Return
<1>4. Unlink(fs, name).out = <<>>
  BY DEF Unlink, DropLink, Return
<1>5. SymLink(fs, target, name).out = <<>>
  <2>1. CreateLink(fs).out = <<>>
    BY DEF CreateLink, FillLink, Return
  <2> QED
    BY <2>1 DEF SymLink, Return
<1>6. Link(fs, target, name).out = <<>>
  BY DEF Link, Return
<1>7. CopyFromExternal(fs, s, name).out = <<>>
  BY <1>1 DEF CopyFromExternal, Return
<1> QED
  BY <1>1, <1>2, <1>3, <1>4, <1>5, <1>6, <1>7
-----------------------------------------------------------------------------
(***************************************************************************)
(* The directory and the link counts.                                      *)
(***************************************************************************)
Naming(s, i) == {e \in Entries : s.dir[e].inum = i}

(* Entries lead to live inodes other than the root, an unused one has no   *)
(* name, and no inode has more entries than links.                         *)
NamesOK(s) ==
  /\ Root \in s.inodes
  /\ \A e \in Entries : s.dir[e].inum \in (s.inodes \ {Root}) \cup {None}
  /\ \A e \in Entries : s.dir[e].inum = None => s.dir[e].name = NoName
  /\ \A i \in s.inodes : Cardinality(Naming(s, i)) <= s.inode[i].count

(* An inode's entries can be counted, and a free inode has none. *)
LEMMA NamingCounted ==
  ASSUME NEW s, NEW i
  PROVE  /\ IsFiniteSet(Naming(s, i)) /\ Cardinality(Naming(s, i)) \in Nat
         /\ Naming(s, i) = {} => Cardinality(Naming(s, i)) = 0
         /\ NamesOK(s) /\ i \in Inums \ s.inodes => Naming(s, i) = {}
<1>1. IsFiniteSet(Entries)
  BY Sizes, FS_Interval DEF Entries
<1>2. IsFiniteSet(Naming(s, i))
  BY <1>1, FS_Subset DEF Naming
<1>3. Cardinality(Naming(s, i)) \in Nat /\ (Naming(s, i) = {} => Cardinality(Naming(s, i)) = 0)
  BY <1>2, FS_CardinalityType, FS_EmptySet
<1>4. ASSUME NamesOK(s), i \in Inums \ s.inodes PROVE Naming(s, i) = {}
  BY <1>4, Sizes DEF NamesOK, Naming
<1> QED
  BY <1>2, <1>3, <1>4

(* A name leads to a live inode that is not the root, or nowhere. *)
LEMMA LookupNames ==
  ASSUME NEW s, NamesOK(s), NEW name
  PROVE  Lookup(s, name) \in (s.inodes \ {Root}) \cup {None}
<1> DEFINE found == {e \in Entries : s.dir[e].inum # None /\ s.dir[e].name = name}
<1>1. CASE found = {}
  BY <1>1, LookupFound
<1>2. CASE found # {}
  <2>1. Min(found) \in found /\ Lookup(s, name) = s.dir[Min(found)].inum
    BY <1>2, LookupFound
  <2> QED
    BY <2>1 DEF NamesOK
<1> QED
  BY <1>1, <1>2

(* The tables but for the directory, the live inodes and their link counts *)
(* may change.                                                             *)
LEMMA NamesFrame ==
  ASSUME NEW s, NEW t, NamesOK(s), t.dir = s.dir, t.inodes = s.inodes,
         \A i \in s.inodes : t.inode[i].count = s.inode[i].count
  PROVE  NamesOK(t)
<1>1. \A i : Naming(t, i) = Naming(s, i)
  BY DEF Naming
<1> QED
  BY <1>1 DEF NamesOK

(* tfs_init leaves no name. *)
LEMMA InitialNames == NamesOK(InitialState)
<1> DEFINE s == InitialState
<1>1. /\ s.inodes = {Root} /\ s.inode[Root].count = 0
      /\ \A e \in Entries : s.dir[e] = [name |-> NoName, inum |-> None]
  BY Sizes DEF InitialState
<1>2. None # Root
  BY DEF None, Root
<1> HIDE DEF s
<1>3. Naming(s, Root) = {}
  BY <1>1, <1>2 DEF Naming
<1>4. Cardinality(Naming(s, Root)) = 0
  BY <1>3, NamingCounted
<1>5. NamesOK(s)
  BY <1>1, <1>4 DEF NamesOK
<1> QED
  BY <1>5 DEF s

(* add_dir_entry of an inode that has a link to spare. *)
LEMMA AddDirEntryNames ==
  ASSUME NEW s \in Tables, NamesOK(s), NEW name \in Names, NEW i \in s.inodes \ {Root},
         Cardinality(Naming(s, i)) + 1 <= s.inode[i].count
  PROVE  NamesOK(AddDirEntry(s, name, i))
<1> DEFINE e == Min({x \in Entries : s.dir[x].inum = None})
           t == [s EXCEPT !.dir[e] = [name |-> name, inum |-> i]]
<1>1. CASE ~Addable(s, name)
  BY <1>1 DEF AddDirEntry
<1>2. CASE Addable(s, name)
  <2>1. e \in Entries /\ s.dir[e].inum = None
    BY <1>2, FreeEntry DEF Addable
  <2>2. AddDirEntry(s, name, i) = t
    BY <1>2 DEF AddDirEntry
  <2> HIDE DEF e
  <2>3. i \in Nat /\ i # None
    BY Sizes DEF Tables
  <2>4. /\ t.dir = [s.dir EXCEPT ![e] = [name |-> name, inum |-> i]]
        /\ t.inodes = s.inodes /\ t.inode = s.inode
        /\ DOMAIN s.dir = Entries
    BY DEF Tables
  <2> HIDE DEF t
  <2>5. Naming(t, i) = Naming(s, i) \cup {e} /\ e \notin Naming(s, i)
    BY <2>1, <2>3, <2>4 DEF Naming
  <2>6. \A j \in s.inodes : j # i => Naming(t, j) = Naming(s, j)
    <3>1. \A j \in s.inodes : j # None
      BY Sizes DEF Tables
    <3> QED
      BY <2>1, <2>4, <3>1 DEF Naming
  <2>7. Cardinality(Naming(t, i)) = Cardinality(Naming(s, i)) + 1
    BY <2>5, NamingCounted, FS_AddElement
  <2>8. \A j \in s.inodes : Cardinality(Naming(t, j)) <= t.inode[j].count
    BY <2>4, <2>6, <2>7 DEF NamesOK
  <2>9. \A x \in Entries : /\ t.dir[x].inum \in (t.inodes \ {Root}) \cup {None}
                           /\ t.dir[x].inum = None => t.dir[x].name = NoName
    BY <2>3, <2>4 DEF NamesOK
  <2> QED
    BY <2>2, <2>4, <2>8, <2>9 DEF NamesOK
<1> QED
  BY <1>1, <1>2

(* inode_create(T_FILE) makes an inode that was free and has one link. *)
LEMMA CreateFileNames ==
  ASSUME NEW s \in Tables, NamesOK(s)
  PROVE  LET new == CreateFile(s)
             i == new.ret
         IN /\ NamesOK(new.fs)
            /\ i # None => /\ i \in Inums \ s.inodes /\ i # Root
                           /\ new.fs = [s EXCEPT !.inodes = @ \cup {i}, !.inode[i] = NewFile]
                           /\ i \in new.fs.inodes
                           /\ Cardinality(Naming(new.fs, i)) + 1 <= new.fs.inode[i].count
            /\ i = None => new.fs = s
<1> DEFINE i == FirstFree(Inums, s.inodes)
           t == [s EXCEPT !.inodes = @ \cup {i}, !.inode[i] = NewFile]
<1>1. i \in (Inums \ s.inodes) \cup {None}
  BY FirstFreeType, Sizes
<1>2. CASE i = None
  BY <1>2 DEF CreateFile, Return
<1>3. CASE i \in Inums \ s.inodes
  <2>1. CreateFile(s) = Return(t, i) /\ i # None
    BY <1>3, Sizes DEF CreateFile
  <2> HIDE DEF i
  <2>2. /\ t.dir = s.dir /\ t.inodes = s.inodes \cup {i}
        /\ t.inode = [s.inode EXCEPT ![i] = NewFile] /\ DOMAIN s.inode = Inums
    BY DEF Tables
  <2>3. t.inode[i].count = 1 /\ \A j \in s.inodes : t.inode[j] = s.inode[j]
    BY <1>3, <2>2 DEF NewFile, Tables
  <2>4. t = [s EXCEPT !.inodes = @ \cup {i}, !.inode[i] = NewFile]
    OBVIOUS
  <2> HIDE DEF t
  <2>5. \A j : Naming(t, j) = Naming(s, j)
    BY <2>2 DEF Naming
  <2>6. Cardinality(Naming(t, i)) = 0
    BY <1>3, <2>5, NamingCounted
  <2>7. i # Root
    BY <1>3 DEF NamesOK
  <2>8. NamesOK(t)
    BY <2>2, <2>3, <2>5, <2>6 DEF NamesOK
  <2>9. CreateFile(s).fs = t /\ CreateFile(s).ret = i /\ i # None
    BY <2>1 DEF Return
  <2>10. i \in t.inodes /\ Cardinality(Naming(t, i)) + 1 <= t.inode[i].count
    BY <2>2, <2>3, <2>6
  <2> QED
    BY <1>3, <2>4, <2>7, <2>8, <2>9, <2>10
<1> QED
  BY <1>1, <1>2, <1>3

(* inode_delete of an inode that no entry leads to. *)
LEMMA InodeDeleteNames ==
  ASSUME NEW s \in Tables, NamesOK(s), NEW i \in Inums \ {Root}, Naming(s, i) = {}
  PROVE  NamesOK(InodeDelete(s, i))
<1> DEFINE t == InodeDelete(s, i)
<1>1. t.dir = s.dir /\ t.inodes = s.inodes \ {i} /\ t.inode = s.inode
  BY DEF InodeDelete, Tables
<1> HIDE DEF t
<1>2. \A j : Naming(t, j) = Naming(s, j)
  BY <1>1 DEF Naming
<1>3. \A e \in Entries : s.dir[e].inum # i
  BY DEF Naming
<1> QED
  BY <1>1, <1>2, <1>3 DEF NamesOK, t

(* A symbolic link takes a free inode, and a free block unless there is    *)
(* none; then the inode is free again.                                     *)
LEMMA CreateLinkNames ==
  ASSUME NEW s \in Tables, NamesOK(s)
  PROVE  LET new == CreateLink(s)
             i == new.ret
         IN /\ NamesOK(new.fs)
            /\ i # None => /\ i \in Inums \ s.inodes /\ i # Root
                           /\ i \in new.fs.inodes
                           /\ Cardinality(Naming(new.fs, i)) + 1 <= new.fs.inode[i].count
<1> DEFINE i == FirstFree(Inums, s.inodes)
           b == FirstFree(Blocks, s.blocks)
           t == CreateLink(s).fs
           s1 == [s EXCEPT !.inodes = @ \cup {i}]
<1>1. i \in (Inums \ s.inodes) \cup {None} /\ b \in Blocks \cup {None}
  BY FirstFreeType, Sizes
<1>2. CASE i = None
  BY <1>2 DEF CreateLink, Return
<1>3. CASE i \in Inums \ s.inodes
  <2>1. CreateLink(s) = FillLink(s1, i) /\ i # None /\ i # Root
    BY <1>3, Sizes DEF CreateLink, NamesOK
  <2>2. s1.blocks = s.blocks
    BY DEF Tables
  <2>3. CASE b = None
    <3> DEFINE u == [s1 EXCEPT !.inodes = @ \ {i}, !.inode[i].type = "link",
                               !.inode[i].size = 0, !.inode[i].block = None]
    <3>1. CreateLink(s) = Return(u, None)
      BY <2>1, <2>2, <2>3 DEF FillLink
    <3> HIDE DEF i
    <3>2. u.dir = s.dir /\ u.inodes = s.inodes
      BY <1>3 DEF Tables
    <3>3. \A j \in s.inodes : u.inode[j].count = s.inode[j].count
      BY <1>3 DEF Tables
    <3> HIDE DEF u
    <3>4. NamesOK(u)
      BY <3>2, <3>3, NamesFrame
    <3> QED
      BY <3>1, <3>4 DEF Return
  <2>4. CASE b \in Blocks
    <3> DEFINE ino == [type |-> "link", size |-> MaxFileName, block |-> b, count |-> 1]
               u == [s1 EXCEPT !.blocks = @ \cup {b}, !.inode[i] = ino]
    <3>1. CreateLink(s) = Return(u, i)
      BY <2>1, <2>2, <2>4, Sizes DEF FillLink
    <3> HIDE DEF i, b
    <3>2. /\ u.dir = s.dir /\ u.inodes = s.inodes \cup {i}
          /\ u.inode = [s.inode EXCEPT ![i] = ino] /\ DOMAIN s.inode = Inums
      BY DEF Tables
    <3> HIDE DEF u
    <3>3. u.inode[i].count = 1 /\ \A j \in s.inodes : u.inode[j] = s.inode[j]
      BY <1>3, <3>2 DEF Tables
    <3>4. \A j : Naming(u, j) = Naming(s, j)
      BY <3>2 DEF Naming
    <3>5. Cardinality(Naming(u, i)) = 0
      BY <1>3, <3>4, NamingCounted
    <3>6. NamesOK(u)
      BY <3>2, <3>3, <3>4, <3>5 DEF NamesOK
    <3>7. CreateLink(s).fs = u /\ CreateLink(s).ret = i
      BY <3>1 DEF Return
    <3>8. i \in u.inodes /\ Cardinality(Naming(u, i)) + 1 <= u.inode[i].count
      BY <3>2, <3>3, <3>5
    <3> QED
      BY <1>3, <2>1, <3>6, <3>7, <3>8
  <2> QED
    BY <1>1, <2>3, <2>4
<1> QED
  BY <1>1, <1>2, <1>3

(* clear_dir_entry of a name in use removes the entry find_in_dir finds.   *)
LEMMA ClearDirEntryNames ==
  ASSUME NEW s \in Tables, NamesOK(s), NEW name \in Names, Lookup(s, name) # None
  PROVE  LET i == Lookup(s, name)
             t == ClearDirEntry(s, name)
         IN /\ i \in s.inodes \ {Root}
            /\ NamesOK(t) /\ t.inodes = s.inodes /\ t.inode = s.inode
            /\ Cardinality(Naming(t, i)) = Cardinality(Naming(s, i)) - 1
<1> DEFINE i == Lookup(s, name)
           found == {e \in Entries : s.dir[e].name = name}
           e == Min(found)
           t == [s EXCEPT !.dir[e] = [name |-> NoName, inum |-> None]]
<1>1. found = {x \in Entries : s.dir[x].inum # None /\ s.dir[x].name = name}
  BY TfsAssumption DEF NamesOK
<1>2. found # {} /\ e \in found /\ i = s.dir[e].inum
  BY <1>1, LookupFound
<1>3. ClearDirEntry(s, name) = t
  BY <1>2 DEF ClearDirEntry
<1> HIDE DEF i, found, e
<1>4. e \in Entries /\ s.dir[e].inum = i /\ i # None
  BY <1>2 DEF found, i
<1>5. i \in s.inodes \ {Root}
  BY <1>4 DEF NamesOK
<1>6. /\ t.dir = [s.dir EXCEPT ![e] = [name |-> NoName, inum |-> None]]
      /\ t.inodes = s.inodes /\ t.inode = s.inode /\ DOMAIN s.dir = Entries
  BY DEF Tables
<1> HIDE DEF t
<1>7. Naming(t, i) = Naming(s, i) \ {e} /\ e \in Naming(s, i)
  BY <1>4, <1>6 DEF Naming
<1>8. Cardinality(Naming(t, i)) = Cardinality(Naming(s, i)) - 1
  <2> DEFINE N == Naming(s, i)
  <2>1. IsFiniteSet(N) /\ e \in N
    BY <1>7, NamingCounted
  <2> HIDE DEF N
  <2>2. Cardinality(N \ {e}) = Cardinality(N) - 1
    BY <2>1, FS_RemoveElement
  <2> QED
    BY <1>7, <2>2 DEF N
<1>9. \A j \in s.inodes \ {i} : Naming(t, j) = Naming(s, j)
  <2>1. \A j \in s.inodes : j # None
    BY Sizes DEF Tables
  <2> QED
    BY <1>4, <1>6, <2>1 DEF Naming
<1>10. \A j \in s.inodes : Cardinality(Naming(t, j)) <= t.inode[j].count
  <2>1. \A j \in s.inodes : Cardinality(Naming(s, j)) <= s.inode[j].count
    BY DEF NamesOK
  <2>2. Cardinality(Naming(s, i)) \in Nat /\ s.inode[i].count \in Nat
    BY <1>5, NamingCounted DEF Tables, Inodes
  <2>3. Cardinality(Naming(t, i)) <= t.inode[i].count
    BY <1>5, <1>6, <1>8, <2>1, <2>2
  <2> QED
    BY <1>6, <1>9, <2>1, <2>3
<1>11. \A x \in Entries : /\ t.dir[x].inum \in (t.inodes \ {Root}) \cup {None}
                          /\ t.dir[x].inum = None => t.dir[x].name = NoName
  BY <1>6 DEF NamesOK
<1>12. NamesOK(t)
  BY <1>6, <1>10, <1>11 DEF NamesOK
<1> QED
  BY <1>3, <1>5, <1>6, <1>8, <1>12 DEF i

(* tfs_open adds an entry to the inode it creates, or none. *)
LEMMA OpenNames ==
  ASSUME NEW s \in Tables, NamesOK(s), NEW name \in Names, NEW mode
  PROVE  NamesOK(Open(s, name, mode).fs)
<1> DEFINE entry == Lookup(s, name)
           i == GetPath(s, entry)
           new == CreateFile(s)
           ino == s.inode[i]
           cut == IF "trunc" \in mode /\ ino.size > 0
                    THEN [s EXCEPT !.blocks = @ \ {ino.block}, !.inode[i].size = 0]
                    ELSE s
           added == AddDirEntry(new.fs, name, new.ret)
           offset == IF "append" \in mode THEN cut.inode[i].size ELSE 0
<1>1. ASSUME NEW t, NamesOK(t), NEW j, NEW k
      PROVE  NamesOK(AddToOpenFileTable(t, j, k).fs)
  <2> DEFINE u == AddToOpenFileTable(t, j, k).fs
  <2>1. u.dir = t.dir /\ u.inodes = t.inodes /\ u.inode = t.inode
    BY DEF AddToOpenFileTable, Return
  <2> HIDE DEF u
  <2> QED
    BY <1>1, <2>1, NamesFrame DEF u
<1>2. /\ new.fs \in Tables /\ NamesOK(new.fs)
      /\ new.ret # None => /\ new.ret \in new.fs.inodes \ {Root} /\ new.ret \in Inums \ {Root}
                           /\ Cardinality(Naming(new.fs, new.ret)) + 1 <=
                                new.fs.inode[new.ret].count
                           /\ new.ret \notin s.inodes /\ new.fs.dir = s.dir
  <2>1. new.fs \in Tables /\ NamesOK(new.fs)
    BY CreateFileType, CreateFileNames
  <2>2. ASSUME new.ret # None
        PROVE  /\ new.ret \in new.fs.inodes \ {Root} /\ new.ret \in Inums \ {Root}
               /\ Cardinality(Naming(new.fs, new.ret)) + 1 <= new.fs.inode[new.ret].count
               /\ new.ret \notin s.inodes
               /\ new.fs = [s EXCEPT !.inodes = @ \cup {new.ret}, !.inode[new.ret] = NewFile]
    BY <2>2, CreateFileNames
  <2>3. ASSUME new.ret # None PROVE new.fs.dir = s.dir
    <3> DEFINE r == new.ret
    <3>1. new.fs = [s EXCEPT !.inodes = @ \cup {r}, !.inode[r] = NewFile]
      BY <2>2, <2>3
    <3> HIDE DEF r
    <3> QED
      BY <3>1 DEF Tables
  <2> QED
    BY <2>1, <2>2, <2>3
<1> HIDE DEF entry, i, new
<1>3. CASE entry = None
  <2>1. CASE "creat" \notin mode \/ new.ret = None
    BY <1>3, <2>1 DEF Open, Return, entry, new
  <2>2. CASE ~("creat" \notin mode \/ new.ret = None) /\ Addable(s, name)
    <3>1. Open(s, name, mode) = AddToOpenFileTable(added, new.ret, 0)
      BY <1>3, <2>2 DEF Open, entry, new
    <3>2. NamesOK(added)
      BY <1>2, <2>2, AddDirEntryNames
    <3> HIDE DEF added
    <3> QED
      BY <1>1, <3>1, <3>2
  <2>3. CASE ~("creat" \notin mode \/ new.ret = None) /\ ~Addable(s, name)
    <3>1. Open(s, name, mode) = Return(InodeDelete(new.fs, new.ret), None)
      BY <1>3, <2>3 DEF Open, entry, new
    <3>2. Naming(new.fs, new.ret) = Naming(s, new.ret)
      BY <1>2, <2>3 DEF Naming
    <3>3. Naming(new.fs, new.ret) = {}
      BY <1>2, <2>3, <3>2, NamingCounted
    <3>4. NamesOK(InodeDelete(new.fs, new.ret))
      BY <1>2, <2>3, <3>3, InodeDeleteNames
    <3> QED
      BY <3>1, <3>4 DEF Return
  <2> QED
    BY <2>1, <2>2, <2>3
<1>4. CASE entry # None /\ (i = None \/ ino.type = "link")
  BY <1>4 DEF Open, Return, entry, i
<1>5. CASE entry # None /\ i # None /\ ino.type # "link"
  <2>1. Open(s, name, mode) = AddToOpenFileTable(cut, i, offset)
    BY <1>5 DEF Open, entry, i
  <2>2. NamesOK(cut)
    <3>1. CASE "trunc" \in mode /\ ino.size > 0
      <4> DEFINE t == [s EXCEPT !.blocks = @ \ {ino.block}, !.inode[i].size = 0]
      <4>1. t.dir = s.dir /\ t.inodes = s.inodes
        BY DEF Tables
      <4>2. \A j \in Inums : t.inode[j].count = s.inode[j].count
        BY DEF Tables, Inodes
      <4>3. s.inodes \subseteq Inums
        BY DEF Tables
      <4> HIDE DEF t
      <4>4. NamesOK(t)
        BY <4>1, <4>2, <4>3, NamesFrame
      <4> QED
        BY <3>1, <4>4 DEF t
    <3> QED
      BY <3>1
  <2> HIDE DEF cut, offset
  <2> QED
    BY <1>1, <2>1, <2>2
<1> QED
  BY <1>3, <1>4, <1>5

(* tfs_sym_link adds one entry, if any, to the inode it creates. *)
LEMMA SymLinkNames ==
  ASSUME NEW s \in Tables, NamesOK(s), NEW target \in Names, NEW name \in Names
  PROVE  NamesOK(SymLink(s, target, name).fs)
<1> DEFINE new == CreateLink(s)
           i == new.ret
           t == StoreTarget(new.fs, new.ret, target)
<1>1. new.fs \in Tables /\ NamesOK(new.fs) /\ new.ret \in Inums \cup {None}
  BY CreateLinkType, CreateLinkNames
<1>2. new.ret # None => /\ new.ret \in new.fs.inodes \ {Root}
                        /\ Cardinality(Naming(new.fs, new.ret)) + 1 <=
                             new.fs.inode[new.ret].count
  BY CreateLinkNames
<1> HIDE DEF new
<1>3. CASE Lookup(s, target) = None \/ new.ret = None
  BY <1>1, <1>3 DEF SymLink, Return, new
<1>4. CASE Lookup(s, target) # None /\ new.ret # None
  <2>1. SymLink(s, target, name) = Return(AddDirEntry(t, name, i), 0)
    BY <1>4 DEF SymLink, new
  <2>2. t.dir = new.fs.dir /\ t.inodes = new.fs.inodes /\ t.inode = new.fs.inode
    BY DEF StoreTarget, Store
  <2>3. t \in Tables
    BY <1>1, <1>4, StoreTargetType
  <2> HIDE DEF t
  <2>4. NamesOK(t)
    BY <1>1, <2>2, NamesFrame
  <2>5. Naming(t, i) = Naming(new.fs, i)
    BY <2>2 DEF Naming
  <2>6. NamesOK(AddDirEntry(t, name, i))
    BY <1>2, <1>4, <2>2, <2>3, <2>4, <2>5, AddDirEntryNames
  <2> QED
    BY <2>1, <2>6 DEF Return
<1> QED
  BY <1>3, <1>4

(* tfs_link counts the entry before it adds it. *)
LEMMA LinkNames ==
  ASSUME NEW s \in Tables, NamesOK(s), NEW target \in Names, NEW name \in Names
  PROVE  NamesOK(Link(s, target, name).fs)
<1> DEFINE i == Lookup(s, target)
           t == [s EXCEPT !.inode[i].count = @ + 1]
<1>1. i # None => i \in s.inodes \ {Root}
  BY LookupNames
<1> HIDE DEF i
<1>2. CASE i = None \/ s.inode[i].type = "link"
  BY <1>2 DEF Link, Return, i
<1>3. CASE i # None /\ s.inode[i].type # "link"
  <2>1. Link(s, target, name) = Return(AddDirEntry(t, name, i), 0)
    BY <1>3 DEF Link, i
  <2>2. i \in s.inodes /\ i \in Inums /\ i # Root
    BY <1>1, <1>3 DEF Tables
  <2>3. t.dir = s.dir /\ t.inodes = s.inodes
    BY DEF Tables
  <2>4. \A j \in s.inodes : t.inode[j].count = IF j = i THEN s.inode[j].count + 1
                                                       ELSE s.inode[j].count
    BY <2>2 DEF Tables, Inodes
  <2>5. t \in Tables
    <3>1. s.inode[i] \in Inodes
      BY <2>2 DEF Tables
    <3>2. [s.inode[i] EXCEPT !.count = @ + 1] \in Inodes
      BY <3>1 DEF Inodes
    <3> QED
      BY <2>2, <3>2 DEF Tables
  <2> HIDE DEF t
  <2>6. \A j : Naming(t, j) = Naming(s, j)
    BY <2>3 DEF Naming
  <2>7. \A j \in s.inodes : Cardinality(Naming(s, j)) <= s.inode[j].count
    BY DEF NamesOK
  <2>8. \A j : Cardinality(Naming(s, j)) \in Nat
    BY NamingCounted
  <2>9. \A j \in s.inodes : s.inode[j].count \in Nat
    BY DEF Tables, Inodes
  <2>10. /\ \A j \in s.inodes : Cardinality(Naming(t, j)) <= t.inode[j].count
         /\ Cardinality(Naming(t, i)) + 1 <= t.inode[i].count
    BY <2>2, <2>4, <2>6, <2>7, <2>8, <2>9
  <2>11. NamesOK(t)
    BY <2>3, <2>10 DEF NamesOK
  <2>12. NamesOK(AddDirEntry(t, name, i))
    BY <2>2, <2>3, <2>5, <2>10, <2>11, AddDirEntryNames
  <2> QED
    BY <2>1, <2>12 DEF Return
<1> QED
  BY <1>2, <1>3

(* tfs_unlink frees an inode only with the last entry that leads to it,    *)
(* and so never finds it free already.                                     *)
LEMMA UnlinkNames ==
  ASSUME NEW s \in Tables, NamesOK(s), NEW name \in Names
  PROVE  NamesOK(Unlink(s, name).fs) /\ Unlink(s, name).ret # Abort
<1> DEFINE i == Lookup(s, name)
           t == ClearDirEntry(s, name)
<1>1. CASE i = None
  BY <1>1 DEF Unlink, Return, None, Abort
<1>2. CASE i # None
  <2>1. /\ i \in s.inodes \ {Root} /\ NamesOK(t)
        /\ t.inodes = s.inodes /\ t.inode = s.inode
        /\ Cardinality(Naming(t, i)) = Cardinality(Naming(s, i)) - 1
    BY <1>2, ClearDirEntryNames
  <2>2. Unlink(s, name) = DropLink(t, i)
    BY <1>2 DEF Unlink
  <2>3. t \in Tables
    BY ClearDirEntryType
  <2> HIDE DEF t, i
  <2>4. i \in Inums \ {Root} /\ t.inode[i].count \in Nat
    BY <2>1, <2>3 DEF Tables, Inodes
  <2>5. /\ Cardinality(Naming(s, i)) <= s.inode[i].count
        /\ Cardinality(Naming(s, i)) \in Nat /\ Cardinality(Naming(t, i)) \in Nat
    BY <2>1, NamingCounted DEF NamesOK
  <2>6. CASE t.inode[i].count > 1
    <3> DEFINE u == [t EXCEPT !.inode[i].count = @ - 1]
    <3>1. DropLink(t, i) = Return(u, 0)
      BY <2>6 DEF DropLink
    <3>2. u.dir = t.dir /\ u.inodes = t.inodes
      BY <2>3 DEF Tables
    <3>3. \A j \in t.inodes : u.inode[j].count = IF j = i THEN t.inode[j].count - 1
                                                         ELSE t.inode[j].count
      BY <2>3, <2>4 DEF Tables, Inodes
    <3> HIDE DEF u
    <3>4. \A j : Naming(u, j) = Naming(t, j)
      BY <3>2 DEF Naming
    <3>5. \A j \in u.inodes : Cardinality(Naming(u, j)) <= u.inode[j].count
      <4>1. CASE i \in t.inodes
        <5>1. Cardinality(Naming(u, i)) <= u.inode[i].count
          BY <2>1, <2>4, <2>5, <3>3, <3>4, <4>1
        <5>2. \A j \in t.inodes \ {i} : Cardinality(Naming(u, j)) <= u.inode[j].count
          BY <2>1, <3>3, <3>4 DEF NamesOK
        <5> QED
          BY <3>2, <5>1, <5>2
      <4> QED
        BY <2>1, <4>1
    <3>6. NamesOK(u)
      BY <2>1, <3>2, <3>5 DEF NamesOK
    <3> QED
      BY <2>2, <3>1, <3>6 DEF Return, Abort
  <2>7. CASE ~(t.inode[i].count > 1)
    <3>1. DropLink(t, i) = Return(InodeDelete(t, i), 0)
      BY <2>1, <2>7 DEF DropLink
    <3>2. Cardinality(Naming(t, i)) = 0
      BY <2>1, <2>4, <2>5, <2>7
    <3>3. Naming(t, i) = {}
      BY <3>2, NamingCounted, FS_EmptySet
    <3>4. NamesOK(InodeDelete(t, i))
      BY <2>1, <2>3, <2>4, <3>3, InodeDeleteNames
    <3> QED
      BY <2>2, <3>1, <3>4 DEF Return, Abort
  <2> QED
    BY <2>6, <2>7
<1> QED
  BY <1>1, <1>2

(* The calls on handles leave the directory and the link counts alone. *)
LEMMA HandleCallsNames ==
  ASSUME NEW s \in Tables, NamesOK(s), NEW h
  PROVE  /\ NamesOK(Close(s, h).fs)
         /\ \A text \in Seq(Bytes) : NamesOK(Write(s, h, text).fs)
         /\ \A len \in Nat : NamesOK(Read(s, h, len).fs)
<1>1. NamesOK(Close(s, h).fs)
  <2> DEFINE t == Close(s, h).fs
  <2>1. t.dir = s.dir /\ t.inodes = s.inodes /\ t.inode = s.inode
    BY DEF Close, Return
  <2> HIDE DEF t
  <2> QED
    BY <2>1, NamesFrame DEF t
<1>2. ASSUME NEW text \in Seq(Bytes) PROVE NamesOK(Write(s, h, text).fs)
  <2> DEFINE t == Reserve(s, h).fs
             u == Put(t, h, text).fs
  <2>1. Write(s, h, text).fs \in {s, u}
    BY DEF Write, Return
  <2>2. t.dir = s.dir /\ t.inodes = s.inodes /\ \A j \in Inums : t.inode[j].count = s.inode[j].count
    BY DEF Reserve, Return, Tables, Inodes
  <2>3. ASSUME h \in s.opened PROVE t \in Tables
    <3>1. h \in Handles
      BY <2>3 DEF Tables
    <3> QED
      BY <3>1, ReserveType
  <2>4. CASE h \in s.opened
    <3> HIDE DEF t
    <3>1. /\ u.dir = t.dir /\ u.inodes = t.inodes
          /\ \A j \in Inums : u.inode[j].count = t.inode[j].count
      BY <2>3, <2>4 DEF Put, Return, Store, Tables, Inodes
    <3> HIDE DEF u
    <3>2. s.inodes \subseteq Inums
      BY DEF Tables
    <3>3. NamesOK(u)
      BY <2>2, <3>1, <3>2, NamesFrame
    <3> QED
      BY <2>1, <3>3
  <2>5. CASE h \notin s.opened
    BY <2>5 DEF Write, Return
  <2> QED
    BY <2>4, <2>5
<1>3. ASSUME NEW len \in Nat PROVE NamesOK(Read(s, h, len).fs)
  <2> DEFINE t == Read(s, h, len).fs
  <2>1. CASE h \notin s.opened
    BY <2>1 DEF Read, Return
  <2>2. CASE h \in s.opened
    <3>1. h \in Handles
      BY <2>2 DEF Tables
    <3>2. Read(s, h, len) = Copy(s, h, ToRead(s, h, len))
      BY <2>2 DEF Read
    <3>3. t.dir = s.dir /\ t.inodes = s.inodes /\ t.inode = s.inode
      BY <3>1, <3>2, CopyMoves
    <3> HIDE DEF t
    <3> QED
      BY <3>3, NamesFrame DEF t
  <2> QED
    BY <2>1, <2>2
<1> QED
  BY <1>1, <1>2, <1>3

(* tfs_copy_from_external_fs is an open, a write and a close. *)
LEMMA CopyFromExternalNames ==
  ASSUME NEW s \in Tables, NamesOK(s), NEW text \in Seq(Bytes), NEW name \in Names
  PROVE  NamesOK(CopyFromExternal(s, text, name).fs)
<1> DEFINE opened == Open(s, name, {"creat", "trunc"})
           written == Write(opened.fs, opened.ret, text)
<1>1. opened.fs \in Tables /\ NamesOK(opened.fs)
  BY OpenType, OpenNames
<1> HIDE DEF opened
<1>2. written.fs \in Tables /\ NamesOK(written.fs)
  BY <1>1, WriteType, HandleCallsNames
<1> HIDE DEF written
<1>3. NamesOK(Close(written.fs, opened.ret).fs)
  BY <1>2, HandleCallsNames
<1> QED
  BY <1>1, <1>2, <1>3 DEF CopyFromExternal, Return, opened, written

-----------------------------------------------------------------------------
(***************************************************************************)
(* A file system without symbolic links, such as the broker's.             *)
(***************************************************************************)
NoLinks(s) == \A i \in Inums : s.inode[i].type # "link"

(* get_path_recursive returns what is no link. *)
LEMMA GetPathSame ==
  ASSUME NEW s, NEW i, i = None \/ s.inode[i].type # "link"
  PROVE  GetPath(s, i) = i
<1> DEFINE hop(j) == IF j = None \/ s.inode[j].type # "link" THEN j
                     ELSE Lookup(s, s.target[s.inode[j].block])
           P(f) == f = [n \in Nat |-> IF n = 0 THEN i ELSE hop(f[n - 1])]
           after == CHOOSE f : P(f)
           same == [n \in Nat |-> i]
<1>1. hop(i) = i
  OBVIOUS
<1> HIDE DEF hop
<1>2. P(same)
  BY <1>1
<1>3. P(after)
  <2> HIDE DEF P
  <2> QED
    BY <1>2
<1>4. \A n \in Nat : after[n] = i
  <2> DEFINE Good == {n \in Nat : after[n] = i}
  <2> HIDE DEF after
  <2>1. 0 \in Good
    BY <1>3
  <2>2. ASSUME NEW n \in Nat, n \in Good PROVE n + 1 \in Good
    <3>1. after[n + 1] = hop(after[n])
      BY <1>3
    <3> QED
      BY <1>1, <2>2, <3>1
  <2>3. Nat \subseteq Good
    <3> HIDE DEF Good
    <3> QED
      BY <2>1, <2>2, AllNumbers
  <2> QED
    BY <2>3
<1>5. GetPath(s, i) = after[MaxInodes]
  BY DEF GetPath, hop
<1> QED
  BY <1>4, <1>5, Sizes

(* The file that a name leads to has the name's inode. *)
LEMMA LookupSame ==
  ASSUME NEW s, NEW t, t.dir = s.dir
  PROVE  \A name : Lookup(t, name) = Lookup(s, name)
BY DEF Lookup

(* tfs_open of an existing file, without truncating it: it gives a handle  *)
(* that nobody has while there is one, and changes nothing else.           *)
LEMMA OpenExisting ==
  ASSUME NEW s \in Tables, NoLinks(s), NEW name \in Names, NEW mode,
         {"creat", "trunc"} \cap mode = {}
  PROVE  LET r == Open(s, name, mode)
         IN /\ r.fs.dir = s.dir /\ r.fs.inode = s.inode /\ r.fs.inodes = s.inodes
            /\ r.fs.blocks = s.blocks /\ r.fs.data = s.data
            /\ r.ret \in (Handles \ s.opened) \cup {None}
            /\ r.ret = None => r.fs = s
            /\ r.ret # None =>
                 /\ r.fs.opened = s.opened \cup {r.ret}
                 /\ r.fs.file = [s.file EXCEPT ![r.ret] =
                      [inum |-> Lookup(s, name),
                       offset |-> IF "append" \in mode THEN s.inode[Lookup(s, name)].size ELSE 0]]
            /\ Lookup(s, name) # None /\ ~(Handles \subseteq s.opened) => r.ret # None
<1> DEFINE i == Lookup(s, name)
           h == FirstFree(Handles, s.opened)
           offset == IF "append" \in mode THEN s.inode[i].size ELSE 0
           t == [s EXCEPT !.opened = @ \cup {h}, !.file[h] = [inum |-> i, offset |-> offset]]
<1>1. i \in Inums \cup {None}
  BY LookupType
<1>2. GetPath(s, i) = i
  BY <1>1, GetPathSame DEF NoLinks
<1>3. h \in (Handles \ s.opened) \cup {None} /\ (h = None <=> Handles \subseteq s.opened)
  BY FirstFreeType, Sizes
<1> HIDE DEF i, h
<1>4. CASE i = None
  BY <1>4 DEF Open, Return, i
<1>5. CASE i # None
  <2>1. s.inode[i].type # "link"
    BY <1>1, <1>5 DEF NoLinks
  <2>2. Open(s, name, mode) = AddToOpenFileTable(s, i, offset)
    BY <1>2, <1>5, <2>1 DEF Open, i
  <2>3. CASE h = None
    BY <1>3, <2>2, <2>3 DEF AddToOpenFileTable, Return, h
  <2>4. CASE h # None
    <3>1. AddToOpenFileTable(s, i, offset) = Return(t, h)
      BY <2>4 DEF AddToOpenFileTable, h
    <3>2. /\ t.dir = s.dir /\ t.inode = s.inode /\ t.inodes = s.inodes /\ t.blocks = s.blocks
          /\ t.opened = s.opened \cup {h} /\ t.data = s.data
          /\ t.file = [s.file EXCEPT ![h] = [inum |-> i, offset |-> offset]]
      BY DEF Tables
    <3> HIDE DEF t, offset
    <3>3. Open(s, name, mode).fs = t /\ Open(s, name, mode).ret = h
      BY <2>2, <3>1 DEF Return
    <3> QED
      BY <1>3, <2>4, <3>2, <3>3 DEF offset, i
  <2> QED
    BY <2>3, <2>4
<1> QED
  BY <1>4, <1>5

(* The same without the entry that is filled in: what a caller that only   *)
(* takes and gives back handles needs.                                     *)
LEMMA OpenTakesHandle ==
  ASSUME NEW s \in Tables, NoLinks(s), NEW name \in Names, NEW mode,
         {"creat", "trunc"} \cap mode = {}
  PROVE  LET r == Open(s, name, mode)
         IN /\ r.fs.dir = s.dir /\ r.fs.inode = s.inode /\ r.fs.inodes = s.inodes
            /\ r.fs.blocks = s.blocks
            /\ r.ret \in (Handles \ s.opened) \cup {None}
            /\ r.ret = None => r.fs = s
            /\ r.ret # None => r.fs.opened = s.opened \cup {r.ret}
            /\ Lookup(s, name) # None /\ ~(Handles \subseteq s.opened) => r.ret # None
<1> DEFINE i == Lookup(s, name)
           h == FirstFree(Handles, s.opened)
           offset == IF "append" \in mode THEN s.inode[i].size ELSE 0
           t == [s EXCEPT !.opened = @ \cup {h}, !.file[h] = [inum |-> i, offset |-> offset]]
<1>1. i \in Inums \cup {None}
  BY LookupType
<1>2. GetPath(s, i) = i
  BY <1>1, GetPathSame DEF NoLinks
<1>3. h \in (Handles \ s.opened) \cup {None} /\ (h = None <=> Handles \subseteq s.opened)
  BY FirstFreeType, Sizes
<1> HIDE DEF i, h
<1>4. CASE i = None
  BY <1>4 DEF Open, Return, i
<1>5. CASE i # None
  <2>1. s.inode[i].type # "link"
    BY <1>1, <1>5 DEF NoLinks
  <2>2. Open(s, name, mode) = AddToOpenFileTable(s, i, offset)
    BY <1>2, <1>5, <2>1 DEF Open, i
  <2>3. CASE h = None
    BY <1>3, <2>2, <2>3 DEF AddToOpenFileTable, Return, h
  <2>4. CASE h # None
    <3>1. AddToOpenFileTable(s, i, offset) = Return(t, h)
      BY <2>4 DEF AddToOpenFileTable, h
    <3>2. /\ t.dir = s.dir /\ t.inode = s.inode /\ t.inodes = s.inodes /\ t.blocks = s.blocks
          /\ t.opened = s.opened \cup {h}
      BY DEF Tables
    <3> HIDE DEF t
    <3> QED
      BY <1>3, <2>2, <2>4, <3>1, <3>2 DEF Return
  <2> QED
    BY <2>3, <2>4
<1> QED
  BY <1>4, <1>5

(* tfs_open creates files that are no links. *)
LEMMA OpenNoLinks ==
  ASSUME NEW s \in Tables, NoLinks(s), NEW name \in Names
  PROVE  LET r == Open(s, name, {"creat"})
         IN NoLinks(r.fs) /\ r.ret \in Handles \cup {None}
<1> DEFINE i == Lookup(s, name)
           new == CreateFile(s)
           k == FirstFree(Inums, s.inodes)
           added == AddDirEntry(new.fs, name, new.ret)
<1>1. i \in Inums \cup {None}
  BY LookupType
<1>2. GetPath(s, i) = i
  BY <1>1, GetPathSame DEF NoLinks
<1>3. \A t, j, offset : /\ AddToOpenFileTable(t, j, offset).fs.inode = t.inode
                        /\ AddToOpenFileTable(t, j, offset).ret \in Handles \cup {None}
  <2>1. \A t : FirstFree(Handles, t.opened) \in Handles \cup {None}
    BY FirstFreeType, Sizes
  <2> QED
    BY <2>1 DEF AddToOpenFileTable, Return
<1>4. new.ret \in Inums \cup {None} /\ NoLinks(new.fs)
  <2>1. k \in Inums \cup {None}
    BY FirstFreeType, Sizes
  <2> DEFINE t == [s EXCEPT !.inodes = @ \cup {k}, !.inode[k] = NewFile]
  <2>2. new.fs = s \/ (k # None /\ new.fs = t)
    BY DEF CreateFile, Return
  <2> HIDE DEF k
  <2>3. k # None => NoLinks(t)
    <3>1. k # None => /\ t.inode = [s.inode EXCEPT ![k] = NewFile]
                      /\ DOMAIN s.inode = Inums
      BY <2>1 DEF Tables
    <3> HIDE DEF t
    <3> QED
      BY <2>1, <3>1 DEF NoLinks, NewFile
  <2> HIDE DEF t, new
  <2>4. NoLinks(new.fs)
    BY <2>2, <2>3
  <2> QED
    BY <2>4, CreateFileType DEF new
<1> HIDE DEF i, new
<1>5. CASE i # None
  <2>1. s.inode[i].type # "link"
    BY <1>1, <1>5 DEF NoLinks
  <2>2. \E offset : Open(s, name, {"creat"}) = AddToOpenFileTable(s, i, offset)
    BY <1>2, <1>5, <2>1 DEF Open, i
  <2> QED
    BY <1>3, <2>2 DEF NoLinks
<1>6. CASE i = None /\ new.ret = None
  BY <1>6 DEF Open, Return, i, new
<1>7. CASE i = None /\ new.ret # None /\ Addable(s, name)
  <2>1. Open(s, name, {"creat"}) = AddToOpenFileTable(added, new.ret, 0)
    BY <1>7 DEF Open, i, new
  <2>2. added.inode = new.fs.inode
    BY DEF AddDirEntry
  <2> HIDE DEF added
  <2> QED
    BY <1>3, <1>4, <2>1, <2>2 DEF NoLinks
<1>8. CASE i = None /\ new.ret # None /\ ~Addable(s, name)
  <2>1. Open(s, name, {"creat"}) = Return(InodeDelete(new.fs, new.ret), None)
    BY <1>8 DEF Open, i, new
  <2>2. InodeDelete(new.fs, new.ret).inode = new.fs.inode
    BY DEF InodeDelete
  <2> QED
    BY <1>4, <2>1, <2>2 DEF NoLinks, Return
<1> QED
  BY <1>5, <1>6, <1>7, <1>8

-----------------------------------------------------------------------------
(* Creating a file whose name is not in use: a free entry is filled if     *)
(* there are an inode and an entry left, whether or not there is a handle. *)
LEMMA OpenNew ==
  ASSUME NEW s \in Tables, NEW name \in Names, Lookup(s, name) = None
  PROVE  LET r == Open(s, name, {"creat"})
             room == ~(Inums \subseteq s.inodes) /\ Addable(s, name)
         IN /\ r.fs.opened = s.opened \cup ({r.ret} \ {None})
            /\ ~room => r.ret = None /\ r.fs.dir = s.dir
            /\ room => /\ ~(Handles \subseteq s.opened) => r.ret # None
                       /\ \E e \in Entries, i \in Inums :
                            /\ s.dir[e].inum = None
                            /\ r.fs.dir = [s.dir EXCEPT ![e] = [name |-> name, inum |-> i]]
<1> DEFINE new == CreateFile(s)
           i == new.ret
           added == AddDirEntry(new.fs, name, i)
           r == Open(s, name, {"creat"})
           k == FirstFree(Inums, s.inodes)
           t == [s EXCEPT !.inodes = @ \cup {k}, !.inode[k] = NewFile]
<1>1. /\ k \in Inums \cup {None} /\ (k = None <=> Inums \subseteq s.inodes)
      /\ i = k /\ (k = None => new.fs = s) /\ (k # None => new.fs = t)
  BY FirstFreeType, Sizes DEF CreateFile, Return
<1>2. new.fs.opened = s.opened /\ new.fs.dir = s.dir
  <2> HIDE DEF k, new
  <2>1. t.opened = s.opened /\ t.dir = s.dir
    BY DEF Tables
  <2> HIDE DEF t
  <2> QED
    BY <1>1, <2>1
<1>3. ASSUME NEW u, u \in Tables, NEW j
      PROVE  LET v == AddToOpenFileTable(u, j, 0)
             IN /\ v.fs.opened = u.opened \cup ({v.ret} \ {None}) /\ v.fs.dir = u.dir
                /\ ~(Handles \subseteq u.opened) => v.ret # None
  <2> DEFINE h == FirstFree(Handles, u.opened)
             v == [u EXCEPT !.opened = @ \cup {h}, !.file[h] = [inum |-> j, offset |-> 0]]
  <2>1. v.opened = u.opened \cup {h} /\ v.dir = u.dir
    BY <1>3 DEF Tables
  <2>2. AddToOpenFileTable(u, j, 0) = IF h = None THEN Return(u, None) ELSE Return(v, h)
    BY DEF AddToOpenFileTable
  <2>3. h = None <=> Handles \subseteq u.opened
    BY FirstFreeType, Sizes
  <2> HIDE DEF h, v
  <2> QED
    BY <2>1, <2>2, <2>3 DEF Return
<1>4. new.fs \in Tables /\ i \in Inums \cup {None}
  BY CreateFileType
<1> HIDE DEF new, k, t
<1>5. CASE i = None
  BY <1>1, <1>5 DEF Open, Return, new
<1>6. CASE i # None /\ ~Addable(s, name)
  <2>1. r = Return(InodeDelete(new.fs, i), None)
    BY <1>6 DEF Open, new
  <2>2. InodeDelete(new.fs, i).opened = new.fs.opened /\ InodeDelete(new.fs, i).dir = new.fs.dir
    BY DEF InodeDelete
  <2> QED
    BY <1>2, <1>6, <2>1, <2>2 DEF Return
<1>7. CASE i # None /\ Addable(s, name)
  <2>1. r = AddToOpenFileTable(added, i, 0)
    BY <1>7 DEF Open, new
  <2>2. added \in Tables /\ added.opened = s.opened
    <3>1. added \in Tables
      BY <1>4, <1>7, AddDirEntryType
    <3>2. added.opened = new.fs.opened
      BY DEF AddDirEntry
    <3> QED
      BY <1>2, <3>1, <3>2
  <2>3. /\ r.fs.opened = s.opened \cup ({r.ret} \ {None}) /\ r.fs.dir = added.dir
        /\ ~(Handles \subseteq s.opened) => r.ret # None
    <3> HIDE DEF added, r
    <3> QED
      BY <1>3, <2>1, <2>2
  <2>4. \E e \in Entries : /\ s.dir[e].inum = None
                           /\ added.dir = [s.dir EXCEPT ![e] = [name |-> name, inum |-> i]]
    <3> DEFINE e == Min({x \in Entries : new.fs.dir[x].inum = None})
    <3>1. e \in Entries /\ new.fs.dir[e].inum = None
      BY <1>2, <1>7, FreeEntry DEF Addable
    <3>2. added = [new.fs EXCEPT !.dir[e] = [name |-> name, inum |-> i]]
      BY <1>2, <1>7 DEF AddDirEntry, Addable
    <3> HIDE DEF e
    <3>3. added.dir = [new.fs.dir EXCEPT ![e] = [name |-> name, inum |-> i]]
      BY <1>4, <3>2 DEF Tables
    <3> QED
      BY <1>2, <3>1, <3>3
  <2> HIDE DEF added, i
  <2> QED
    BY <1>1, <1>4, <1>7, <2>3, <2>4
<1> QED
  BY <1>5, <1>6, <1>7

(* An entry that is filled is found. *)
LEMMA FilledFound ==
  ASSUME NEW s, NEW t, NEW name,
         NEW e \in Entries, NEW i \in Inums, e \in DOMAIN s.dir,
         t.dir = [s.dir EXCEPT ![e] = [name |-> name, inum |-> i]]
  PROVE  Lookup(t, name) # None
<1>1. t.dir[e].inum # None /\ t.dir[e].name = name
  BY Sizes
<1>2. {x \in Entries : t.dir[x].inum # None /\ t.dir[x].name = name} # {}
  BY <1>1
<1> QED
  BY <1>2, LookupFound

-----------------------------------------------------------------------------
(* Every byte of a block is one of fs_data. *)
LEMMA BlockInside ==
  ASSUME NEW b \in Blocks, NEW j \in 0 .. BlockSize - 1
  PROVE  b * BlockSize \in Nat /\ b * BlockSize + j \in 0 .. MaxBlocks * BlockSize - 1
<1>1. b \in Nat /\ b + 1 <= MaxBlocks /\ MaxBlocks \in Nat /\ BlockSize \in Nat
  BY Sizes DEF Blocks
<1>2. (b + 1) * BlockSize <= MaxBlocks * BlockSize
  <2>1. PICK d \in Nat : MaxBlocks = (b + 1) + d
    <3>1. MaxBlocks - (b + 1) \in Nat /\ MaxBlocks = (b + 1) + (MaxBlocks - (b + 1))
      BY <1>1
    <3> QED
      BY <3>1
  <2>2. MaxBlocks * BlockSize = (b + 1) * BlockSize + d * BlockSize
    BY <1>1, <2>1
  <2>3. d * BlockSize \in Nat /\ (b + 1) * BlockSize \in Nat
    BY <1>1
  <2> QED
    BY <2>2, <2>3
<1>3. (b + 1) * BlockSize = b * BlockSize + BlockSize /\ b * BlockSize \in Nat
  BY <1>1
<1>4. MaxBlocks * BlockSize \in Nat
  BY <1>1
<1> DEFINE at == b * BlockSize
           end == MaxBlocks * BlockSize
<1>5. at + BlockSize <= end /\ at \in Nat /\ end \in Nat
  BY <1>2, <1>3, <1>4
<1> HIDE DEF at, end
<1>6. at + j \in 0 .. end - 1
  BY <1>1, <1>5
<1> QED
  BY <1>5, <1>6 DEF at, end

(* data_block_alloc gives a block of fs_data, or none. *)
LEMMA FreeBlock == ASSUME NEW taken PROVE FirstFree(Blocks, taken) \in Blocks \cup {None}
<1>1. Blocks \in SUBSET Nat
  BY Sizes
<1> QED
  BY <1>1, FirstFreeType

(* What tfs_write left, if it did anything: n bytes of text at the place    *)
(* "at" of fs_data, the last of file i, where the handle h now is.          *)
Appended(s, t, h, i, text, n, at) ==
  /\ t.dir = s.dir /\ t.opened = s.opened
  /\ t.inode[i].block \in Blocks
  /\ s.inode[i].size > 0 => t.inode[i].block = s.inode[i].block
  /\ at = t.inode[i].block * BlockSize + s.inode[i].size
  /\ t.inode[i].size = s.inode[i].size + n
  /\ t.file[h].inum = i /\ t.file[h].offset = s.inode[i].size + n
  /\ \A g \in Handles \ {h} : t.file[g] = s.file[g]
  /\ t.data = [p \in DOMAIN s.data |-> IF p \in at .. at + n - 1
                                         THEN text[p - at + 1] ELSE s.data[p]]

(* tfs_write at the end of a file: the block takes what it has room for,   *)
(* right behind what is there, and the rest of fs_data stays as it is.     *)
LEMMA WriteAtEnd ==
  ASSUME NEW s \in Tables, NEW h \in s.opened, NEW text \in Seq(Bytes),
         NEW i, i = s.file[h].inum,
         NEW size, size = s.inode[i].size, s.file[h].offset = size,
         size > 0 => s.inode[i].block \in Blocks
  PROVE  LET r == Write(s, h, text)
             n == IF Len(text) <= BlockSize - size THEN Len(text) ELSE BlockSize - size
         IN \/ r.fs = s /\ r.ret = None
            \/ r.fs = s /\ r.ret = 0 /\ n = 0
            \/ r.ret = n /\ n > 0 /\ \E at : Appended(s, r.fs, h, i, text, n, at)
<1> DEFINE r == Write(s, h, text)
           v == Reserve(s, h)
           n == IF Len(text) <= BlockSize - size THEN Len(text) ELSE BlockSize - size
<1>1. h \in Handles /\ i \in Inums /\ s.inode[i] \in Inodes
  BY DEF Tables
<1>2. size \in 0 .. BlockSize
  BY <1>1 DEF Inodes
<1>3. ToWrite(s, h, text) = n /\ n \in Nat
  <2>1. Len(text) \in Int /\ BlockSize - size \in Int
    BY <1>2, Sizes
  <2>2. ToWrite(s, h, text) = n
    BY <2>1, MinOfTwo DEF ToWrite
  <2> QED
    BY <1>2, <2>1, <2>2, Sizes
<1> HIDE DEF n
<1>4. CASE n = 0
  BY <1>3, <1>4 DEF Write, Return, n
<1>5. CASE n > 0 /\ v.ret = None
  BY <1>3, <1>5 DEF Write, Return, n
<1>6. CASE n > 0 /\ v.ret # None
  <2> DEFINE u == v.fs
             t == Put(u, h, text).fs
             part == SubSeq(text, 1, n)
  <2>1. u \in Tables /\ r = Put(u, h, text)
    BY <1>1, <1>3, <1>6, ReserveType DEF Write
  <2>2. /\ u.dir = s.dir /\ u.opened = s.opened /\ u.file = s.file /\ u.data = s.data
        /\ u.inode[i].size = size /\ u.inode[i].block \in Blocks
        /\ size > 0 => u.inode[i].block = s.inode[i].block
    <3>1. CASE size > 0
      BY <3>1 DEF Reserve, Return
    <3>2. CASE ~(size > 0)
      <4> DEFINE b == FirstFree(Blocks, s.blocks)
                 z == [s EXCEPT !.blocks = @ \cup {b}, !.inode[i].block = b]
      <4>0. b # None
        BY <1>6, <3>2 DEF Reserve, Return
      <4>1. v = Return(z, b)
        BY <3>2, <4>0 DEF Reserve
      <4>2. b \in Blocks
        <5>1. b \in Blocks \cup {None}
          BY FreeBlock
        <5> HIDE DEF b
        <5> QED
          BY <4>0, <5>1
      <4> HIDE DEF b
      <4>3. /\ z.dir = s.dir /\ z.opened = s.opened /\ z.file = s.file /\ z.data = s.data
            /\ z.inode[i].size = size /\ z.inode[i].block = b
        BY <1>1 DEF Tables, Inodes
      <4> HIDE DEF z
      <4> QED
        BY <3>2, <4>1, <4>2, <4>3 DEF Return
    <3> QED
      BY <3>1, <3>2
  <2> HIDE DEF u, v, r
  <2>3. ToWrite(u, h, text) = n
    BY <1>3, <2>2 DEF ToWrite
  <2>4. /\ t.dir = u.dir /\ t.opened = u.opened
        /\ t.data = Store(u, u.inode[i].block, size, part).data
        /\ t.inode[i].block = u.inode[i].block
        /\ t.inode[i].size = IF size >= size + n THEN size ELSE size + n
        /\ \A g \in Handles : (g # h => t.file[g] = u.file[g]) /\ t.file[g].inum = u.file[g].inum
        /\ t.file[h].offset = size + n
        /\ Put(u, h, text).ret = n
    <3>1. u.file[h].inum = i /\ u.file[h].offset = size
      BY <2>2
    <3> HIDE DEF t
    <3>2. ToWrite(u, h, text) > 0
      BY <1>6, <2>3
    <3>3. /\ t.dir = u.dir /\ t.opened = u.opened
          /\ \A g \in Handles : (g # h => t.file[g] = u.file[g]) /\ t.file[g].inum = u.file[g].inum
      <4>1. t.dir = u.dir /\ t.opened = u.opened
        BY <1>1, <2>1, <3>2, PutMoves DEF t
      <4>2. \A g \in Handles : (g # h => t.file[g] = u.file[g]) /\ t.file[g].inum = u.file[g].inum
        BY <1>1, <2>1, <3>2, PutMoves DEF t
      <4> QED
        BY <4>1, <4>2
    <3>4. t.data = Store(u, u.inode[i].block, size, part).data
      <4>1. t.data = Store(u, u.inode[u.file[h].inum].block, u.file[h].offset,
                           SubSeq(text, 1, ToWrite(u, h, text))).data
        BY <1>1, <2>1, <3>2, PutMoves DEF t
      <4> QED
        BY <2>3, <3>1, <4>1
    <3>5. t.inode[i].block = u.inode[i].block /\ t.file[h].offset = size + n
          /\ t.inode[i].size = IF size >= size + n THEN size ELSE size + n
      <4>1. t.inode[i].block = u.inode[i].block
        BY <1>1, <2>1, <3>1, <3>2, PutMoves DEF t
      <4>2. t.file[h].offset = u.file[h].offset + ToWrite(u, h, text)
        BY <1>1, <2>1, <3>2, PutMoves DEF t
      <4>3. t.inode[u.file[h].inum].size
              = IF u.inode[u.file[h].inum].size >= u.file[h].offset + ToWrite(u, h, text)
                  THEN u.inode[u.file[h].inum].size ELSE u.file[h].offset + ToWrite(u, h, text)
        BY <1>1, <2>1, <3>2, PutMoves DEF t
      <4> QED
        BY <2>2, <2>3, <3>1, <4>1, <4>2, <4>3
    <3>6. Put(u, h, text).ret = n
      BY <1>1, <2>1, <2>3, <3>2, PutMoves
    <3> QED
      BY <3>3, <3>4, <3>5, <3>6 DEF t
  <2> HIDE DEF t
  <2>5. t.inode[i].size = size + n
    <3>1. t.inode[i].size = IF size >= size + n THEN size ELSE size + n
      BY <2>4
    <3>2. size \in Int /\ n \in Int /\ n > 0
      BY <1>2, <1>3, <1>6
    <3> QED
      BY <3>1, <3>2
  <2> DEFINE base == u.inode[i].block * BlockSize
             at == base + size
  <2>6. base \in Nat /\ at \in Nat
    <3>1. u.inode[i].block \in Nat
      BY <2>2, Sizes
    <3>2. base \in Nat
      <4>1. BlockSize \in Nat
        BY Sizes
      <4> QED
        BY <3>1, <4>1
    <3> HIDE DEF base
    <3> QED
      BY <1>2, <3>2
  <2>7. t.data = [p \in DOMAIN s.data |-> IF p \in at .. at + n - 1
                                             THEN text[p - at + 1] ELSE s.data[p]]
    <3>1. part = [k \in 1 .. n |-> text[k]] /\ Len(part) = n
      <4>1. n \in Nat /\ n <= Len(text)
        <5>1. Len(text) \in Nat /\ BlockSize \in Nat
          BY Sizes
        <5> QED
          BY <1>2, <1>3, <5>1 DEF n
      <4> QED
        BY <4>1
    <3> HIDE DEF part
    <3>2. Store(u, u.inode[i].block, size, part).data
            = [p \in DOMAIN u.data |-> IF p \in at .. at + Len(part) - 1
                                         THEN part[p - base - size + 1] ELSE u.data[p]]
      BY <2>1 DEF Store, Tables
    <3>3. DOMAIN u.data \subseteq Int
      <4>1. MaxBlocks * BlockSize - 1 \in Int
        BY Sizes
      <4>2. DOMAIN u.data = 0 .. MaxBlocks * BlockSize - 1
        BY <2>1 DEF Tables
      <4> QED
        BY <4>1, <4>2
    <3> HIDE DEF base
    <3>4. ASSUME NEW p \in Int, p \in at .. at + n - 1
          PROVE  part[p - base - size + 1] = text[p - at + 1]
      <4>0. size \in Int /\ base \in Int
        BY <1>2, <2>6, Sizes
      <4>1. p - base - size + 1 = p - at + 1
        BY <4>0
      <4>2. p - at + 1 \in 1 .. n
        <5> HIDE DEF at
        <5> QED
          BY <1>3, <2>6, <3>4
      <4> QED
        BY <3>1, <4>1, <4>2
    <3> HIDE DEF at
    <3>5. Store(u, u.inode[i].block, size, part).data
            = [p \in DOMAIN u.data |-> IF p \in at .. at + n - 1
                                         THEN text[p - at + 1] ELSE u.data[p]]
      BY <3>1, <3>2, <3>3, <3>4
    <3> QED
      BY <2>2, <2>4, <3>5
  <2>8. r.fs = t /\ r.ret = n
    BY <2>1, <2>4 DEF t
  <2>9. at = t.inode[i].block * BlockSize + size
    BY <2>4
  <2> HIDE DEF at
  <2>10. t.file[h].inum = i
    BY <1>1, <2>2, <2>4
  <2>11. /\ t.dir = s.dir /\ t.opened = s.opened /\ t.inode[i].block \in Blocks
         /\ size > 0 => t.inode[i].block = s.inode[i].block
         /\ t.file[h].offset = size + n /\ \A g \in Handles \ {h} : t.file[g] = s.file[g]
    BY <2>2, <2>4
  <2> HIDE DEF n
  <2>12. Appended(s, t, h, i, text, n, at)
    BY <2>5, <2>7, <2>9, <2>10, <2>11 DEF Appended
  <2> QED
    BY <1>6, <2>8, <2>12 DEF n, r
<1>7. n = 0 \/ n > 0
  BY <1>3
<1> QED
  BY <1>4, <1>5, <1>6, <1>7 DEF n

(* What tfs_read hands out of a file of that size, whose block is at base, *)
(* from the offset on: a zero there is passed over, and what follows is    *)
(* copied up to the next one or the end of the file.                       *)
HandedOut(s, base, size, off, h, r) ==
  LET q == IF s.data[base + off] = Nul THEN off + 1 ELSE off
  IN /\ off < size
     /\ \E m \in Nat : /\ q + m <= size
                       /\ \A k \in q .. q + m - 1 : s.data[base + k] # Nul
                       /\ q + m < size => s.data[base + q + m] = Nul
                       /\ r.ret = m
                       /\ r.out = [k \in 1 .. m |-> s.data[base + q + k - 1]]
                       /\ r.fs.file[h].offset = q + m

(* tfs_read of a file behind which there is nothing but zero bytes does so *)
(* as long as there is something to read; else it moves nothing.           *)
LEMMA ReadStops ==
  ASSUME NEW s \in Tables, NEW h \in s.opened
  PROVE  LET ino == s.inode[s.file[h].inum]
             size == ino.size
             off == s.file[h].offset
             base == ino.block * BlockSize
             r == Read(s, h, BlockSize)
         IN (/\ off <= size
             /\ size > 0 => ino.block \in Blocks
             /\ \A p \in DOMAIN s.data : p \notin base .. base + size - 1 => s.data[p] = Nul)
            => \/ r.fs = s /\ ~(r.ret > 0)
               \/ HandedOut(s, base, size, off, h, r)
<1> DEFINE ino == s.inode[s.file[h].inum]
           size == ino.size
           off == s.file[h].offset
           base == ino.block * BlockSize
           given == /\ off <= size
                    /\ size > 0 => ino.block \in Blocks
                    /\ \A p \in DOMAIN s.data : p \notin base .. base + size - 1 => s.data[p] = Nul
           toRead == size - off
           nulAt(k) == k \in DOMAIN s.data /\ s.data[k] = Nul
           start == base + off + IF nulAt(base + off) THEN 1 ELSE 0
           nuls == {k \in 0 .. toRead - 1 : nulAt(start + k)}
           n == IF nuls = {} THEN toRead ELSE Min(nuls)
           q == IF s.data[base + off] = Nul THEN off + 1 ELSE off
           moved == [s EXCEPT !.file[h].offset = start - base + n]
           r == Read(s, h, BlockSize)
           result == \/ r.fs = s /\ ~(r.ret > 0)
                     \/ HandedOut(s, base, size, off, h, r)
<1> SUFFICES ASSUME given PROVE result
  OBVIOUS
<1>1. /\ h \in Handles /\ off \in Nat /\ size \in 0 .. BlockSize /\ BlockSize \in Nat
      /\ size \in Nat /\ ino.block \in Blocks \cup {None}
  <2>1. h \in Handles /\ ino \in Inodes /\ off \in Nat
    BY DEF Tables
  <2>2. size \in 0 .. BlockSize /\ ino.block \in Blocks \cup {None}
    BY <2>1 DEF Inodes
  <2>3. BlockSize \in Nat
    BY Sizes
  <2> HIDE DEF ino, size, off
  <2> QED
    BY <2>1, <2>2, <2>3
<1> HIDE DEF ino, size, off, given
<1>2. off <= size /\ toRead \in 0 .. BlockSize /\ toRead \in Nat /\ toRead = size - off
  <2>1. off <= size
    BY DEF given
  <2> QED
    BY <1>1, <2>1
<1> HIDE DEF toRead, base, result
<1>3. r = Copy(s, h, toRead)
  <2>1. ToRead(s, h, BlockSize) = Min({toRead, BlockSize})
    <3>1. ~(size - off < 0)
      BY <1>2
    <3>2. ToRead(s, h, BlockSize) = Min({size - off, BlockSize})
      BY <3>1 DEF ToRead, off, size, ino
    <3> QED
      BY <1>2, <3>2
  <2>2. Min({toRead, BlockSize}) = IF toRead <= BlockSize THEN toRead ELSE BlockSize
    BY <1>1, <1>2, MinOfTwo
  <2>3. toRead <= BlockSize
    BY <1>2
  <2> QED
    BY <2>1, <2>2, <2>3 DEF Read
<1>5. CASE r \in {Return(s, 0), Return(s, Abort), Return(s, Undefined)}
  <2> HIDE DEF r, q
  <2>1. r.fs = s /\ r.ret \in {0, Abort, Undefined}
    BY <1>5 DEF Return
  <2>2. ~(r.ret > 0)
    BY <2>1 DEF Abort, Undefined
  <2> QED
    BY <2>1, <2>2 DEF result, r
<1>6. CASE /\ toRead # 0
           /\ nuls # {} \/ start + toRead - 1 \in DOMAIN s.data
           /\ r = [fs |-> moved, ret |-> n, out |-> [k \in 1 .. n |-> s.data[start + k - 1]]]
  <2>0. toRead # 0
    BY <1>6
  <2>1. off < size /\ ino.block \in Blocks /\ toRead > 0
    <3>1. off < size /\ toRead > 0 /\ size > 0
      BY <1>1, <1>2, <2>0
    <3> QED
      BY <3>1 DEF given
  <2>2. /\ base \in Nat /\ DOMAIN s.data = 0 .. MaxBlocks * BlockSize - 1
        /\ \A k \in 0 .. size - 1 : base + k \in DOMAIN s.data
    <3>1. \A k \in 0 .. size - 1 : k \in 0 .. BlockSize - 1
      BY <1>1
    <3>2. 0 \in 0 .. BlockSize - 1
      BY <1>1, <2>1
    <3>3. base \in Nat
      BY <2>1, <3>2, BlockInside DEF base
    <3>4. DOMAIN s.data = 0 .. MaxBlocks * BlockSize - 1
      BY DEF Tables
    <3> QED
      BY <2>1, <3>1, <3>3, <3>4, BlockInside DEF base
  <2> DEFINE all == DOMAIN s.data
  <2>3. off \in 0 .. size - 1 /\ base + off \in all
    BY <1>1, <2>1, <2>2
  <2>4. q \in Nat /\ q \in {off, off + 1}
    BY <1>1
  <2>5. start = base + q
    <3>1. nulAt(base + off) <=> s.data[base + off] = Nul
      BY <2>3
    <3> QED
      BY <1>1, <2>2, <3>1
  <2>6. nuls \in SUBSET Nat
    <3>1. 0 .. toRead - 1 \subseteq Nat
      BY <1>2
    <3> HIDE DEF start
    <3> QED
      BY <3>1
  <2>7. nuls # {} => n \in nuls /\ \A k \in nuls : n <= k
    <3>1. nuls # {} => n = Min(nuls)
      OBVIOUS
    <3> HIDE DEF nuls, n
    <3> QED
      BY <2>6, <3>1, MinIsLeast
  <2>8. nuls = {} => n = toRead
    OBVIOUS
  <2>9. \A k \in 0 .. toRead - 1 : k \in nuls <=> start + k \in all /\ s.data[start + k] = Nul
    OBVIOUS
  <2>10. \A k \in nuls : k \in 0 .. toRead - 1
    OBVIOUS
  <2>11. nuls # {} \/ start + toRead - 1 \in all
    BY <1>6
  <2>12. /\ r.ret = n /\ r.fs = moved
         /\ r.out = [k \in 1 .. n |-> s.data[start + k - 1]]
    BY <1>6
  <2>13. moved.file[h].offset = start - base + n
    BY <1>1 DEF Tables
  <2>14. \A p \in all : p \notin base .. base + size - 1 => s.data[p] = Nul
    BY DEF given
  <2>15. \A k \in 0 .. size - 1 : base + k \in all
    BY <2>2
  <2> HIDE DEF nuls, n, start, all, q, r, moved
  <2>16. n \in Nat /\ n <= toRead
    BY <1>2, <2>1, <2>7, <2>8, <2>10
  <2>17. \A k \in 0 .. n - 1 : ~(start + k \in all /\ s.data[start + k] = Nul)
    <3> SUFFICES ASSUME NEW k \in 0 .. n - 1, start + k \in all, s.data[start + k] = Nul
                 PROVE  FALSE
      OBVIOUS
    <3>1. k \in 0 .. toRead - 1
      BY <1>2, <2>16
    <3>2. k \in nuls
      BY <2>9, <3>1
    <3> QED
      BY <2>7, <2>16, <3>2
  <2>18. q + n <= size
    <3> SUFFICES ASSUME q + n > size PROVE FALSE
      BY <1>1, <2>4, <2>16
    <3>1. q = off + 1 /\ n = toRead
      BY <1>1, <1>2, <2>4, <2>16
    <3>2. nuls = {}
      <4> SUFFICES ASSUME nuls # {} PROVE FALSE
        OBVIOUS
      <4>1. n \in 0 .. toRead - 1
        BY <2>7, <2>10
      <4> QED
        BY <1>2, <3>1, <4>1
    <3>3. start + toRead - 1 = base + size /\ start + (toRead - 1) = base + size
      BY <1>1, <1>2, <2>2, <2>5, <3>1
    <3>4. base + size \in all /\ base + size \notin base .. base + size - 1
      BY <1>1, <2>2, <2>11, <3>2, <3>3
    <3>5. s.data[start + (toRead - 1)] = Nul
      BY <2>14, <3>3, <3>4
    <3>6. toRead - 1 \in 0 .. n - 1
      BY <1>2, <2>1, <3>1
    <3> QED
      BY <2>17, <3>3, <3>4, <3>5, <3>6
  <2>19. \A k \in q .. q + n - 1 : s.data[base + k] # Nul
    <3> SUFFICES ASSUME NEW k \in q .. q + n - 1 PROVE s.data[base + k] # Nul
      OBVIOUS
    <3>1. k - q \in 0 .. n - 1 /\ start + (k - q) = base + k
      BY <2>2, <2>4, <2>5, <2>16
    <3>2. k \in 0 .. size - 1
      BY <1>1, <2>4, <2>16, <2>18
    <3>3. base + k \in all
      BY <2>15, <3>2
    <3> QED
      BY <2>17, <3>1, <3>3
  <2>20. q + n < size => s.data[base + q + n] = Nul
    <3> SUFFICES ASSUME q + n < size PROVE s.data[base + q + n] = Nul
      OBVIOUS
    <3>1. nuls # {}
      BY <1>1, <1>2, <2>4, <2>8
    <3>2. s.data[start + n] = Nul
      BY <2>7, <2>9, <2>10, <3>1
    <3>3. start + n = base + q + n
      BY <2>5
    <3> QED
      BY <3>2, <3>3
  <2>21. r.out = [k \in 1 .. n |-> s.data[base + q + k - 1]] /\ r.fs.file[h].offset = q + n
    <3>1. start - base + n = q + n
      BY <2>2, <2>4, <2>5, <2>16
    <3> QED
      BY <2>5, <2>12, <2>13, <3>1
  <2>22. \E m \in Nat : /\ q + m <= size
                        /\ \A k \in q .. q + m - 1 : s.data[base + k] # Nul
                        /\ q + m < size => s.data[base + q + m] = Nul
                        /\ r.ret = m
                        /\ r.out = [k \in 1 .. m |-> s.data[base + q + k - 1]]
                        /\ r.fs.file[h].offset = q + m
    BY <2>12, <2>16, <2>18, <2>19, <2>20, <2>21
  <2>23. HandedOut(s, base, size, off, h, r)
    BY <2>1, <2>22 DEF HandedOut, q
  <2> QED
    BY <2>23 DEF result, r
<1>7. \/ r \in {Return(s, 0), Return(s, Abort), Return(s, Undefined)}
      \/ /\ toRead # 0
         /\ nuls # {} \/ start + toRead - 1 \in DOMAIN s.data
         /\ r = [fs |-> moved, ret |-> n, out |-> [k \in 1 .. n |-> s.data[start + k - 1]]]
  <2> HIDE DEF r
  <2> QED
    BY <1>3 DEF Copy, base, off, ino
<1> QED
  BY <1>5, <1>6, <1>7

(* tfs_open with TFS_O_CREAT writes nothing, and in an empty directory the *)
(* file it makes is the only one, and empty.                               *)
LEMMA OpenNewEmpty ==
  ASSUME NEW s \in Tables, NEW name \in Names, Lookup(s, name) = None,
         \A e \in Entries : s.dir[e].inum = None
  PROVE  LET r == Open(s, name, {"creat"})
         IN /\ r.fs.data = s.data
            /\ \A e \in Entries :
                 r.fs.dir[e].inum # None => r.fs.inode[r.fs.dir[e].inum].size = 0
<1> DEFINE new == CreateFile(s)
           i == new.ret
           added == AddDirEntry(new.fs, name, i)
           r == Open(s, name, {"creat"})
           k == FirstFree(Inums, s.inodes)
           t == [s EXCEPT !.inodes = @ \cup {k}, !.inode[k] = NewFile]
           Empty(u) == \A e \in Entries : u.dir[e].inum # None => u.inode[u.dir[e].inum].size = 0
<1>1. /\ k \in Inums \cup {None}
      /\ i = k /\ (k = None => new.fs = s) /\ (k # None => new.fs = t)
  BY FirstFreeType, Sizes DEF CreateFile, Return
<1>2. new.fs.data = s.data /\ new.fs.dir = s.dir /\ (i # None => new.fs.inode[i].size = 0)
  <2> HIDE DEF k, new
  <2>1. t.data = s.data /\ t.dir = s.dir
    BY DEF Tables
  <2>2. k # None => t.inode[k].size = 0
    <3> SUFFICES ASSUME k # None PROVE t.inode[k].size = 0
      OBVIOUS
    <3>1. k \in Inums
      BY <1>1
    <3>2. t.inode[k] = NewFile
      BY <3>1 DEF Tables
    <3> QED
      BY <3>2 DEF NewFile
  <2> HIDE DEF t
  <2> QED
    BY <1>1, <2>1, <2>2
<1>3. Empty(s) /\ Empty(new.fs)
  BY <1>2
<1>4. new.fs \in Tables /\ i \in Inums \cup {None}
  BY CreateFileType
<1> HIDE DEF new, k, t
<1>5. CASE i = None
  BY <1>3, <1>5 DEF Open, Return, new
<1>6. CASE i # None /\ ~Addable(s, name)
  <2>1. r.fs = InodeDelete(new.fs, i)
    BY <1>6 DEF Open, new, Return
  <2>2. /\ InodeDelete(new.fs, i).data = new.fs.data /\ InodeDelete(new.fs, i).dir = new.fs.dir
        /\ InodeDelete(new.fs, i).inode = new.fs.inode
    BY DEF InodeDelete
  <2> QED
    BY <1>2, <1>3, <2>1, <2>2
<1>7. CASE i # None /\ Addable(s, name)
  <2>1. r = AddToOpenFileTable(added, i, 0)
    BY <1>7 DEF Open, new
  <2>2. added.data = new.fs.data /\ added.inode = new.fs.inode
    BY DEF AddDirEntry
  <2>3. r.fs.data = added.data /\ r.fs.inode = added.inode /\ r.fs.dir = added.dir
    <3> HIDE DEF added, r
    <3> QED
      BY <2>1 DEF AddToOpenFileTable, Return
  <2>4. PICK e \in Entries : added.dir = [s.dir EXCEPT ![e] = [name |-> name, inum |-> i]]
    <3> DEFINE e == Min({x \in Entries : new.fs.dir[x].inum = None})
    <3>1. e \in Entries
      BY <1>2, <1>7, FreeEntry DEF Addable
    <3>2. added = [new.fs EXCEPT !.dir[e] = [name |-> name, inum |-> i]]
      BY <1>2, <1>7 DEF AddDirEntry, Addable
    <3> HIDE DEF e
    <3>3. added.dir = [new.fs.dir EXCEPT ![e] = [name |-> name, inum |-> i]]
      BY <1>4, <3>2 DEF Tables
    <3> QED
      BY <1>2, <3>1, <3>3
  <2>5. Entries = DOMAIN s.dir
    BY DEF Tables
  <2> HIDE DEF added, i, r
  <2>6. Empty(r.fs)
    BY <1>2, <1>7, <2>2, <2>3, <2>4, <2>5
  <2> QED
    BY <1>2, <2>2, <2>3, <2>6 DEF r
<1> QED
  BY <1>5, <1>6, <1>7
=============================================================================
