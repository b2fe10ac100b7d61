---------------------------- MODULE BoxesProofs ----------------------------
(***************************************************************************)
(* The table of message boxes, for any number of workers, names, passwords *)
(* and slots and file systems of any size.                                 *)
(***************************************************************************)
EXTENDS Boxes, TfsStateProofs

(* The names of the files there are. *)
Filed(s) == {n \in Names : Lookup(s, n) # None}

(* What the broker's calls keep of TecnicoFS: it has no links, entries lead *)
(* to inodes in use, and no two have one name.                             *)
DirOK(s) ==
  /\ s \in Tables /\ NoLinks(s) /\ NamesOK(s)
  /\ \A e, f \in Entries : s.dir[e].inum # None /\ s.dir[f].inum # None
                           /\ s.dir[e].name = s.dir[f].name => e = f

(* A name is that of a file if an entry has it. *)
LEMMA FiledIf ==
  ASSUME NEW s, NEW name
  PROVE  Lookup(s, name) # None <=> \E e \in Entries : s.dir[e].inum # None /\ s.dir[e].name = name
<1>1. CASE \E e \in Entries : s.dir[e].inum # None /\ s.dir[e].name = name
  <2>1. {e \in Entries : s.dir[e].inum # None /\ s.dir[e].name = name} # {}
    BY <1>1
  <2> QED
    BY <1>1, <2>1, LookupFound
<1>2. CASE ~\E e \in Entries : s.dir[e].inum # None /\ s.dir[e].name = name
  <2>1. {e \in Entries : s.dir[e].inum # None /\ s.dir[e].name = name} = {}
    BY <1>2
  <2> QED
    BY <1>2, <2>1, LookupFound
<1> QED
  BY <1>1, <1>2

(* The names of files depend on the directory only. *)
LEMMA FiledSame ==
  ASSUME NEW s, NEW t, t.dir = s.dir
  PROVE  Filed(t) = Filed(s)
BY LookupSame DEF Filed

(* The file system the broker starts with. *)
LEMMA InitialDir == DirOK(InitialState) /\ Filed(InitialState) = {} /\ InitialState.opened = {}
<1>1. InitialState \in Tables /\ NoLinks(InitialState)
  BY InitialStateType DEF InitialState, NoLinks
<1>2. \A e \in Entries : InitialState.dir[e] = [name |-> NoName, inum |-> None]
  BY DEF InitialState
<1>3. NamesOK(InitialState)
  <2>1. InitialState.inodes = {Root} /\ InitialState.inode[Root].count = 0
    BY Sizes DEF InitialState
  <2>2. Naming(InitialState, Root) = {}
    <3>1. None # Root
      BY Sizes
    <3>2. \A e \in Entries : InitialState.dir[e].inum # Root
      BY <1>2, <3>1
    <3> QED
      BY <3>2 DEF Naming
  <2>3. Cardinality(Naming(InitialState, Root)) = 0
    BY <2>2, NamingCounted
  <2> QED
    BY <1>2, <2>1, <2>3 DEF NamesOK
<1>4. Filed(InitialState) = {}
  BY <1>2, FiledIf DEF Filed
<1>5. InitialState.opened = {}
  BY DEF InitialState
<1> QED
  BY <1>1, <1>2, <1>3, <1>4, <1>5 DEF DirOK

(* A handler that opens a box's file and creates none. *)
LEMMA Opens ==
  ASSUME NEW s, DirOK(s), NEW name \in Names, NEW mode, {"creat", "trunc"} \cap mode = {}
  PROVE  LET r == Open(s, name, mode)
         IN /\ DirOK(r.fs) /\ Filed(r.fs) = Filed(s)
            /\ r.ret \in Handles \cup {None}
            /\ r.fs.opened = s.opened \cup ({r.ret} \ {None})
<1> DEFINE r == Open(s, name, mode)
<1>1. s \in Tables /\ NoLinks(s) /\ NamesOK(s)
  BY DEF DirOK
<1>2. /\ r.fs.dir = s.dir /\ r.fs.inode = s.inode
      /\ r.ret \in (Handles \ s.opened) \cup {None}
      /\ r.ret = None => r.fs = s
      /\ r.ret # None => r.fs.opened = s.opened \cup {r.ret}
  BY <1>1, OpenTakesHandle
<1>3. r.fs \in Tables /\ NamesOK(r.fs)
  BY <1>1, OpenType, OpenNames
<1> HIDE DEF r
<1>4. DirOK(r.fs)
  BY <1>2, <1>3 DEF DirOK, NoLinks
<1>5. Filed(r.fs) = Filed(s)
  BY <1>2, FiledSame
<1> QED
  BY <1>2, <1>4, <1>5 DEF r

(* Closing a handle, or what is none. *)
LEMMA Closes ==
  ASSUME NEW s, DirOK(s), NEW h
  PROVE  LET t == Close(s, h).fs
         IN DirOK(t) /\ Filed(t) = Filed(s) /\ t.opened = s.opened \ {h}
<1> DEFINE t == Close(s, h).fs
<1>1. t \in Tables /\ NamesOK(t)
  BY CloseType, HandleCallsNames DEF DirOK
<1>2. t.dir = s.dir /\ t.inode = s.inode /\ t.opened = s.opened \ {h}
  BY DEF Close, Return, DirOK, Tables
<1> HIDE DEF t
<1>3. DirOK(t)
  BY <1>1, <1>2 DEF DirOK, NoLinks
<1> QED
  BY <1>2, <1>3, FiledSame DEF t

(* process_manager_create makes the file and closes it.  If it was not     *)
(* there and a handle is left, it is there afterwards exactly if tfs_open  *)
(* did not fail.                                                           *)
LEMMA Makes ==
  ASSUME NEW s, DirOK(s), NEW name \in Names
  PROVE  LET r == Open(s, name, {"creat"})
             t == Close(r.fs, r.ret).fs
         IN /\ DirOK(t) /\ t.opened \subseteq s.opened
            /\ Lookup(s, name) = None /\ ~(Handles \subseteq s.opened) =>
                 Filed(t) = IF r.ret = None THEN Filed(s) ELSE Filed(s) \cup {name}
<1> DEFINE r == Open(s, name, {"creat"})
           t == Close(r.fs, r.ret).fs
<1>1. s \in Tables /\ NoLinks(s) /\ NamesOK(s)
  BY DEF DirOK
<1>2. r.fs \in Tables /\ NoLinks(r.fs) /\ NamesOK(r.fs)
  BY <1>1, OpenType, OpenNoLinks, OpenNames
<1>3. CASE Lookup(s, name) # None
  <2> DEFINE i == Lookup(s, name)
             h == FirstFree(Handles, s.opened)
  <2>1. i \in Inums \cup {None} /\ GetPath(s, i) = i /\ (i # None => s.inode[i].type # "link")
    BY <1>1, LookupType, GetPathSame DEF NoLinks
  <2>2. r = AddToOpenFileTable(s, i, 0)
    BY <1>3, <2>1 DEF Open
  <2>3. r.fs.dir = s.dir /\ r.fs.opened = s.opened \cup ({r.ret} \ {None})
    <3> DEFINE v == [s EXCEPT !.opened = @ \cup {h}, !.file[h] = [inum |-> i, offset |-> 0]]
    <3>1. v.dir = s.dir /\ v.opened = s.opened \cup {h}
      BY <1>1 DEF Tables
    <3>2. r = IF h = None THEN Return(s, None) ELSE Return(v, h)
      BY <2>2 DEF AddToOpenFileTable
    <3> HIDE DEF r, h, v
    <3> QED
      BY <3>1, <3>2 DEF Return
  <2> HIDE DEF r
  <2>4. DirOK(r.fs)
    BY <1>2, <2>3 DEF DirOK
  <2> QED
    BY <1>3, <2>3, <2>4, Closes DEF r
<1>4. CASE Lookup(s, name) = None
  <2> DEFINE room == ~(Inums \subseteq s.inodes) /\ Addable(s, name)
  <2>1. /\ r.fs.opened = s.opened \cup ({r.ret} \ {None})
        /\ ~room => r.ret = None /\ r.fs.dir = s.dir
        /\ room => /\ ~(Handles \subseteq s.opened) => r.ret # None
                   /\ \E e \in Entries, i \in Inums :
                        /\ s.dir[e].inum = None
                        /\ r.fs.dir = [s.dir EXCEPT ![e] = [name |-> name, inum |-> i]]
    BY <1>1, <1>4, OpenNew
  <2> HIDE DEF r, room
  <2>2. CASE ~room
    <3>1. DirOK(r.fs)
      BY <1>2, <2>1, <2>2 DEF DirOK
    <3>2. Filed(r.fs) = Filed(s)
      BY <2>1, <2>2, FiledSame
    <3> QED
      BY <2>1, <2>2, <3>1, <3>2, Closes DEF r
  <2>3. CASE room
    <3>1. PICK e \in Entries, i \in Inums :
            /\ s.dir[e].inum = None
            /\ r.fs.dir = [s.dir EXCEPT ![e] = [name |-> name, inum |-> i]]
      BY <2>1, <2>3
    <3>2. /\ r.fs.dir[e].name = name /\ r.fs.dir[e].inum # None
          /\ \A f \in Entries \ {e} : r.fs.dir[f] = s.dir[f]
      BY <1>1, <3>1, Sizes DEF Tables
    <3>3. \A f \in Entries : s.dir[f].inum # None => s.dir[f].name # name
      BY <1>4, FiledIf
    <3>4. DirOK(r.fs)
      BY <1>2, <3>2, <3>3 DEF DirOK
    <3>5. \A n \in Names : Lookup(r.fs, n) # None <=> (Lookup(s, n) # None \/ n = name)
      <4> SUFFICES ASSUME NEW n \in Names
                   PROVE  Lookup(r.fs, n) # None <=> (Lookup(s, n) # None \/ n = name)
        OBVIOUS
      <4>1. Lookup(r.fs, n) # None <=> \E f \in Entries : r.fs.dir[f].inum # None /\ r.fs.dir[f].name = n
        BY FiledIf
      <4>2. Lookup(s, n) # None <=> \E f \in Entries : s.dir[f].inum # None /\ s.dir[f].name = n
        BY FiledIf
      <4> QED
        BY <3>1, <3>2, <4>1, <4>2
    <3>6. Filed(r.fs) = Filed(s) \cup {name}
      BY <3>5 DEF Filed
    <3>7. DirOK(t) /\ Filed(t) = Filed(r.fs) /\ t.opened = r.fs.opened \ {r.ret}
      BY <3>4, Closes
    <3> HIDE DEF t
    <3>8. /\ DirOK(t) /\ t.opened \subseteq s.opened
          /\ ~(Handles \subseteq s.opened) => r.ret # None /\ Filed(t) = Filed(s) \cup {name}
      BY <2>1, <2>3, <3>6, <3>7
    <3> QED
      BY <3>8 DEF r, t
  <2> QED
    BY <2>2, <2>3
<1> QED
  BY <1>3, <1>4

(* tfs_unlink of a name: it succeeds exactly on a file there is, which is  *)
(* then gone, and nothing else.                                            *)
LEMMA Removes ==
  ASSUME NEW s, DirOK(s), NEW name \in Names
  PROVE  LET r == Unlink(s, name)
         IN /\ DirOK(r.fs) /\ r.fs.opened = s.opened
            /\ r.ret = 0 <=> Lookup(s, name) # None
            /\ Filed(r.fs) = Filed(s) \ {name}
<1> DEFINE i == Lookup(s, name)
           r == Unlink(s, name)
           t == ClearDirEntry(s, name)
<1>1. s \in Tables /\ NoLinks(s) /\ NamesOK(s) /\ r.fs \in Tables /\ NamesOK(r.fs)
  BY UnlinkType, UnlinkNames DEF DirOK
<1>2. CASE i = None
  <2>1. r = Return(s, None)
    BY <1>2 DEF Unlink
  <2>2. r.fs = s /\ r.ret = None /\ None # 0
    BY <2>1, Sizes DEF Return
  <2>3. Filed(s) = Filed(s) \ {name}
    BY <1>2 DEF Filed
  <2> QED
    BY <1>2, <2>2, <2>3
<1>3. CASE i # None
  <2>1. i \in s.inodes \ {Root} /\ t.inodes = s.inodes /\ t.inode = s.inode /\ t \in Tables
    BY <1>1, <1>3, ClearDirEntryNames, ClearDirEntryType
  <2>2. t.opened = s.opened
    BY DEF ClearDirEntry
  <2>3. r = DropLink(t, i)
    BY <1>3 DEF Unlink
  <2>4. PICK e \in Entries : s.dir[e].inum # None /\ s.dir[e].name = name
    BY <1>3, FiledIf
  <2>5. \A f \in Entries : s.dir[f].name = name <=> f = e
    <3>1. \A f \in Entries : s.dir[f].name = name => s.dir[f].inum # None
      BY <1>1, TfsAssumption DEF NamesOK
    <3> QED
      BY <2>4, <3>1 DEF DirOK
  <2>6. t.dir[e] = [name |-> NoName, inum |-> None] /\ \A f \in Entries \ {e} : t.dir[f] = s.dir[f]
    <3> DEFINE found == {f \in Entries : s.dir[f].name = name}
    <3>1. found = {e}
      BY <2>5
    <3>2. Min(found) = e
      BY <3>1, MinIsLeast, Sizes
    <3>3. t = [s EXCEPT !.dir[Min(found)] = [name |-> NoName, inum |-> None]]
      BY <3>1 DEF ClearDirEntry
    <3> HIDE DEF found
    <3> QED
      BY <1>1, <3>2, <3>3 DEF Tables
  <2> HIDE DEF t, i
  <2>7. /\ r.fs.dir = t.dir /\ r.fs.opened = t.opened /\ r.ret = 0
        /\ \A j \in Inums : r.fs.inode[j].type = t.inode[j].type
    <3>1. CASE t.inode[i].count > 1
      <4> DEFINE u == [t EXCEPT !.inode[i].count = @ - 1]
      <4>1. r = Return(u, 0)
        BY <2>3, <3>1 DEF DropLink
      <4>2. /\ u.dir = t.dir /\ u.opened = t.opened
            /\ \A j \in Inums : u.inode[j].type = t.inode[j].type
        BY <2>1 DEF Tables, Inodes
      <4> HIDE DEF u
      <4> QED
        BY <4>1, <4>2 DEF Return
    <3>2. CASE ~(t.inode[i].count > 1)
      <4> DEFINE u == InodeDelete(t, i)
      <4>1. r = Return(u, 0)
        BY <2>1, <2>3, <3>2 DEF DropLink
      <4>2. u.dir = t.dir /\ u.opened = t.opened /\ u.inode = t.inode
        BY DEF InodeDelete
      <4> HIDE DEF r, u
      <4> QED
        BY <4>1, <4>2 DEF Return
    <3> QED
      BY <3>1, <3>2
  <2> HIDE DEF r
  <2>8. NoLinks(r.fs)
    BY <1>1, <2>1, <2>7 DEF NoLinks
  <2>9. DirOK(r.fs)
    BY <1>1, <2>6, <2>7, <2>8 DEF DirOK
  <2>10. \A n \in Names : Lookup(r.fs, n) # None <=> (Lookup(s, n) # None /\ n # name)
    BY <2>4, <2>5, <2>6, <2>7, FiledIf
  <2>11. Filed(r.fs) = Filed(s) \ {name}
    BY <2>10 DEF Filed
  <2> QED
    BY <1>3, <2>2, <2>7, <2>9, <2>11 DEF i, r
<1> QED
  BY <1>2, <1>3

-----------------------------------------------------------------------------
(* The steps of a handler that still uses its request, those that keep     *)
(* box_size_lock, those that use the worker's index, those of a creation   *)
(* that has taken its slot, and those of a publisher that n_pub counts.    *)
Creating == {"create_file", "create_made", "create_failed"}
Asking == {"pub", "sub", "create", "remove", "list", "unlock", "lock", "create_file"} \cup Sessions
Holding == {"pub_refuse", "create_refuse", "remove_answer"} \cup Creating
Writing == {"pub_pipe", "pub_open", "publishing"}

(* Types; the lock's owner is the worker whose step says so; and an index  *)
(* that is used is one of the table's.                                     *)
TypeInv ==
  /\ TypeOK
  /\ DirOK(fs)
  /\ \A w \in Workers : pc[w] \in Asking => client[w].name \in Names
  /\ \A w \in Workers : pc[w] \in Holding <=> box_size_lock = w
  /\ \A w \in Workers : pc[w] \in Creating \cup Sessions => index[w] \in DOMAIN slots

(* A slot is marked free exactly while it has no name, and no two slots    *)
(* have one name.                                                          *)
NamesInv ==
  /\ \A i \in DOMAIN slots : slots[i].free = 1 <=> slots[i].name # NoName
  /\ \A i, j \in DOMAIN slots : slots[i].name = slots[j].name /\ slots[i].name # NoName => i = j

(* Open handles belong to workers in a session, a creation has a slot that *)
(* no other uses, and the files are those of the boxes there are.          *)
FilesInv ==
  /\ \A h \in fs.opened : \E w \in Workers : handle[w] = h
  /\ \A w \in Workers : handle[w] # None => pc[w] \in {"sub_pipe", "subscribed", "publishing"}
  /\ \A w \in Workers : pc[w] \in Creating => slots[index[w]].free = 1
  /\ \A w \in Workers : pc[w] = "create_file" => slots[index[w]].name = client[w].name
  /\ Filed(fs) = BoxNames

(* As long as no box is removed in use, a session's slot holds its box, and *)
(* n_pub is up while a publisher is in it, and one publisher only.         *)
UseInv ==
  /\ \A w \in Workers : pc[w] \in Sessions => /\ index[w] \in Existing
                                              /\ slots[index[w]].name = client[w].name
  /\ \A w \in Workers : pc[w] \in Writing => slots[index[w]].n_pub = 1
  /\ \A v, w \in Workers : pc[v] \in Writing /\ pc[w] \in Writing /\ index[v] = index[w] => v = w
  /\ \A w \in Workers : pc[w] = "create_file" => slots[index[w]].password = client[w].password

-----------------------------------------------------------------------------
Slot == [free : {0, 1}, name : Names \cup {NoName}, password : Passwords, n_pub : {0, 1}]
Request == [name : Names \cup {NoName}, password : Passwords, new : Passwords,
            fifo : {"absent", "made", "open"}]

(* What the constants are. *)
LEMMA Sorts ==
  /\ Nobody \notin Workers /\ NoPassword \in Passwords /\ NoName \notin Names
  /\ MaxSlots \in Nat /\ Cardinality(Workers) \in 1 .. MaxSlots
  /\ \A k \in Kinds : k \notin Creating \cup Holding \cup Sessions \cup Writing
  /\ EmptySlot \in Slot /\ NoClient \in Request
<1>1. Cardinality(Workers) \in Nat /\ Cardinality(Workers) # 0
  BY BoxesAssumption, FS_CardinalityType, FS_EmptySet
<1>2. MaxSlots \in Nat /\ Cardinality(Workers) <= MaxSlots
  BY BoxesAssumption
<1>3. Cardinality(Workers) \in 1 .. MaxSlots
  BY <1>1, <1>2
<1>4. Kinds \subseteq {"pub", "sub", "create", "remove", "list", "unlock", "lock"}
  BY BoxesAssumption
<1>5. EmptySlot \in Slot /\ NoClient \in Request
  BY BoxesAssumption DEF EmptySlot, Slot, NoClient, Request
<1>6. \A k \in Kinds : k \notin Creating \cup Holding \cup Sessions \cup Writing
  BY <1>4 DEF Creating, Holding, Sessions, Writing
<1> QED
  BY <1>2, <1>3, <1>5, <1>6, BoxesAssumption, TfsAssumption

(* The table has at least one slot and at most MaxSlots. *)
LEMMA TableIs ==
  ASSUME TypeOK
  PROVE  \E n \in 1 .. MaxSlots :
           /\ slots \in [0 .. n - 1 -> Slot] /\ DOMAIN slots = 0 .. n - 1
           /\ DOMAIN slots \subseteq Nat /\ DOMAIN slots \subseteq 0 .. MaxSlots - 1
           /\ IsFiniteSet(DOMAIN slots) /\ Cardinality(DOMAIN slots) = n
<1>1. PICK n \in 1 .. MaxSlots : slots \in [0 .. n - 1 -> Slot]
  BY DEF TypeOK, Slot
<1>2. DOMAIN slots = 0 .. n - 1
  BY <1>1
<1>3. n \in Nat /\ n >= 1 /\ n <= MaxSlots /\ MaxSlots \in Nat
  BY Sorts
<1>4. IsFiniteSet(0 .. n - 1) /\ Cardinality(0 .. n - 1) = n
  <2>1. 0 \in Int /\ n - 1 \in Int /\ ~(0 > n - 1) /\ (n - 1) - 0 + 1 = n
    BY <1>3
  <2> QED
    BY <2>1, FS_Interval
<1>5. 0 .. n - 1 \subseteq Nat /\ 0 .. n - 1 \subseteq 0 .. MaxSlots - 1
  BY <1>3
<1> QED
  BY <1>1, <1>2, <1>4, <1>5

(* The loop over the table finds a slot of the name if there is one. *)
LEMMA FindIs ==
  ASSUME TypeOK, NEW name
  PROVE  /\ Find(name) = None <=> \A i \in DOMAIN slots : slots[i].name # name
         /\ Find(name) # None => Find(name) \in DOMAIN slots /\ slots[Find(name)].name = name
<1> DEFINE found == {i \in DOMAIN slots : slots[i].name = name}
<1>1. DOMAIN slots \subseteq Nat
  BY TableIs
<1>2. Find(name) = IF found = {} THEN None ELSE Min(found)
  BY DEF Find
<1>3. found \in SUBSET Nat
  BY <1>1
<1>4. found # {} => Min(found) \in found /\ Min(found) # None
  <2> HIDE DEF found
  <2> QED
    BY <1>3, MinIsLeast, Sizes
<1>5. found # {} => Min(found) \in DOMAIN slots /\ slots[Min(found)].name = name
  BY <1>4
<1>6. found = {} <=> \A i \in DOMAIN slots : slots[i].name # name
  OBVIOUS
<1> HIDE DEF found
<1> QED
  BY <1>2, <1>4, <1>5, <1>6

(* The first free slot, of a table that has one. *)
LEMMA FreeSlot ==
  ASSUME NEW table, DOMAIN table \subseteq Nat, \E k \in DOMAIN table : table[k].free = 0
  PROVE  LET i == Min({k \in DOMAIN table : table[k].free = 0})
         IN i \in DOMAIN table /\ table[i].free = 0
<1> DEFINE free == {k \in DOMAIN table : table[k].free = 0}
<1>1. free \in SUBSET Nat /\ free # {}
  OBVIOUS
<1>2. Min(free) \in free
  <2> HIDE DEF free
  <2> QED
    BY <1>1, MinIsLeast
<1> QED
  BY <1>2

(* Twice the slots: the old ones first, and then free ones. *)
LEMMA GrownIs ==
  ASSUME TypeOK
  PROVE  \E m \in Nat :
           /\ Grown \in [0 .. m - 1 -> Slot] /\ DOMAIN Grown = 0 .. m - 1
           /\ Cardinality(DOMAIN Grown) = m /\ m >= 1 /\ DOMAIN Grown \subseteq Nat
           /\ DOMAIN slots \subseteq DOMAIN Grown
           /\ \A i \in DOMAIN slots : Grown[i] = slots[i]
           /\ \A i \in DOMAIN Grown \ DOMAIN slots : Grown[i] = EmptySlot
           /\ \E i \in DOMAIN Grown : Grown[i].free = 0
<1>1. PICK n \in 1 .. MaxSlots :
        /\ slots \in [0 .. n - 1 -> Slot] /\ DOMAIN slots = 0 .. n - 1
        /\ Cardinality(DOMAIN slots) = n
  BY TableIs
<1> DEFINE m == 2 * n
<1>2. n \in Nat /\ n >= 1
  BY Sorts
<1>3. m \in Nat /\ m >= 1 /\ 0 .. n - 1 \subseteq 0 .. m - 1 /\ n \in (0 .. m - 1) \ (0 .. n - 1)
      /\ 0 .. m - 1 \subseteq Nat
  BY <1>2
<1>4. Grown = [i \in 0 .. m - 1 |-> IF i \in 0 .. n - 1 THEN slots[i] ELSE EmptySlot]
  BY <1>1 DEF Grown
<1>5. Cardinality(0 .. m - 1) = m
  <2>1. 0 \in Int /\ m - 1 \in Int /\ ~(0 > m - 1) /\ (m - 1) - 0 + 1 = m
    BY <1>3
  <2> HIDE DEF m
  <2> QED
    BY <2>1, FS_Interval
<1> HIDE DEF m
<1>6. Grown[n] = EmptySlot /\ EmptySlot.free = 0
  BY <1>3, <1>4 DEF EmptySlot
<1>7. Grown \in [0 .. m - 1 -> Slot]
  BY <1>1, <1>4, Sorts
<1>8. /\ DOMAIN Grown = 0 .. m - 1
      /\ \A i \in 0 .. n - 1 : Grown[i] = slots[i]
      /\ \A i \in (0 .. m - 1) \ (0 .. n - 1) : Grown[i] = EmptySlot
  BY <1>3, <1>4
<1>9. \E i \in DOMAIN Grown : Grown[i].free = 0
  BY <1>3, <1>6, <1>8
<1> QED
  BY <1>1, <1>3, <1>5, <1>7, <1>8, <1>9

-----------------------------------------------------------------------------
(* What a step of worker w leaves to the others. *)
Alone(w) == \A v \in Workers \ {w} : /\ pc'[v] = pc[v] /\ index'[v] = index[v]
                                     /\ handle'[v] = handle[v] /\ client'[v] = client[v]

(* The lock is taken, kept or released as w's places say. *)
LockMoves(w) ==
  \/ pc'[w] \in Holding /\ box_size_lock' = w /\ (box_size_lock = Nobody \/ pc[w] \in Holding)
  \/ pc'[w] \notin Holding /\ pc[w] \in Holding /\ box_size_lock' = Nobody
  \/ pc'[w] \notin Holding /\ pc[w] \notin Holding /\ box_size_lock' = box_size_lock

(* Steps that touch neither table: w waits, is turned away, answers; its   *)
(* session or creation, if it is in one, goes on.                          *)
Quiet(w) ==
  /\ UNCHANGED <<fs, slots, index, handle>> /\ up' \in BOOLEAN
  /\ pc' \in [Workers -> Labels] /\ client' \in [Workers -> Request]
  /\ Alone(w) /\ LockMoves(w)
  /\ pc'[w] \in Asking => client'[w].name \in Names
  /\ \/ pc[w] \notin Creating \cup Sessions /\ pc'[w] \notin Creating \cup Sessions
     \/ /\ <<pc[w], pc'[w]>> \in {<<"pub_pipe", "pub_open">>, <<"sub_pipe", "subscribed">>}
                                \cup {<<label, label>> : label \in Labels}
        /\ client'[w].name = client[w].name /\ client'[w].password = client[w].password

(* The steps that touch them, where an action has others besides. *)
PubAdmit(w) ==
  LET i == Named(w)
  IN /\ Enter(w, "pub") /\ slots[i].n_pub # 1 /\ Admitted(w, i)
     /\ index' = [index EXCEPT ![w] = i]
     /\ slots' = [slots EXCEPT ![i].n_pub = 1]
     /\ Goto(w, "pub_pipe")
     /\ UNCHANGED <<fs, up, box_size_lock, handle>>

SubAdmit(w) ==
  LET i == Named(w)
  IN /\ Enter(w, "sub") /\ Admitted(w, i)
     /\ index' = [index EXCEPT ![w] = i]
     /\ Goto(w, "sub_open")
     /\ UNCHANGED <<fs, up, slots, box_size_lock, handle>>

SlotTaken(w) ==
  \E table \in {slots, Grown} :
    LET i == Min({k \in DOMAIN table : table[k].free = 0})
    IN /\ Enter(w, "create") /\ Keep(w) /\ Named(w) = None
       /\ \E k \in DOMAIN table : table[k].free = 0
       /\ Cardinality(DOMAIN table) <= MaxSlots
       /\ index' = [index EXCEPT ![w] = i]
       /\ slots' = [table EXCEPT ![i].free = 1, ![i].name = client[w].name,
                                 ![i].password = client[w].password]
       /\ Goto(w, "create_file")
       /\ UNCHANGED <<fs, up, handle>>

Removed(w) ==
  LET i == Named(w)
      at == IF i = None THEN index[w] ELSE i
      r == Unlink(fs, client[w].name)
  IN /\ Enter(w, "remove") /\ Keep(w)
     /\ Careful /\ i # None => ~InUse(i)
     /\ i # None => Admitted(w, i)
     /\ index' = [index EXCEPT ![w] = at]
     /\ fs' = r.fs
     /\ slots' = IF r.ret = 0 /\ at \in DOMAIN slots THEN [slots EXCEPT ![at] = EmptySlot]
                                                     ELSE slots
     /\ up' \in BOOLEAN
     /\ Conclude(w, "remove_answer")
     /\ UNCHANGED handle

PasswordSet(w, password) ==
  LET i == Named(w)
  IN /\ \E kind \in {"unlock", "lock"} : Enter(w, kind)
     /\ Admitted(w, i)
     /\ index' = [index EXCEPT ![w] = i]
     /\ slots' = [slots EXCEPT ![i].password = password]
     /\ Conclude(w, "answer")
     /\ UNCHANGED <<fs, up, box_size_lock, handle>>

Touching(w) ==
  \/ PubAdmit(w) \/ SubAdmit(w) \/ PubOpen(w) \/ SubOpen(w) \/ PubEnd(w) \/ SubEnd(w)
  \/ SlotTaken(w) \/ CreateBoxFile(w) \/ CreateAnswer(w) \/ Removed(w)
  \/ \E password \in Passwords : PasswordSet(w, password)

(* What a worker and its client do to the places and requests. *)
LEMMA PlacesMove ==
  ASSUME TypeInv, NEW w \in Workers
  PROVE  /\ \A label : Goto(w, label) =>
              /\ \A v \in Workers \ {w} : pc'[v] = pc[v]
              /\ pc'[w] = label /\ client' = client
              /\ label \in Labels => pc' \in [Workers -> Labels]
         /\ \A label : Conclude(w, label) =>
              /\ \A v \in Workers \ {w} : pc'[v] = pc[v] /\ client'[v] = client[v]
              /\ pc'[w] = label /\ client' \in [Workers -> Request]
              /\ label \in Labels => pc' \in [Workers -> Labels]
         /\ Leave(w) =>
              /\ \A v \in Workers \ {w} : pc'[v] = pc[v] /\ client'[v] = client[v]
              /\ pc'[w] = "idle" /\ client' \in [Workers -> Request]
              /\ pc' \in [Workers -> Labels]
<1> USE DEF TypeInv, TypeOK
<1>1. pc \in [Workers -> Labels] /\ client \in [Workers -> Request]
  BY DEF Request
<1>2. [NoClient EXCEPT !.fifo = client[w].fifo] \in Request /\ NoClient \in Request
  BY <1>1, Sorts DEF Request, NoClient
<1> USE <1>1, <1>2
<1>3. ASSUME NEW label, Goto(w, label)
      PROVE  /\ \A v \in Workers \ {w} : pc'[v] = pc[v]
             /\ pc'[w] = label /\ client' = client
             /\ label \in Labels => pc' \in [Workers -> Labels]
  BY <1>3 DEF Goto
<1>4. ASSUME NEW label, Conclude(w, label)
      PROVE  /\ \A v \in Workers \ {w} : pc'[v] = pc[v] /\ client'[v] = client[v]
             /\ pc'[w] = label /\ client' \in [Workers -> Request]
             /\ label \in Labels => pc' \in [Workers -> Labels]
  BY <1>4 DEF Conclude
<1>5. ASSUME Leave(w)
      PROVE  /\ \A v \in Workers \ {w} : pc'[v] = pc[v] /\ client'[v] = client[v]
             /\ pc'[w] = "idle" /\ client' \in [Workers -> Request]
             /\ pc' \in [Workers -> Labels]
  <2>1. "idle" \in Labels
    BY DEF Labels
  <2> QED
    BY <1>5, <2>1 DEF Leave
<1> QED
  BY <1>3, <1>4, <1>5

(* A step at which w is done with its request, before or after it has      *)
(* touched a table.                                                        *)
LEMMA Turned ==
  ASSUME TypeInv, NEW w \in Workers, NEW label \in Labels,
         label \notin Asking \cup Creating,
         Conclude(w, label) \/ (Leave(w) /\ label = "idle"),
         pc[w] \notin Creating \cup Sessions,
         UNCHANGED <<fs, slots, index, handle>>, up' \in BOOLEAN,
         IF label \in Holding
           THEN box_size_lock' = w /\ (box_size_lock = Nobody \/ pc[w] \in Holding)
           ELSE box_size_lock' = IF pc[w] \in Holding THEN Nobody ELSE box_size_lock
  PROVE  Quiet(w)
<1>1. /\ \A v \in Workers \ {w} : pc'[v] = pc[v] /\ client'[v] = client[v]
      /\ pc'[w] = label /\ client' \in [Workers -> Request] /\ pc' \in [Workers -> Labels]
  BY PlacesMove
<1>2. Alone(w)
  BY <1>1 DEF Alone
<1>3. LockMoves(w)
  BY <1>1 DEF LockMoves
<1>4. label \notin Sessions
  BY DEF Asking
<1> QED
  BY <1>1, <1>2, <1>3, <1>4 DEF Quiet

(* Every step is quiet or touches a table. *)
LEMMA StepIs ==
  ASSUME TypeInv, Next
  PROVE  \E w \in Workers : Quiet(w) \/ Touching(w)
<1> USE DEF Enter, At, Keep, Release
<1>0. PICK w \in Workers : Begin(w) \/ Handler(w) \/ PubEnd(w) \/ SubEnd(w) \/ Client(w)
  BY DEF Next
<1>1. /\ pc \in [Workers -> Labels] /\ client \in [Workers -> Request] /\ up \in BOOLEAN
      /\ \A v \in Workers : client[v].name \in Names \cup {NoName}
      /\ \A v \in Workers : pc[v] \in Asking => client[v].name \in Names
      /\ \A v \in Workers : pc[v] \in Holding <=> box_size_lock = v
  BY DEF TypeInv, TypeOK, Request
<1>2. /\ {"idle", "pub_busy", "pub_refuse", "sub_refuse", "create_refuse", "create_file",
          "create_made", "create_failed", "remove_refuse", "remove_answer", "answer",
          "pub_open", "subscribed"} \subseteq Labels
      /\ {"pub_refuse", "create_refuse", "remove_answer"} \subseteq Holding
      /\ {"idle", "pub_busy", "sub_refuse", "remove_refuse", "answer", "pub_pipe", "pub_open",
          "sub_pipe", "subscribed", "pub", "sub", "create", "remove", "list", "unlock",
          "lock"} \cap Holding = {}
      /\ {"idle", "pub_busy", "pub_refuse", "sub_refuse", "create_refuse", "remove_refuse",
          "remove_answer", "answer"} \cap (Asking \cup Creating \cup Sessions) = {}
      /\ {"pub", "sub", "create", "remove", "list", "unlock", "lock"} \cap (Creating \cup Sessions) = {}
      /\ {"pub_open", "subscribed", "pub_pipe", "sub_pipe"} \subseteq Asking
  BY DEF Labels, Holding, Asking, Creating, Sessions
<1>3. CASE Begin(w)
  <2>1. PICK kind \in Kinds, n \in Names, p \in Passwords, new \in Passwords :
          /\ kind # "lock" => new = NoPassword
          /\ pc' = [pc EXCEPT ![w] = kind]
          /\ client' = [client EXCEPT ![w] =
                          [name |-> n, password |-> p, new |-> new,
                           fifo |-> IF kind = "pub" THEN "made" ELSE "absent"]]
    BY <1>3 DEF Begin
  <2>2. kind \in Labels /\ kind \notin Creating \cup Holding \cup Sessions
    BY Sorts DEF Labels
  <2>3. /\ pc' \in [Workers -> Labels] /\ client' \in [Workers -> Request]
        /\ pc'[w] = kind /\ client'[w].name = n
        /\ \A v \in Workers \ {w} : pc'[v] = pc[v] /\ client'[v] = client[v]
    BY <1>1, <2>1, <2>2 DEF Request
  <2>4. /\ UNCHANGED <<fs, up, slots, box_size_lock, index, handle>>
        /\ pc[w] = "idle"
    BY <1>3 DEF Begin
  <2>5. Alone(w) /\ LockMoves(w)
    BY <1>2, <2>2, <2>3, <2>4 DEF Alone, LockMoves
  <2> QED
    BY <1>1, <1>2, <2>2, <2>3, <2>4, <2>5 DEF Quiet
<1>4. CASE process_pub(w)
  <2>1. CASE PubRegister(w)
    <3> DEFINE i == Named(w)
    <3>1. CASE i # None /\ slots[i].n_pub = 1
      <4>1. /\ pc[w] = "pub" /\ Conclude(w, "pub_busy")
            /\ UNCHANGED <<fs, up, slots, box_size_lock, index, handle>>
        BY <2>1, <3>1 DEF PubRegister
      <4> QED
        BY <1>1, <1>2, <4>1, Turned
    <3>2. CASE ~(i # None /\ slots[i].n_pub = 1) /\ ~Admitted(w, i)
      <4>1. /\ pc[w] = "pub" /\ Conclude(w, "pub_refuse") /\ box_size_lock = Nobody
            /\ box_size_lock' = w
            /\ UNCHANGED <<fs, up, slots, index, handle>>
        BY <2>1, <3>2 DEF PubRegister
      <4> QED
        BY <1>1, <1>2, <4>1, Turned
    <3>3. CASE ~(i # None /\ slots[i].n_pub = 1) /\ Admitted(w, i)
      <4>1. PubAdmit(w)
        BY <2>1, <3>3 DEF PubRegister, PubAdmit, Admitted
      <4> QED
        BY <4>1 DEF Touching
    <3> QED
      BY <3>1, <3>2, <3>3
  <2>2. CASE PubBusy(w)
    BY <1>1, <1>2, <2>2, Turned DEF PubBusy
  <2>3. CASE PubRefuse(w)
    BY <1>1, <1>2, <2>3, Turned DEF PubRefuse
  <2>4. CASE PubPipe(w)
    <3>1. /\ pc[w] = "pub_pipe" /\ Goto(w, "pub_open")
          /\ UNCHANGED <<fs, up, slots, box_size_lock, index, handle>>
      BY <2>4 DEF PubPipe
    <3>2. /\ \A v \in Workers \ {w} : pc'[v] = pc[v]
          /\ pc'[w] = "pub_open" /\ client' = client /\ pc' \in [Workers -> Labels]
      BY <1>2, <3>1, PlacesMove
    <3>3. Alone(w) /\ LockMoves(w)
      BY <1>2, <3>1, <3>2 DEF Alone, LockMoves
    <3> QED
      BY <1>1, <1>2, <3>1, <3>2, <3>3 DEF Quiet
  <2> QED
    BY <1>4, <2>1, <2>2, <2>3, <2>4 DEF process_pub, Touching
<1>5. CASE process_sub(w)
  <2>1. CASE SubRegister(w)
    <3>1. CASE Admitted(w, Named(w))
      <4>1. SubAdmit(w)
        BY <2>1, <3>1 DEF SubRegister, SubAdmit
      <4> QED
        BY <4>1 DEF Touching
    <3>2. CASE ~Admitted(w, Named(w))
      <4>1. /\ pc[w] = "sub" /\ Conclude(w, "sub_refuse")
            /\ UNCHANGED <<fs, up, slots, box_size_lock, index, handle>>
        BY <2>1, <3>2 DEF SubRegister
      <4> QED
        BY <1>1, <1>2, <4>1, Turned
    <3> QED
      BY <3>1, <3>2
  <2>2. CASE SubRefuse(w)
    BY <1>1, <1>2, <2>2, Turned DEF SubRefuse
  <2>3. CASE SubPipe(w)
    <3>1. /\ pc[w] = "sub_pipe" /\ Goto(w, "subscribed")
          /\ UNCHANGED <<fs, up, slots, box_size_lock, index, handle>>
      BY <2>3 DEF SubPipe
    <3>2. /\ \A v \in Workers \ {w} : pc'[v] = pc[v]
          /\ pc'[w] = "subscribed" /\ client' = client /\ pc' \in [Workers -> Labels]
      BY <1>2, <3>1, PlacesMove
    <3>3. Alone(w) /\ LockMoves(w)
      BY <1>2, <3>1, <3>2 DEF Alone, LockMoves
    <3> QED
      BY <1>1, <1>2, <3>1, <3>2, <3>3 DEF Quiet
  <2> QED
    BY <1>5, <2>1, <2>2, <2>3 DEF process_sub, Touching
<1>6. CASE process_manager_create(w)
  <2>1. CASE Create(w)
    <3>1. CASE Named(w) # None
      <4>1. /\ pc[w] = "create" /\ Conclude(w, "create_refuse") /\ box_size_lock = Nobody
            /\ box_size_lock' = w
            /\ UNCHANGED <<fs, up, slots, index, handle>>
        BY <2>1, <3>1 DEF Create
      <4> QED
        BY <1>1, <1>2, <4>1, Turned
    <3>2. CASE Named(w) = None
      <4> DEFINE table == IF \E i \in DOMAIN slots : slots[i].free = 0 THEN slots ELSE Grown
      <4>1. \E k \in DOMAIN table : table[k].free = 0
        BY GrownIs DEF TypeInv
      <4>2. SlotTaken(w)
        BY <2>1, <3>2, <4>1 DEF Create, SlotTaken
      <4> QED
        BY <4>2 DEF Touching
    <3> QED
      BY <3>1, <3>2
  <2>2. CASE CreateRefuse(w)
    BY <1>1, <1>2, <2>2, Turned DEF CreateRefuse
  <2> QED
    BY <1>6, <2>1, <2>2 DEF process_manager_create, Touching
<1>7. CASE process_manager_remove(w)
  <2>1. CASE Remove(w)
    <3> DEFINE i == Named(w)
    <3>1. CASE i # None /\ ~Admitted(w, i)
      <4>1. /\ pc[w] = "remove" /\ Conclude(w, "remove_refuse")
            /\ UNCHANGED <<fs, up, slots, box_size_lock, index, handle>>
        BY <2>1, <3>1 DEF Remove
      <4> QED
        BY <1>1, <1>2, <4>1, Turned
    <3>2. CASE i = None \/ Admitted(w, i)
      <4>1. Removed(w)
        BY <2>1, <3>2 DEF Remove, Removed, Admitted
      <4> QED
        BY <4>1 DEF Touching
    <3> QED
      BY <3>1, <3>2
  <2>2. CASE RemoveRefuse(w)
    BY <1>1, <1>2, <2>2, Turned DEF RemoveRefuse
  <2>3. CASE RemoveAnswer(w)
    <3>1. up' \in BOOLEAN
      BY <2>3 DEF RemoveAnswer
    <3> QED
      BY <1>1, <1>2, <2>3, <3>1, Turned DEF RemoveAnswer
  <2>4. CASE RemoveHangUp(w)
    BY <1>1, <1>2, <2>4, Turned DEF RemoveHangUp
  <2> QED
    BY <1>7, <2>1, <2>2, <2>3, <2>4 DEF process_manager_remove
<1>8. CASE List(w)
  BY <1>1, <1>2, <1>8, Turned DEF List
<1>9. ASSUME NEW kind \in {"unlock", "lock"}, NEW password \in Passwords,
             SetPassword(w, kind, password)
      PROVE  Quiet(w) \/ Touching(w)
  <2>1. CASE Admitted(w, Named(w))
    <3>1. PasswordSet(w, password)
      BY <1>9, <2>1 DEF SetPassword, PasswordSet
    <3> QED
      BY <3>1 DEF Touching
  <2>2. CASE ~Admitted(w, Named(w))
    <3>1. /\ pc[w] = kind /\ Conclude(w, "answer")
          /\ UNCHANGED <<fs, up, slots, box_size_lock, index, handle>>
      BY <1>9, <2>2 DEF SetPassword
    <3> QED
      BY <1>1, <1>2, <3>1, Turned
  <2> QED
    BY <2>1, <2>2
<1>10. CASE Unlock(w) \/ Lock(w)
  <2>1. NoPassword \in Passwords /\ client[w].new \in Passwords
    BY <1>1, Sorts DEF Request
  <2> QED
    BY <1>9, <1>10, <2>1 DEF Unlock, Lock
<1>11. CASE Answer(w)
  BY <1>1, <1>2, <1>11, Turned DEF Answer
<1>12. CASE Fatal(w) \/ Client(w)
  <2>1. /\ UNCHANGED <<fs, slots, box_size_lock, index, handle, pc>> /\ up' \in BOOLEAN
        /\ \A v \in Workers \ {w} : client'[v] = client[v]
        /\ client' \in [Workers -> Request] /\ client'[w].name = client[w].name
        /\ client'[w].password = client[w].password
    <3>1. CASE Fatal(w)
      BY <1>1, <3>1 DEF Fatal
    <3>2. CASE Client(w)
      <4>1. PICK f \in {"made", "open"} : client' = [client EXCEPT ![w].fifo = f]
        BY <3>2 DEF Client, ClientMakes, ClientOpens
      <4>2. [client[w] EXCEPT !.fifo = f] \in Request
        BY <1>1 DEF Request
      <4>3. UNCHANGED <<fs, up, slots, box_size_lock, index, handle, pc>>
        BY <3>2 DEF Client, ClientMakes, ClientOpens
      <4> QED
        BY <1>1, <4>1, <4>2, <4>3 DEF Request
    <3> QED
      BY <1>12, <3>1, <3>2
  <2>2. Alone(w)
    BY <2>1 DEF Alone
  <2>3. LockMoves(w)
    BY <1>1, <2>1 DEF LockMoves
  <2> QED
    BY <1>1, <2>1, <2>2, <2>3 DEF Quiet
<1> QED
  BY <1>0, <1>3, <1>4, <1>5, <1>6, <1>7, <1>8, <1>10, <1>11, <1>12 DEF Handler, Touching

-----------------------------------------------------------------------------
(* A step of one worker keeps the types and the lock with its owner, if    *)
(* what it does to its own entries does.                                   *)
LEMMA Moves ==
  ASSUME TypeInv, NEW w \in Workers, Alone(w), LockMoves(w), up' \in BOOLEAN, DirOK(fs'),
         \E n \in 1 .. MaxSlots : slots' \in [0 .. n - 1 -> Slot],
         DOMAIN slots \subseteq DOMAIN slots',
         pc' \in [Workers -> Labels], index' \in [Workers -> 0 .. MaxSlots - 1 \cup {None}],
         handle' \in [Workers -> Handles \cup {None}], client' \in [Workers -> Request],
         pc'[w] \in Asking => client'[w].name \in Names,
         pc'[w] \in Creating \cup Sessions => index'[w] \in DOMAIN slots'
  PROVE  TypeInv'
<1>1. box_size_lock' \in Workers \cup {Nobody}
  BY DEF LockMoves, TypeInv, TypeOK
<1>2. TypeOK'
  BY <1>1 DEF TypeOK, Slot, Request
<1>3. \A v \in Workers : pc'[v] \in Asking => client'[v].name \in Names
  BY DEF TypeInv, Alone
<1>4. \A v \in Workers : pc'[v] \in Creating \cup Sessions => index'[v] \in DOMAIN slots'
  BY DEF TypeInv, Alone
<1>5. \A v \in Workers : pc'[v] \in Holding <=> box_size_lock' = v
  <2>1. \A v \in Workers \ {w} : pc'[v] = pc[v]
    BY DEF Alone
  <2>2. /\ \A v \in Workers : pc[v] \in Holding <=> box_size_lock = v
        /\ Nobody \notin Workers
    BY Sorts DEF TypeInv
  <2> QED
    BY <2>1, <2>2 DEF LockMoves
<1> QED
  BY <1>2, <1>3, <1>4, <1>5 DEF TypeInv

(* What handlers find in the state, for any worker. *)
LEMMA Found ==
  ASSUME TypeInv, NEW w \in Workers
  PROVE  /\ DirOK(fs) /\ up \in BOOLEAN /\ pc \in [Workers -> Labels]
         /\ index \in [Workers -> 0 .. MaxSlots - 1 \cup {None}]
         /\ handle \in [Workers -> Handles \cup {None}] /\ client \in [Workers -> Request]
         /\ \E n \in 1 .. MaxSlots : slots \in [0 .. n - 1 -> Slot]
         /\ \A i \in DOMAIN slots : i \in 0 .. MaxSlots - 1 /\ slots[i] \in Slot
         /\ pc[w] \in Asking => client[w].name \in Names
         /\ pc[w] \in Creating \cup Sessions => index[w] \in DOMAIN slots
         /\ Named(w) # None => Named(w) \in DOMAIN slots /\ slots[Named(w)].name = client[w].name
         /\ \A i : Admitted(w, i) => i # None
         /\ pc[w] \in Holding <=> box_size_lock = w
<1>1. TypeOK
  BY DEF TypeInv
<1>2. PICK n \in 1 .. MaxSlots : slots \in [0 .. n - 1 -> Slot] /\ DOMAIN slots = 0 .. n - 1
                                 /\ DOMAIN slots \subseteq 0 .. MaxSlots - 1
  BY <1>1, TableIs
<1>3. \A i \in DOMAIN slots : i \in 0 .. MaxSlots - 1 /\ slots[i] \in Slot
  BY <1>2
<1>4. Named(w) # None => Named(w) \in DOMAIN slots /\ slots[Named(w)].name = client[w].name
  BY <1>1, FindIs DEF Named
<1>5. /\ up \in BOOLEAN /\ pc \in [Workers -> Labels]
      /\ index \in [Workers -> 0 .. MaxSlots - 1 \cup {None}]
      /\ handle \in [Workers -> Handles \cup {None}] /\ client \in [Workers -> Request]
  BY <1>1 DEF TypeOK, Request
<1> QED
  BY <1>2, <1>3, <1>4, <1>5 DEF TypeInv, Admitted

(* A slot of the table that is written again. *)
LEMMA SlotsMove ==
  ASSUME TypeInv, NEW i \in DOMAIN slots, NEW s \in Slot, slots' = [slots EXCEPT ![i] = s]
  PROVE  /\ \E n \in 1 .. MaxSlots : slots' \in [0 .. n - 1 -> Slot]
         /\ DOMAIN slots' = DOMAIN slots
         /\ slots'[i] = s /\ \A k \in DOMAIN slots \ {i} : slots'[k] = slots[k]
<1>1. PICK n \in 1 .. MaxSlots : slots \in [0 .. n - 1 -> Slot]
  BY DEF TypeInv, TypeOK, Slot
<1> QED
  BY <1>1

(* What the steps that touch slots do to them. *)
LEMMA SlotWrites ==
  ASSUME TypeInv, NEW i \in DOMAIN slots
  PROVE  /\ \A n \in {0, 1} : slots' = [slots EXCEPT ![i].n_pub = n] =>
              /\ \E m \in 1 .. MaxSlots : slots' \in [0 .. m - 1 -> Slot]
              /\ DOMAIN slots' = DOMAIN slots
              /\ slots'[i] = [slots[i] EXCEPT !.n_pub = n]
              /\ \A k \in DOMAIN slots \ {i} : slots'[k] = slots[k]
         /\ \A p \in Passwords : slots' = [slots EXCEPT ![i].password = p] =>
              /\ \E m \in 1 .. MaxSlots : slots' \in [0 .. m - 1 -> Slot]
              /\ DOMAIN slots' = DOMAIN slots
              /\ slots'[i] = [slots[i] EXCEPT !.password = p]
              /\ \A k \in DOMAIN slots \ {i} : slots'[k] = slots[k]
         /\ slots' = [slots EXCEPT ![i].free = 0, ![i].name = NoName, ![i].password = NoPassword] =>
              /\ \E m \in 1 .. MaxSlots : slots' \in [0 .. m - 1 -> Slot]
              /\ DOMAIN slots' = DOMAIN slots
              /\ slots'[i] = [free |-> 0, name |-> NoName, password |-> NoPassword,
                              n_pub |-> slots[i].n_pub]
              /\ \A k \in DOMAIN slots \ {i} : slots'[k] = slots[k]
<1>1. slots[i] \in Slot
  BY TableIs DEF TypeInv
<1>2. ASSUME NEW n \in {0, 1}, slots' = [slots EXCEPT ![i].n_pub = n]
      PROVE  /\ \E m \in 1 .. MaxSlots : slots' \in [0 .. m - 1 -> Slot]
             /\ DOMAIN slots' = DOMAIN slots
             /\ slots'[i] = [slots[i] EXCEPT !.n_pub = n]
             /\ \A k \in DOMAIN slots \ {i} : slots'[k] = slots[k]
  <2> DEFINE s == [slots[i] EXCEPT !.n_pub = n]
  <2>1. s \in Slot
    BY <1>1 DEF Slot
  <2>2. slots' = [slots EXCEPT ![i] = s]
    BY <1>2
  <2> HIDE DEF s
  <2>3. /\ \E m \in 1 .. MaxSlots : slots' \in [0 .. m - 1 -> Slot]
        /\ DOMAIN slots' = DOMAIN slots
        /\ slots'[i] = s /\ \A k \in DOMAIN slots \ {i} : slots'[k] = slots[k]
    BY <2>1, <2>2, SlotsMove
  <2> QED
    BY <2>3 DEF s
<1>3. ASSUME NEW p \in Passwords, slots' = [slots EXCEPT ![i].password = p]
      PROVE  /\ \E m \in 1 .. MaxSlots : slots' \in [0 .. m - 1 -> Slot]
             /\ DOMAIN slots' = DOMAIN slots
             /\ slots'[i] = [slots[i] EXCEPT !.password = p]
             /\ \A k \in DOMAIN slots \ {i} : slots'[k] = slots[k]
  <2> DEFINE s == [slots[i] EXCEPT !.password = p]
  <2>1. s \in Slot
    BY <1>1 DEF Slot
  <2>2. slots' = [slots EXCEPT ![i] = s]
    BY <1>3
  <2> HIDE DEF s
  <2>3. /\ \E m \in 1 .. MaxSlots : slots' \in [0 .. m - 1 -> Slot]
        /\ DOMAIN slots' = DOMAIN slots
        /\ slots'[i] = s /\ \A k \in DOMAIN slots \ {i} : slots'[k] = slots[k]
    BY <2>1, <2>2, SlotsMove
  <2> QED
    BY <2>3 DEF s
<1>4. ASSUME slots' = [slots EXCEPT ![i].free = 0, ![i].name = NoName, ![i].password = NoPassword]
      PROVE  /\ \E m \in 1 .. MaxSlots : slots' \in [0 .. m - 1 -> Slot]
             /\ DOMAIN slots' = DOMAIN slots
             /\ slots'[i] = [free |-> 0, name |-> NoName, password |-> NoPassword,
                             n_pub |-> slots[i].n_pub]
             /\ \A k \in DOMAIN slots \ {i} : slots'[k] = slots[k]
  <2> DEFINE s == [free |-> 0, name |-> NoName, password |-> NoPassword, n_pub |-> slots[i].n_pub]
  <2>1. s \in Slot
    BY <1>1, Sorts DEF Slot
  <2>2. s = [[[slots[i] EXCEPT !.free = 0] EXCEPT !.name = NoName] EXCEPT !.password = NoPassword]
    <3> DEFINE t == slots[i]
               a == [t EXCEPT !.free = 0]
               b == [a EXCEPT !.name = NoName]
               c == [b EXCEPT !.password = NoPassword]
    <3>1. t = [free |-> t.free, name |-> t.name, password |-> t.password, n_pub |-> t.n_pub]
      BY <1>1 DEF Slot
    <3> HIDE DEF t
    <3>2. a = [free |-> 0, name |-> t.name, password |-> t.password, n_pub |-> t.n_pub]
      BY <3>1
    <3> HIDE DEF a
    <3>3. b = [free |-> 0, name |-> NoName, password |-> t.password, n_pub |-> t.n_pub]
      BY <3>2
    <3> HIDE DEF b
    <3>4. c = [free |-> 0, name |-> NoName, password |-> NoPassword, n_pub |-> t.n_pub]
      BY <3>3
    <3> QED
      BY <3>4 DEF a, b, c, t
  <2>3. slots' = [slots EXCEPT ![i] = s]
    BY <1>4, <2>2
  <2> HIDE DEF s
  <2>4. /\ \E m \in 1 .. MaxSlots : slots' \in [0 .. m - 1 -> Slot]
        /\ DOMAIN slots' = DOMAIN slots
        /\ slots'[i] = s /\ \A k \in DOMAIN slots \ {i} : slots'[k] = slots[k]
    BY <2>1, <2>3, SlotsMove
  <2> QED
    BY <2>4 DEF s
<1> QED
  BY <1>2, <1>3, <1>4

(* A creation takes a free slot, of the table or of one twice as long; all *)
(* others stay what they are, or are free.                                 *)
LEMMA SlotTakenIs ==
  ASSUME TypeInv, NEW w \in Workers, SlotTaken(w)
  PROVE  LET i == index'[w]
         IN /\ pc[w] = "create" /\ box_size_lock = Nobody /\ box_size_lock' = w
            /\ Named(w) = None /\ Alone(w) /\ client' = client
            /\ fs' = fs /\ up' = up /\ handle' = handle
            /\ pc'[w] = "create_file" /\ pc' \in [Workers -> Labels]
            /\ index' \in [Workers -> 0 .. MaxSlots - 1 \cup {None}]
            /\ \E n \in 1 .. MaxSlots : slots' \in [0 .. n - 1 -> Slot]
            /\ DOMAIN slots \subseteq DOMAIN slots' /\ i \in DOMAIN slots'
            /\ i \in DOMAIN slots => slots[i].free = 0
            /\ slots'[i].free = 1 /\ slots'[i].name = client[w].name
            /\ slots'[i].password = client[w].password
            /\ \A k \in DOMAIN slots \ {i} : slots'[k] = slots[k]
            /\ \A k \in DOMAIN slots' \ (DOMAIN slots \cup {i}) : slots'[k] = EmptySlot
<1> USE DEF Enter, At, Keep
<1>1. PICK table \in {slots, Grown} :
        LET i == Min({k \in DOMAIN table : table[k].free = 0})
        IN /\ Enter(w, "create") /\ Keep(w) /\ Named(w) = None
           /\ \E k \in DOMAIN table : table[k].free = 0
           /\ Cardinality(DOMAIN table) <= MaxSlots
           /\ index' = [index EXCEPT ![w] = i]
           /\ slots' = [table EXCEPT ![i].free = 1, ![i].name = client[w].name,
                                     ![i].password = client[w].password]
           /\ Goto(w, "create_file")
           /\ UNCHANGED <<fs, up, handle>>
  BY DEF SlotTaken
<1> DEFINE i == Min({k \in DOMAIN table : table[k].free = 0})
<1>2. /\ pc[w] = "create" /\ box_size_lock = Nobody /\ box_size_lock' = w
      /\ Named(w) = None /\ Cardinality(DOMAIN table) <= MaxSlots
      /\ \E k \in DOMAIN table : table[k].free = 0
      /\ index' = [index EXCEPT ![w] = i] /\ Goto(w, "create_file")
      /\ UNCHANGED <<fs, up, handle>>
  BY <1>1
<1>3. PICK m \in 1 .. MaxSlots : table \in [0 .. m - 1 -> Slot] /\ DOMAIN table = 0 .. m - 1
                                 /\ 0 .. m - 1 \subseteq 0 .. MaxSlots - 1
                                 /\ DOMAIN table \subseteq Nat
  <2>1. TypeOK /\ MaxSlots \in Nat
    BY Sorts DEF TypeInv
  <2>2. CASE table = slots
    BY <2>1, <2>2, TableIs
  <2>3. CASE table = Grown
    <3>1. PICK m \in Nat : /\ Grown \in [0 .. m - 1 -> Slot] /\ DOMAIN Grown = 0 .. m - 1
                           /\ Cardinality(DOMAIN Grown) = m /\ m >= 1 /\ DOMAIN Grown \subseteq Nat
      BY <2>1, GrownIs
    <3>2. m \in 1 .. MaxSlots
      BY <1>2, <2>1, <2>3, <3>1
    <3>3. 0 .. m - 1 \subseteq 0 .. MaxSlots - 1
      BY <2>1, <3>2
    <3> QED
      BY <2>3, <3>1, <3>2, <3>3
  <2> QED
    BY <2>2, <2>3
<1>4. /\ DOMAIN slots \subseteq DOMAIN table
      /\ \A k \in DOMAIN slots : table[k] = slots[k]
      /\ \A k \in DOMAIN table \ DOMAIN slots : table[k] = EmptySlot
  BY GrownIs DEF TypeInv
<1>5. i \in DOMAIN table /\ table[i].free = 0
  BY <1>2, <1>3, FreeSlot
<1> HIDE DEF i
<1>6. pc[w] \in Asking /\ client \in [Workers -> Request] /\ "create_file" \in Labels
  BY <1>2, Found DEF Asking, Labels
<1> DEFINE s == [[[table[i] EXCEPT !.free = 1] EXCEPT !.name = client[w].name]
                   EXCEPT !.password = client[w].password]
<1>7. s \in Slot /\ s.free = 1 /\ s.name = client[w].name /\ s.password = client[w].password
  <2>1. table[i] \in Slot
    BY <1>3, <1>5
  <2>2. client[w] \in Request
    BY <1>6
  <2>3. client[w].name \in Names \cup {NoName} /\ client[w].password \in Passwords
    BY <2>2 DEF Request
  <2>4. s \in Slot
    BY <2>1, <2>3 DEF Slot
  <2>5. "free" \in DOMAIN table[i] /\ "name" \in DOMAIN table[i] /\ "password" \in DOMAIN table[i]
    BY <2>1 DEF Slot
  <2> QED
    BY <2>4, <2>5
<1>8. slots' = [table EXCEPT ![i] = s]
  BY <1>1 DEF i
<1> HIDE DEF s
<1>9. /\ slots' \in [0 .. m - 1 -> Slot] /\ DOMAIN slots' = DOMAIN table
      /\ slots'[i] = s /\ \A k \in DOMAIN table \ {i} : slots'[k] = table[k]
  BY <1>3, <1>5, <1>7, <1>8
<1>10. /\ index'[w] = i /\ \A v \in Workers \ {w} : index'[v] = index[v]
       /\ index' \in [Workers -> 0 .. MaxSlots - 1 \cup {None}]
  BY <1>2, <1>3, <1>5, Found
<1>11. /\ \A v \in Workers \ {w} : pc'[v] = pc[v]
       /\ pc'[w] = "create_file" /\ client' = client /\ pc' \in [Workers -> Labels]
  BY <1>2, <1>6, PlacesMove
<1>12. Alone(w)
  BY <1>2, <1>10, <1>11 DEF Alone
<1> QED
  BY <1>2, <1>3, <1>4, <1>5, <1>7, <1>9, <1>10, <1>11, <1>12

(* Only slot i may change. *)
OthersKept(i) == DOMAIN slots' = DOMAIN slots /\ \A k \in DOMAIN slots \ {i} : slots'[k] = slots[k]

(* What is said of the worker's index and place after it has found i. *)
LEMMA IndexMoves ==
  ASSUME TypeInv, NEW w \in Workers, NEW i \in DOMAIN slots \cup {None, index[w]},
         index' = [index EXCEPT ![w] = i]
  PROVE  /\ index' \in [Workers -> 0 .. MaxSlots - 1 \cup {None}]
         /\ index'[w] = i /\ \A v \in Workers \ {w} : index'[v] = index[v]
BY Found

(* A registered publisher. *)
LEMMA PubAdmitIs ==
  ASSUME TypeInv, NEW w \in Workers, PubAdmit(w)
  PROVE  LET i == index'[w]
         IN /\ pc[w] = "pub" /\ pc'[w] = "pub_pipe" /\ box_size_lock = Nobody
            /\ i \in DOMAIN slots /\ slots[i].name = client[w].name
            /\ slots[i].password = client[w].password /\ slots[i].n_pub # 1
            /\ OthersKept(i) /\ slots'[i] = [slots[i] EXCEPT !.n_pub = 1]
            /\ UNCHANGED <<fs, up, box_size_lock, handle, client>>
            /\ Alone(w) /\ TypeInv'
<1> DEFINE i == Named(w)
<1>1. /\ pc[w] = "pub" /\ box_size_lock = Nobody /\ slots[i].n_pub # 1
      /\ i # None /\ slots[i].password = client[w].password
      /\ index' = [index EXCEPT ![w] = i] /\ slots' = [slots EXCEPT ![i].n_pub = 1]
      /\ Goto(w, "pub_pipe") /\ UNCHANGED <<fs, up, box_size_lock, handle>>
  BY DEF PubAdmit, Enter, At, Admitted
<1>2. i \in DOMAIN slots /\ slots[i].name = client[w].name
  BY <1>1, Found
<1> HIDE DEF i
<1>3. /\ \E m \in 1 .. MaxSlots : slots' \in [0 .. m - 1 -> Slot]
      /\ OthersKept(i) /\ slots'[i] = [slots[i] EXCEPT !.n_pub = 1]
  BY <1>1, <1>2, SlotWrites DEF OthersKept
<1>4. /\ index' \in [Workers -> 0 .. MaxSlots - 1 \cup {None}]
      /\ index'[w] = i /\ \A v \in Workers \ {w} : index'[v] = index[v]
  BY <1>1, <1>2, IndexMoves
<1>5. /\ \A v \in Workers \ {w} : pc'[v] = pc[v]
      /\ pc'[w] = "pub_pipe" /\ client' = client /\ pc' \in [Workers -> Labels]
  BY <1>1, PlacesMove DEF Labels, Sessions
<1>6. Alone(w) /\ LockMoves(w)
  BY <1>1, <1>4, <1>5 DEF Alone, LockMoves, Holding, Creating
<1>7. /\ DirOK(fs) /\ up \in BOOLEAN /\ client \in [Workers -> Request]
      /\ client[w].name \in Names /\ handle \in [Workers -> Handles \cup {None}]
  BY <1>1, Found DEF Asking
<1>8. TypeInv'
  BY <1>1, <1>2, <1>3, <1>4, <1>5, <1>6, <1>7, Moves DEF OthersKept
<1> QED
  BY <1>1, <1>2, <1>3, <1>4, <1>5, <1>6, <1>8

(* A registered subscriber. *)
LEMMA SubAdmitIs ==
  ASSUME TypeInv, NEW w \in Workers, SubAdmit(w)
  PROVE  LET i == index'[w]
         IN /\ pc[w] = "sub" /\ pc'[w] = "sub_open" /\ box_size_lock = Nobody
            /\ i \in DOMAIN slots /\ slots[i].name = client[w].name
            /\ UNCHANGED <<fs, up, slots, box_size_lock, handle, client>>
            /\ Alone(w) /\ TypeInv'
<1> DEFINE i == Named(w)
<1>1. /\ pc[w] = "sub" /\ box_size_lock = Nobody /\ i # None
      /\ index' = [index EXCEPT ![w] = i]
      /\ Goto(w, "sub_open") /\ UNCHANGED <<fs, up, slots, box_size_lock, handle>>
  BY DEF SubAdmit, Enter, At, Admitted
<1>2. i \in DOMAIN slots /\ slots[i].name = client[w].name
  BY <1>1, Found
<1> HIDE DEF i
<1>4. /\ index' \in [Workers -> 0 .. MaxSlots - 1 \cup {None}]
      /\ index'[w] = i /\ \A v \in Workers \ {w} : index'[v] = index[v]
  BY <1>1, <1>2, IndexMoves
<1>5. /\ \A v \in Workers \ {w} : pc'[v] = pc[v]
      /\ pc'[w] = "sub_open" /\ client' = client /\ pc' \in [Workers -> Labels]
  BY <1>1, PlacesMove DEF Labels, Sessions
<1>6. Alone(w) /\ LockMoves(w)
  BY <1>1, <1>4, <1>5 DEF Alone, LockMoves, Holding, Creating
<1>7. /\ DirOK(fs) /\ up \in BOOLEAN /\ client \in [Workers -> Request]
      /\ client[w].name \in Names /\ handle \in [Workers -> Handles \cup {None}]
      /\ \E n \in 1 .. MaxSlots : slots \in [0 .. n - 1 -> Slot]
  BY <1>1, Found DEF Asking
<1>8. TypeInv'
  BY <1>1, <1>2, <1>4, <1>5, <1>6, <1>7, Moves
<1> QED
  BY <1>1, <1>2, <1>4, <1>5, <1>6, <1>8

(* A session opens the box's file. *)
LEMMA OpenIs ==
  ASSUME TypeInv, NEW w \in Workers, PubOpen(w) \/ SubOpen(w)
  PROVE  /\ \/ pc[w] = "pub_open" /\ pc'[w] = IF handle'[w] = None THEN "idle" ELSE "publishing"
            \/ pc[w] = "sub_open" /\ pc'[w] = "sub_pipe"
         /\ pc'[w] # "idle" => client' = client
         /\ Filed(fs') = Filed(fs) /\ fs'.opened = fs.opened \cup ({handle'[w]} \ {None})
         /\ UNCHANGED <<slots, box_size_lock, index>>
         /\ Alone(w) /\ TypeInv'
<1> DEFINE mode == IF pc[w] = "pub_open" THEN {"append"} ELSE {}
           r == Open(fs, client[w].name, mode)
<1>1. /\ pc[w] \in {"pub_open", "sub_open"}
      /\ fs' = r.fs /\ handle' = [handle EXCEPT ![w] = r.ret] /\ up' \in BOOLEAN
      /\ \/ pc[w] = "pub_open" /\ IF r.ret = None THEN Leave(w) ELSE Goto(w, "publishing")
         \/ pc[w] = "sub_open" /\ Goto(w, "sub_pipe")
      /\ UNCHANGED <<slots, box_size_lock, index>>
  <2>1. CASE PubOpen(w)
    <3>1. mode = {"append"} /\ up \in BOOLEAN
      BY <2>1, Found DEF PubOpen, At
    <3> HIDE DEF mode
    <3> QED
      BY <2>1, <3>1 DEF PubOpen, At
  <2>2. CASE SubOpen(w)
    <3>1. mode = {}
      BY <2>2 DEF SubOpen, At
    <3> HIDE DEF mode
    <3> QED
      BY <2>2, <3>1 DEF SubOpen, At
  <2> QED
    BY <2>1, <2>2
<1>2. /\ DirOK(fs) /\ client \in [Workers -> Request] /\ client[w].name \in Names
      /\ handle \in [Workers -> Handles \cup {None}]
      /\ index \in [Workers -> 0 .. MaxSlots - 1 \cup {None}]
      /\ \E n \in 1 .. MaxSlots : slots \in [0 .. n - 1 -> Slot]
      /\ index[w] \in DOMAIN slots
  BY <1>1, Found DEF Asking, Sessions
<1>3. {"creat", "trunc"} \cap mode = {}
  OBVIOUS
<1> HIDE DEF mode
<1>4. /\ DirOK(r.fs) /\ Filed(r.fs) = Filed(fs) /\ r.ret \in Handles \cup {None}
      /\ r.fs.opened = fs.opened \cup ({r.ret} \ {None})
  BY <1>2, <1>3, Opens
<1> HIDE DEF r
<1>5. /\ handle' \in [Workers -> Handles \cup {None}] /\ handle'[w] = r.ret
      /\ \A v \in Workers \ {w} : handle'[v] = handle[v]
  BY <1>1, <1>2, <1>4
<1>6. /\ \A v \in Workers \ {w} : pc'[v] = pc[v] /\ client'[v] = client[v]
      /\ \/ pc[w] = "pub_open" /\ pc'[w] = IF r.ret = None THEN "idle" ELSE "publishing"
         \/ pc[w] = "sub_open" /\ pc'[w] = "sub_pipe"
      /\ pc'[w] # "idle" => client' = client
      /\ client' \in [Workers -> Request] /\ pc' \in [Workers -> Labels]
  <2>1. {"publishing", "sub_pipe"} \subseteq Labels
    BY DEF Labels, Sessions
  <2> QED
    BY <1>1, <1>2, <2>1, PlacesMove
<1>7. Alone(w) /\ LockMoves(w)
  BY <1>1, <1>5, <1>6 DEF Alone, LockMoves, Holding, Creating
<1>8. TypeInv'
  <2>1. pc'[w] \in Asking => client'[w].name \in Names
    BY <1>2, <1>6 DEF Asking, Sessions
  <2> QED
    BY <1>1, <1>2, <1>4, <1>5, <1>6, <1>7, <2>1, Moves
<1> QED
  BY <1>1, <1>4, <1>5, <1>6, <1>7, <1>8

(* A session ends. *)
LEMMA EndIs ==
  ASSUME TypeInv, NEW w \in Workers, PubEnd(w) \/ SubEnd(w)
  PROVE  /\ pc[w] \in {"publishing", "subscribed"} /\ pc'[w] = "idle"
         /\ Filed(fs') = Filed(fs) /\ fs'.opened = fs.opened \ {handle[w]} /\ handle'[w] = None
         /\ index[w] \in DOMAIN slots
         /\ pc[w] = "subscribed" => slots' = slots
         /\ pc[w] = "publishing" => /\ OthersKept(index[w])
                                    /\ slots'[index[w]] = [slots[index[w]] EXCEPT !.n_pub = 0]
         /\ UNCHANGED <<up, box_size_lock, index>>
         /\ Alone(w) /\ TypeInv'
<1> DEFINE i == index[w]
           t == Close(fs, handle[w]).fs
<1>1. /\ pc[w] \in {"publishing", "subscribed"} /\ fs' = t
      /\ handle' = [handle EXCEPT ![w] = None] /\ Leave(w)
      /\ UNCHANGED <<up, box_size_lock, index>>
      /\ pc[w] = "subscribed" => slots' = slots
      /\ pc[w] = "publishing" => slots' = [slots EXCEPT ![i].n_pub = 0]
  BY DEF PubEnd, SubEnd, At
<1>2. /\ DirOK(fs) /\ up \in BOOLEAN
      /\ handle \in [Workers -> Handles \cup {None}]
      /\ index \in [Workers -> 0 .. MaxSlots - 1 \cup {None}]
      /\ \E n \in 1 .. MaxSlots : slots \in [0 .. n - 1 -> Slot]
      /\ i \in DOMAIN slots
  BY <1>1, Found DEF Sessions
<1>3. DirOK(t) /\ Filed(t) = Filed(fs) /\ t.opened = fs.opened \ {handle[w]}
  BY <1>2, Closes
<1> HIDE DEF i, t
<1>4. /\ \E n \in 1 .. MaxSlots : slots' \in [0 .. n - 1 -> Slot]
      /\ DOMAIN slots' = DOMAIN slots
      /\ pc[w] = "publishing" => OthersKept(i) /\ slots'[i] = [slots[i] EXCEPT !.n_pub = 0]
  BY <1>1, <1>2, SlotWrites DEF OthersKept
<1>5. /\ handle' \in [Workers -> Handles \cup {None}] /\ handle'[w] = None
      /\ \A v \in Workers \ {w} : handle'[v] = handle[v]
  BY <1>1, <1>2
<1>6. /\ \A v \in Workers \ {w} : pc'[v] = pc[v] /\ client'[v] = client[v]
      /\ pc'[w] = "idle" /\ client' \in [Workers -> Request] /\ pc' \in [Workers -> Labels]
  BY <1>1, PlacesMove
<1>7. Alone(w) /\ LockMoves(w)
  BY <1>1, <1>5, <1>6 DEF Alone, LockMoves, Holding, Creating
<1>8. TypeInv'
  <2>1. "idle" \notin Asking \cup Creating \cup Sessions
    BY DEF Asking, Creating, Sessions
  <2> QED
    BY <1>1, <1>2, <1>3, <1>4, <1>5, <1>6, <1>7, <2>1, Moves
<1> QED
  BY <1>1, <1>2, <1>3, <1>4, <1>5, <1>6, <1>7, <1>8 DEF i

(* A quiet step keeps the types. *)
LEMMA QuietIs ==
  ASSUME TypeInv, NEW w \in Workers, Quiet(w)
  PROVE  Alone(w) /\ TypeInv'
<1>1. /\ DirOK(fs) /\ \E n \in 1 .. MaxSlots : slots \in [0 .. n - 1 -> Slot]
      /\ handle \in [Workers -> Handles \cup {None}]
      /\ index \in [Workers -> 0 .. MaxSlots - 1 \cup {None}]
  BY Found
<1>2. pc[w] \in Creating \cup Sessions => index[w] \in DOMAIN slots
  BY Found
<1>3. pc'[w] \in Creating \cup Sessions => pc[w] \in Creating \cup Sessions
  BY DEF Quiet, Sessions
<1> QED
  BY <1>1, <1>2, <1>3, Moves DEF Quiet

(* A creation that has taken its slot. *)
LEMMA SlotTakenTypes ==
  ASSUME TypeInv, NEW w \in Workers, SlotTaken(w)
  PROVE  TypeInv'
<1>1. /\ pc[w] = "create" /\ box_size_lock = Nobody /\ box_size_lock' = w
      /\ Alone(w) /\ client' = client /\ fs' = fs /\ up' = up /\ handle' = handle
      /\ pc'[w] = "create_file" /\ pc' \in [Workers -> Labels]
      /\ index' \in [Workers -> 0 .. MaxSlots - 1 \cup {None}]
      /\ \E n \in 1 .. MaxSlots : slots' \in [0 .. n - 1 -> Slot]
      /\ DOMAIN slots \subseteq DOMAIN slots' /\ index'[w] \in DOMAIN slots'
  BY SlotTakenIs
<1>2. LockMoves(w)
  BY <1>1 DEF LockMoves, Holding, Creating
<1>3. /\ DirOK(fs) /\ up \in BOOLEAN /\ client \in [Workers -> Request]
      /\ client[w].name \in Names /\ handle \in [Workers -> Handles \cup {None}]
  BY <1>1, Found DEF Asking
<1> QED
  BY <1>1, <1>2, <1>3, Moves

(* A creation that makes the box's file. *)
LEMMA CreateBoxFileIs ==
  ASSUME TypeInv, NEW w \in Workers, CreateBoxFile(w)
  PROVE  LET name == client[w].name
             made == pc'[w] = "create_made"
         IN /\ pc[w] = "create_file" /\ pc'[w] \in {"create_made", "create_failed"}
            /\ name \in Names /\ fs'.opened \subseteq fs.opened
            /\ Lookup(fs, name) = None /\ ~(Handles \subseteq fs.opened) =>
                 Filed(fs') = IF made THEN Filed(fs) \cup {name} ELSE Filed(fs)
            /\ UNCHANGED <<up, slots, box_size_lock, index, handle>>
            /\ Alone(w) /\ TypeInv'
<1> DEFINE name == client[w].name
           r == Open(fs, name, {"creat"})
           t == Close(r.fs, r.ret).fs
           label == IF r.ret = None THEN "create_failed" ELSE "create_made"
<1>1. /\ pc[w] = "create_file" /\ fs' = t /\ Conclude(w, label)
      /\ UNCHANGED <<up, slots, box_size_lock, index, handle>>
  BY DEF CreateBoxFile, At
<1>2. /\ DirOK(fs) /\ up \in BOOLEAN /\ client \in [Workers -> Request] /\ name \in Names
      /\ handle \in [Workers -> Handles \cup {None}]
      /\ index \in [Workers -> 0 .. MaxSlots - 1 \cup {None}]
      /\ \E n \in 1 .. MaxSlots : slots \in [0 .. n - 1 -> Slot]
      /\ index[w] \in DOMAIN slots
  BY <1>1, Found DEF Asking, Creating
<1> HIDE DEF name
<1>3. /\ DirOK(t) /\ t.opened \subseteq fs.opened
      /\ Lookup(fs, name) = None /\ ~(Handles \subseteq fs.opened) =>
           Filed(t) = IF r.ret = None THEN Filed(fs) ELSE Filed(fs) \cup {name}
  BY <1>2, Makes
<1> HIDE DEF t, r
<1>4. label \in Labels \cap Holding /\ label \in {"create_made", "create_failed"}
      /\ (r.ret = None <=> label # "create_made")
  BY DEF Labels, Holding, Creating
<1> HIDE DEF label
<1>5. /\ \A v \in Workers \ {w} : pc'[v] = pc[v] /\ client'[v] = client[v]
      /\ pc'[w] = label /\ client' \in [Workers -> Request] /\ pc' \in [Workers -> Labels]
  BY <1>1, <1>4, PlacesMove
<1>6. pc[w] \in Holding /\ box_size_lock = w
  BY <1>1, Found DEF Holding, Creating
<1>7. Alone(w) /\ LockMoves(w)
  BY <1>1, <1>4, <1>5, <1>6 DEF Alone, LockMoves
<1>8. TypeInv'
  <2>1. label \notin Asking
    BY <1>4 DEF Asking, Sessions
  <2> QED
    BY <1>1, <1>2, <1>3, <1>4, <1>5, <1>7, <2>1, Moves
<1> QED
  BY <1>1, <1>2, <1>3, <1>4, <1>5, <1>7, <1>8 DEF name

(* The answer to a creation. *)
LEMMA CreateAnswerIs ==
  ASSUME TypeInv, NEW w \in Workers, CreateAnswer(w)
  PROVE  LET i == index[w]
         IN /\ pc[w] \in {"create_made", "create_failed"} /\ pc'[w] = "idle"
            /\ i \in DOMAIN slots
            /\ pc[w] = "create_made" => slots' = slots
            /\ pc[w] = "create_failed" => /\ OthersKept(i)
                                          /\ slots'[i].free = 0 /\ slots'[i].name = NoName
            /\ UNCHANGED <<fs, up, index, handle>>
            /\ Alone(w) /\ TypeInv'
<1> DEFINE i == index[w]
<1>1. /\ pc[w] \in {"create_made", "create_failed"} /\ Leave(w) /\ box_size_lock' = Nobody
      /\ pc[w] = "create_made" => slots' = slots
      /\ pc[w] = "create_failed" =>
           slots' = [slots EXCEPT ![i].free = 0, ![i].name = NoName, ![i].password = NoPassword]
      /\ UNCHANGED <<fs, up, index, handle>>
  BY DEF CreateAnswer, At, Release
<1>2. /\ DirOK(fs) /\ up \in BOOLEAN
      /\ handle \in [Workers -> Handles \cup {None}]
      /\ index \in [Workers -> 0 .. MaxSlots - 1 \cup {None}]
      /\ \E n \in 1 .. MaxSlots : slots \in [0 .. n - 1 -> Slot]
      /\ i \in DOMAIN slots
  BY <1>1, Found DEF Creating
<1> HIDE DEF i
<1>3. /\ \E n \in 1 .. MaxSlots : slots' \in [0 .. n - 1 -> Slot]
      /\ DOMAIN slots' = DOMAIN slots
      /\ pc[w] = "create_failed" => /\ OthersKept(i)
                                    /\ slots'[i].free = 0 /\ slots'[i].name = NoName
  <2>1. CASE pc[w] = "create_made"
    BY <1>1, <1>2, <2>1
  <2>2. CASE pc[w] = "create_failed"
    <3>1. slots' = [slots EXCEPT ![i].free = 0, ![i].name = NoName, ![i].password = NoPassword]
      BY <1>1, <2>2
    <3>2. /\ \E n \in 1 .. MaxSlots : slots' \in [0 .. n - 1 -> Slot]
          /\ DOMAIN slots' = DOMAIN slots
          /\ slots'[i] = [free |-> 0, name |-> NoName, password |-> NoPassword,
                          n_pub |-> slots[i].n_pub]
          /\ \A k \in DOMAIN slots \ {i} : slots'[k] = slots[k]
      BY <1>2, <3>1, SlotWrites
    <3>3. slots'[i].free = 0 /\ slots'[i].name = NoName
      BY <3>2
    <3> QED
      BY <3>2, <3>3 DEF OthersKept
  <2> QED
    BY <1>1, <2>1, <2>2
<1>4. /\ \A v \in Workers \ {w} : pc'[v] = pc[v] /\ client'[v] = client[v]
      /\ pc'[w] = "idle" /\ client' \in [Workers -> Request] /\ pc' \in [Workers -> Labels]
  BY <1>1, PlacesMove
<1>5. Alone(w) /\ LockMoves(w)
  BY <1>1, <1>4 DEF Alone, LockMoves, Holding, Creating
<1>6. TypeInv'
  <2>1. "idle" \notin Asking \cup Creating \cup Sessions
    BY DEF Asking, Creating, Sessions
  <2> QED
    BY <1>1, <1>2, <1>3, <1>4, <1>5, <2>1, Moves
<1> QED
  BY <1>1, <1>2, <1>3, <1>4, <1>5, <1>6 DEF i

(* A box removed, or one that is not there. *)
LEMMA RemovedIs ==
  ASSUME TypeInv, NEW w \in Workers, Removed(w)
  PROVE  LET i == Named(w)
             name == client[w].name
         IN /\ pc[w] = "remove" /\ pc'[w] = "remove_answer"
            /\ box_size_lock = Nobody /\ name \in Names
            /\ i # None => /\ i \in DOMAIN slots /\ slots[i].name = name
                           /\ slots[i].password = client[w].password
                           /\ Careful => ~InUse(i)
            /\ Filed(fs') = Filed(fs) \ {name} /\ fs'.opened = fs.opened
            /\ name \notin Filed(fs) => slots' = slots
            /\ name \in Filed(fs) /\ i # None => OthersKept(i) /\ slots'[i] = EmptySlot
            /\ handle' = handle
            /\ Alone(w) /\ TypeInv'
<1> DEFINE i == Named(w)
           name == client[w].name
           at == IF i = None THEN index[w] ELSE i
           r == Unlink(fs, name)
<1>1. /\ pc[w] = "remove" /\ box_size_lock = Nobody /\ box_size_lock' = w
      /\ Careful /\ i # None => ~InUse(i)
      /\ i # None => slots[i].password = client[w].password
      /\ index' = [index EXCEPT ![w] = at] /\ fs' = r.fs
      /\ slots' = IF r.ret = 0 /\ at \in DOMAIN slots THEN [slots EXCEPT ![at] = EmptySlot]
                                                      ELSE slots
      /\ up' \in BOOLEAN /\ Conclude(w, "remove_answer") /\ handle' = handle
  BY DEF Removed, Enter, At, Keep, Admitted
<1>2. /\ DirOK(fs) /\ name \in Names
      /\ handle \in [Workers -> Handles \cup {None}]
      /\ \E n \in 1 .. MaxSlots : slots \in [0 .. n - 1 -> Slot]
      /\ i # None => i \in DOMAIN slots /\ slots[i].name = name
  BY <1>1, Found DEF Asking
<1> HIDE DEF i, name
<1>3. at \in DOMAIN slots \cup {None, index[w]} /\ (i # None => at = i /\ at \in DOMAIN slots)
  BY <1>2
<1> HIDE DEF at
<1>4. /\ DirOK(r.fs) /\ r.fs.opened = fs.opened /\ Filed(r.fs) = Filed(fs) \ {name}
      /\ r.ret = 0 <=> name \in Filed(fs)
  BY <1>2, Removes DEF Filed
<1> HIDE DEF r
<1>5. /\ \E n \in 1 .. MaxSlots : slots' \in [0 .. n - 1 -> Slot]
      /\ DOMAIN slots' = DOMAIN slots
      /\ r.ret # 0 => slots' = slots
      /\ r.ret = 0 /\ i # None => OthersKept(i) /\ slots'[i] = EmptySlot
  BY <1>1, <1>2, <1>3, SlotsMove, Sorts DEF OthersKept
<1>6. /\ index' \in [Workers -> 0 .. MaxSlots - 1 \cup {None}]
      /\ \A v \in Workers \ {w} : index'[v] = index[v]
  BY <1>1, <1>3, IndexMoves
<1>7. /\ \A v \in Workers \ {w} : pc'[v] = pc[v] /\ client'[v] = client[v]
      /\ pc'[w] = "remove_answer" /\ client' \in [Workers -> Request]
      /\ pc' \in [Workers -> Labels]
  BY <1>1, PlacesMove DEF Labels
<1>8. Alone(w) /\ LockMoves(w)
  BY <1>1, <1>6, <1>7 DEF Alone, LockMoves, Holding, Creating
<1>9. TypeInv'
  <2>1. "remove_answer" \notin Asking \cup Creating \cup Sessions
    BY DEF Asking, Creating, Sessions
  <2> QED
    BY <1>1, <1>2, <1>4, <1>5, <1>6, <1>7, <1>8, <2>1, Moves
<1> QED
  BY <1>1, <1>2, <1>4, <1>5, <1>7, <1>8, <1>9 DEF i, name

(* A password set. *)
LEMMA PasswordSetIs ==
  ASSUME TypeInv, NEW w \in Workers, NEW password \in Passwords, PasswordSet(w, password)
  PROVE  LET i == Named(w)
         IN /\ pc[w] \in {"unlock", "lock"} /\ pc'[w] = "answer" /\ box_size_lock = Nobody
            /\ i \in DOMAIN slots /\ slots[i].name = client[w].name
            /\ slots[i].password = client[w].password /\ client[w].name \in Names
            /\ OthersKept(i) /\ slots'[i] = [slots[i] EXCEPT !.password = password]
            /\ UNCHANGED <<fs, up, box_size_lock, handle>>
            /\ Alone(w) /\ TypeInv'
<1> DEFINE i == Named(w)
<1>1. /\ pc[w] \in {"unlock", "lock"} /\ box_size_lock = Nobody
      /\ i # None /\ slots[i].password = client[w].password
      /\ index' = [index EXCEPT ![w] = i] /\ slots' = [slots EXCEPT ![i].password = password]
      /\ Conclude(w, "answer") /\ UNCHANGED <<fs, up, box_size_lock, handle>>
  BY DEF PasswordSet, Enter, At, Admitted
<1>2. /\ DirOK(fs) /\ up \in BOOLEAN /\ client[w].name \in Names
      /\ handle \in [Workers -> Handles \cup {None}]
      /\ i \in DOMAIN slots /\ slots[i].name = client[w].name
  BY <1>1, Found DEF Asking
<1> HIDE DEF i
<1>3. /\ \E m \in 1 .. MaxSlots : slots' \in [0 .. m - 1 -> Slot]
      /\ OthersKept(i) /\ slots'[i] = [slots[i] EXCEPT !.password = password]
  BY <1>1, <1>2, SlotWrites DEF OthersKept
<1>4. /\ index' \in [Workers -> 0 .. MaxSlots - 1 \cup {None}]
      /\ index'[w] = i /\ \A v \in Workers \ {w} : index'[v] = index[v]
  BY <1>1, <1>2, IndexMoves
<1>5. /\ \A v \in Workers \ {w} : pc'[v] = pc[v] /\ client'[v] = client[v]
      /\ pc'[w] = "answer" /\ client' \in [Workers -> Request] /\ pc' \in [Workers -> Labels]
  BY <1>1, PlacesMove DEF Labels
<1>6. Alone(w) /\ LockMoves(w)
  BY <1>1, <1>4, <1>5 DEF Alone, LockMoves, Holding, Creating
<1>7. TypeInv'
  <2>1. "answer" \notin Asking \cup Creating \cup Sessions
    BY DEF Asking, Creating, Sessions
  <2> QED
    BY <1>1, <1>2, <1>3, <1>4, <1>5, <1>6, <2>1, Moves DEF OthersKept
<1> QED
  BY <1>1, <1>2, <1>3, <1>4, <1>5, <1>6, <1>7 DEF i

(* Every step keeps the types and is the step of one worker. *)
LEMMA NextTypes ==
  ASSUME TypeInv, [Next]_vars
  PROVE  TypeInv'
<1>1. CASE UNCHANGED vars
  BY <1>1 DEF vars, TypeInv, TypeOK, Existing, DirOK
<1>2. CASE Next
  <2>1. PICK w \in Workers : Quiet(w) \/ Touching(w)
    BY <1>2, StepIs
  <2> QED
    BY <2>1, QuietIs, PubAdmitIs, SubAdmitIs, OpenIs, EndIs, SlotTakenTypes, CreateBoxFileIs,
       CreateAnswerIs, RemovedIs, PasswordSetIs DEF Touching
<1> QED
  BY <1>1, <1>2

(* The broker at its start. *)
LEMMA InitTypes == Init => TypeInv
<1> SUFFICES ASSUME Init PROVE TypeInv
  OBVIOUS
<1>1. fs = InitialState /\ DirOK(fs)
  BY InitialDir DEF Init
<1>2. TypeOK
  <2> DEFINE n == Cardinality(Workers)
  <2>1. n \in 1 .. MaxSlots /\ EmptySlot \in Slot /\ NoClient \in Request
    BY Sorts
  <2>2. slots = [i \in 0 .. n - 1 |-> EmptySlot]
    BY DEF Init
  <2> HIDE DEF n
  <2>3. slots \in [0 .. n - 1 -> Slot]
    BY <2>1, <2>2
  <2>4. "idle" \in Labels
    BY DEF Labels
  <2> QED
    BY <2>1, <2>3, <2>4 DEF Init, TypeOK, Slot, Request
<1>3. \A w \in Workers : pc[w] = "idle" /\ box_size_lock # w
  BY Sorts DEF Init
<1>4. "idle" \notin Asking \cup Holding \cup Creating \cup Sessions
  BY DEF Asking, Holding, Creating, Sessions
<1> QED
  BY <1>1, <1>2, <1>3, <1>4 DEF TypeInv

(* The variables have their types: in particular a worker that uses its    *)
(* index uses one inside server_boxes, which may have moved meanwhile.     *)
THEOREM TypesCorrect == Spec => []TypeOK
<1>1. TypeInv => TypeOK
  BY DEF TypeInv
<1> QED
  BY <1>1, InitTypes, NextTypes, PTL DEF Spec

(* box_size_lock excludes: no two handlers are between a creation's, a     *)
(* removal's or a refusal's first step and its answer.                     *)
THEOREM TableLockExcludes ==
  Spec => [](\A v, w \in Workers : pc[v] \in Holding /\ pc[w] \in Holding => v = w)
<1>1. TypeInv => \A v, w \in Workers : pc[v] \in Holding /\ pc[w] \in Holding => v = w
  BY DEF TypeInv
<1> QED
  BY <1>1, InitTypes, NextTypes, PTL DEF Spec

(* A handler in a session or a creation uses a slot of the table.          *)
THEOREM IndexInTable ==
  Spec => [](\A w \in Workers : pc[w] \in Creating \cup Sessions => index[w] \in DOMAIN slots)
<1>1. TypeInv => \A w \in Workers : pc[w] \in Creating \cup Sessions => index[w] \in DOMAIN slots
  BY DEF TypeInv
<1> QED
  BY <1>1, InitTypes, NextTypes, PTL DEF Spec

-----------------------------------------------------------------------------
(* A creation that has its slot but not, or not any more, the file to it.  *)
Unmade == {"create_file", "create_failed"}

(* The invariants of the names and the files, and a handle for everybody.  *)
Settled == TypeInv /\ NamesInv /\ FilesInv

(* A step of w that changes neither the boxes there are nor the files.     *)
Kept(w) ==
  /\ Alone(w) /\ TypeInv'
  /\ DOMAIN slots' = DOMAIN slots
  /\ \A i \in DOMAIN slots : slots'[i].free = slots[i].free /\ slots'[i].name = slots[i].name
  /\ Filed(fs') = Filed(fs)
  /\ \A h \in fs'.opened : h # handle'[w] => h \in fs.opened /\ h # handle[w]
  /\ handle'[w] # None => pc'[w] \in {"sub_pipe", "subscribed", "publishing"}
  /\ pc'[w] \in Creating => /\ pc'[w] = pc[w] /\ index'[w] = index[w]
                            /\ pc[w] = "create_file" => client'[w].name = client[w].name
  /\ pc[w] \in Unmade => pc'[w] = pc[w]

(* Only one creation goes on at a time, and none while the lock is free.   *)
LEMMA OneCreation ==
  ASSUME TypeInv
  PROVE  /\ \A v, w \in Workers : pc[v] \in Creating /\ pc[w] \in Creating => v = w
         /\ box_size_lock = Nobody => \A w \in Workers : pc[w] \notin Creating
         /\ \A i : Filling(i) <=> \E w \in Workers : pc[w] \in Unmade /\ index[w] = i
<1>1. \A w \in Workers : pc[w] \in Creating => box_size_lock = w
  BY DEF TypeInv, Holding
<1>2. Nobody \notin Workers
  BY Sorts
<1> QED
  BY <1>1, <1>2 DEF Filling, Unmade

(* Boxes and files stay in step when neither changes. *)
LEMMA KeptFiles ==
  ASSUME Settled, NEW w \in Workers, Kept(w)
  PROVE  NamesInv' /\ FilesInv' /\ Existing' = Existing
<1> USE DEF Settled
<1>1. /\ \A v \in Workers \ {w} : /\ pc'[v] = pc[v] /\ index'[v] = index[v]
                                  /\ handle'[v] = handle[v] /\ client'[v] = client[v]
      /\ \A v \in Workers : pc[v] \in Creating => index[v] \in DOMAIN slots
  BY DEF Kept, Alone, TypeInv
<1>2. NamesInv'
  BY DEF NamesInv, Kept
<1>3. \A i : Filling(i)' <=> Filling(i)
  <2>1. \A v \in Workers : /\ pc'[v] \in Unmade <=> pc[v] \in Unmade
                           /\ pc[v] \in Unmade => index'[v] = index[v]
    BY <1>1 DEF Kept, Unmade, Creating
  <2> QED
    BY <2>1 DEF Filling, Unmade
<1>4. Existing' = Existing
  BY <1>3 DEF Existing, Kept
<1>5. BoxNames' = BoxNames
  BY <1>4 DEF BoxNames, Kept, Existing
<1>6. \A h \in fs'.opened : \E v \in Workers : handle'[v] = h
  <2> SUFFICES ASSUME NEW h \in fs'.opened, h # handle'[w]
               PROVE  \E v \in Workers : handle'[v] = h
    OBVIOUS
  <2>1. h \in fs.opened /\ h # handle[w]
    BY DEF Kept
  <2>2. PICK v \in Workers : handle[v] = h
    BY <2>1 DEF FilesInv
  <2> QED
    BY <1>1, <2>1, <2>2
<1>7. \A v \in Workers : handle'[v] # None => pc'[v] \in {"sub_pipe", "subscribed", "publishing"}
  BY <1>1 DEF FilesInv, Kept
<1>8. \A v \in Workers : pc'[v] \in Creating =>
         /\ slots'[index'[v]].free = 1
         /\ pc'[v] = "create_file" => slots'[index'[v]].name = client'[v].name
  BY <1>1 DEF FilesInv, Kept
<1> QED
  BY <1>2, <1>4, <1>5, <1>6, <1>7, <1>8 DEF FilesInv, Kept, Creating

(* A slot taken for a creation is not yet a box. *)
LEMMA TakenFiles ==
  ASSUME Settled, NEW w \in Workers, SlotTaken(w)
  PROVE  NamesInv' /\ FilesInv' /\ Existing' = Existing
<1> USE DEF Settled
<1> DEFINE i == index'[w]
<1>1. /\ pc[w] = "create" /\ box_size_lock = Nobody
      /\ Named(w) = None /\ Alone(w) /\ client' = client
      /\ fs' = fs /\ handle' = handle /\ pc'[w] = "create_file"
      /\ DOMAIN slots \subseteq DOMAIN slots' /\ i \in DOMAIN slots'
      /\ i \in DOMAIN slots => slots[i].free = 0
      /\ slots'[i].free = 1 /\ slots'[i].name = client[w].name
      /\ \A k \in DOMAIN slots \ {i} : slots'[k] = slots[k]
      /\ \A k \in DOMAIN slots' \ (DOMAIN slots \cup {i}) : slots'[k] = EmptySlot
  BY SlotTakenIs
<1> HIDE DEF i
<1>2. /\ \A v \in Workers \ {w} : /\ pc'[v] = pc[v] /\ index'[v] = index[v]
                                  /\ handle'[v] = handle[v] /\ client'[v] = client[v]
      /\ \A v \in Workers : pc[v] \notin Creating
  BY <1>1, OneCreation DEF Alone
<1>3. /\ client[w].name \in Names /\ client[w].name # NoName
      /\ \A k \in DOMAIN slots : slots[k].name # client[w].name
      /\ EmptySlot.free = 0 /\ EmptySlot.name = NoName
  BY <1>1, Found, FindIs, Sorts DEF Asking, Named, TypeInv, EmptySlot
<1>4. NamesInv'
  <2>1. \A k \in DOMAIN slots' \ {i} : \/ k \in DOMAIN slots /\ slots'[k] = slots[k]
                                       \/ slots'[k].free = 0 /\ slots'[k].name = NoName
    BY <1>1, <1>3
  <2>2. \A k \in DOMAIN slots' \ {i} : /\ slots'[k].free = 1 <=> slots'[k].name # NoName
                                       /\ slots'[k].name # client[w].name
    BY <1>3, <2>1 DEF NamesInv
  <2>3. \A j, k \in DOMAIN slots' \ {i} :
           slots'[j].name = slots'[k].name /\ slots'[j].name # NoName => j = k
    BY <2>1 DEF NamesInv
  <2> QED
    BY <1>1, <1>3, <2>2, <2>3 DEF NamesInv
<1>5. \A k : ~Filling(k) /\ (Filling(k)' <=> k = i)
  <2>1. \A v \in Workers : pc'[v] \in Unmade <=> v = w
    BY <1>1, <1>2 DEF Unmade, Creating
  <2> QED
    BY <1>2, <2>1 DEF Filling, Unmade, Creating, i
<1>6. Existing' = Existing
  <2>1. \A k : k \in Existing' <=> k \in DOMAIN slots' /\ slots'[k].free = 1 /\ k # i
    BY <1>5 DEF Existing
  <2>2. \A k : k \in Existing <=> k \in DOMAIN slots /\ slots[k].free = 1
    BY <1>5 DEF Existing
  <2>3. \A k : k \in Existing' <=> k \in Existing
    BY <1>1, <1>3, <2>1, <2>2
  <2> QED
    BY <2>3
<1>7. BoxNames' = BoxNames
  <2>1. \A k \in Existing : slots'[k] = slots[k]
    BY <1>1, <1>5, <1>6 DEF Existing
  <2> QED
    BY <1>6, <2>1 DEF BoxNames
<1>8. \A v \in Workers : handle'[v] # None => pc'[v] \in {"sub_pipe", "subscribed", "publishing"}
  BY <1>1, <1>2 DEF FilesInv
<1>9. \A v \in Workers : pc'[v] \in Creating =>
         /\ slots'[index'[v]].free = 1
         /\ pc'[v] = "create_file" => slots'[index'[v]].name = client'[v].name
  BY <1>1, <1>2 DEF i
<1> QED
  BY <1>1, <1>4, <1>6, <1>7, <1>8, <1>9 DEF FilesInv, Creating

(* While a worker makes a file, a handle is left: it has none itself, and  *)
(* those that are open belong to the others.                               *)
LEMMA HandlesLeft ==
  ASSUME Settled, Cardinality(Workers) <= MaxOpen, NEW w \in Workers, handle[w] = None
  PROVE  ~(Handles \subseteq fs.opened)
<1> DEFINE others == Workers \ {w}
           f == [v \in others |-> handle[v]]
           held == {f[v] : v \in others}
<1>1. IsFiniteSet(Workers) /\ MaxOpen \in Nat /\ Handles = 0 .. MaxOpen - 1 /\ None \notin Handles
  BY BoxesAssumption, TfsAssumption, Sizes DEF Handles
<1>2. IsFiniteSet(others) /\ Cardinality(others) = Cardinality(Workers) - 1
      /\ Cardinality(Workers) \in Nat
  BY <1>1, FS_RemoveElement, FS_CardinalityType
<1>3. IsFiniteSet(Handles) /\ Cardinality(Handles) = MaxOpen
  <2>1. CASE MaxOpen = 0
    <3>1. Handles = {}
      BY <1>1, <2>1
    <3> QED
      BY <2>1, <3>1, FS_EmptySet
  <2>2. CASE MaxOpen # 0
    <3>1. 0 \in Int /\ MaxOpen - 1 \in Int /\ ~(0 > MaxOpen - 1) /\ (MaxOpen - 1) - 0 + 1 = MaxOpen
      BY <1>1, <2>2
    <3> QED
      BY <1>1, <3>1, FS_Interval
  <2> QED
    BY <2>1, <2>2
<1>4. IsFiniteSet(held) /\ Cardinality(held) <= Cardinality(others)
  <2>1. f \in Surjection(others, held)
    BY DEF Surjection
  <2> QED
    BY <1>2, <2>1, FS_Surjection
<1>5. \A h \in fs.opened : h \in Handles => h \in held
  <2> SUFFICES ASSUME NEW h \in fs.opened, h \in Handles PROVE h \in held
    OBVIOUS
  <2>1. PICK v \in Workers : handle[v] = h
    BY DEF Settled, FilesInv
  <2> QED
    BY <1>1, <2>1
<1> HIDE DEF held, others
<1>6. SUFFICES ASSUME Handles \subseteq fs.opened PROVE FALSE
  OBVIOUS
<1>7. Handles \subseteq held
  BY <1>5, <1>6
<1>8. Cardinality(Handles) <= Cardinality(held) /\ Cardinality(held) \in Nat
  BY <1>4, <1>7, FS_Subset, FS_CardinalityType
<1> QED
  BY <1>1, <1>2, <1>3, <1>4, <1>8

(* The file is made: from this step on the box is there, unless making it  *)
(* failed.                                                                 *)
LEMMA MadeFiles ==
  ASSUME Settled, Cardinality(Workers) <= MaxOpen, NEW w \in Workers, CreateBoxFile(w)
  PROVE  /\ NamesInv' /\ FilesInv' /\ index[w] \notin Existing
         /\ client[w].name \notin BoxNames
         /\ Existing' = IF pc'[w] = "create_made" THEN Existing \cup {index[w]} ELSE Existing
<1> USE DEF Settled
<1> DEFINE i == index[w]
           name == client[w].name
           made == pc'[w] = "create_made"
<1>1. /\ pc[w] = "create_file" /\ pc'[w] \in {"create_made", "create_failed"}
      /\ name \in Names /\ fs'.opened \subseteq fs.opened
      /\ Lookup(fs, name) = None /\ ~(Handles \subseteq fs.opened) =>
           Filed(fs') = IF made THEN Filed(fs) \cup {name} ELSE Filed(fs)
      /\ UNCHANGED <<slots, index, handle>> /\ Alone(w) /\ TypeInv'
  BY CreateBoxFileIs
<1>2. /\ i \in DOMAIN slots /\ slots[i].free = 1 /\ slots[i].name = name /\ Filling(i)
      /\ handle[w] = None /\ name # NoName
  BY <1>1, Found, Sorts DEF FilesInv, Filling, Creating
<1>3. /\ \A v \in Workers \ {w} : pc[v] \notin Creating /\ pc'[v] \notin Creating
      /\ \A v \in Workers \ {w} : pc'[v] = pc[v]
  BY <1>1, OneCreation DEF Alone, Creating
<1>4. i \notin Existing /\ name \notin BoxNames
  BY <1>2 DEF Existing, BoxNames, NamesInv
<1>5. Filed(fs') = IF made THEN Filed(fs) \cup {name} ELSE Filed(fs)
  <2>1. Lookup(fs, name) = None
    BY <1>1, <1>4 DEF FilesInv, Filed
  <2> QED
    BY <1>1, <1>2, <2>1, HandlesLeft
<1> HIDE DEF i, name
<1>6. \A k : Filling(k) <=> k = i
  BY <1>1, <1>3 DEF Filling, Creating, i
<1>7. \A k : Filling(k)' <=> k = i /\ ~made
  <2>1. \A v \in Workers : pc'[v] \in Unmade <=> v = w /\ ~made
    BY <1>1, <1>3 DEF Unmade, Creating
  <2> QED
    BY <1>1, <2>1 DEF Filling, Unmade, i
<1>8. Existing' = IF made THEN Existing \cup {i} ELSE Existing
  BY <1>1, <1>2, <1>6, <1>7 DEF Existing
<1>9. BoxNames' = IF made THEN BoxNames \cup {name} ELSE BoxNames
  BY <1>1, <1>2, <1>8 DEF BoxNames
<1>10. NamesInv'
  BY <1>1 DEF NamesInv
<1>11. FilesInv'
  <2>1. \A v \in Workers : handle'[v] # None => pc'[v] \in {"sub_pipe", "subscribed", "publishing"}
    BY <1>1, <1>2, <1>3 DEF FilesInv
  <2>2. \A v \in Workers : pc'[v] \in Creating =>
           /\ slots'[index'[v]].free = 1
           /\ pc'[v] = "create_file" => slots'[index'[v]].name = client'[v].name
    BY <1>1, <1>2, <1>3 DEF i
  <2>3. \A h \in fs'.opened : \E v \in Workers : handle'[v] = h
    BY <1>1 DEF FilesInv
  <2>4. Filed(fs') = BoxNames'
    BY <1>5, <1>9 DEF FilesInv
  <2> QED
    BY <2>1, <2>2, <2>3, <2>4 DEF FilesInv, Creating
<1> QED
  BY <1>4, <1>8, <1>10, <1>11 DEF i, name

(* The answer to a creation: if it failed, the slot is free again. *)
LEMMA AnsweredFiles ==
  ASSUME Settled, NEW w \in Workers, CreateAnswer(w)
  PROVE  NamesInv' /\ FilesInv' /\ Existing' = Existing
<1> USE DEF Settled
<1> DEFINE i == index[w]
<1>1. /\ pc[w] \in {"create_made", "create_failed"} /\ pc'[w] = "idle"
      /\ i \in DOMAIN slots
      /\ pc[w] = "create_made" => slots' = slots
      /\ pc[w] = "create_failed" => /\ OthersKept(i)
                                    /\ slots'[i].free = 0 /\ slots'[i].name = NoName
      /\ UNCHANGED <<fs, up, index, handle>>
      /\ Alone(w) /\ TypeInv'
  BY CreateAnswerIs
<1>2. handle[w] = None
  BY <1>1 DEF FilesInv
<1>3. CASE pc[w] = "create_made"
  <2>1. Kept(w)
    <3>1. \A h \in fs'.opened : h # handle'[w] => h \in fs.opened /\ h # handle[w]
      BY <1>1
    <3>2. handle'[w] = None
      BY <1>1, <1>2
    <3> QED
      BY <1>1, <1>3, <3>1, <3>2 DEF Kept, Creating, Unmade
  <2> QED
    BY <2>1, KeptFiles
<1>4. CASE pc[w] = "create_failed"
  <2>1. /\ \A v \in Workers \ {w} : pc[v] \notin Creating
        /\ \A v \in Workers : pc'[v] \notin Creating
        /\ \A v \in Workers \ {w} : pc'[v] = pc[v] /\ handle'[v] = handle[v]
    BY <1>1, OneCreation DEF Alone, Creating
  <2>2. (\A k : Filling(k) <=> k = i) /\ (\A k : ~Filling(k)')
    BY <1>4, <2>1 DEF Filling, Creating
  <2> HIDE DEF i
  <2>3. Existing' = Existing
    <3>1. \A k : k \in Existing' <=> k \in Existing
      BY <1>1, <1>4, <2>2 DEF Existing, OthersKept
    <3> QED
      BY <3>1
  <2>4. BoxNames' = BoxNames
    <3>1. \A k \in Existing : slots'[k] = slots[k]
      BY <1>1, <1>4, <2>2 DEF Existing, OthersKept
    <3> QED
      BY <2>3, <3>1 DEF BoxNames
  <2>5. NamesInv'
    BY <1>1, <1>4 DEF NamesInv, OthersKept
  <2>6. \A v \in Workers : handle'[v] # None => pc'[v] \in {"sub_pipe", "subscribed", "publishing"}
    BY <1>1, <1>2, <2>1 DEF FilesInv
  <2> QED
    BY <1>1, <2>1, <2>3, <2>4, <2>5, <2>6 DEF FilesInv, Creating
<1> QED
  BY <1>1, <1>3, <1>4

(* A removal takes the box and its file, or nothing. *)
LEMMA RemovedFiles ==
  ASSUME Settled, NEW w \in Workers, Removed(w)
  PROVE  LET i == Named(w)
             name == client[w].name
         IN /\ NamesInv' /\ FilesInv'
            /\ name \notin BoxNames => slots' = slots /\ Existing' = Existing
            /\ name \in BoxNames => /\ i \in Existing /\ slots[i].name = name
                                    /\ OthersKept(i) /\ slots'[i] = EmptySlot
                                    /\ Existing' = Existing \ {i}
                                    /\ BoxNames' = BoxNames \ {name}
<1> USE DEF Settled
<1> DEFINE i == Named(w)
           name == client[w].name
<1>1. /\ pc[w] = "remove" /\ pc'[w] = "remove_answer"
      /\ box_size_lock = Nobody /\ name \in Names
      /\ i # None => i \in DOMAIN slots /\ slots[i].name = name
      /\ Filed(fs') = Filed(fs) \ {name} /\ fs'.opened = fs.opened
      /\ name \notin Filed(fs) => slots' = slots
      /\ name \in Filed(fs) /\ i # None => OthersKept(i) /\ slots'[i] = EmptySlot
      /\ handle' = handle
      /\ Alone(w) /\ TypeInv'
  BY RemovedIs
<1>2. /\ handle[w] = None /\ Filed(fs) = BoxNames
      /\ \A v \in Workers : pc[v] \notin Creating
  BY <1>1, OneCreation DEF FilesInv
<1>3. CASE name \notin BoxNames
  <2>1. Filed(fs') = Filed(fs) /\ slots' = slots
    BY <1>1, <1>2, <1>3
  <2>2. \A h \in fs'.opened : h # handle'[w] => h \in fs.opened /\ h # handle[w]
    BY <1>1
  <2>3. handle'[w] = None
    BY <1>1, <1>2
  <2>4. Kept(w)
    BY <1>1, <2>1, <2>2, <2>3 DEF Kept, Creating, Unmade
  <2> QED
    BY <1>3, <2>1, <2>4, KeptFiles
<1>4. CASE name \in BoxNames
  <2>1. PICK k \in Existing : slots[k].name = name
    BY <1>4 DEF BoxNames
  <2>2. i # None
    BY <2>1, FindIs DEF Existing, Named, TypeInv
  <2>3. i = k
    BY <1>1, <2>1, <2>2, Sorts DEF Existing, NamesInv
  <2>4. OthersKept(i) /\ slots'[i] = EmptySlot /\ i \in DOMAIN slots
    BY <1>1, <1>2, <1>4, <2>2
  <2>5. EmptySlot.free = 0 /\ EmptySlot.name = NoName
    BY DEF EmptySlot
  <2>6. /\ \A v \in Workers : pc'[v] \notin Creating
        /\ \A v \in Workers \ {w} : pc'[v] = pc[v] /\ handle'[v] = handle[v]
    BY <1>1, <1>2 DEF Alone, Creating
  <2>7. (\A j : ~Filling(j)) /\ (\A j : ~Filling(j)')
    BY <1>2, <2>6 DEF Filling, Creating
  <2> HIDE DEF i
  <2>8. Existing' = Existing \ {i}
    <3>1. \A j : j \in Existing' <=> j \in Existing /\ j # i
      BY <2>4, <2>5, <2>7 DEF Existing, OthersKept
    <3> QED
      BY <3>1
  <2>9. BoxNames' = BoxNames \ {name}
    <3>1. \A j \in Existing \ {i} : slots'[j].name = slots[j].name /\ slots[j].name # name
      BY <1>1, <2>1, <2>3, <2>4, Sorts DEF Existing, OthersKept, NamesInv
    <3>2. slots[i].name = name
      BY <2>1, <2>3
    <3> HIDE DEF name
    <3> QED
      BY <2>8, <3>1, <3>2 DEF BoxNames
  <2>10. NamesInv'
    BY <2>4, <2>5 DEF NamesInv, OthersKept
  <2>11. \A v \in Workers : handle'[v] # None => pc'[v] \in {"sub_pipe", "subscribed", "publishing"}
    BY <1>1, <1>2, <2>6 DEF FilesInv
  <2>12. FilesInv'
    BY <1>1, <1>2, <2>6, <2>9, <2>11 DEF FilesInv, Creating
  <2> QED
    BY <1>4, <2>1, <2>3, <2>4, <2>8, <2>9, <2>10, <2>12 DEF i
<1> QED
  BY <1>3, <1>4

(* The other steps neither make nor remove a box. *)
LEMMA OthersKeepFiles ==
  ASSUME Settled, NEW w \in Workers,
         \/ Quiet(w) \/ PubAdmit(w) \/ SubAdmit(w) \/ PubOpen(w) \/ SubOpen(w)
         \/ PubEnd(w) \/ SubEnd(w) \/ \E password \in Passwords : PasswordSet(w, password)
  PROVE  Kept(w)
<1> USE DEF Settled
<1>1. /\ \A h \in fs.opened : \E v \in Workers : handle[v] = h
      /\ handle[w] # None => pc[w] \in {"sub_pipe", "subscribed", "publishing"}
  BY DEF FilesInv
<1>2. \A i \in DOMAIN slots : slots[i] \in Slot
  BY Found
<1>3. CASE Quiet(w)
  <2>1. Alone(w) /\ TypeInv' /\ UNCHANGED <<fs, slots, index, handle>>
    BY <1>3, QuietIs DEF Quiet
  <2>2. /\ handle'[w] # None => pc'[w] \in {"sub_pipe", "subscribed", "publishing"}
        /\ pc'[w] \in Creating => pc'[w] = pc[w] /\ client'[w].name = client[w].name
        /\ pc[w] \in Unmade => pc'[w] = pc[w]
    <3>1. CASE pc[w] \notin Creating \cup Sessions /\ pc'[w] \notin Creating \cup Sessions
      BY <1>1, <2>1, <3>1 DEF Creating, Sessions, Unmade
    <3>2. CASE /\ <<pc[w], pc'[w]>> \in {<<"pub_pipe", "pub_open">>, <<"sub_pipe", "subscribed">>}
                                        \cup {<<label, label>> : label \in Labels}
               /\ client'[w].name = client[w].name
      <4>1. \/ pc[w] = "pub_pipe" /\ pc'[w] = "pub_open"
            \/ pc[w] = "sub_pipe" /\ pc'[w] = "subscribed"
            \/ pc'[w] = pc[w]
        BY <3>2
      <4> QED
        BY <1>1, <2>1, <3>2, <4>1 DEF Creating, Unmade
    <3> QED
      BY <1>3, <3>1, <3>2 DEF Quiet
  <2>3. \A h \in fs'.opened : h # handle'[w] => h \in fs.opened /\ h # handle[w]
    BY <2>1
  <2> QED
    BY <2>1, <2>2, <2>3 DEF Kept
<1>4. CASE PubAdmit(w)
  <2>1. /\ pc[w] = "pub" /\ pc'[w] = "pub_pipe" /\ index'[w] \in DOMAIN slots
        /\ OthersKept(index'[w])
        /\ slots'[index'[w]] = [slots[index'[w]] EXCEPT !.n_pub = 1]
        /\ UNCHANGED <<fs, handle>> /\ Alone(w) /\ TypeInv'
    BY <1>4, PubAdmitIs
  <2>2. handle'[w] = None
    BY <1>1, <2>1
  <2>3. /\ slots'[index'[w]].free = slots[index'[w]].free
        /\ slots'[index'[w]].name = slots[index'[w]].name
    BY <1>2, <2>1 DEF Slot
  <2>4. \A i \in DOMAIN slots : slots'[i].free = slots[i].free /\ slots'[i].name = slots[i].name
    BY <2>1, <2>3 DEF OthersKept
  <2>5. \A h \in fs'.opened : h # handle'[w] => h \in fs.opened /\ h # handle[w]
    BY <2>1
  <2> QED
    BY <2>1, <2>2, <2>4, <2>5 DEF Kept, OthersKept, Creating, Unmade
<1>5. CASE SubAdmit(w)
  <2>1. /\ pc[w] = "sub" /\ pc'[w] = "sub_open"
        /\ UNCHANGED <<fs, slots, handle>> /\ Alone(w) /\ TypeInv'
    BY <1>5, SubAdmitIs
  <2>2. handle'[w] = None
    BY <1>1, <2>1
  <2>3. \A h \in fs'.opened : h # handle'[w] => h \in fs.opened /\ h # handle[w]
    BY <2>1
  <2> QED
    BY <2>1, <2>2, <2>3 DEF Kept, Creating, Unmade
<1>6. CASE PubOpen(w) \/ SubOpen(w)
  <2>1. /\ \/ pc[w] = "pub_open" /\ pc'[w] = IF handle'[w] = None THEN "idle" ELSE "publishing"
           \/ pc[w] = "sub_open" /\ pc'[w] = "sub_pipe"
        /\ Filed(fs') = Filed(fs) /\ fs'.opened = fs.opened \cup ({handle'[w]} \ {None})
        /\ slots' = slots /\ Alone(w) /\ TypeInv'
    BY <1>6, OpenIs
  <2>2. handle[w] = None /\ None \notin fs.opened
    <3>1. fs.opened \subseteq Handles /\ None \notin Handles
      BY Found, Sizes DEF DirOK, Tables
    <3> QED
      BY <1>1, <2>1, <3>1
  <2>3. \A h \in fs'.opened : h # handle'[w] => h \in fs.opened /\ h # handle[w]
    BY <2>1, <2>2
  <2> QED
    BY <2>1, <2>3 DEF Kept, Creating, Unmade
<1>7. CASE PubEnd(w) \/ SubEnd(w)
  <2>1. /\ pc[w] \in {"publishing", "subscribed"} /\ pc'[w] = "idle"
        /\ Filed(fs') = Filed(fs) /\ fs'.opened = fs.opened \ {handle[w]} /\ handle'[w] = None
        /\ index[w] \in DOMAIN slots
        /\ pc[w] = "subscribed" => slots' = slots
        /\ pc[w] = "publishing" => /\ OthersKept(index[w])
                                   /\ slots'[index[w]] = [slots[index[w]] EXCEPT !.n_pub = 0]
        /\ Alone(w) /\ TypeInv'
    BY <1>7, EndIs
  <2>2. /\ DOMAIN slots' = DOMAIN slots
        /\ \A i \in DOMAIN slots : slots'[i].free = slots[i].free /\ slots'[i].name = slots[i].name
    <3>1. CASE pc[w] = "subscribed"
      BY <2>1, <3>1
    <3>2. CASE pc[w] = "publishing"
      <4>1. /\ slots'[index[w]].free = slots[index[w]].free
            /\ slots'[index[w]].name = slots[index[w]].name
        BY <1>2, <2>1, <3>2 DEF Slot
      <4> QED
        BY <2>1, <3>2, <4>1 DEF OthersKept
    <3> QED
      BY <2>1, <3>1, <3>2
  <2>3. \A h \in fs'.opened : h # handle'[w] => h \in fs.opened /\ h # handle[w]
    BY <2>1
  <2> QED
    BY <2>1, <2>2, <2>3 DEF Kept, Creating, Unmade
<1>8. ASSUME NEW password \in Passwords, PasswordSet(w, password)
      PROVE  Kept(w)
  <2> DEFINE i == Named(w)
  <2>1. /\ pc[w] \in {"unlock", "lock"} /\ pc'[w] = "answer" /\ i \in DOMAIN slots
        /\ OthersKept(i) /\ slots'[i] = [slots[i] EXCEPT !.password = password]
        /\ UNCHANGED <<fs, handle>> /\ Alone(w) /\ TypeInv'
    BY <1>8, PasswordSetIs
  <2> HIDE DEF i
  <2>2. handle'[w] = None
    BY <1>1, <2>1
  <2>3. slots'[i].free = slots[i].free /\ slots'[i].name = slots[i].name
    BY <1>2, <2>1 DEF Slot
  <2>4. \A k \in DOMAIN slots : slots'[k].free = slots[k].free /\ slots'[k].name = slots[k].name
    BY <2>1, <2>3 DEF OthersKept
  <2>5. \A h \in fs'.opened : h # handle'[w] => h \in fs.opened /\ h # handle[w]
    BY <2>1
  <2> QED
    BY <2>1, <2>2, <2>4, <2>5 DEF Kept, OthersKept, Creating, Unmade
<1> QED
  BY <1>3, <1>4, <1>5, <1>6, <1>7, <1>8

(* With a handle for every worker, names and files keep what is said of    *)
(* them.                                                                   *)
LEMMA NextFiles ==
  ASSUME Settled, Cardinality(Workers) <= MaxOpen, [Next]_vars
  PROVE  Settled'
<1>1. TypeInv'
  BY NextTypes DEF Settled
<1>2. CASE UNCHANGED vars
  BY <1>1, <1>2 DEF vars, Settled, NamesInv, FilesInv, BoxNames, Existing, Filling
<1>3. CASE Next
  <2>1. PICK w \in Workers : Quiet(w) \/ Touching(w)
    BY <1>3, StepIs DEF Settled
  <2>2. NamesInv' /\ FilesInv'
    BY <2>1, OthersKeepFiles, KeptFiles, TakenFiles, MadeFiles, AnsweredFiles, RemovedFiles
       DEF Touching
  <2> QED
    BY <1>1, <2>2 DEF Settled
<1> QED
  BY <1>2, <1>3

(* At the start there are no boxes and no files. *)
LEMMA InitFiles == Init => Settled
<1> SUFFICES ASSUME Init PROVE Settled
  OBVIOUS
<1>1. TypeInv
  BY InitTypes
<1>2. \A i \in DOMAIN slots : slots[i].free = 0 /\ slots[i].name = NoName
  BY DEF Init, EmptySlot
<1>3. NamesInv
  BY <1>2 DEF NamesInv
<1>4. /\ fs.opened = {} /\ Filed(fs) = {}
      /\ \A w \in Workers : handle[w] = None /\ pc[w] = "idle"
  BY InitialDir DEF Init
<1>5. BoxNames = {}
  BY <1>2 DEF BoxNames, Existing
<1> QED
  BY <1>1, <1>3, <1>4, <1>5 DEF Settled, FilesInv, Creating

(* One box per name, so that counting boxes and counting names is the same. *)
LEMMA SettledMatch == Settled => FilesMatch
<1> SUFFICES ASSUME Settled PROVE FilesMatch
  OBVIOUS
<1>1. BoxNames = {n \in Names : Lookup(fs, n) # None}
  BY DEF Settled, FilesInv, Filed
<1>2. IsFiniteSet(Existing)
  <2>1. IsFiniteSet(DOMAIN slots) /\ Existing \subseteq DOMAIN slots
    BY TableIs DEF Settled, TypeInv, Existing
  <2> QED
    BY <2>1, FS_Subset
<1> DEFINE f == [i \in Existing |-> slots[i].name]
<1>3. f \in Surjection(Existing, BoxNames)
  BY DEF Surjection, BoxNames
<1>4. \A i, j \in Existing : f[i] = f[j] => i = j
  <2>1. \A i, j \in Existing : slots[i].name = slots[j].name => i = j
    BY DEF Settled, NamesInv, Existing
  <2> QED
    BY <2>1
<1>5. Cardinality(BoxNames) = Cardinality(Existing)
  <2> HIDE DEF f
  <2>1. f \in Injection(Existing, BoxNames)
    BY <1>3, <1>4 DEF Surjection, Injection, IsInjective
  <2> QED
    BY <1>2, <1>3, <2>1, FS_Surjection
<1> QED
  BY <1>1, <1>5 DEF FilesMatch

(* Boxes and files correspond one to one, as long as TecnicoFS has a       *)
(* handle for every worker: a failed creation leaves neither and a removal *)
(* takes both, whatever the managers do, and even if they remove boxes in  *)
(* use.                                                                    *)
THEOREM FilesAreBoxes ==
  ASSUME Cardinality(Workers) <= MaxOpen
  PROVE  Spec => []FilesMatch
<1> SUFFICES Spec => []Settled
  BY SettledMatch, PTL
<1>1. Settled /\ [Next]_vars => Settled'
  BY NextFiles
<1> QED
  BY <1>1, InitFiles, PTL DEF Spec

-----------------------------------------------------------------------------
(* What the others need of the slots that their sessions and creations use. *)
Spared(w) ==
  \A v \in Workers \ {w} :
    /\ pc[v] \in Sessions => /\ index[v] \in Existing'
                             /\ slots'[index[v]].name = slots[index[v]].name
    /\ pc[v] \in Writing => slots'[index[v]].n_pub = slots[index[v]].n_pub
    /\ pc[v] = "create_file" => slots'[index[v]].password = slots[index[v]].password

(* A step of w that spares the others keeps what is said of sessions, if   *)
(* that holds of w's own.                                                  *)
LEMMA UseMoves ==
  ASSUME UseInv, NEW w \in Workers, Alone(w), Spared(w),
         pc'[w] \in Sessions => /\ index'[w] \in Existing'
                                /\ slots'[index'[w]].name = client'[w].name,
         pc'[w] \in Writing =>
           /\ slots'[index'[w]].n_pub = 1
           /\ \A v \in Workers \ {w} : pc[v] \in Writing => index[v] # index'[w],
         pc'[w] = "create_file" => slots'[index'[w]].password = client'[w].password
  PROVE  UseInv'
<1>1. \A v \in Workers \ {w} : /\ pc'[v] = pc[v] /\ index'[v] = index[v]
                               /\ client'[v] = client[v]
  BY DEF Alone
<1>2. \A v \in Workers : pc'[v] \in Sessions => /\ index'[v] \in Existing'
                                                /\ slots'[index'[v]].name = client'[v].name
  BY <1>1 DEF UseInv, Spared
<1>3. \A v \in Workers : pc'[v] \in Writing => slots'[index'[v]].n_pub = 1
  BY <1>1 DEF UseInv, Spared
<1>4. \A u, v \in Workers : pc'[u] \in Writing /\ pc'[v] \in Writing /\ index'[u] = index'[v]
                            => u = v
  BY <1>1 DEF UseInv
<1>5. \A v \in Workers : pc'[v] = "create_file" => slots'[index'[v]].password = client'[v].password
  BY <1>1 DEF UseInv, Spared
<1> QED
  BY <1>2, <1>3, <1>4, <1>5 DEF UseInv

(* Steps that change at most the slots of other boxes spare everybody. *)
LEMMA SparedIf ==
  ASSUME Settled, UseInv, NEW w \in Workers, Existing \subseteq Existing',
         \A i \in Existing : slots'[i] = slots[i],
         slots' = slots \/ box_size_lock = Nobody \/ pc[w] \in Creating
  PROVE  Spared(w)
<1>1. \A v \in Workers : pc[v] \in Sessions => /\ index[v] \in Existing'
                                               /\ slots'[index[v]] = slots[index[v]]
  BY DEF UseInv
<1>2. \A v \in Workers \ {w} : pc[v] = "create_file" => pc[w] \notin Creating
                                                        /\ box_size_lock # Nobody
  BY OneCreation DEF Settled, Creating
<1>3. \A v \in Workers \ {w} : pc[v] = "create_file" => slots'[index[v]] = slots[index[v]]
  BY <1>2
<1>4. Writing \subseteq Sessions
  BY DEF Writing, Sessions
<1> QED
  BY <1>1, <1>3, <1>4 DEF Spared

(* While the lock is free, a slot found by its name is a box. *)
LEMMA FoundExists ==
  ASSUME Settled, box_size_lock = Nobody, NEW i \in DOMAIN slots, slots[i].name \in Names
  PROVE  i \in Existing /\ slots[i].name \in BoxNames
<1>1. slots[i].free = 1
  BY Sorts DEF Settled, NamesInv
<1>2. ~Filling(i)
  BY OneCreation DEF Settled, Filling, Creating
<1> QED
  BY <1>1, <1>2 DEF Existing, BoxNames

(* Sessions keep their boxes, as long as no box is removed in use. *)
LEMMA NextUses ==
  ASSUME Settled, UseInv, Careful, Cardinality(Workers) <= MaxOpen,
         NEW w \in Workers, Quiet(w) \/ Touching(w)
  PROVE  UseInv'
<1> USE DEF Settled
<1>1. \A i \in DOMAIN slots : slots[i] \in Slot
  BY Found
<1>2. CASE Quiet(w)
  <2>1. Alone(w) /\ Existing' = Existing /\ UNCHANGED <<slots, index>>
    BY <1>2, OthersKeepFiles, KeptFiles DEF Quiet, Kept
  <2>2. Spared(w)
    BY <2>1, SparedIf
  <2>3. /\ pc'[w] \in Sessions => pc[w] \in Sessions
        /\ pc'[w] \in Writing => pc[w] \in Writing
        /\ pc'[w] = "create_file" => pc[w] = "create_file"
        /\ pc'[w] \in Creating \cup Sessions => client'[w].name = client[w].name
                                                /\ client'[w].password = client[w].password
    <3>1. Writing \subseteq Sessions /\ "create_file" \in Creating
      BY DEF Writing, Sessions, Creating
    <3>2. CASE pc'[w] \notin Creating \cup Sessions
      BY <3>1, <3>2
    <3>3. CASE pc'[w] \in Creating \cup Sessions
      <4>1. /\ \/ pc[w] = "pub_pipe" /\ pc'[w] = "pub_open"
               \/ pc[w] = "sub_pipe" /\ pc'[w] = "subscribed"
               \/ pc'[w] = pc[w]
            /\ client'[w].name = client[w].name /\ client'[w].password = client[w].password
        BY <1>2, <3>3 DEF Quiet
      <4> QED
        BY <4>1 DEF Writing, Sessions
    <3> QED
      BY <3>2, <3>3
  <2>4. "create_file" \in Creating
    BY DEF Creating
  <2>5. /\ pc[w] \in Sessions => index[w] \in Existing /\ slots[index[w]].name = client[w].name
        /\ pc[w] \in Writing => slots[index[w]].n_pub = 1
        /\ pc[w] \in Writing =>
             \A v \in Workers \ {w} : pc[v] \in Writing => index[v] # index[w]
        /\ pc[w] = "create_file" => slots[index[w]].password = client[w].password
    BY DEF UseInv
  <2> QED
    BY <2>1, <2>2, <2>3, <2>4, <2>5, UseMoves
<1>3. CASE PubAdmit(w)
  <2> DEFINE i == index'[w]
  <2>1. /\ pc[w] = "pub" /\ pc'[w] = "pub_pipe" /\ box_size_lock = Nobody
        /\ i \in DOMAIN slots /\ slots[i].name = client[w].name /\ slots[i].n_pub # 1
        /\ OthersKept(i) /\ slots'[i] = [slots[i] EXCEPT !.n_pub = 1]
        /\ client' = client /\ Alone(w)
    BY <1>3, PubAdmitIs
  <2> HIDE DEF i
  <2>2. Existing' = Existing
    BY <1>3, OthersKeepFiles, KeptFiles
  <2>3. i \in Existing
    BY <2>1, Found, FoundExists DEF Asking
  <2>4. /\ slots'[i].name = slots[i].name /\ slots'[i].n_pub = 1
        /\ slots'[i].password = slots[i].password
    BY <1>1, <2>1 DEF Slot
  <2>5. \A v \in Workers \ {w} : pc[v] \in Writing => index[v] # i
    BY <2>1 DEF UseInv
  <2>6. Spared(w)
    <3>1. \A k \in DOMAIN slots : slots'[k].name = slots[k].name
                                  /\ slots'[k].password = slots[k].password
      BY <2>1, <2>4 DEF OthersKept
    <3>2. \A v \in Workers : /\ pc[v] \in Sessions => index[v] \in Existing
                             /\ pc[v] \in Creating \cup Sessions => index[v] \in DOMAIN slots
      BY DEF UseInv, TypeInv
    <3>3. \A v \in Workers \ {w} : pc[v] \in Writing => slots'[index[v]] = slots[index[v]]
      BY <2>1, <2>5, <3>2 DEF OthersKept, Writing, Sessions
    <3> QED
      BY <2>2, <3>1, <3>2, <3>3 DEF Spared, Creating
  <2> QED
    BY <2>1, <2>2, <2>3, <2>4, <2>5, <2>6, UseMoves DEF i
<1>4. CASE SubAdmit(w)
  <2>1. /\ pc[w] = "sub" /\ pc'[w] = "sub_open" /\ box_size_lock = Nobody
        /\ index'[w] \in DOMAIN slots /\ slots[index'[w]].name = client[w].name
        /\ UNCHANGED <<slots, client>> /\ Alone(w)
    BY <1>4, SubAdmitIs
  <2>2. Existing' = Existing
    BY <1>4, OthersKeepFiles, KeptFiles
  <2>3. index'[w] \in Existing
    BY <2>1, Found, FoundExists DEF Asking
  <2>4. Spared(w)
    BY <2>1, <2>2, SparedIf
  <2>5. pc'[w] \notin Writing /\ pc'[w] # "create_file"
    BY <2>1 DEF Writing
  <2> QED
    BY <2>1, <2>2, <2>3, <2>4, <2>5, UseMoves
<1>5. CASE PubOpen(w) \/ SubOpen(w)
  <2>1. /\ \/ pc[w] = "pub_open" /\ pc'[w] = IF handle'[w] = None THEN "idle" ELSE "publishing"
           \/ pc[w] = "sub_open" /\ pc'[w] = "sub_pipe"
        /\ pc'[w] # "idle" => client' = client
        /\ UNCHANGED <<slots, index>> /\ Alone(w)
    BY <1>5, OpenIs
  <2>2. Existing' = Existing
    BY <1>5, OthersKeepFiles, KeptFiles
  <2>3. Spared(w)
    BY <2>1, <2>2, SparedIf
  <2>4. /\ pc'[w] # "create_file" /\ pc[w] \in Sessions
        /\ pc'[w] \in Sessions => pc'[w] # "idle"
        /\ pc'[w] \in Writing => pc[w] \in Writing
    BY <2>1 DEF Writing, Sessions
  <2>5. /\ index[w] \in Existing /\ slots[index[w]].name = client[w].name
        /\ pc[w] \in Writing =>
             /\ slots[index[w]].n_pub = 1
             /\ \A v \in Workers \ {w} : pc[v] \in Writing => index[v] # index[w]
    BY <2>4 DEF UseInv
  <2> QED
    BY <2>1, <2>2, <2>3, <2>4, <2>5, UseMoves
<1>6. CASE PubEnd(w) \/ SubEnd(w)
  <2> DEFINE i == index[w]
  <2>1. /\ pc[w] \in {"publishing", "subscribed"} /\ pc'[w] = "idle" /\ i \in DOMAIN slots
        /\ pc[w] = "subscribed" => slots' = slots
        /\ pc[w] = "publishing" => /\ OthersKept(i)
                                   /\ slots'[i] = [slots[i] EXCEPT !.n_pub = 0]
        /\ Alone(w)
    BY <1>6, EndIs
  <2>2. Existing' = Existing
    BY <1>6, OthersKeepFiles, KeptFiles
  <2>3. pc'[w] \notin Sessions /\ pc'[w] \notin Writing /\ pc'[w] # "create_file"
    BY <2>1 DEF Sessions, Writing
  <2>4. Spared(w)
    <3>1. CASE pc[w] = "subscribed"
      BY <2>1, <2>2, <3>1, SparedIf
    <3>2. CASE pc[w] = "publishing"
      <4>1. pc[w] \in Writing
        BY <3>2 DEF Writing
      <4>2. \A v \in Workers \ {w} : pc[v] \in Writing => index[v] # i
        BY <4>1 DEF UseInv
      <4> HIDE DEF i
      <4>3. slots'[i].name = slots[i].name /\ slots'[i].password = slots[i].password
        BY <1>1, <2>1, <3>2 DEF Slot
      <4>4. \A k \in DOMAIN slots : slots'[k].name = slots[k].name
                                    /\ slots'[k].password = slots[k].password
        BY <2>1, <3>2, <4>3 DEF OthersKept
      <4>5. \A v \in Workers : /\ pc[v] \in Sessions => index[v] \in Existing
                               /\ pc[v] \in Creating \cup Sessions => index[v] \in DOMAIN slots
        BY DEF UseInv, TypeInv
      <4>6. \A v \in Workers \ {w} : pc[v] \in Writing => slots'[index[v]] = slots[index[v]]
        BY <2>1, <3>2, <4>2, <4>5 DEF OthersKept, Writing, Sessions
      <4> QED
        BY <2>2, <4>4, <4>5, <4>6 DEF Spared, Creating
    <3> QED
      BY <2>1, <3>1, <3>2
  <2> QED
    BY <2>1, <2>3, <2>4, UseMoves
<1>7. CASE SlotTaken(w)
  <2> DEFINE i == index'[w]
  <2>1. /\ pc[w] = "create" /\ pc'[w] = "create_file" /\ box_size_lock = Nobody
        /\ Alone(w) /\ client' = client
        /\ DOMAIN slots \subseteq DOMAIN slots'
        /\ i \in DOMAIN slots => slots[i].free = 0
        /\ slots'[i].password = client[w].password
        /\ \A k \in DOMAIN slots \ {i} : slots'[k] = slots[k]
    BY <1>7, SlotTakenIs
  <2>2. Existing' = Existing
    BY <1>7, TakenFiles
  <2>3. \A k \in Existing : slots'[k] = slots[k]
    BY <2>1 DEF Existing
  <2>4. Spared(w)
    BY <2>1, <2>2, <2>3, SparedIf
  <2>5. pc'[w] \notin Sessions /\ pc'[w] \notin Writing
    BY <2>1 DEF Sessions, Writing
  <2> QED
    BY <2>1, <2>4, <2>5, UseMoves
<1>8. CASE CreateBoxFile(w)
  <2>1. /\ pc'[w] \in {"create_made", "create_failed"} /\ slots' = slots /\ Alone(w)
    BY <1>8, CreateBoxFileIs
  <2>2. Existing \subseteq Existing'
    BY <1>8, MadeFiles
  <2>3. Spared(w)
    BY <2>1, <2>2, SparedIf
  <2>4. pc'[w] \notin Sessions /\ pc'[w] \notin Writing /\ pc'[w] # "create_file"
    BY <2>1 DEF Sessions, Writing
  <2> QED
    BY <2>1, <2>3, <2>4, UseMoves
<1>9. CASE CreateAnswer(w)
  <2> DEFINE i == index[w]
  <2>1. /\ pc[w] \in {"create_made", "create_failed"} /\ pc'[w] = "idle" /\ Alone(w)
        /\ pc[w] = "create_made" => slots' = slots
        /\ pc[w] = "create_failed" => OthersKept(i)
    BY <1>9, CreateAnswerIs
  <2>2. Existing' = Existing
    BY <1>9, AnsweredFiles
  <2>3. pc[w] = "create_failed" => i \notin Existing
    BY DEF Existing, Filling
  <2>4. pc[w] \in Creating
    BY <2>1 DEF Creating
  <2>5. \A k \in Existing : slots'[k] = slots[k]
    BY <2>1, <2>3 DEF OthersKept, Existing
  <2>6. Spared(w)
    BY <2>2, <2>4, <2>5, SparedIf
  <2>7. pc'[w] \notin Sessions /\ pc'[w] \notin Writing /\ pc'[w] # "create_file"
    BY <2>1 DEF Sessions, Writing
  <2> QED
    BY <2>1, <2>6, <2>7, UseMoves
<1>10. CASE Removed(w)
  <2> DEFINE i == Named(w)
             name == client[w].name
  <2>1. /\ pc'[w] = "remove_answer" /\ box_size_lock = Nobody /\ Alone(w)
        /\ i # None => ~InUse(i)
    BY <1>10, RemovedIs
  <2>2. /\ name \notin BoxNames => slots' = slots /\ Existing' = Existing
        /\ name \in BoxNames => i \in Existing /\ OthersKept(i) /\ Existing' = Existing \ {i}
    BY <1>10, RemovedFiles
  <2>3. pc'[w] \notin Sessions /\ pc'[w] \notin Writing /\ pc'[w] # "create_file"
    BY <2>1 DEF Sessions, Writing
  <2>4. Spared(w)
    <3>1. CASE name \notin BoxNames
      BY <2>2, <3>1, SparedIf
    <3>2. CASE name \in BoxNames
      <4>1. i # None
        <5>1. i \in Nat /\ None \notin Nat
          BY <2>2, <3>2, TableIs, Sizes DEF Existing, TypeInv
        <5> QED
          BY <5>1
      <4>2. \A v \in Workers : pc[v] \in Sessions => index[v] \in Existing /\ index[v] # i
        BY <2>1, <4>1 DEF UseInv, InUse
      <4>3. \A v \in Workers : pc[v] # "create_file"
        BY <2>1, OneCreation DEF Creating
      <4> HIDE DEF i
      <4>4. \A v \in Workers : pc[v] \in Sessions => index[v] \in Existing'
                                                     /\ slots'[index[v]] = slots[index[v]]
        BY <2>2, <3>2, <4>2 DEF OthersKept, Existing
      <4> QED
        BY <4>3, <4>4 DEF Spared, Writing, Sessions
    <3> QED
      BY <3>1, <3>2
  <2> QED
    BY <2>1, <2>3, <2>4, UseMoves
<1>11. ASSUME NEW password \in Passwords, PasswordSet(w, password)
       PROVE  UseInv'
  <2> DEFINE i == Named(w)
  <2>1. /\ pc'[w] = "answer" /\ i \in DOMAIN slots /\ box_size_lock = Nobody
        /\ OthersKept(i) /\ slots'[i] = [slots[i] EXCEPT !.password = password] /\ Alone(w)
    BY <1>11, PasswordSetIs
  <2> HIDE DEF i
  <2>2. Existing' = Existing
    BY <1>11, OthersKeepFiles, KeptFiles
  <2>3. slots'[i].name = slots[i].name /\ slots'[i].n_pub = slots[i].n_pub
    BY <1>1, <2>1 DEF Slot
  <2>4. \A k \in DOMAIN slots : slots'[k].name = slots[k].name /\ slots'[k].n_pub = slots[k].n_pub
    BY <2>1, <2>3 DEF OthersKept
  <2>5. \A v \in Workers : pc[v] # "create_file"
    BY <2>1, OneCreation DEF Creating
  <2>6. \A v \in Workers : pc[v] \in Sessions => index[v] \in Existing /\ index[v] \in DOMAIN slots
    BY DEF UseInv, Existing
  <2>7. Spared(w)
    BY <2>2, <2>4, <2>5, <2>6 DEF Spared, Writing, Sessions
  <2>8. pc'[w] \notin Sessions /\ pc'[w] \notin Writing /\ pc'[w] # "create_file"
    BY <2>1 DEF Sessions, Writing
  <2> QED
    BY <2>1, <2>7, <2>8, UseMoves
<1> QED
  BY <1>2, <1>3, <1>4, <1>5, <1>6, <1>7, <1>8, <1>9, <1>10, <1>11 DEF Touching

-----------------------------------------------------------------------------
(* Everything that is said of a broker whose managers remove no box in use. *)
Orderly == Settled /\ UseInv

(* What Passworded is: the password of the one slot of each box.           *)
PasswordsAre ==
  /\ Passworded = [n \in BoxNames |-> Passworded[n]]
  /\ \A i \in Existing : slots[i].name \in BoxNames /\ Passworded[slots[i].name] = slots[i].password
  /\ \A n \in BoxNames : \E i \in Existing : slots[i].name = n

(* Slots in use have different names, so the passwords can be read off     *)
(* the slots.                                                              *)
LEMMA PasswordedIs == Settled => PasswordsAre
<1> SUFFICES ASSUME Settled PROVE PasswordsAre
  OBVIOUS
<1> DEFINE of(n) == CHOOSE i \in Existing : slots[i].name = n
<1>1. Passworded = [n \in BoxNames |-> slots[of(n)].password]
  BY DEF Passworded
<1>2. \A i, j \in Existing : slots[i].name = slots[j].name => i = j
  BY DEF Settled, NamesInv, Existing
<1>3. ASSUME NEW i \in Existing
      PROVE  slots[i].name \in BoxNames /\ Passworded[slots[i].name] = slots[i].password
  <2>1. slots[i].name \in BoxNames
    BY DEF BoxNames
  <2>2. of(slots[i].name) \in Existing /\ slots[of(slots[i].name)].name = slots[i].name
    OBVIOUS
  <2>3. of(slots[i].name) = i
    BY <1>2, <2>2
  <2> HIDE DEF of
  <2> QED
    BY <1>1, <2>1, <2>3
<1>4. \A n \in BoxNames : \E i \in Existing : slots[i].name = n
  BY DEF BoxNames
<1> HIDE DEF of
<1>5. Passworded = [n \in BoxNames |-> Passworded[n]]
  BY <1>1
<1> QED
  BY <1>3, <1>4, <1>5 DEF PasswordsAre

(* A table that gives each box of the next state its slot's password is    *)
(* what Passworded is then.                                                *)
LEMMA PasswordsMove ==
  ASSUME PasswordsAre', NEW g, g = [n \in BoxNames' |-> g[n]],
         \A i \in Existing' : g[slots'[i].name] = slots'[i].password
  PROVE  Passworded' = g
<1>1. Passworded' = [n \in BoxNames' |-> Passworded'[n]]
  BY DEF PasswordsAre
<1>2. \A n \in BoxNames' : Passworded'[n] = g[n]
  <2> SUFFICES ASSUME NEW n \in BoxNames' PROVE Passworded'[n] = g[n]
    OBVIOUS
  <2>1. PICK i \in Existing' : slots'[i].name = n
    BY DEF PasswordsAre
  <2>2. Passworded'[slots'[i].name] = slots'[i].password
    BY DEF PasswordsAre
  <2> QED
    BY <2>1, <2>2
<1> QED
  BY <1>1, <1>2

(* Slots of boxes that keep name and password keep the table of boxes.     *)
LEMMA PasswordsStay ==
  ASSUME PasswordsAre, PasswordsAre', Existing' = Existing,
         \A i \in Existing : slots'[i].name = slots[i].name /\ slots'[i].password = slots[i].password
  PROVE  Passworded' = Passworded
<1>1. BoxNames' = BoxNames
  BY DEF BoxNames
<1>2. Passworded = [n \in BoxNames' |-> Passworded[n]]
  BY <1>1 DEF PasswordsAre
<1>3. \A i \in Existing' : Passworded[slots'[i].name] = slots'[i].password
  BY DEF PasswordsAre
<1> QED
  BY <1>2, <1>3, PasswordsMove

(* What a step of w does to the publishers there are. *)
LEMMA WritingMoves ==
  ASSUME NEW w \in Workers, Alone(w)
  PROVE  /\ /\ pc'[w] \in Writing <=> pc[w] \in Writing
            /\ pc[w] \in Writing => client'[w].name = client[w].name
            => Publishing' = Publishing
         /\ pc[w] \notin Writing /\ pc'[w] \in Writing =>
              /\ w \notin DOMAIN Publishing
              /\ Publishing' = Promise!With(Publishing, w, client'[w].name)
         /\ pc[w] \in Writing /\ pc'[w] \notin Writing =>
              /\ w \in DOMAIN Publishing
              /\ Publishing' = Promise!Without(Publishing, w)
<1>1. \A v \in Workers \ {w} : pc'[v] = pc[v] /\ client'[v] = client[v]
  BY DEF Alone
<1> DEFINE S == {v \in Workers : pc[v] \in Writing}
           T == {v \in Workers : pc'[v] \in Writing}
<1>2. /\ Publishing = [v \in S |-> client[v].name]
      /\ Publishing' = [v \in T |-> client'[v].name]
  BY DEF Publishing, Writing
<1>3. ASSUME pc'[w] \in Writing <=> pc[w] \in Writing,
             pc[w] \in Writing => client'[w].name = client[w].name
      PROVE  Publishing' = Publishing
  <2>1. S = T
    BY <1>1, <1>3
  <2>2. \A v \in S : client'[v].name = client[v].name
    BY <1>1, <1>3
  <2> HIDE DEF S, T
  <2> QED
    BY <1>2, <2>1, <2>2
<1>4. ASSUME pc[w] \notin Writing, pc'[w] \in Writing
      PROVE  /\ w \notin DOMAIN Publishing
             /\ Publishing' = Promise!With(Publishing, w, client'[w].name)
  <2>1. w \notin S /\ T = S \cup {w}
    BY <1>1, <1>4
  <2>2. \A v \in S : v # w /\ client'[v].name = client[v].name
    BY <1>1, <1>4
  <2> HIDE DEF S, T
  <2> QED
    BY <1>2, <2>1, <2>2 DEF Promise!With
<1>5. ASSUME pc[w] \in Writing, pc'[w] \notin Writing
      PROVE  /\ w \in DOMAIN Publishing
             /\ Publishing' = Promise!Without(Publishing, w)
  <2>1. w \in S /\ T = S \ {w}
    BY <1>1, <1>5
  <2>2. \A v \in T : client'[v].name = client[v].name
    BY <1>1, <1>5
  <2> HIDE DEF S, T
  <2> QED
    BY <1>2, <2>1, <2>2 DEF Promise!Without
<1> QED
  BY <1>3, <1>4, <1>5

(* A publisher of a box is a session whose slot is the box's: n_pub tells. *)
LEMMA BusyIs ==
  ASSUME Orderly, NEW i \in Existing, Promise!Busy(slots[i].name)
  PROVE  InUse(i) /\ slots[i].n_pub = 1
<1>1. PICK v \in Workers : pc[v] \in Writing /\ client[v].name = slots[i].name
  BY DEF Promise!Busy, Publishing, Writing
<1>2. pc[v] \in Sessions
  BY <1>1 DEF Writing, Sessions
<1>3. index[v] \in Existing /\ slots[index[v]].name = slots[i].name /\ slots[index[v]].n_pub = 1
  BY <1>1, <1>2 DEF Orderly, UseInv
<1>4. index[v] = i
  BY <1>3 DEF Orderly, Settled, NamesInv, Existing
<1> QED
  BY <1>2, <1>3, <1>4 DEF InUse

(* A request for a box that is found by its name, with its password. *)
LEMMA KnowsIf ==
  ASSUME Orderly, PasswordsAre, NEW w \in Workers, NEW i \in Existing,
         slots[i].name = client[w].name, slots[i].password = client[w].password
  PROVE  Promise!Knows(w)
BY DEF PasswordsAre, Promise!Knows

(* Each step is one of Registry's, or none. *)
LEMMA StepPromised ==
  ASSUME Orderly, Careful, Cardinality(Workers) <= MaxOpen, PasswordsAre, PasswordsAre',
         NEW w \in Workers, Quiet(w) \/ Touching(w)
  PROVE  Promise!Next \/ UNCHANGED <<Passworded, Publishing>>
<1> USE DEF Orderly
<1>0. TypeInv
  BY DEF Settled
<1>1. \A i \in DOMAIN slots : slots[i] \in Slot
  BY <1>0, Found
<1>2. Existing \subseteq DOMAIN slots
  BY DEF Existing
<1>3. CASE Quiet(w)
  <2>1. Alone(w) /\ Existing' = Existing /\ UNCHANGED slots
    BY <1>3, OthersKeepFiles, KeptFiles DEF Quiet, Kept
  <2>2. Passworded' = Passworded
    BY <2>1, PasswordsStay
  <2>3. /\ pc'[w] \in Writing <=> pc[w] \in Writing
        /\ pc[w] \in Writing => client'[w].name = client[w].name
    <3>1. CASE pc[w] \notin Creating \cup Sessions /\ pc'[w] \notin Creating \cup Sessions
      BY <3>1 DEF Writing, Sessions
    <3>2. CASE ~(pc[w] \notin Creating \cup Sessions /\ pc'[w] \notin Creating \cup Sessions)
      <4>1. /\ \/ pc[w] = "pub_pipe" /\ pc'[w] = "pub_open"
               \/ pc[w] = "sub_pipe" /\ pc'[w] = "subscribed"
               \/ pc'[w] = pc[w]
            /\ client'[w].name = client[w].name
        BY <1>3, <3>2 DEF Quiet
      <4> QED
        BY <4>1 DEF Writing
    <3> QED
      BY <3>1, <3>2
  <2>4. Publishing' = Publishing
    BY <2>1, <2>3, WritingMoves
  <2> QED
    BY <2>2, <2>4
<1>4. CASE PubAdmit(w)
  <2> DEFINE i == index'[w]
  <2>1. /\ pc[w] = "pub" /\ pc'[w] = "pub_pipe" /\ box_size_lock = Nobody
        /\ i \in DOMAIN slots /\ slots[i].name = client[w].name
        /\ slots[i].password = client[w].password /\ slots[i].n_pub # 1
        /\ OthersKept(i) /\ slots'[i] = [slots[i] EXCEPT !.n_pub = 1]
        /\ client' = client /\ Alone(w)
    BY <1>0, <1>4, PubAdmitIs
  <2> HIDE DEF i
  <2>2. Existing' = Existing
    BY <1>4, OthersKeepFiles, KeptFiles
  <2>3. i \in Existing
    BY <1>0, <2>1, Found, FoundExists DEF Asking
  <2>4. slots'[i].name = slots[i].name /\ slots'[i].password = slots[i].password
    BY <1>1, <2>1 DEF Slot
  <2>5. Passworded' = Passworded
    <3>1. \A k \in Existing : slots'[k].name = slots[k].name /\ slots'[k].password = slots[k].password
      BY <1>2, <2>1, <2>4 DEF OthersKept
    <3> QED
      BY <2>2, <3>1, PasswordsStay
  <2>6. Promise!Knows(w)
    BY <2>1, <2>3, KnowsIf
  <2>7. ~Promise!Busy(client[w].name)
    BY <2>1, <2>3, BusyIs
  <2>8. pc[w] \notin Writing /\ pc'[w] \in Writing
    BY <2>1 DEF Writing
  <2>9. w \notin DOMAIN Publishing /\ Publishing' = Promise!With(Publishing, w, client[w].name)
    BY <2>1, <2>8, WritingMoves
  <2>10. Promise!StartWriting(w)
    BY <2>5, <2>6, <2>7, <2>9 DEF Promise!StartWriting
  <2> QED
    BY <2>10 DEF Promise!Next
<1>5. CASE SubAdmit(w)
  <2>1. /\ pc[w] = "sub" /\ pc'[w] = "sub_open" /\ slots' = slots /\ Alone(w)
    BY <1>0, <1>5, SubAdmitIs
  <2>2. Existing' = Existing
    BY <1>5, OthersKeepFiles, KeptFiles
  <2>3. Passworded' = Passworded
    BY <2>1, <2>2, PasswordsStay
  <2>4. pc[w] \notin Writing /\ pc'[w] \notin Writing
    BY <2>1 DEF Writing
  <2> QED
    BY <2>1, <2>3, <2>4, WritingMoves
<1>6. CASE PubOpen(w) \/ SubOpen(w)
  <2>1. /\ \/ pc[w] = "pub_open" /\ pc'[w] = IF handle'[w] = None THEN "idle" ELSE "publishing"
           \/ pc[w] = "sub_open" /\ pc'[w] = "sub_pipe"
        /\ pc'[w] # "idle" => client' = client
        /\ slots' = slots /\ Alone(w)
    BY <1>0, <1>6, OpenIs
  <2>2. Existing' = Existing
    BY <1>6, OthersKeepFiles, KeptFiles
  <2>3. Passworded' = Passworded
    BY <2>1, <2>2, PasswordsStay
  <2>4. CASE pc[w] = "pub_open" /\ handle'[w] = None
    <3>1. pc[w] \in Writing /\ pc'[w] \notin Writing
      BY <2>1, <2>4 DEF Writing
    <3>2. w \in DOMAIN Publishing /\ Publishing' = Promise!Without(Publishing, w)
      BY <2>1, <3>1, WritingMoves
    <3>3. Promise!StopWriting(w)
      BY <2>3, <3>2 DEF Promise!StopWriting
    <3> QED
      BY <3>3 DEF Promise!Next
  <2>5. CASE ~(pc[w] = "pub_open" /\ handle'[w] = None)
    <3>1. (pc'[w] \in Writing <=> pc[w] \in Writing) /\ client' = client
      BY <2>1, <2>5 DEF Writing
    <3>2. Publishing' = Publishing
      BY <2>1, <3>1, WritingMoves
    <3> QED
      BY <2>3, <3>2
  <2> QED
    BY <2>4, <2>5
<1>7. CASE PubEnd(w) \/ SubEnd(w)
  <2> DEFINE i == index[w]
  <2>1. /\ pc[w] \in {"publishing", "subscribed"} /\ pc'[w] = "idle" /\ i \in DOMAIN slots
        /\ pc[w] = "subscribed" => slots' = slots
        /\ pc[w] = "publishing" => /\ OthersKept(i)
                                   /\ slots'[i] = [slots[i] EXCEPT !.n_pub = 0]
        /\ Alone(w)
    BY <1>0, <1>7, EndIs
  <2> HIDE DEF i
  <2>2. Existing' = Existing
    BY <1>7, OthersKeepFiles, KeptFiles
  <2>3. \A k \in Existing : slots'[k].name = slots[k].name /\ slots'[k].password = slots[k].password
    <3>1. CASE pc[w] = "subscribed"
      BY <2>1, <3>1
    <3>2. CASE pc[w] = "publishing"
      <4>1. slots'[i].name = slots[i].name /\ slots'[i].password = slots[i].password
        BY <1>1, <2>1, <3>2 DEF Slot
      <4> QED
        BY <1>2, <2>1, <3>2, <4>1 DEF OthersKept
    <3> QED
      BY <2>1, <3>1, <3>2
  <2>4. Passworded' = Passworded
    BY <2>2, <2>3, PasswordsStay
  <2>5. CASE pc[w] = "publishing"
    <3>1. pc[w] \in Writing /\ pc'[w] \notin Writing
      BY <2>1, <2>5 DEF Writing
    <3>2. w \in DOMAIN Publishing /\ Publishing' = Promise!Without(Publishing, w)
      BY <2>1, <3>1, WritingMoves
    <3>3. Promise!StopWriting(w)
      BY <2>4, <3>2 DEF Promise!StopWriting
    <3> QED
      BY <3>3 DEF Promise!Next
  <2>6. CASE pc[w] = "subscribed"
    <3>1. pc[w] \notin Writing /\ pc'[w] \notin Writing
      BY <2>1, <2>6 DEF Writing
    <3> QED
      BY <2>1, <2>4, <3>1, WritingMoves
  <2> QED
    BY <2>1, <2>5, <2>6
<1>8. CASE SlotTaken(w)
  <2> DEFINE i == index'[w]
  <2>1. /\ pc[w] = "create" /\ pc'[w] = "create_file" /\ Alone(w)
        /\ i \in DOMAIN slots => slots[i].free = 0
        /\ \A k \in DOMAIN slots \ {i} : slots'[k] = slots[k]
    BY <1>0, <1>8, SlotTakenIs
  <2> HIDE DEF i
  <2>2. Existing' = Existing
    BY <1>8, TakenFiles
  <2>3. \A k \in Existing : slots'[k] = slots[k]
    BY <2>1 DEF Existing
  <2>4. Passworded' = Passworded
    BY <2>2, <2>3, PasswordsStay
  <2>5. pc[w] \notin Writing /\ pc'[w] \notin Writing
    BY <2>1 DEF Writing
  <2> QED
    BY <2>1, <2>4, <2>5, WritingMoves
<1>9. CASE CreateBoxFile(w)
  <2> DEFINE i == index[w]
             name == client[w].name
             password == client[w].password
  <2>1. /\ pc[w] = "create_file" /\ pc'[w] \in {"create_made", "create_failed"}
        /\ slots' = slots /\ Alone(w)
    BY <1>0, <1>9, CreateBoxFileIs
  <2>2. /\ i \notin Existing /\ name \notin BoxNames
        /\ Existing' = IF pc'[w] = "create_made" THEN Existing \cup {i} ELSE Existing
    BY <1>9, MadeFiles
  <2>3. slots[i].name = name /\ slots[i].password = password
    BY <2>1 DEF Settled, FilesInv, UseInv
  <2>4. pc[w] \notin Writing /\ pc'[w] \notin Writing
    BY <2>1 DEF Writing
  <2>5. Publishing' = Publishing
    BY <2>1, <2>4, WritingMoves
  <2> HIDE DEF i
  <2>6. CASE pc'[w] = "create_failed"
    <3>1. Passworded' = Passworded
      BY <2>1, <2>2, <2>6, PasswordsStay
    <3> QED
      BY <2>5, <3>1
  <2>7. CASE pc'[w] = "create_made"
    <3> DEFINE g == Promise!With(Passworded, name, password)
    <3>1. Existing' = Existing \cup {i}
      BY <2>2, <2>7
    <3>2. BoxNames' = BoxNames \cup {name}
      BY <2>1, <2>3, <3>1 DEF BoxNames
    <3>3. DOMAIN Passworded = BoxNames
      BY DEF PasswordsAre
    <3>4. g = [n \in BoxNames' |-> IF n = name THEN password ELSE Passworded[n]]
      BY <3>2, <3>3 DEF Promise!With
    <3>5. \A k \in Existing' : g[slots'[k].name] = slots'[k].password
      <4>1. g[name] = password /\ \A n \in BoxNames : g[n] = Passworded[n]
        BY <2>2, <3>2, <3>4
      <4>2. \A k \in Existing : /\ slots[k].name \in BoxNames
                                /\ Passworded[slots[k].name] = slots[k].password
        BY DEF PasswordsAre
      <4> HIDE DEF g
      <4> QED
        BY <2>1, <2>3, <3>1, <4>1, <4>2
    <3>6. g = [n \in BoxNames' |-> g[n]]
      BY <3>4
    <3>7. Passworded' = g
      <4> HIDE DEF g
      <4> QED
        BY <3>5, <3>6, PasswordsMove
    <3>8. Promise!Create(w)
      BY <2>2, <2>5, <3>3, <3>7 DEF Promise!Create
    <3> QED
      BY <3>8 DEF Promise!Next
  <2> QED
    BY <2>1, <2>6, <2>7
<1>10. CASE CreateAnswer(w)
  <2> DEFINE i == index[w]
  <2>1. /\ pc[w] \in {"create_made", "create_failed"} /\ pc'[w] = "idle" /\ Alone(w)
        /\ pc[w] = "create_made" => slots' = slots
        /\ pc[w] = "create_failed" => OthersKept(i)
    BY <1>0, <1>10, CreateAnswerIs
  <2>2. Existing' = Existing
    BY <1>10, AnsweredFiles
  <2>3. pc[w] = "create_failed" => i \notin Existing
    BY DEF Existing, Filling
  <2> HIDE DEF i
  <2>4. \A k \in Existing : slots'[k] = slots[k]
    BY <1>2, <2>1, <2>3 DEF OthersKept
  <2>5. Passworded' = Passworded
    BY <2>2, <2>4, PasswordsStay
  <2>6. pc[w] \notin Writing /\ pc'[w] \notin Writing
    BY <2>1 DEF Writing
  <2> QED
    BY <2>1, <2>5, <2>6, WritingMoves
<1>11. CASE Removed(w)
  <2> DEFINE i == Named(w)
             name == client[w].name
  <2>1. /\ pc[w] = "remove" /\ pc'[w] = "remove_answer" /\ Alone(w)
        /\ i # None => ~InUse(i) /\ slots[i].password = client[w].password
    BY <1>0, <1>11, RemovedIs
  <2>2. /\ name \notin BoxNames => slots' = slots /\ Existing' = Existing
        /\ name \in BoxNames => /\ i \in Existing /\ slots[i].name = name
                                /\ OthersKept(i) /\ Existing' = Existing \ {i}
                                /\ BoxNames' = BoxNames \ {name}
    BY <1>11, RemovedFiles
  <2>3. pc[w] \notin Writing /\ pc'[w] \notin Writing
    BY <2>1 DEF Writing
  <2>4. Publishing' = Publishing
    BY <2>1, <2>3, WritingMoves
  <2>5. CASE name \notin BoxNames
    <3>1. Passworded' = Passworded
      BY <2>2, <2>5, PasswordsStay
    <3> QED
      BY <2>4, <3>1
  <2>6. CASE name \in BoxNames
    <3>1. i # None
      <4>1. i \in Nat /\ None \notin Nat
        BY <1>0, <2>2, <2>6, TableIs, Sizes DEF Existing, TypeInv
      <4> QED
        BY <4>1
    <3>2. i \in Existing /\ slots[i].name = name /\ ~InUse(i)
          /\ slots[i].password = client[w].password
      BY <2>1, <2>2, <2>6, <3>1
    <3> HIDE DEF i
    <3>3. Promise!Knows(w) /\ ~Promise!Busy(name)
      BY <3>2, KnowsIf, BusyIs
    <3> DEFINE g == Promise!Without(Passworded, name)
    <3>4. DOMAIN Passworded = BoxNames
      BY DEF PasswordsAre
    <3>5. g = [n \in BoxNames' |-> Passworded[n]]
      BY <2>2, <2>6, <3>4 DEF Promise!Without
    <3>6. \A k \in Existing' : g[slots'[k].name] = slots'[k].password
      <4>1. \A n \in BoxNames' : g[n] = Passworded[n]
        BY <3>5
      <4>2. \A k \in Existing : Passworded[slots[k].name] = slots[k].password
        BY DEF PasswordsAre
      <4>3. \A k \in Existing' : slots'[k].name \in BoxNames'
        BY DEF BoxNames
      <4>4. \A k \in Existing' : k \in Existing /\ slots'[k] = slots[k]
        BY <1>2, <2>2, <2>6 DEF OthersKept
      <4> HIDE DEF g
      <4> QED
        BY <4>1, <4>2, <4>3, <4>4
    <3>7. g = [n \in BoxNames' |-> g[n]]
      BY <3>5
    <3>8. Passworded' = g
      <4> HIDE DEF g
      <4> QED
        BY <3>6, <3>7, PasswordsMove
    <3>9. Promise!Remove(w)
      BY <2>4, <3>3, <3>8 DEF Promise!Remove
    <3> QED
      BY <3>9 DEF Promise!Next
  <2> QED
    BY <2>5, <2>6
<1>12. ASSUME NEW password \in Passwords, PasswordSet(w, password)
       PROVE  Promise!Next
  <2> DEFINE i == Named(w)
             name == client[w].name
             g == [Passworded EXCEPT ![name] = password]
  <2>1. /\ pc[w] \in {"unlock", "lock"} /\ pc'[w] = "answer" /\ box_size_lock = Nobody
        /\ i \in DOMAIN slots /\ slots[i].name = name
        /\ slots[i].password = client[w].password /\ name \in Names
        /\ OthersKept(i) /\ slots'[i] = [slots[i] EXCEPT !.password = password]
        /\ Alone(w)
    BY <1>0, <1>12, PasswordSetIs
  <2> HIDE DEF i
  <2>2. Existing' = Existing
    BY <1>12, OthersKeepFiles, KeptFiles
  <2>3. i \in Existing /\ name \in BoxNames
    BY <2>1, FoundExists
  <2>4. slots'[i].name = name /\ slots'[i].password = password
    BY <1>1, <2>1 DEF Slot
  <2>5. \A k \in Existing \ {i} : slots'[k] = slots[k] /\ slots[k].name # name
    BY <1>2, <2>1, <2>3 DEF OthersKept, Settled, NamesInv, Existing
  <2> HIDE DEF name
  <2>6. BoxNames' = BoxNames
    <3>1. \A k \in Existing : slots'[k].name = slots[k].name
      BY <2>1, <2>4, <2>5
    <3> QED
      BY <2>2, <3>1 DEF BoxNames
  <2>7. Passworded = [n \in BoxNames |-> Passworded[n]]
    BY DEF PasswordsAre
  <2>8. /\ g = [n \in BoxNames' |-> g[n]] /\ g[name] = password
        /\ \A n \in BoxNames \ {name} : g[n] = Passworded[n]
    BY <2>3, <2>6, <2>7
  <2>9. \A k \in Existing' : g[slots'[k].name] = slots'[k].password
    <3>1. \A k \in Existing : /\ slots[k].name \in BoxNames
                              /\ Passworded[slots[k].name] = slots[k].password
      BY DEF PasswordsAre
    <3> HIDE DEF g
    <3> QED
      BY <2>2, <2>4, <2>5, <2>8, <3>1
  <2>10. Passworded' = g
    <3> HIDE DEF g
    <3> QED
      BY <2>8, <2>9, PasswordsMove
  <2>11. pc[w] \notin Writing /\ pc'[w] \notin Writing
    BY <2>1 DEF Writing
  <2>12. Publishing' = Publishing
    BY <2>1, <2>11, WritingMoves
  <2>13. Promise!Knows(w)
    BY <2>1, <2>3, KnowsIf DEF name
  <2>14. Promise!SetPassword(w, password)
    BY <2>10, <2>12, <2>13 DEF Promise!SetPassword, name
  <2> QED
    BY <2>14 DEF Promise!Next
<1> QED
  BY <1>3, <1>4, <1>5, <1>6, <1>7, <1>8, <1>9, <1>10, <1>11, <1>12 DEF Touching

(* Every step, the steps of nobody among them. *)
LEMMA NextPromised ==
  ASSUME Orderly, PasswordsAre, PasswordsAre', Careful, Cardinality(Workers) <= MaxOpen,
         [Next]_vars
  PROVE  [Promise!Next]_(Promise!vars)
<1>1. CASE UNCHANGED vars
  <2>1. Passworded' = Passworded /\ Publishing' = Publishing
    BY <1>1 DEF vars, Passworded, Publishing, BoxNames, Existing, Filling
  <2> QED
    BY <2>1 DEF Promise!vars
<1>2. CASE Next
  <2>1. PICK w \in Workers : Quiet(w) \/ Touching(w)
    BY <1>2, StepIs DEF Orderly, Settled
  <2> QED
    BY <2>1, StepPromised DEF Promise!vars
<1> QED
  BY <1>1, <1>2

(* What is said of an orderly broker stays so. *)
LEMMA NextOrderly ==
  ASSUME Orderly, Careful, Cardinality(Workers) <= MaxOpen, [Next]_vars
  PROVE  Orderly'
<1>1. Settled'
  BY NextFiles DEF Orderly
<1>2. CASE UNCHANGED vars
  BY <1>1, <1>2 DEF vars, Orderly, UseInv, Existing, Filling
<1>3. CASE Next
  <2>1. PICK w \in Workers : Quiet(w) \/ Touching(w)
    BY <1>3, StepIs DEF Orderly, Settled
  <2> QED
    BY <1>1, <2>1, NextUses DEF Orderly
<1> QED
  BY <1>2, <1>3

(* At the start there is no session, and the table of boxes is empty. *)
LEMMA InitPromised == Init => Orderly /\ Promise!Init
<1> SUFFICES ASSUME Init PROVE Orderly /\ Promise!Init
  OBVIOUS
<1>1. Settled
  BY InitFiles
<1>2. \A w \in Workers : pc[w] = "idle"
  BY DEF Init
<1>3. UseInv
  BY <1>2 DEF UseInv, Sessions, Writing
<1>4. BoxNames = {}
  BY DEF Init, EmptySlot, BoxNames, Existing
<1>5. Passworded = [n \in {} |-> {}]
  BY <1>4 DEF Passworded
<1>6. {w \in Workers : pc[w] \in {"pub_pipe", "pub_open", "publishing"}} = {}
  BY <1>2
<1>7. Publishing = [w \in {} |-> {}]
  BY <1>6 DEF Publishing
<1> QED
  BY <1>1, <1>3, <1>5, <1>7 DEF Orderly, Promise!Init

(* At most one session publishes to a box, and every session's slot is     *)
(* that of its box: no one else's messages and counters.                   *)
THEOREM SessionsKeepBoxes ==
  ASSUME Careful, Cardinality(Workers) <= MaxOpen
  PROVE  Spec => []UseInv
<1>1. Orderly /\ [Next]_vars => Orderly'
  BY NextOrderly
<1>2. Orderly => UseInv
  BY DEF Orderly
<1> QED
  BY <1>1, <1>2, InitPromised, PTL DEF Spec

(* As long as no manager removes a box while somebody uses it, and         *)
(* TecnicoFS has a handle for every worker, the handlers are the atomic    *)
(* operations of Registry on a table of named boxes.                       *)
THEOREM HandlersImplementRegistry ==
  ASSUME Careful, Cardinality(Workers) <= MaxOpen
  PROVE  Spec => ImplementsRegistry
<1>1. Orderly /\ [Next]_vars => Orderly'
  BY NextOrderly
<1>2. Orderly => PasswordsAre
  BY PasswordedIs DEF Orderly
<1>3. Orderly /\ PasswordsAre /\ PasswordsAre' /\ [Next]_vars => [Promise!Next]_(Promise!vars)
  BY NextPromised
<1> QED
  BY <1>1, <1>2, <1>3, InitPromised, PTL DEF Spec, ImplementsRegistry, Promise!Spec

(* As long as no box is removed in use, a slot marked free is used by no   *)
(* session, as server_structures.h says.                                   *)
THEOREM FreeSlotsUnused ==
  ASSUME Careful, Cardinality(Workers) <= MaxOpen
  PROVE  Spec => []FreeMeansUnused
<1>1. Orderly => FreeMeansUnused
  BY DEF Orderly, UseInv, FreeMeansUnused, InUse, Existing
<1>2. Orderly /\ [Next]_vars => Orderly'
  BY NextOrderly
<1> QED
  BY <1>1, <1>2, InitPromised, PTL DEF Spec
=============================================================================
