----------------------------- MODULE TfsThreads -----------------------------
(***************************************************************************)
(* TecnicoFS used by several threads: the calls of fs/operations.c, split  *)
(* where another thread can come between.  Each thread makes one call, on  *)
(* a file system that a script of earlier calls has left.                  *)
(*                                                                         *)
(* The locks are the rwlocks of the inodes and of the open files.  One is  *)
(* taken with the first access it guards and given up with the last: no    *)
(* other thread can tell.  The locks of the four tables are held for one   *)
(* access each, which is a step here.                                      *)
(***************************************************************************)
EXTENDS TfsState, SequencesExt

CONSTANTS Threads,
          Calls,        \* the calls they may make, as records
          Scripts,      \* sequences of calls made before the threads start
          Apart(_, _)   \* calls that callers never make at the same time

(* The bytes written hold what Bytes has, and names are valid paths.  A    *)
(* handle is any number: one that is not open fails the call.              *)
IsCall(c) ==
  \/ c.op \in {"open", "unlink"} /\ c.path \in Names
  \/ c.op \in {"link", "sym_link"} /\ {c.path, c.name} \subseteq Names
  \/ c.op = "close"
  \/ c.op = "write" /\ c.text \in Seq(Bytes)
  \/ c.op = "read" /\ c.len \in Nat

ASSUME ThreadsAssumption ==
  /\ \A c \in Calls : IsCall(c)
  /\ \A script \in Scripts : /\ DOMAIN script = 1 .. Len(script) /\ Len(script) \in Nat
                             /\ \A k \in DOMAIN script : IsCall(script[k])

VARIABLES fs,
          first,        \* the file system the threads found
          locks,        \* the locks held: [lock, by, mode]
          thread        \* registers of each thread

vars == <<fs, first, locks, thread>>

(* A whole call, as TfsState has it. *)
Effect(s, c) ==
  CASE c.op = "open"     -> Open(s, c.path, c.mode)
    [] c.op = "unlink"   -> Unlink(s, c.path)
    [] c.op = "link"     -> Link(s, c.path, c.name)
    [] c.op = "sym_link" -> SymLink(s, c.path, c.name)
    [] c.op = "close"    -> Close(s, c.h)
    [] c.op = "write"    -> Write(s, c.h, c.text)
    [] c.op = "read"     -> Read(s, c.h, c.len)

NoCall == [op |-> "none"]
Idle == [pc |-> "idle", call |-> NoCall, ino |-> None, new |-> None, offset |-> 0,
         ret |-> 0, out |-> <<>>, before |-> {}]

Init == /\ fs \in {FoldLeft(LAMBDA s, c : Effect(s, c).fs, InitialState, script) :
                     script \in Scripts}
        /\ first = fs
        /\ locks = {}
        /\ thread = [t \in Threads |-> Idle]

-----------------------------------------------------------------------------
Call(t) == thread[t].call
Ino(t) == thread[t].ino
Finished == {t \in Threads : thread[t].pc = "done"}
Running == {t \in Threads : thread[t].pc \notin {"idle", "done"}}

InodeLock(i) == <<"inode", i>>
FileLock(h) == <<"file", h>>

(* Readers share, a writer is alone; also a thread waits for itself. *)
CanLock(lock, mode) ==
  \A k \in locks : k.lock = lock => k.mode = "r" /\ mode = "r"
Grab(t, lock, mode) == locks \cup {[lock |-> lock, by |-> t, mode |-> mode]}
Dropped(t) == {k \in locks : k.by # t}

At(t, step, ops) == /\ thread[t].pc = step /\ Call(t).op \in ops
                    /\ \A u \in Threads : thread[u].ret \notin Dead

Goto(t, step) == thread' = [thread EXCEPT ![t].pc = step]
GotoWith(t, step, ino) == thread' = [thread EXCEPT ![t].pc = step, ![t].ino = ino]

(* The call returns, and holds no lock any more. *)
Finish(t, r) ==
  /\ fs' = r.fs
  /\ locks' = Dropped(t)
  /\ thread' = [thread EXCEPT ![t] = [@ EXCEPT !.pc = "done", !.ret = r.ret, !.out = r.out,
                                               !.ino = None, !.new = None, !.offset = 0]]

Begin(t, c, step, ino) ==
  /\ thread[t].pc = "idle"
  /\ \A u \in Threads : thread[u].ret \notin Dead
  /\ \A u \in Running : ~Apart(c, Call(u))
  /\ thread' = [thread EXCEPT ![t] = [@ EXCEPT !.call = c, !.pc = step, !.ino = ino,
                                               !.before = Finished,
                                               !.ret = IF step = "done" THEN None ELSE 0]]
  /\ UNCHANGED <<fs, first, locks>>

-----------------------------------------------------------------------------
(* tfs_lookup, the first thing a call on a path does. *)
Find(t, c) ==
  LET i == Lookup(fs, c.path)
  IN /\ c.op \in {"open", "unlink", "link", "sym_link"}
     /\ Begin(t, c, IF i # None THEN "lock"
                    ELSE IF c.op = "open" /\ "creat" \in c.mode THEN "alloc" ELSE "done", i)

(* get_open_file_entry, and of_inumber. *)
Entry(t, c) ==
  /\ c.op \in {"close", "write", "read"}
  /\ IF c.h \in fs.opened
       THEN Begin(t, c, IF c.op = "close" THEN "file" ELSE "lock", fs.file[c.h].inum)
       ELSE Begin(t, c, "done", None)

(* tfs_open.  The inode of a link is locked for writing while the links    *)
(* are followed; the file they lead to is then locked for reading only.    *)
Truncates(t, i) == "trunc" \in Call(t).mode /\ fs.inode[i].size > 0

(* Mutant of OpenLock: for reading only. *)
OpenLockShared(t) ==
  /\ At(t, "lock", {"open"}) /\ CanLock(InodeLock(Ino(t)), "r")
  /\ locks' = Grab(t, InodeLock(Ino(t)), "r")
  /\ Goto(t, IF fs.inode[Ino(t)].type = "link" THEN "hop"
             ELSE IF Truncates(t, Ino(t)) THEN "cut" ELSE "seek")
  /\ UNCHANGED <<fs, first>>

OpenLock(t) ==
  /\ At(t, "lock", {"open"}) /\ CanLock(InodeLock(Ino(t)), "w")
  /\ locks' = Grab(t, InodeLock(Ino(t)), "w")
  /\ Goto(t, IF fs.inode[Ino(t)].type = "link" THEN "hop"
             ELSE IF Truncates(t, Ino(t)) THEN "cut" ELSE "seek")
  /\ UNCHANGED <<fs, first>>

OpenHop(t) ==
  LET ino == fs.inode[Ino(t)]
      next == Lookup(fs, fs.target[ino.block])
  IN /\ At(t, "hop", {"open"})
     /\ UNCHANGED first
     /\ IF ino.type # "link"
          THEN Goto(t, "relock") /\ locks' = Dropped(t) /\ UNCHANGED fs
        ELSE IF next = None THEN Finish(t, Return(fs, None))
        ELSE GotoWith(t, "hop", next) /\ UNCHANGED <<fs, locks>>

OpenRelock(t) ==
  /\ At(t, "relock", {"open"}) /\ CanLock(InodeLock(Ino(t)), "r")
  /\ locks' = Grab(t, InodeLock(Ino(t)), "r")
  /\ Goto(t, IF Truncates(t, Ino(t)) THEN "cut" ELSE "seek")
  /\ UNCHANGED <<fs, first>>

OpenCut(t) == /\ At(t, "cut", {"open"})
              /\ fs' = [fs EXCEPT !.blocks = @ \ {fs.inode[Ino(t)].block}]
              /\ Goto(t, "shrink")
              /\ UNCHANGED <<first, locks>>

(* Mutant of OpenShrink: the block is forgotten, the size stays. *)
OpenShrinkBlock(t) == /\ At(t, "shrink", {"open"})
                      /\ fs' = [fs EXCEPT !.inode[Ino(t)].block = None]
                      /\ Goto(t, "seek")
                      /\ UNCHANGED <<first, locks>>

OpenShrink(t) == /\ At(t, "shrink", {"open"})
                 /\ fs' = [fs EXCEPT !.inode[Ino(t)].size = 0]
                 /\ Goto(t, "seek")
                 /\ UNCHANGED <<first, locks>>

OpenSeek(t) ==
  /\ At(t, "seek", {"open"})
  /\ thread' = [thread EXCEPT
                  ![t].pc = "handle",
                  ![t].offset = IF "append" \in Call(t).mode THEN fs.inode[Ino(t)].size ELSE 0]
  /\ locks' = Dropped(t)
  /\ UNCHANGED <<fs, first>>

OpenHandle(t) == /\ At(t, "handle", {"open"})
                 /\ Finish(t, AddToOpenFileTable(fs, Ino(t), thread[t].offset))
                 /\ UNCHANGED first

-----------------------------------------------------------------------------
(* inode_alloc; the fields of the new inode are set outside any lock. *)
Creat(t) ==
  LET i == FirstFree(Inums, fs.inodes)
  IN /\ At(t, "alloc", {"open"})
     /\ UNCHANGED first
     /\ IF i = None THEN Finish(t, Return(fs, None))
        ELSE /\ fs' = [fs EXCEPT !.inodes = @ \cup {i}]
             /\ GotoWith(t, "fill", i)
             /\ UNCHANGED locks

CreatFill(t) ==
  /\ At(t, "fill", {"open"})
  /\ fs' = [fs EXCEPT !.inode[Ino(t)] = NewFile]
  /\ Goto(t, "enter")
  /\ UNCHANGED <<first, locks>>

CreatEnter(t) == /\ At(t, "enter", {"open"})
                 /\ fs' = AddDirEntry(fs, Call(t).path, Ino(t))
                 /\ Goto(t, IF Addable(fs, Call(t).path) THEN "handle" ELSE "undo")
                 /\ UNCHANGED <<first, locks>>

CreatUndo(t) == /\ At(t, "undo", {"open"})
                /\ Finish(t, Return(InodeDelete(fs, Ino(t)), None))
                /\ UNCHANGED first

(* tfs_sym_link: the target's inode is locked for reading, the new one for *)
(* writing.                                                                *)
SymLock(t) ==
  LET i == FirstFree(Inums, fs.inodes)
  IN /\ At(t, "lock", {"sym_link"}) /\ CanLock(InodeLock(Ino(t)), "r")
     /\ UNCHANGED first
     /\ IF i = None THEN Finish(t, Return(fs, None))
        ELSE /\ fs' = [fs EXCEPT !.inodes = @ \cup {i}]
             /\ locks' = Grab(t, InodeLock(Ino(t)), "r")
             /\ thread' = [thread EXCEPT ![t].pc = "fill", ![t].new = i]

(* Mutant of SymFill: a failure keeps the lock of the target. *)
SymFillKeeps(t) ==
  LET r == FillLink(fs, thread[t].new)
  IN /\ At(t, "fill", {"sym_link"})
     /\ UNCHANGED <<first, locks>>
     /\ fs' = r.fs
     /\ thread' = [thread EXCEPT ![t].pc = IF r.ret = None THEN "done" ELSE "text",
                                 ![t].ret = r.ret]

SymFill(t) ==
  LET r == FillLink(fs, thread[t].new)
  IN /\ At(t, "fill", {"sym_link"})
     /\ UNCHANGED first
     /\ IF r.ret = None THEN Finish(t, r)
        ELSE fs' = r.fs /\ Goto(t, "text") /\ UNCHANGED locks

SymText(t) == /\ At(t, "text", {"sym_link"}) /\ CanLock(InodeLock(thread[t].new), "w")
              /\ locks' = Grab(t, InodeLock(thread[t].new), "w")
              /\ fs' = StoreTarget(fs, thread[t].new, Call(t).path)
              /\ Goto(t, "enter")
              /\ UNCHANGED first

SymEnter(t) == /\ At(t, "enter", {"sym_link"})
               /\ Finish(t, Return(AddDirEntry(fs, Call(t).name, thread[t].new), 0))
               /\ UNCHANGED first

(* Mutant of LinkLock: refusing a soft link keeps its lock. *)
LinkLockKeeps(t) ==
  /\ At(t, "lock", {"link"}) /\ CanLock(InodeLock(Ino(t)), "w")
  /\ UNCHANGED first
  /\ locks' = Grab(t, InodeLock(Ino(t)), "w")
  /\ IF fs.inode[Ino(t)].type = "link"
       THEN /\ thread' = [thread EXCEPT ![t].pc = "done", ![t].ret = None]
            /\ UNCHANGED fs
       ELSE /\ fs' = [fs EXCEPT !.inode[Ino(t)].count = @ + 1]
            /\ Goto(t, "enter")

LinkLock(t) ==
  /\ At(t, "lock", {"link"}) /\ CanLock(InodeLock(Ino(t)), "w")
  /\ UNCHANGED first
  /\ IF fs.inode[Ino(t)].type = "link" THEN Finish(t, Return(fs, None))
     ELSE /\ fs' = [fs EXCEPT !.inode[Ino(t)].count = @ + 1]
          /\ locks' = Grab(t, InodeLock(Ino(t)), "w")
          /\ Goto(t, "enter")

LinkEnter(t) == /\ At(t, "enter", {"link"})
                /\ Finish(t, Return(AddDirEntry(fs, Call(t).name, Ino(t)), 0))
                /\ UNCHANGED first

UnlinkLock(t) == /\ At(t, "lock", {"unlink"}) /\ CanLock(InodeLock(Ino(t)), "w")
                 /\ locks' = Grab(t, InodeLock(Ino(t)), "w")
                 /\ fs' = ClearDirEntry(fs, Call(t).path)
                 /\ Goto(t, "drop")
                 /\ UNCHANGED first

UnlinkDrop(t) ==
  /\ At(t, "drop", {"unlink"})
  /\ Finish(t, DropLink(fs, Ino(t)))
  /\ UNCHANGED first

-----------------------------------------------------------------------------
(* tfs_write and tfs_read lock the inode, then the open file; tfs_close    *)
(* the open file only.                                                     *)
InodeMode(t) == IF Call(t).op = "write" THEN "w" ELSE "r"

DataLock(t) == /\ At(t, "lock", {"write", "read"})
               /\ CanLock(InodeLock(Ino(t)), InodeMode(t))
               /\ locks' = Grab(t, InodeLock(Ino(t)), InodeMode(t))
               /\ Goto(t, "file")
               /\ UNCHANGED <<fs, first>>

WriteLock(t) ==
  LET h == Call(t).h
  IN /\ At(t, "file", {"write"}) /\ CanLock(FileLock(h), "w")
     /\ locks' = Grab(t, FileLock(h), "w")
     /\ Goto(t, IF ToWrite(fs, h, Call(t).text) # 0 /\ fs.inode[fs.file[h].inum].size = 0
                  THEN "space" ELSE "put")
     /\ UNCHANGED <<fs, first>>

WriteSpace(t) ==
  LET r == Reserve(fs, Call(t).h)
  IN /\ At(t, "space", {"write"})
     /\ UNCHANGED first
     /\ IF r.ret = None THEN Finish(t, r)
        ELSE fs' = r.fs /\ Goto(t, "put") /\ UNCHANGED locks

WritePut(t) == /\ At(t, "put", {"write"})
               /\ Finish(t, Put(fs, Call(t).h, Call(t).text))
               /\ UNCHANGED first

ReadLock(t) ==
  LET h == Call(t).h
  IN /\ At(t, "file", {"read"}) /\ CanLock(FileLock(h), "r")
     /\ locks' = Grab(t, FileLock(h), "r")
     /\ thread' = [thread EXCEPT ![t].pc = "copy", ![t].offset = ToRead(fs, h, Call(t).len)]
     /\ UNCHANGED <<fs, first>>

ReadCopy(t) == /\ At(t, "copy", {"read"})
               /\ Finish(t, Copy(fs, Call(t).h, thread[t].offset))
               /\ UNCHANGED first

(* remove_from_open_file_table asserts that the handle is still taken. *)
CloseFile(t) ==
  LET r == Close(fs, Call(t).h)
  IN /\ At(t, "file", {"close"}) /\ CanLock(FileLock(Call(t).h), "w")
     /\ Finish(t, IF r.ret = None THEN Return(fs, Abort) ELSE r)
     /\ UNCHANGED first

Step(t) == \/ OpenLock(t) \/ OpenHop(t) \/ OpenRelock(t) \/ OpenCut(t) \/ OpenShrink(t)
           \/ OpenSeek(t) \/ OpenHandle(t)
           \/ Creat(t) \/ CreatFill(t) \/ CreatEnter(t) \/ CreatUndo(t)
           \/ SymLock(t) \/ SymFill(t) \/ SymText(t) \/ SymEnter(t)
           \/ LinkLock(t) \/ LinkEnter(t) \/ UnlinkLock(t) \/ UnlinkDrop(t)
           \/ DataLock(t) \/ WriteLock(t) \/ WriteSpace(t) \/ WritePut(t)
           \/ ReadLock(t) \/ ReadCopy(t) \/ CloseFile(t)

(* Also the program, when a call does not return. *)
Terminated == /\ Finished = Threads \/ \E t \in Threads : thread[t].ret \in Dead
              /\ UNCHANGED vars

Next == \/ \E t \in Threads : Step(t) \/ \E c \in Calls : Find(t, c) \/ Entry(t, c)
        \/ Terminated

Spec == Init /\ [][Next]_vars

-----------------------------------------------------------------------------
Steps == {"idle", "lock", "hop", "relock", "cut", "shrink", "seek", "handle", "alloc", "fill",
          "enter", "undo", "text", "drop", "file", "space", "put", "copy", "done"}

TypeOK == /\ fs.inodes \subseteq Inums /\ fs.blocks \subseteq Blocks /\ fs.opened \subseteq Handles
          /\ \A k \in locks : k.by \in Running /\ k.mode \in {"r", "w"}
          /\ \A t \in Threads : /\ thread[t].pc \in Steps
                                /\ thread[t].before \subseteq Threads \ {t}
                                /\ {Ino(t), thread[t].new} \subseteq Inums \cup {None}

(* What the callers can tell of the tables: which names and handles lead   *)
(* to which file, its contents, and how much room is left.  Of a file that *)
(* has been removed only the handles count.  holder[h]: who was given h.   *)
View(s, holder) ==
  LET cursors(i) == {<<holder[h], s.file[h].offset>> : h \in {g \in s.opened : s.file[g].inum = i}}
      entries(i) == {e \in Entries : s.dir[e].inum = i}
      text(i) == LET ino == s.inode[i]
                 IN IF ino.size = 0 THEN <<>>
                    ELSE IF ino.type = "link" THEN <<s.target[ino.block]>>
                    ELSE [k \in 1 .. ino.size |-> s.data[ino.block * BlockSize + k - 1]]
  IN [files   |-> {[type    |-> s.inode[i].type,
                    text    |-> text(i),
                    count   |-> s.inode[i].count,
                    names   |-> {<<s.dir[e].name, Cardinality(entries(i))>> : e \in entries(i)},
                    cursors |-> cursors(i)] : i \in s.inodes \ {Root}},
      removed |-> {[names   |-> {s.dir[e].name : e \in entries(i)},
                    cursors |-> cursors(i)] : i \in Inums \ s.inodes},
      inodes  |-> Cardinality(s.inodes),
      blocks  |-> Cardinality(s.blocks)]

(* The threads, one after the other as in the sequence ts. *)
InTurn(ts) ==
  FoldLeft(LAMBDA acc, t : LET r == Effect(acc.fs, Call(t))
                           IN [fs |-> r.fs, got |-> [acc.got EXCEPT ![t] = [ret |-> r.ret, out |-> r.out]]],
           [fs |-> first, got |-> [t \in Threads |-> [ret |-> None, out |-> <<>>]]], ts)

Holder(got) ==
  [h \in Handles |->
     LET openers == {t \in Threads : Call(t).op = "open" /\ got[t].ret = h}
     IN IF openers = {} THEN {h} ELSE openers]

SameResult(t, a, b) == IF Call(t).op = "open" THEN (a.ret = None) = (b.ret = None) ELSE a = b

Explains(ts) ==
  LET r == InTurn(ts)
      got == [t \in Threads |-> [ret |-> thread[t].ret, out |-> thread[t].out]]
  IN /\ \A i, j \in DOMAIN ts : i < j => ts[j] \notin thread[ts[i]].before
     /\ \A t \in Threads : SameResult(t, got[t], r.got[t])
     /\ View(fs, Holder(got)) = View(r.fs, Holder(r.got))

(* Calls made at once do what they would have done one after the other, in *)
(* an order that keeps a call behind those that returned before it began:  *)
(* same results, same names, same contents, same room left.                *)
Atomic == Finished = Threads => \E ts \in SetToSeqs(Threads) : Explains(ts)

(* No assertion fails: no inode is freed twice, no handle closed twice.    *)
NoAbort == \A t \in Threads : thread[t].ret # Abort

Waits(t) ==
  LET op == Call(t).op
      held(lock, mode) == ~CanLock(lock, mode)
  IN \/ thread[t].pc = "lock" /\ held(InodeLock(Ino(t)),
                                      IF op \in {"read", "sym_link"} THEN "r" ELSE "w")
     \/ thread[t].pc = "relock" /\ held(InodeLock(Ino(t)), "r")
     \/ thread[t].pc = "text" /\ held(InodeLock(thread[t].new), "w")
     \/ thread[t].pc = "file" /\ held(FileLock(Call(t).h), IF op = "read" THEN "r" ELSE "w")

(* Never does every thread in a call wait for a lock. *)
NoDeadlock == Running # {} => \E t \in Running : ~Waits(t)
=============================================================================
